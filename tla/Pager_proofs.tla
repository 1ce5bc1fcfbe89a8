---------------------------- MODULE Pager_proofs ----------------------------
(***************************************************************************)
(* Safety of the paging for every number of threads, pages and every size  *)
(* of the heap. The properties are inductive together with three facts     *)
(* about the handlers: pager_mtx has one owner, a thread that removes      *)
(* pages has some left to remove, and every thread that passed the test of *)
(* the heap's size and has not set its bit yet leaves room for one page    *)
(* below the bound of BitmapBound. They are facts about the bitmap:        *)
(* nothing of the kind holds of the pages that are mapped.                 *)
(***************************************************************************)
EXTENDS Pager, FiniteSetTheorems, TLAPS

Places == {"idle", "fault", "sleep", "evict", "lock", "add", "map", "tell"}

(* What a thread knows at its place in add_page.                           *)
Handlers == \A t \in Threads :
               /\ pc[t] \notin {"idle", "tell"} => page[t] \in Pages
               /\ pc[t] = "evict" => ~ async /\ left[t] >= 1
               /\ pc[t] = "add" /\ ~ async => got[t] = size

OneOwner == \A t, u \in Threads :
               pc[t] \in {"evict", "add"} /\ pc[u] \in {"evict", "add"} => t = u

NoPager == ~ async => ppc = "left"

Locking == {t \in Threads : pc[t] = "lock"}

Room == ~ async => Cardinality(pages) + Cardinality(Locking) <= Max + N - 1

(* A batch in progress finds as many pages as it has left to remove.       *)
EnoughPages == ~ async /\ Batch <= Max =>
                  \A t \in Threads : pc[t] = "evict" => Cardinality(pages) >= left[t]

PagerInv == /\ PagerTypeOK /\ Handlers /\ OneOwner /\ NoPager
            /\ SizeIsBits /\ Room /\ EnoughPages /\ FindsPage
            /\ NoPhantomPage /\ BitWasSet

ThreadNext(t) == \/ HandlerStep(t) \/ SpuriousWake(t)
                 \/ \E p \in Pages : Fault(t, p)

PagerAlone == \/ PagerTest \/ PagerDoze \/ PagerWoken \/ PagerSelect \/ PagerRead
              \/ PagerWrite \/ PagerSpuriousWake
-----------------------------------------------------------------------------
(* As many threads as N says.                                             *)
LEMMA ThreadsCount == IsFiniteSet(Threads) /\ Cardinality(Threads) = N
  <1>1. N \in Nat /\ N >= 1
    BY PagerAssumption
  <1>2. IsFiniteSet(0 .. N - 1) /\ Cardinality(0 .. N - 1) = (N - 1) - 0 + 1
    BY <1>1, FS_Interval
  <1> QED
    BY <1>1, <1>2 DEF Threads

(* The sets that are counted are finite.                                   *)
LEMMA Finite == ASSUME PagerTypeOK
                PROVE  /\ IsFiniteSet(pages) /\ IsFiniteSet(Locking)
                       /\ Cardinality(pages) \in Nat /\ Cardinality(Locking) \in Nat
                       /\ Cardinality(Locking) <= N
  <1>1. IsFiniteSet(Threads) /\ Cardinality(Threads) = N
    BY ThreadsCount
  <1>2. IsFiniteSet(Locking) /\ Cardinality(Locking) <= N
    <2>1. Locking \in SUBSET Threads
      BY DEF Locking
    <2> QED
      BY <1>1, <2>1, FS_Subset
  <1>3. IsFiniteSet(pages)
    <2>1. IsFiniteSet(Pages) /\ pages \in SUBSET Pages
      BY PagerAssumption DEF PagerTypeOK
    <2> QED
      BY <2>1, FS_Subset
  <1> QED
    BY <1>2, <1>3, FS_CardinalityType

(* The paging starts in a state of the invariant.                          *)
LEMMA PagerInitInv == PagerInit => PagerInv
  <1> SUFFICES ASSUME PagerInit PROVE PagerInv
    OBVIOUS
  <1> USE PagerAssumption DEF PagerInit
  <1>1. PagerTypeOK
    <2>1. 0 \in 0 .. Batch /\ 0 \in 0 .. MaxFaults
      OBVIOUS
    <2>2. /\ ppc \in {"test", "doze", "sleep", "woken", "evict", "rm", "sub", "write",
                    "left"}
          /\ async \in BOOLEAN /\ exit \in BOOLEAN /\ aborted \in BOOLEAN
      BY Zenon
    <2>3. /\ pc \in [Threads -> Places] /\ page \in [Threads -> Pages \cup {None}]
          /\ left \in [Threads -> 0 .. Batch] /\ got \in [Threads -> Int]
          /\ faults \in [Threads -> 0 .. MaxFaults]
      BY <2>1 DEF Places, None
    <2>4. /\ pages \subseteq Pages /\ mapped \subseteq Pages /\ size \in Int /\ read \in Int
          /\ victim \in Pages \cup {None} /\ mpc \in {"run", "signal", "join", "over"}
      BY DEF None
    <2> QED
      BY <2>2, <2>3, <2>4, Zenon DEF PagerTypeOK, Places
  <1>2. Handlers /\ OneOwner /\ NoPager /\ EnoughPages /\ FindsPage
    BY DEF Handlers, OneOwner, NoPager, EnoughPages, FindsPage
  <1>3. Adding = {} /\ Locking = {}
    BY DEF Adding, Locking
  <1>4. Cardinality({}) = 0
    BY FS_EmptySet
  <1>5. SizeIsBits /\ Room
    BY <1>3, <1>4 DEF SizeIsBits, Room
  <1>6. NoPhantomPage /\ BitWasSet
    BY DEF NoPhantomPage, BitWasSet
  <1> QED
    BY <1>1, <1>2, <1>5, <1>6 DEF PagerInv
-----------------------------------------------------------------------------
(* A step of a thread, of the pager or of main: the cases of PagerNext.    *)
LEMMA Steps == PagerNext => \/ \E t \in Threads : ThreadNext(t)
                            \/ PagerAlone \/ PagerRemove \/ PagerDone
                            \/ MainStep \/ NothingToRemove
  BY DEF PagerNext, ThreadNext, PagerAlone, PagerStep

(* Every step keeps the types; a batch counts down to one page.            *)
LEMMA TypeStep == PagerInv /\ [PagerNext]_pagingVars => PagerTypeOK'
  <1> SUFFICES ASSUME PagerInv, [PagerNext]_pagingVars PROVE PagerTypeOK'
    OBVIOUS
  <1> USE PagerAssumption DEF PagerInv, PagerTypeOK, Handlers, heapVars, threadVars, pagerVars,
                              mainVars, Goto, PagerGoto
  <1>1. CASE UNCHANGED pagingVars
    BY <1>1 DEF pagingVars
  <1>2. ASSUME NEW t \in Threads, ThreadNext(t) PROVE PagerTypeOK'
    <2> HIDE DEF PagerTypeOK, Handlers
    <2>1. ASSUME NEW p \in Pages, Fault(t, p) PROVE PagerTypeOK'
      BY <2>1 DEF Fault, PagerTypeOK
    <2>2. CASE CheckAsync(t) \/ SpuriousWake(t) \/ AlreadyMapped(t) \/ Map(t) \/ Tell(t)
      <3>1. CASE CheckAsync(t)
        BY <3>1 DEF CheckAsync, PagerTypeOK
      <3>2. CASE SpuriousWake(t)
        BY <3>2 DEF SpuriousWake, PagerTypeOK
      <3>3. CASE AlreadyMapped(t)
        BY <3>3 DEF AlreadyMapped, PagerTypeOK
      <3>4. CASE Map(t)
        <4>1. page[t] \in Pages
          BY <3>4 DEF Map, Handlers
        <4> QED
          BY <3>4, <4>1 DEF Map, PagerTypeOK
      <3>5. CASE Tell(t)
        BY <3>5 DEF Tell, PagerTypeOK
      <3> QED
        BY <2>2, <3>1, <3>2, <3>3, <3>4, <3>5
    <2>3. CASE CheckSync(t)
      BY <2>3 DEF CheckSync, PagerTypeOK
    <2>4. CASE Evict(t)
      BY <2>4 DEF Evict, Unmap, PagerTypeOK, Handlers
    <2>5. CASE Claim(t)
      BY <2>5 DEF Claim, PagerTypeOK, Handlers
    <2>6. CASE Grow(t)
      BY <2>6 DEF Grow, PagerTypeOK
    <2> QED
      BY <1>2, <2>1, <2>2, <2>3, <2>4, <2>5, <2>6 DEF ThreadNext, HandlerStep
  <1>3. CASE PagerAlone
    <2> HIDE DEF PagerTypeOK
    <2>1. CASE PagerTest \/ PagerDoze \/ PagerWoken \/ PagerSpuriousWake
      BY <2>1 DEF PagerTest, PagerDoze, PagerWoken, PagerSpuriousWake, PagerTypeOK
    <2>2. CASE PagerSelect
      BY <2>2 DEF PagerSelect, PagerTypeOK
    <2>3. CASE PagerRead
      BY <2>3 DEF PagerRead, PagerTypeOK
    <2>4. CASE PagerWrite
      BY <2>4 DEF PagerWrite, PagerTypeOK
    <2> QED
      BY <1>3, <2>1, <2>2, <2>3, <2>4 DEF PagerAlone
  <1>4. CASE PagerRemove
    BY <1>4 DEF PagerRemove, Unmap
  <1>5. CASE PagerDone
    BY <1>5 DEF PagerDone
  <1>6. CASE MainStep \/ NothingToRemove
    BY <1>6 DEF MainStep, Exit, FinishExit, FinishSignal, FinishJoin, NothingToRemove
  <1> QED
    BY <1>1, <1>2, <1>3, <1>4, <1>5, <1>6, Steps

(* pager_mtx: a thread gets past it only when nobody holds it.             *)
LEMMA OwnerStep == PagerInv /\ [PagerNext]_pagingVars => OneOwner' /\ NoPager' /\ Handlers'
  <1> SUFFICES ASSUME PagerInv, [PagerNext]_pagingVars PROVE OneOwner' /\ NoPager' /\ Handlers'
    OBVIOUS
  <1> USE PagerAssumption DEF PagerInv, PagerTypeOK, Handlers, OneOwner, NoPager, heapVars,
                              threadVars, pagerVars, mainVars, Goto, PagerGoto
  <1>1. CASE UNCHANGED pagingVars
    BY <1>1 DEF pagingVars
  <1>2. ASSUME NEW t \in Threads, ThreadNext(t) PROVE OneOwner' /\ NoPager' /\ Handlers'
    <2>1. ASSUME NEW p \in Pages, Fault(t, p) PROVE OneOwner' /\ NoPager' /\ Handlers'
      BY <2>1 DEF Fault
    <2>2. CASE CheckAsync(t) \/ SpuriousWake(t) \/ AlreadyMapped(t) \/ Map(t)
      BY <2>2 DEF CheckAsync, SpuriousWake, AlreadyMapped, Map
    <2>3. CASE Tell(t)
      BY <2>3 DEF Tell
    <2>4. CASE CheckSync(t)
      BY <2>4 DEF CheckSync, MtxFree
    <2>5. CASE Evict(t)
      BY <2>5 DEF Evict
    <2>6. CASE Claim(t)
      BY <2>6 DEF Claim, MtxFree
    <2>7. CASE Grow(t)
      BY <2>7 DEF Grow
    <2> QED
      BY <1>2, <2>1, <2>2, <2>3, <2>4, <2>5, <2>6, <2>7 DEF ThreadNext, HandlerStep
  <1>3. CASE PagerAlone
    BY <1>3 DEF PagerAlone, PagerTest, PagerDoze, PagerWoken, PagerSelect, PagerRead, PagerWrite,
                PagerSpuriousWake
  <1>4. CASE PagerRemove
    BY <1>4 DEF PagerRemove
  <1>5. CASE PagerDone
    BY <1>5 DEF PagerDone
  <1>6. CASE MainStep \/ NothingToRemove
    BY <1>6 DEF MainStep, Exit, FinishExit, FinishSignal, FinishJoin, NothingToRemove
  <1> QED
    BY <1>1, <1>2, <1>3, <1>4, <1>5, <1>6, Steps
-----------------------------------------------------------------------------
(* The thread that adds a page holds pager_mtx, so it is alone.            *)
LEMMA Adders == ASSUME OneOwner
                PROVE  /\ MtxFree => Adding = {}
                       /\ \A t \in Threads : /\ pc[t] = "evict" => Adding = {}
                                             /\ pc[t] = "add" => Adding = {t}
  BY DEF OneOwner, MtxFree, Adding

(* The number of bits and the number that the size counts change together, *)
(* by one page that is added or removed.                                   *)
LEMMA Counts == ASSUME PagerTypeOK
                PROVE  /\ \A p \in Pages \ pages :
                             Cardinality(pages \cup {p}) = Cardinality(pages) + 1
                       /\ \A p \in pages : Cardinality(pages \ {p}) = Cardinality(pages) - 1
                       /\ \A t \in Locking :
                             Cardinality(Locking \ {t}) = Cardinality(Locking) - 1
                       /\ \A t \in Threads \ Locking :
                             Cardinality(Locking \cup {t}) = Cardinality(Locking) + 1
  <1>1. IsFiniteSet(pages) /\ IsFiniteSet(Locking)
    BY Finite
  <1>2. \A p \in Pages \ pages : Cardinality(pages \cup {p}) = Cardinality(pages) + 1
    BY <1>1, FS_AddElement
  <1>3. \A p \in pages : Cardinality(pages \ {p}) = Cardinality(pages) - 1
    BY <1>1, FS_RemoveElement
  <1>4. \A t \in Locking : Cardinality(Locking \ {t}) = Cardinality(Locking) - 1
    BY <1>1, FS_RemoveElement
  <1>5. \A t \in Threads \ Locking :
           Cardinality(Locking \cup {t}) = Cardinality(Locking) + 1
    BY <1>1, FS_AddElement
  <1> QED
    BY <1>2, <1>3, <1>4, <1>5

(* The threads that add a page are none or one.                            *)
LEMMA Singleton == /\ Cardinality({}) = 0
                   /\ \A t \in Threads : Cardinality({t}) = 1
  BY FS_EmptySet, FS_Singleton, Zenon

(* The build does not change while it runs.                                *)
LEMMA BuildStep == [PagerNext]_pagingVars /\ ~ async' => async' = async /\ ~ async
  <1> SUFFICES ASSUME [PagerNext]_pagingVars, ~ async' PROVE async' = async
    BY Zenon
  <1>1. CASE UNCHANGED pagingVars
    BY <1>1, Zenon DEF pagingVars
  <1>2. ASSUME NEW t \in Threads, ThreadNext(t) PROVE async' = async
    BY <1>2, Zenon DEF ThreadNext, HandlerStep, SpuriousWake, Fault, CheckAsync, CheckSync,
                       Evict, Claim, AlreadyMapped, Grow, Map, Tell
  <1>3. CASE PagerAlone
    BY <1>3, Zenon DEF PagerAlone, PagerTest, PagerDoze, PagerWoken, PagerSelect, PagerRead, PagerWrite,
                       PagerSpuriousWake
  <1>4. CASE PagerRemove \/ PagerDone
    BY <1>4, Zenon DEF PagerRemove, PagerDone
  <1>5. CASE MainStep \/ NothingToRemove
    BY <1>5, Zenon DEF MainStep, Exit, FinishExit, FinishSignal, FinishJoin, NothingToRemove
  <1> QED
    BY <1>1, <1>2, <1>3, <1>4, <1>5, Steps, Zenon

(* The size follows the bits: each step that changes one of them changes   *)
(* the other, or who adds a page.                                          *)
LEMMA SizeStep == PagerInv /\ [PagerNext]_pagingVars => SizeIsBits'
  <1> SUFFICES ASSUME PagerInv, [PagerNext]_pagingVars, ~ async' PROVE SizeIsBits'
    BY DEF SizeIsBits
  <1> USE DEF heapVars, threadVars, pagerVars, mainVars, Goto, PagerGoto
  <1>1. async' = async /\ ~ async
    BY BuildStep, Zenon
  <1>2. ppc = "left" /\ size + Cardinality(Adding) = Cardinality(pages) /\ PagerTypeOK
    BY <1>1 DEF PagerInv, NoPager, SizeIsBits
  <1>3. SUFFICES size' + Cardinality(Adding') = Cardinality(pages')
    BY DEF SizeIsBits
  <1>4. CASE size' = size /\ pages' = pages /\ Adding' = Adding
    BY <1>2, <1>4
  <1>5. CASE UNCHANGED pagingVars
    BY <1>4, <1>5 DEF pagingVars, Adding
  <1>6. ASSUME NEW t \in Threads, ThreadNext(t)
        PROVE  size' + Cardinality(Adding') = Cardinality(pages')
    <2>1. ASSUME NEW p \in Pages, Fault(t, p) PROVE Adding' = Adding
      BY <1>2, <2>1 DEF Fault, Adding, PagerTypeOK
    <2>2. CASE CheckSync(t) \/ SpuriousWake(t) \/ AlreadyMapped(t) \/ Map(t) \/ Tell(t)
      <3>1. Adding' = Adding
        BY <1>2, <2>2 DEF CheckSync, SpuriousWake, AlreadyMapped, Map, Tell, Adding, PagerTypeOK
      <3> QED
        BY <1>4, <2>2, <3>1 DEF CheckSync, SpuriousWake, AlreadyMapped, Map, Tell
    <2>3. CASE Evict(t)
      <3>1. Adding' = {} /\ Adding = {}
        BY <1>2, <2>3, Adders DEF Evict, Adding, PagerInv, PagerTypeOK
      <3>2. PICK p \in pages : pages' = pages \ {p}
        BY <2>3 DEF Evict, Unmap
      <3>3. size' = size - 1
        BY <2>3 DEF Evict
      <3> QED
        BY <1>2, <3>1, <3>2, <3>3, Counts, Singleton, Finite DEF PagerTypeOK
    <2>4. CASE Claim(t)
      <3>1. Adding = {} /\ Adding' = {t}
        BY <1>2, <2>4, Adders DEF Claim, Adding, PagerInv, PagerTypeOK
      <3>2. page[t] \in Pages \ pages /\ pages' = pages \cup {page[t]} /\ size' = size
        BY <2>4 DEF Claim, PagerInv, Handlers
      <3> QED
        BY <1>2, <3>1, <3>2, Counts, Singleton, Finite DEF PagerTypeOK
    <2>5. CASE Grow(t)
      <3>1. Adding = {t} /\ Adding' = {}
        BY <1>2, <2>5, Adders DEF Grow, Adding, PagerInv, PagerTypeOK
      <3>2. size' = size + 1 /\ pages' = pages
        BY <1>1, <2>5 DEF Grow, PagerInv, Handlers
      <3> QED
        BY <1>2, <3>1, <3>2, Singleton, Finite DEF PagerTypeOK
    <2>6. ~ CheckAsync(t)
      BY <1>1 DEF CheckAsync
    <2>7. ASSUME NEW p \in Pages, Fault(t, p)
          PROVE  size' + Cardinality(Adding') = Cardinality(pages')
      BY <1>4, <2>1, <2>7 DEF Fault
    <2> QED
      BY <1>6, <2>2, <2>3, <2>4, <2>5, <2>6, <2>7 DEF ThreadNext, HandlerStep
  <1>7. ~ PagerAlone /\ ~ PagerRemove /\ ~ PagerDone
    BY <1>2 DEF PagerAlone, PagerTest, PagerDoze, PagerWoken, PagerSelect, PagerRead, PagerWrite,
                PagerSpuriousWake, PagerRemove, PagerDone
  <1>8. CASE MainStep \/ NothingToRemove
    BY <1>4, <1>8 DEF MainStep, Exit, FinishExit, FinishSignal, FinishJoin, NothingToRemove,
                      Adding
  <1> QED
    BY <1>5, <1>6, <1>7, <1>8, Steps

(* The synchronous build's bounds: the room for the threads that passed    *)
(* the test of the size, the pages that a batch still finds, and the       *)
(* assertion of select_page_out.                                           *)
Bounds == Room /\ EnoughPages /\ FindsPage

(* A test of the size that holds leaves room for a page of each thread,    *)
(* one that fails starts a batch with at least as many pages as it takes.  *)
LEMMA BoundsStep == PagerInv /\ [PagerNext]_pagingVars => Bounds'
  <1> SUFFICES ASSUME PagerInv, [PagerNext]_pagingVars, ~ async' PROVE Bounds'
    BY DEF Bounds, Room, EnoughPages, FindsPage
  <1> USE DEF heapVars, threadVars, pagerVars, mainVars, Goto, PagerGoto
  <1>1. async' = async /\ ~ async
    BY BuildStep, Zenon
  <1>2. /\ PagerTypeOK /\ OneOwner /\ ppc = "left"
        /\ size + Cardinality(Adding) = Cardinality(pages)
        /\ Cardinality(pages) + Cardinality(Locking) <= Max + N - 1
        /\ Batch <= Max => \A t \in Threads : pc[t] = "evict" => Cardinality(pages) >= left[t]
        /\ Batch <= Max => ~ aborted
    BY <1>1 DEF PagerInv, NoPager, SizeIsBits, Room, EnoughPages, FindsPage
  <1>3. Max \in Nat /\ N \in Nat /\ Batch \in Nat
    BY PagerAssumption
  <1> DEFINE Few == Cardinality(pages') + Cardinality(Locking') <= Max + N - 1
             Enough == \A t \in Threads : pc'[t] = "evict" => Cardinality(pages') >= left'[t]
  <1>4. SUFFICES Few /\ (Batch <= Max => Enough /\ ~ aborted')
    BY DEF Bounds, Room, EnoughPages, FindsPage
  <1>5. CASE UNCHANGED pagingVars
    BY <1>2, <1>5 DEF pagingVars, Locking
  <1>6. ASSUME NEW t \in Threads, ThreadNext(t)
        PROVE  Few /\ (Batch <= Max => Enough /\ ~ aborted')
    <2>1. aborted' = aborted
      BY <1>6, Zenon DEF ThreadNext, HandlerStep, SpuriousWake, Fault, CheckAsync, CheckSync,
                         Evict, Claim, AlreadyMapped, Grow, Map, Tell
    <2>2. SUFFICES Few /\ (Batch <= Max => Enough)
      BY <1>2, <2>1, Zenon
    <2>3. ASSUME pages' = pages, Locking' = Locking,
                 \A u \in Threads : pc'[u] = "evict" => pc[u] = "evict" /\ left'[u] = left[u]
          PROVE  Few /\ (Batch <= Max => Enough)
      BY <1>2, <2>3
    <2>4. ASSUME NEW p \in Pages, Fault(t, p) PROVE Few /\ (Batch <= Max => Enough)
      <3>1. Locking' = Locking
        BY <1>2, <2>4 DEF Fault, Locking, PagerTypeOK
      <3> QED
        BY <1>2, <2>3, <2>4, <3>1 DEF Fault, PagerTypeOK
    <2>5. CASE SpuriousWake(t) \/ Grow(t) \/ Map(t) \/ Tell(t)
      <3>1. Locking' = Locking
        BY <1>2, <2>5 DEF SpuriousWake, Grow, Map, Tell, Locking, PagerTypeOK
      <3> QED
        BY <1>2, <2>3, <2>5, <3>1 DEF SpuriousWake, Grow, Map, Tell, PagerTypeOK
    <2>6. CASE AlreadyMapped(t)
      <3>1. t \in Locking /\ Locking' = Locking \ {t} /\ pages' = pages
        BY <1>2, <2>6 DEF AlreadyMapped, Locking, PagerTypeOK
      <3>2. Few
        BY <1>2, <1>3, <3>1, Counts, Finite
      <3>3. \A u \in Threads : pc'[u] # "evict"
        BY <1>2, <2>6 DEF AlreadyMapped, MtxFree, PagerTypeOK
      <3> QED
        BY <3>2, <3>3
    <2>7. CASE Claim(t)
      <3>1. t \in Locking /\ Locking' = Locking \ {t}
        BY <1>2, <2>7 DEF Claim, Locking, PagerTypeOK
      <3>2. page[t] \in Pages \ pages /\ pages' = pages \cup {page[t]}
        BY <2>7 DEF Claim, PagerInv, Handlers
      <3>3. Few
        BY <1>2, <1>3, <3>1, <3>2, Counts, Finite
      <3>4. \A u \in Threads : pc'[u] # "evict"
        BY <1>2, <2>7 DEF Claim, MtxFree, PagerTypeOK
      <3> QED
        BY <3>3, <3>4
    <2>8. CASE CheckSync(t)
      <3>1. pages' = pages /\ size = Cardinality(pages)
        <4>1. Adding = {} /\ pages' = pages
          BY <1>2, <2>8, Adders, Zenon DEF CheckSync
        <4> QED
          BY <1>2, <4>1, Singleton, Finite DEF PagerTypeOK
      <3>2. CASE size >= Max
        <4>1. Locking' = Locking
          BY <1>2, <2>8, <3>2 DEF CheckSync, Locking, PagerTypeOK
        <4>2. \A u \in Threads : pc'[u] = "evict" => left'[u] = Batch
          BY <1>2, <2>8, <3>2 DEF CheckSync, MtxFree, PagerTypeOK
        <4>3. Batch <= Max => Enough
          BY <1>3, <3>1, <3>2, <4>2, Finite, <1>2
        <4> QED
          BY <1>2, <3>1, <4>1, <4>3
      <3>3. CASE ~ size >= Max
        <4>1. \A u \in Threads : pc'[u] # "evict"
          BY <1>2, <2>8, <3>3 DEF CheckSync, MtxFree, PagerTypeOK
        <4>2. t \in Threads \ Locking /\ Locking' = Locking \cup {t}
          BY <1>2, <2>8, <3>3 DEF CheckSync, Locking, PagerTypeOK
        <4>3. Cardinality(Locking') <= N
          <5>1. Locking' \in SUBSET Threads
            BY DEF Locking
          <5> QED
            BY <5>1, ThreadsCount, FS_Subset
        <4>4. Cardinality(Locking') \in Nat
          BY <1>2, <4>2, Counts, Finite
        <4> QED
          BY <1>2, <1>3, <3>1, <3>3, <4>1, <4>3, <4>4, Finite DEF PagerTypeOK
      <3> QED
        BY <3>2, <3>3
    <2>9. CASE Evict(t)
      <3>1. PICK p \in pages : pages' = pages \ {p}
        BY <2>9 DEF Evict, Unmap
      <3>2. Cardinality(pages') = Cardinality(pages) - 1
        BY <1>2, <3>1, Counts
      <3>3. \A u \in Threads : pc'[u] = "evict" => u = t /\ left'[u] = left[t] - 1
        BY <1>2, <2>9 DEF Evict, OneOwner, PagerTypeOK
      <3>4. Batch <= Max => Enough
        BY <1>2, <2>9, <3>2, <3>3, Finite DEF Evict, PagerTypeOK
      <3>5. CASE left[t] = 1
        <4>1. t \in Threads \ Locking /\ Locking' = Locking \cup {t}
          BY <1>2, <2>9, <3>5 DEF Evict, Locking, PagerTypeOK
        <4> QED
          BY <1>2, <1>3, <3>2, <3>4, <4>1, Counts, Finite
      <3>6. CASE left[t] # 1
        <4>1. Locking' = Locking
          BY <1>2, <2>9, <3>6 DEF Evict, Locking, PagerTypeOK
        <4> QED
          BY <1>2, <1>3, <3>2, <3>4, <4>1, Finite
      <3> QED
        BY <3>5, <3>6
    <2>10. ~ CheckAsync(t)
      BY <1>1 DEF CheckAsync
    <2> QED
      BY <1>6, <2>4, <2>5, <2>6, <2>7, <2>8, <2>9, <2>10 DEF ThreadNext, HandlerStep
  <1>7. ~ PagerAlone /\ ~ PagerRemove /\ ~ PagerDone
    BY <1>2 DEF PagerAlone, PagerTest, PagerDoze, PagerWoken, PagerSelect, PagerRead, PagerWrite,
                PagerSpuriousWake, PagerRemove, PagerDone
  <1>8. CASE MainStep
    <2>1. pages' = pages /\ Locking' = Locking /\ pc' = pc /\ left' = left /\ aborted' = aborted
      BY <1>8 DEF MainStep, Exit, FinishExit, FinishSignal, FinishJoin, Locking
    <2> QED
      BY <1>2, <2>1
  <1>9. CASE NothingToRemove
    <2>1. PICK t \in Threads : pc[t] = "evict"
      BY <1>2, <1>9 DEF NothingToRemove, Selecting
    <2>2. Cardinality(pages) = 0 /\ left[t] >= 1
      BY <1>9, <2>1, Singleton DEF NothingToRemove, PagerInv, Handlers
    <2>3. ~ Batch <= Max
      BY <1>2, <2>1, <2>2 DEF PagerTypeOK
    <2>4. pages' = pages /\ Locking' = Locking
      BY <1>9 DEF NothingToRemove, Locking
    <2> QED
      BY <1>2, <2>3, <2>4
  <1> QED
    BY <1>5, <1>6, <1>7, <1>8, <1>9, Steps

(* Bits and mappings: a thread keeps the page it is about to map until it  *)
(* has mapped it, and while the pager has a victim nobody else removes     *)
(* pages.                                                                  *)
LEMMA MappedStep == PagerInv /\ [PagerNext]_pagingVars => NoPhantomPage' /\ BitWasSet'
  <1> SUFFICES ASSUME PagerInv, [PagerNext]_pagingVars PROVE NoPhantomPage' /\ BitWasSet'
    OBVIOUS
  <1> USE DEF PagerInv, PagerTypeOK, NoPhantomPage, BitWasSet, heapVars, threadVars,
              pagerVars, mainVars, Goto, PagerGoto
  <1>1. CASE UNCHANGED pagingVars
    BY <1>1 DEF pagingVars
  <1>2. ASSUME NEW t \in Threads, ThreadNext(t) PROVE NoPhantomPage' /\ BitWasSet'
    <2>1. ASSUME NEW p \in Pages, Fault(t, p) PROVE NoPhantomPage' /\ BitWasSet'
      BY <2>1 DEF Fault
    <2>2. CASE CheckAsync(t) \/ CheckSync(t) \/ SpuriousWake(t) \/ AlreadyMapped(t)
      BY <2>2 DEF CheckAsync, CheckSync, SpuriousWake, AlreadyMapped
    <2>3. CASE Grow(t) \/ Tell(t)
      BY <2>3 DEF Grow, Tell
    <2>4. CASE Evict(t)
      <3>1. ppc = "left"
        BY <2>4 DEF Evict, Handlers, NoPager
      <3> QED
        BY <2>4, <3>1 DEF Evict, Unmap
    <2>5. CASE Claim(t)
      BY <2>5 DEF Claim
    <2>6. CASE Map(t)
      BY <2>6 DEF Map
    <2> QED
      BY <1>2, <2>1, <2>2, <2>3, <2>4, <2>5, <2>6 DEF ThreadNext, HandlerStep
  <1>3. CASE PagerAlone
    BY <1>3 DEF PagerAlone, PagerTest, PagerDoze, PagerWoken, PagerSelect, PagerRead, PagerWrite,
                PagerSpuriousWake
  <1>4. CASE PagerRemove \/ PagerDone
    BY <1>4 DEF PagerRemove, Unmap, PagerDone
  <1>5. CASE MainStep \/ NothingToRemove
    BY <1>5 DEF MainStep, Exit, FinishExit, FinishSignal, FinishJoin, NothingToRemove
  <1> QED
    BY <1>1, <1>2, <1>3, <1>4, <1>5, Steps
-----------------------------------------------------------------------------
(* The invariant of the paging, for every number of threads, set of pages  *)
(* and size of the heap, in both builds.                                   *)
THEOREM PagerInvariant == PagerSpec => []PagerInv
  <1>1. PagerInit => PagerInv
    BY PagerInitInv
  <1>2. PagerInv /\ [PagerNext]_pagingVars => PagerInv'
    BY TypeStep, OwnerStep, SizeStep, BoundsStep, MappedStep, Zenon DEF PagerInv, Bounds
  <1> QED
    BY <1>1, <1>2, PTL DEF PagerSpec

(* The variables of the paging keep their types, the bounds on the batch   *)
(* and on the faults included.                                             *)
THEOREM PagerTypeCorrect == PagerSpec => []PagerTypeOK
  <1>1. PagerInv => PagerTypeOK
    BY DEF PagerInv
  <1> QED
    BY <1>1, PagerInvariant, PTL

(* In the synchronous build curr_size_of_heap is the number of pages in    *)
(* the bitmap, but for the page that add_page is counting.                 *)
THEOREM SizeCounts == PagerSpec => []SizeIsBits
  <1>1. PagerInv => SizeIsBits
    BY DEF PagerInv
  <1> QED
    BY <1>1, PagerInvariant, PTL

(* Of the synchronous build: no more bits are set than the limit and one   *)
(* for each other thread. It bounds the bitmap, which is what the eviction *)
(* goes by, and says nothing of how many pages are mapped.                 *)
THEOREM BitmapBounded == PagerSpec => []BitmapBound
  <1>1. PagerInv => BitmapBound
    <2>1. N \in Nat /\ Max \in Nat
      BY PagerAssumption
    <2> QED
      BY <2>1, Finite DEF PagerInv, Room, BitmapBound
  <1> QED
    BY <1>1, PagerInvariant, PTL

(* A page whose bit is set is mapped, or a thread is about to map it, in   *)
(* both builds.                                                            *)
THEOREM NoPhantom == PagerSpec => []NoPhantomPage
  <1>1. PagerInv => NoPhantomPage
    BY DEF PagerInv
  <1> QED
    BY <1>1, PagerInvariant, PTL

(* The page that the pager selected without pager_mtx still has its bit    *)
(* when rm_page looks: rm_page's assertion.                                *)
THEOREM SelectedIsMapped == PagerSpec => []BitWasSet
  <1>1. PagerInv => BitWasSet
    BY DEF PagerInv
  <1> QED
    BY <1>1, PagerInvariant, PTL

(* A batch not larger than the heap never runs out of pages to remove in   *)
(* the synchronous build: select_page_out's assertion.                     *)
THEOREM EvictionFinds == PagerSpec => []FindsPage
  <1>1. PagerInv => FindsPage
    BY DEF PagerInv
  <1> QED
    BY <1>1, PagerInvariant, PTL
=============================================================================
