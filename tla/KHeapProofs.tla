----------------------------- MODULE KHeapProofs -----------------------------
(***************************************************************************)
(* The heap's layout for every header size, page size, memory and set of    *)
(* requests, whichever pages kmalloc chooses and in whatever order pools    *)
(* are allocated and freed.                                                 *)
(***************************************************************************)
EXTENDS KHeap, Integers, SequenceTheorems, TLAPS

\* A pool's header and data fit: required_size exceeds the bytes owned by none.
RequiredFits ==
    \A a \in DOMAIN pool : /\ Header <= pool[a].required
                           /\ pool[a].required <= pool[a].size + 1

KInv == TypeOK /\ RequiredFits /\ PoolsSeparate

LEMMA AlignUp ==
  ASSUME NEW n \in Nat
  PROVE  PAGE_ALIGN_UP(n) \in Nat /\ PAGE_ALIGN_UP(n) >= n
<1> DEFINE q == (n + Page - 1) \div Page
           r == (n + Page - 1) % Page
<1>1. Page \in Nat /\ Page > 0
  BY KHeapAssumption
<1>2. q \in Int /\ r \in Int /\ n + Page - 1 = Page * q + r /\ 0 <= r /\ r < Page
  BY <1>1
<1>3. q * Page = Page * q /\ Page * q \in Int
  BY <1>2, <1>1
<1>4. q * Page >= n /\ q * Page \in Nat
  BY <1>1, <1>2, <1>3
<1> QED
  BY <1>4 DEF PAGE_ALIGN_UP

LEMMA RequestType ==
  ASSUME NEW r \in Requests
  PROVE  r.size \in Nat /\ r.over \in Nat /\ Header \in Nat /\ Header > 0
  BY KHeapAssumption

LEMMA KInit == Init => KInv
<1> SUFFICES ASSUME Init PROVE KInv
  OBVIOUS
<1>1. PICK base \in PageBases :
        /\ pool = [a \in {base} |-> create_pool(2 * Page, Header, TRUE, Header)]
        /\ chain = <<base>> /\ intact = {base} /\ halted = FALSE
        /\ segs = {PageRun(base, 2 * Page)}
  BY DEF Init
<1>2. base \in Nat /\ Page \in Nat /\ Header \in Nat /\ Page > 0 /\ Header < 2 * Page
  BY KHeapAssumption DEF PageBases
<1>3. /\ DOMAIN pool = {base}
      /\ pool[base] = [size |-> 2 * Page - 1, required |-> Header, free |-> TRUE,
                       written |-> Header]
      /\ segs = {[lo |-> base, hi |-> base + 2 * Page - 1]}
  BY <1>1 DEF create_pool, PageRun
<1>4. TypeOK
  <2>1. 2 * Page - 1 \in Nat /\ base + 2 * Page - 1 \in Nat
    BY <1>2
  <2>5. <<base>> \in Seq({base})
    OBVIOUS
  <2>2. chain \in Seq(DOMAIN pool) /\ intact \subseteq DOMAIN pool /\ halted \in BOOLEAN
    BY <1>1, <1>3, <2>5, Zenon
  <2>3. \A t \in segs : t \in [lo : Nat, hi : Nat]
    BY <1>2, <1>3, <2>1
  <2>4. pool[base] \in PoolType
    BY <1>2, <1>3, <2>1 DEF PoolType
  <2> QED
    BY <1>2, <1>3, <2>2, <2>3, <2>4 DEF TypeOK
<1>5. RequiredFits
  BY <1>2, <1>3 DEF RequiredFits
<1>6. PoolsSeparate
  BY <1>2, <1>3 DEF PoolsSeparate
<1> QED
  BY <1>4, <1>5, <1>6 DEF KInv

\* The record of a pool that now serves r.
Serving(r, size) ==
    [size |-> size, required |-> r.size + Header, free |-> FALSE,
     written |-> r.size + Header + r.over]

\* What the three ways through malloc do to the pools, their links and the pages.
TakesPool(r) ==
    \E a \in DOMAIN pool :
       /\ pool[a].free /\ pool[a].size > r.size + Header
       /\ DOMAIN pool' = DOMAIN pool
       /\ \A c \in DOMAIN pool : c # a => pool'[c] = pool[c]
       /\ pool'[a] = Serving(r, pool[a].size)
       /\ UNCHANGED <<chain, segs>>

SplitsPool(r) ==
    \E i \in DOMAIN chain, a \in DOMAIN pool, b \in Nat \ DOMAIN pool :
       /\ a = chain[i] /\ b = a + pool[a].required + 1
       /\ pool[a].size > pool[a].required + r.size + Header
       /\ DOMAIN pool' = DOMAIN pool \union {b}
       /\ \A c \in DOMAIN pool : c # a => pool'[c] = pool[c]
       /\ pool'[b] = Serving(r, pool[a].size - pool[a].required - 1)
       /\ pool'[a] = [pool[a] EXCEPT !.size = pool[a].required]
       /\ chain' = LinkedAfter(i, b)
       /\ UNCHANGED segs

AddsPool(r) ==
    \E b \in Nat \ DOMAIN pool :
       /\ DOMAIN pool' = DOMAIN pool \union {b}
       /\ \A c \in DOMAIN pool : pool'[c] = pool[c]
       /\ pool'[b] = Serving(r, PAGE_ALIGN_UP(r.size + Header) - 1)
       /\ chain' = Append(chain, b)
       /\ segs' = segs \union {PageRun(b, PAGE_ALIGN_UP(r.size + Header))}

\* Taking a free pool.
LEMMA Take ==
  ASSUME KInv, NEW r \in Requests, malloc_take(r)
  PROVE  KInv' /\ TakesPool(r)
<1>1. PICK i \in DOMAIN chain :
        /\ Fits(chain[i], r.size)
        /\ pool' = [pool EXCEPT ![chain[i]] =
                      [size |-> @.size, required |-> r.size + Header,
                       free |-> FALSE, written |-> r.size + Header + r.over]]
        /\ intact' \subseteq intact
        /\ UNCHANGED <<chain, segs, halted>>
  BY DEF malloc_take
<1> DEFINE a == chain[i]
<1>2. /\ a \in DOMAIN pool /\ a \in Nat /\ pool[a] \in PoolType
      /\ pool[a].free /\ pool[a].size > r.size + Header
  BY <1>1 DEF Fits, KInv, TypeOK
<1> HIDE DEF a
<1>3. /\ DOMAIN pool' = DOMAIN pool
      /\ \A c \in DOMAIN pool : c # a => pool'[c] = pool[c]
      /\ pool'[a] = [size |-> pool[a].size, required |-> r.size + Header,
                     free |-> FALSE, written |-> r.size + Header + r.over]
  BY <1>1, <1>2 DEF a
<1>4. \A c \in DOMAIN pool : pool'[c].size = pool[c].size
  BY <1>3
<1>5. TypeOK'
  <2>1. pool'[a] \in PoolType
    BY <1>2, <1>3, RequestType DEF PoolType
  <2>2. chain' \in Seq(DOMAIN pool') /\ intact' \subseteq DOMAIN pool'
    BY <1>1, <1>3 DEF KInv, TypeOK
  <2> QED
    BY <1>1, <1>3, <2>1, <2>2 DEF KInv, TypeOK
<1>6. RequiredFits'
  BY <1>2, <1>3, RequestType DEF KInv, RequiredFits, PoolType
<1>7. PoolsSeparate'
  BY <1>1, <1>3, <1>4 DEF KInv, PoolsSeparate
<1>8. TakesPool(r)
  BY <1>1, <1>2, <1>3 DEF TakesPool, Serving
<1> QED
  BY <1>5, <1>6, <1>7, <1>8 DEF KInv

\* Splitting: the bytes of the pool at a are divided between a and b.
LEMMA Split ==
  ASSUME KInv, NEW r \in Requests, malloc_split(r)
  PROVE  KInv' /\ SplitsPool(r)
<1>1. PICK i \in DOMAIN chain :
        /\ WalkEndsAt(i, r.size)
        /\ ~Fits(chain[i], r.size)
        /\ pool' = [c \in DOMAIN pool \union {SplitAddress(chain[i])} |->
                      IF c = SplitAddress(chain[i])
                      THEN create_pool(pool[chain[i]].size - pool[chain[i]].required,
                                       r.size + Header, FALSE, r.size + Header + r.over)
                      ELSE IF c = chain[i]
                      THEN [pool[chain[i]] EXCEPT !.size = pool[chain[i]].required]
                      ELSE pool[c]]
        /\ chain' = LinkedAfter(i, SplitAddress(chain[i]))
        /\ intact' \subseteq intact \union {SplitAddress(chain[i])}
        /\ UNCHANGED <<segs, halted>>
  BY DEF malloc_split
<1> DEFINE a == chain[i]
           b == SplitAddress(a)
           n == r.size + Header
<1>2. /\ a \in DOMAIN pool /\ a \in Nat /\ pool[a] \in PoolType
      /\ pool[a].size > pool[a].required + n
      /\ b = a + pool[a].required + 1 /\ b \in Nat
      /\ n \in Nat /\ n >= Header /\ n + r.over \in Nat /\ Header > 0
  <2>1. a \in DOMAIN pool /\ a \in Nat /\ pool[a] \in PoolType
    BY DEF KInv, TypeOK
  <2>2. pool[a].size > pool[a].required + n
    BY <1>1, RequestType, <2>1 DEF WalkEndsAt, Stops, Splits, PoolType
  <2>3. b = a + pool[a].required + 1 /\ b \in Nat
    BY <2>1 DEF SplitAddress, PoolType
  <2> QED
    BY <2>1, <2>2, <2>3, RequestType
<1>3. /\ DOMAIN pool' = DOMAIN pool \union {b}
      /\ \A c \in DOMAIN pool : c # a /\ c # b => pool'[c] = pool[c]
      /\ pool'[b] = [size |-> pool[a].size - pool[a].required - 1, required |-> n,
                     free |-> FALSE, written |-> n + r.over]
      /\ a # b => pool'[a] = [pool[a] EXCEPT !.size = pool[a].required]
  BY <1>1, <1>2 DEF create_pool
<1>4. chain' \in Seq(DOMAIN pool')
  <2>1. chain \in Seq(DOMAIN pool \union {b})
    BY DEF KInv, TypeOK
  <2>2. LinkedAfter(i, b) \in Seq(DOMAIN pool \union {b})
    BY <2>1, <1>1 DEF LinkedAfter
  <2> QED
    BY <1>1, <1>3, <2>2
<1> HIDE DEF a, b, n
<1>5. a # b /\ a < b /\ b <= a + pool[a].size
  BY <1>2 DEF PoolType
<1>6. b \notin DOMAIN pool
  BY <1>2, <1>5 DEF KInv, TypeOK, PoolsSeparate, PoolType
<1>7. TypeOK'
  <2>1. pool'[a] \in PoolType /\ pool'[b] \in PoolType
    BY <1>2, <1>3, <1>5 DEF PoolType
  <2> QED
    BY <1>1, <1>2, <1>3, <1>4, <2>1 DEF KInv, TypeOK
<1>8. RequiredFits'
  BY <1>2, <1>3, <1>5 DEF KInv, RequiredFits, PoolType
<1>9. PoolsSeparate'
  <2>1. /\ pool'[a].size = pool[a].required
        /\ pool'[b].size = pool[a].size - pool[a].required - 1
        /\ a + pool'[a].size < b
        /\ b + pool'[b].size = a + pool[a].size
        /\ a + pool'[a].size <= a + pool[a].size
    BY <1>2, <1>3, <1>5 DEF PoolType
  <2>2. ASSUME NEW c \in DOMAIN pool', NEW d \in DOMAIN pool', c < d
        PROVE  c + pool'[c].size < d
    <3>0. /\ \A e \in DOMAIN pool : e \in Nat /\ pool[e].size \in Nat
          /\ \A e, f \in DOMAIN pool : e < f => e + pool[e].size < f
      BY DEF KInv, TypeOK, PoolType, PoolsSeparate
    <3>1. CASE c = a
      <4>1. CASE d = b
        BY <2>1, <3>1, <4>1
      <4>2. CASE d # b
        <5>1. d \in DOMAIN pool /\ a < d
          BY <1>3, <2>2, <3>1, <4>2
        <5>2. a + pool[a].size < d /\ a \in Nat /\ d \in Nat /\ pool[a].required \in Nat
          BY <1>2, <3>0, <5>1 DEF PoolType
        <5> QED
          BY <1>2, <2>1, <3>0, <3>1, <5>2
      <4> QED
        BY <4>1, <4>2
    <3>2. CASE c = b
      BY <1>2, <1>3, <1>5, <2>1, <2>2, <3>0, <3>2
    <3>3. CASE c # a /\ c # b
      BY <1>2, <1>3, <1>5, <2>1, <2>2, <3>0, <3>3
    <3> QED
      BY <3>1, <3>2, <3>3
  <2>3. ASSUME NEW c \in DOMAIN pool'
        PROVE  \E t \in segs : t.lo <= c /\ c + pool'[c].size <= t.hi
    <3>1. PICK t \in segs : t.lo <= a /\ a + pool[a].size <= t.hi
      BY <1>2 DEF KInv, PoolsSeparate
    <3>2. t.lo \in Nat /\ t.hi \in Nat
      BY DEF KInv, TypeOK
    <3>3. CASE c \in {a, b}
      BY <1>2, <1>5, <2>1, <3>1, <3>2, <3>3 DEF PoolType
    <3>4. CASE c \notin {a, b}
      BY <1>3, <3>4 DEF KInv, PoolsSeparate
    <3> QED
      BY <3>3, <3>4
  <2> QED
    BY <1>1, <2>2, <2>3 DEF PoolsSeparate
<1>10. SplitsPool(r)
  <2>1. pool[a].size > pool[a].required + r.size + Header
    BY <1>2, RequestType DEF n, PoolType
  <2>2. pool'[b] = Serving(r, pool[a].size - pool[a].required - 1)
    BY <1>3 DEF n, Serving
  <2> QED
    BY <1>1, <1>2, <1>3, <1>5, <1>6, <2>1, <2>2 DEF SplitsPool, a, b
<1> QED
  BY <1>7, <1>8, <1>9, <1>10 DEF KInv

\* Growing: the new pool owns pages that no pool reaches.
LEMMA Grow ==
  ASSUME KInv, NEW r \in Requests, malloc_grow(r)
  PROVE  KInv' /\ (UNCHANGED <<pool, chain, segs>> \/ AddsPool(r))
<1> DEFINE n     == r.size + Header
           bytes == PAGE_ALIGN_UP(n)
<1>0. n \in Nat /\ n >= Header /\ n > 0 /\ n + r.over \in Nat /\ bytes \in Nat /\ bytes >= n
  BY RequestType, AlignUp
<1>1. CASE UNCHANGED <<pool, chain, intact, segs>> /\ halted' = TRUE
  BY <1>1 DEF KInv, TypeOK, RequiredFits, PoolsSeparate
<1>2. ASSUME NEW b \in PageBases,
             FreshPages(PageRun(b, bytes)),
             pool' = [c \in DOMAIN pool \union {b} |->
                        IF c = b THEN create_pool(bytes, n, FALSE, n + r.over) ELSE pool[c]],
             chain' = Append(chain, b),
             intact' \subseteq intact \union {b}, UNCHANGED halted,
             segs' = segs \union {PageRun(b, bytes)}
      PROVE  KInv' /\ AddsPool(r)
  <2> HIDE DEF n, bytes
  <2>1. b \in Nat /\ b + bytes - 1 \in Nat
    BY <1>0, KHeapAssumption DEF PageBases
  <2>2. /\ DOMAIN pool' = DOMAIN pool \union {b}
        /\ \A c \in DOMAIN pool : c # b => pool'[c] = pool[c]
        /\ pool'[b] = [size |-> bytes - 1, required |-> n, free |-> FALSE,
                       written |-> n + r.over]
    BY <1>2 DEF create_pool
  <2>3. \A t \in segs : b + bytes - 1 < t.lo \/ t.hi < b
    BY <1>2 DEF FreshPages, PageRun
  <2>4. segs' = segs \union {[lo |-> b, hi |-> b + bytes - 1]}
    BY <1>2 DEF PageRun
  <2>5. \A c \in DOMAIN pool : /\ c \in Nat /\ pool[c].size \in Nat
                               /\ b + bytes - 1 < c \/ c + pool[c].size < b
    <3> SUFFICES ASSUME NEW c \in DOMAIN pool
                 PROVE  /\ c \in Nat /\ pool[c].size \in Nat
                        /\ b + bytes - 1 < c \/ c + pool[c].size < b
      OBVIOUS
    <3>1. c \in Nat /\ pool[c].size \in Nat
      BY DEF KInv, TypeOK, PoolType
    <3>2. PICK t \in segs : t.lo <= c /\ c + pool[c].size <= t.hi
      BY DEF KInv, PoolsSeparate
    <3>3. t.lo \in Nat /\ t.hi \in Nat
      BY DEF KInv, TypeOK
    <3> QED
      BY <2>1, <2>3, <3>1, <3>2, <3>3
  <2>6. b \notin DOMAIN pool
    BY <1>0, <2>1, <2>5
  <2>7. chain' \in Seq(DOMAIN pool')
    <3>1. chain \in Seq(DOMAIN pool \union {b})
      BY DEF KInv, TypeOK
    <3> QED
      BY <1>2, <2>2, <3>1
  <2>8. TypeOK'
    <3>1. pool'[b] \in PoolType
      BY <1>0, <2>2 DEF PoolType
    <3>2. \A t \in segs' : t \in [lo : Nat, hi : Nat]
      BY <2>1, <2>4 DEF KInv, TypeOK
    <3> QED
      BY <1>2, <2>1, <2>2, <2>7, <3>1, <3>2 DEF KInv, TypeOK
  <2>9. RequiredFits'
    BY <1>0, <2>2 DEF KInv, RequiredFits
  <2>10. PoolsSeparate'
    <3>1. ASSUME NEW c \in DOMAIN pool', NEW d \in DOMAIN pool', c < d
          PROVE  c + pool'[c].size < d
      BY <1>0, <2>1, <2>2, <2>5, <3>1 DEF KInv, PoolsSeparate
    <3>2. ASSUME NEW c \in DOMAIN pool'
          PROVE  \E t \in segs' : t.lo <= c /\ c + pool'[c].size <= t.hi
      <4>1. CASE c = b
        <5> DEFINE t == [lo |-> b, hi |-> b + bytes - 1]
        <5>1. t \in segs' /\ t.lo <= b /\ b + pool'[b].size <= t.hi
          BY <1>0, <2>1, <2>2, <2>4
        <5> QED
          BY <4>1, <5>1
      <4>2. CASE c # b
        BY <2>2, <2>4, <4>2 DEF KInv, PoolsSeparate
      <4> QED
        BY <4>1, <4>2
    <3> QED
      BY <3>1, <3>2 DEF PoolsSeparate
  <2>11. AddsPool(r)
    BY <1>2, <2>1, <2>2, <2>6 DEF AddsPool, Serving, n, bytes
  <2> QED
    BY <2>8, <2>9, <2>10, <2>11 DEF KInv
<1> QED
  BY <1>1, <1>2 DEF malloc_grow

LEMMA Free ==
  ASSUME KInv, NEW a \in DOMAIN pool, free_pool(a)
  PROVE  KInv'
<1>1. CASE UNCHANGED <<pool, chain, intact, segs>> /\ halted' = TRUE
  BY <1>1 DEF KInv, TypeOK, RequiredFits, PoolsSeparate
<1>2. CASE /\ pool' = [pool EXCEPT ![a] = [size |-> @.size, required |-> Header,
                                           free |-> TRUE, written |-> Header]]
           /\ UNCHANGED <<chain, intact, segs, halted>>
  <2>1. pool[a] \in PoolType /\ Header \in Nat
    BY KHeapAssumption DEF KInv, TypeOK
  <2>2. /\ DOMAIN pool' = DOMAIN pool
        /\ \A c \in DOMAIN pool : c # a => pool'[c] = pool[c]
        /\ pool'[a] = [size |-> pool[a].size, required |-> Header,
                       free |-> TRUE, written |-> Header]
    BY <1>2
  <2>3. \A c \in DOMAIN pool : pool'[c].size = pool[c].size
    BY <2>2
  <2>4. TypeOK'
    BY <1>2, <2>1, <2>2 DEF KInv, TypeOK, PoolType
  <2>5. RequiredFits'
    BY <2>1, <2>2 DEF KInv, RequiredFits, PoolType
  <2>6. PoolsSeparate'
    BY <1>2, <2>2, <2>3 DEF KInv, PoolsSeparate
  <2> QED
    BY <2>4, <2>5, <2>6 DEF KInv
<1> QED
  BY <1>1, <1>2 DEF free_pool

LEMMA KNext == KInv /\ [Next]_vars => KInv'
<1> SUFFICES ASSUME KInv, [Next]_vars PROVE KInv'
  OBVIOUS
<1>1. CASE UNCHANGED vars
  BY <1>1 DEF vars, KInv, TypeOK, RequiredFits, PoolsSeparate
<1> QED
  BY <1>1, Take, Split, Grow, Free DEF Next, malloc

\* The heap's types, and that no two pools ever share a byte or leave the heap's
\* pages, for every client.
THEOREM LayoutTheorem == Spec => [](TypeOK /\ PoolsSeparate)
  BY KInit, KNext, PTL DEF Spec, KInv

-----------------------------------------------------------------------------
(* What the callers write *)

WInv == KInv /\ WritesStayInside

LEMMA WInit == Init => WInv
<1> SUFFICES ASSUME Init PROVE WInv
  OBVIOUS
<1>1. KInv
  BY KInit
<1>2. PICK base \in PageBases :
        pool = [a \in {base} |-> create_pool(2 * Page, Header, TRUE, Header)]
  BY DEF Init
<1>3. \A a \in DOMAIN pool : pool[a] = create_pool(2 * Page, Header, TRUE, Header)
  BY <1>2
<1>4. WritesStayInside
  BY <1>3, KHeapAssumption DEF create_pool, WritesStayInside
<1> QED
  BY <1>1, <1>4 DEF WInv

LEMMA WNext == WInv /\ [Next]_vars => WInv'
<1> SUFFICES ASSUME WInv, [Next]_vars PROVE WInv'
  OBVIOUS
<1>1. KInv /\ KInv'
  BY KNext DEF WInv
<1>2. \A a \in DOMAIN pool : /\ pool[a] \in PoolType
                             /\ Modest(a) => pool[a].written <= pool[a].size + 1
  BY <1>1 DEF KInv, TypeOK, WInv, WritesStayInside
<1>3. ASSUME NEW r \in Requests, TakesPool(r) PROVE WritesStayInside'
  BY <1>2, <1>3, RequestType
  DEF TakesPool, Serving, PoolType, Modest, WritesStayInside
<1>4. ASSUME NEW r \in Requests, SplitsPool(r) PROVE WritesStayInside'
  BY <1>2, <1>4, RequestType
  DEF SplitsPool, Serving, PoolType, Modest, WritesStayInside
<1>5. ASSUME NEW r \in Requests, AddsPool(r) PROVE WritesStayInside'
  <2>1. PAGE_ALIGN_UP(r.size + Header) \in Nat
    BY RequestType, AlignUp
  <2>2. PICK b \in Nat \ DOMAIN pool :
          /\ DOMAIN pool' = DOMAIN pool \union {b}
          /\ \A c \in DOMAIN pool : pool'[c] = pool[c]
          /\ pool'[b] = [size |-> PAGE_ALIGN_UP(r.size + Header) - 1,
                         required |-> r.size + Header, free |-> FALSE,
                         written |-> r.size + Header + r.over]
    BY <1>5 DEF AddsPool, Serving
  <2> QED
    BY <1>2, <2>1, <2>2, RequestType DEF PoolType, Modest, WritesStayInside
<1>6. ASSUME NEW a \in DOMAIN pool, free_pool(a) PROVE WritesStayInside'
  <2>1. Header \in Nat /\ Header <= pool[a].required /\ pool[a].required <= pool[a].size + 1
    BY <1>1, KHeapAssumption DEF KInv, RequiredFits
  <2>2. CASE UNCHANGED pool
    BY <1>2, <2>2 DEF Modest, WritesStayInside
  <2>3. CASE pool' = [pool EXCEPT ![a] = [size |-> @.size, required |-> Header,
                                          free |-> TRUE, written |-> Header]]
    BY <1>2, <2>1, <2>3 DEF PoolType, Modest, WritesStayInside
  <2> QED
    BY <1>6, <2>2, <2>3 DEF free_pool
<1>7. ASSUME UNCHANGED pool PROVE WritesStayInside'
  BY <1>2, <1>7 DEF Modest, WritesStayInside
<1>8. WritesStayInside'
  BY <1>1, <1>3, <1>4, <1>5, <1>6, <1>7, Take, Split, Grow DEF Next, malloc, vars
<1> QED
  BY <1>1, <1>8 DEF WInv

\* The byte left by split_pool is enough for callers that write one byte too many,
\* whatever the others do.
THEOREM WritesTheorem == Spec => []WritesStayInside
  BY WInit, WNext, PTL DEF Spec, WInv

\* Memory in use is never handed out again or resized before it is freed.
THEOREM UsedTheorem == Spec => UsedStays
<1>1. ASSUME KInv, [Next]_vars
      PROVE  [\A a \in DOMAIN pool :
                ~pool[a].free =>
                  /\ a \in DOMAIN pool'
                  /\ ~pool'[a].free => pool'[a].required = pool[a].required]_vars
  <2> SUFFICES ASSUME Next, NEW a \in DOMAIN pool, ~pool[a].free
               PROVE  /\ a \in DOMAIN pool'
                      /\ ~pool'[a].free => pool'[a].required = pool[a].required
    BY <1>1
  <2>0. pool[a] \in PoolType
    BY <1>1 DEF KInv, TypeOK
  <2>1. ASSUME NEW r \in Requests, malloc(r)
        PROVE  /\ a \in DOMAIN pool'
               /\ pool'[a].required = pool[a].required
    <3>1. CASE TakesPool(r)
      BY <3>1 DEF TakesPool
    <3>2. CASE SplitsPool(r)
      BY <2>0, <3>2 DEF SplitsPool, PoolType
    <3>3. CASE AddsPool(r)
      BY <3>3 DEF AddsPool
    <3>4. CASE UNCHANGED pool
      BY <3>4
    <3> QED
      BY <1>1, <2>1, <3>1, <3>2, <3>3, <3>4, Take, Split, Grow DEF malloc
  <2>2. ASSUME NEW b \in DOMAIN pool, free_pool(b)
        PROVE  /\ a \in DOMAIN pool'
               /\ ~pool'[a].free => pool'[a].required = pool[a].required
    BY <2>2 DEF free_pool
  <2> QED
    BY <2>1, <2>2 DEF Next
<1> QED
  BY <1>1, KInit, KNext, PTL DEF Spec, UsedStays

-----------------------------------------------------------------------------
(* The links and the bytes of the heap *)

\* What free does: sizes, links and pages stay.
LEMMA FreeKeeps ==
  ASSUME KInv, NEW a \in DOMAIN pool, free_pool(a)
  PROVE  /\ DOMAIN pool' = DOMAIN pool /\ UNCHANGED <<chain, segs>>
         /\ \A c \in DOMAIN pool : pool'[c].size = pool[c].size
  BY DEF free_pool

\* The links after a split are the old ones with the new pool after the i-th.
LEMMA LinkedAfterAt ==
  ASSUME NEW S, chain \in Seq(S), NEW i \in DOMAIN chain, NEW b
  PROVE  /\ DOMAIN LinkedAfter(i, b) = 1 .. Len(chain) + 1
         /\ \A j \in 1 .. Len(chain) + 1 :
              LinkedAfter(i, b)[j] = IF j <= i THEN chain[j]
                                     ELSE IF j = i + 1 THEN b ELSE chain[j - 1]
<1> DEFINE front == SubSeq(chain, 1, i)
           back  == SubSeq(chain, i + 1, Len(chain))
           mid   == front \o <<b>>
<1>0. Len(chain) \in Nat /\ i \in 1 .. Len(chain)
  OBVIOUS
<1>1. /\ front \in Seq(S \union {b}) /\ Len(front) = i
      /\ \A j \in 1 .. i : front[j] = chain[j]
  BY <1>0
<1>2. /\ back \in Seq(S \union {b}) /\ Len(back) = Len(chain) - i
      /\ \A j \in 1 .. Len(chain) - i : back[j] = chain[i + j]
  BY <1>0
<1>3. <<b>> \in Seq(S \union {b}) /\ Len(<<b>>) = 1 /\ <<b>>[1] = b
  OBVIOUS
<1> HIDE DEF front, back
<1>4. /\ mid \in Seq(S \union {b}) /\ Len(mid) = i + 1
      /\ \A j \in 1 .. i + 1 : mid[j] = IF j <= i THEN chain[j] ELSE b
  BY <1>0, <1>1, <1>3
<1>5. LinkedAfter(i, b) = mid \o back
  BY DEF LinkedAfter, front, back
<1> HIDE DEF mid
<1>6. /\ mid \o back \in Seq(S \union {b})
      /\ Len(mid \o back) = Len(mid) + Len(back)
      /\ \A j \in 1 .. Len(mid) + Len(back) :
           (mid \o back)[j] = IF j <= Len(mid) THEN mid[j] ELSE back[j - Len(mid)]
  BY <1>2, <1>4, ConcatProperties
<1>7. Len(mid) + Len(back) = Len(chain) + 1
  BY <1>0, <1>2, <1>4
<1>8. DOMAIN (mid \o back) = 1 .. Len(chain) + 1
  BY <1>6, <1>7
<1>9. ASSUME NEW j \in 1 .. Len(chain) + 1
      PROVE  (mid \o back)[j] = IF j <= i THEN chain[j]
                                 ELSE IF j = i + 1 THEN b ELSE chain[j - 1]
  <2>1. (mid \o back)[j] = IF j <= i + 1 THEN mid[j] ELSE back[j - (i + 1)]
    BY <1>4, <1>6, <1>7
  <2>2. CASE j <= i + 1
    BY <1>0, <1>4, <2>1, <2>2
  <2>3. CASE j > i + 1
    <3>1. j - (i + 1) \in 1 .. Len(chain) - i /\ i + (j - (i + 1)) = j - 1
      BY <1>0, <2>3
    <3>2. back[j - (i + 1)] = chain[j - 1]
      BY <1>2, <3>1
    <3> QED
      BY <1>0, <2>1, <2>3, <3>2
  <2>4. j <= i + 1 \/ j > i + 1
    BY <1>0
  <2> QED
    BY <2>2, <2>3, <2>4
<1> QED
  BY <1>5, <1>8, <1>9

LEMMA ChainStep == KInv /\ ChainComplete /\ [Next]_vars => ChainComplete'
<1> SUFFICES ASSUME KInv, ChainComplete, [Next]_vars PROVE ChainComplete'
  OBVIOUS
<1>0. chain \in Seq(DOMAIN pool) /\ Len(chain) \in Nat /\ DOMAIN chain = 1 .. Len(chain)
  BY DEF KInv, TypeOK
<1>1. ASSUME DOMAIN pool' = DOMAIN pool, UNCHANGED chain PROVE ChainComplete'
  BY <1>1 DEF ChainComplete
<1>2. ASSUME NEW r \in Requests, SplitsPool(r) PROVE ChainComplete'
  <2>1. PICK i \in DOMAIN chain, b \in Nat \ DOMAIN pool :
          DOMAIN pool' = DOMAIN pool \union {b} /\ chain' = LinkedAfter(i, b)
    BY <1>2 DEF SplitsPool
  <2>2. /\ DOMAIN chain' = 1 .. Len(chain) + 1
        /\ \A j \in 1 .. Len(chain) + 1 :
             chain'[j] = IF j <= i THEN chain[j] ELSE IF j = i + 1 THEN b ELSE chain[j - 1]
    BY <1>0, <2>1, LinkedAfterAt
  <2>3. \A j \in DOMAIN chain : chain[j] # b
    BY <1>0
  <2>4. \A j \in 1 .. Len(chain) + 1 : chain'[j] \in DOMAIN pool \union {b}
    BY <1>0, <2>2
  <2>5. ASSUME NEW c \in DOMAIN pool \union {b} PROVE \E j \in DOMAIN chain' : chain'[j] = c
    <3>1. CASE c = b
      <4>1. i + 1 \in DOMAIN chain' /\ chain'[i + 1] = b
        BY <1>0, <2>2
      <4> QED
        BY <3>1, <4>1
    <3>2. CASE c # b
      <4>1. PICK j \in DOMAIN chain : chain[j] = c
        BY <3>2 DEF ChainComplete
      <4>2. CASE j <= i
        <5>1. j \in DOMAIN chain' /\ chain'[j] = c
          BY <1>0, <2>2, <4>1, <4>2
        <5> QED
          BY <5>1
      <4>3. CASE j > i
        <5>1. j + 1 \in DOMAIN chain' /\ chain'[j + 1] = c
          BY <1>0, <2>2, <4>1, <4>3
        <5> QED
          BY <5>1
      <4> QED
        BY <1>0, <4>2, <4>3
    <3> QED
      BY <3>1, <3>2
  <2>6. {chain'[j] : j \in DOMAIN chain'} = DOMAIN pool'
    BY <2>1, <2>2, <2>4, <2>5
  <2>7. ASSUME NEW j \in DOMAIN chain', NEW k \in DOMAIN chain', chain'[j] = chain'[k]
        PROVE  j = k
    <3> DEFINE old(m) == IF m <= i THEN m ELSE m - 1
    <3>1. \A m \in DOMAIN chain' : m # i + 1 => /\ old(m) \in DOMAIN chain
                                                /\ chain'[m] = chain[old(m)]
                                                /\ chain'[m] # b
      BY <1>0, <2>2, <2>3
    <3>2. chain'[i + 1] = b
      BY <1>0, <2>2
    <3>3. CASE j = i + 1 \/ k = i + 1
      BY <2>7, <3>1, <3>2, <3>3
    <3>4. CASE j # i + 1 /\ k # i + 1
      <4>1. old(j) = old(k)
        BY <2>7, <3>1, <3>4 DEF ChainComplete
      <4> QED
        BY <1>0, <2>2, <3>4, <4>1
    <3> QED
      BY <3>3, <3>4
  <2> QED
    BY <2>6, <2>7 DEF ChainComplete
<1>3. ASSUME NEW r \in Requests, AddsPool(r) PROVE ChainComplete'
  <2>1. PICK b \in Nat \ DOMAIN pool :
          DOMAIN pool' = DOMAIN pool \union {b} /\ chain' = Append(chain, b)
    BY <1>3 DEF AddsPool
  <2>2. /\ DOMAIN chain' = 1 .. Len(chain) + 1
        /\ \A j \in DOMAIN chain : chain'[j] = chain[j] /\ chain[j] # b
        /\ chain'[Len(chain) + 1] = b
    BY <1>0, <2>1
  <2>3. {chain'[j] : j \in DOMAIN chain'} = DOMAIN pool'
    <3>1. \A j \in DOMAIN chain' : chain'[j] \in DOMAIN pool'
      BY <1>0, <2>1, <2>2
    <3>2. ASSUME NEW c \in DOMAIN pool' PROVE \E j \in DOMAIN chain' : chain'[j] = c
      <4>1. CASE c = b
        BY <1>0, <2>2, <4>1
      <4>2. CASE c # b
        <5>1. PICK j \in DOMAIN chain : chain[j] = c
          BY <2>1, <4>2 DEF ChainComplete
        <5> QED
          BY <1>0, <2>2, <5>1
      <4> QED
        BY <4>1, <4>2
    <3> QED
      BY <3>1, <3>2
  <2>4. \A j, k \in DOMAIN chain' : chain'[j] = chain'[k] => j = k
    BY <1>0, <2>2 DEF ChainComplete
  <2> QED
    BY <2>3, <2>4 DEF ChainComplete
<1>4. ASSUME NEW r \in Requests, malloc(r) PROVE ChainComplete'
  <2>1. CASE TakesPool(r)
    BY <1>1, <2>1 DEF TakesPool
  <2>2. CASE UNCHANGED <<pool, chain, segs>>
    BY <1>1, <2>2
  <2> QED
    BY <1>2, <1>3, <1>4, <2>1, <2>2, Take, Split, Grow DEF malloc
<1>5. ASSUME NEW a \in DOMAIN pool, free_pool(a) PROVE ChainComplete'
  BY <1>1, <1>5, FreeKeeps
<1>6. CASE UNCHANGED vars
  BY <1>1, <1>6 DEF vars
<1> QED
  BY <1>4, <1>5, <1>6 DEF Next

\* The links visit every pool exactly once, whatever is split, added and freed, so
\* malloc's walk along them ends.
THEOREM ChainTheorem == Spec => []ChainComplete
<1>1. Init => ChainComplete
  BY DEF Init, ChainComplete
<1> QED
  BY <1>1, KInit, KNext, ChainStep, PTL DEF Spec

LEMMA BytesStep == KInv /\ NoByteLost /\ [Next]_vars => NoByteLost'
<1> SUFFICES ASSUME KInv, NoByteLost, [Next]_vars PROVE NoByteLost'
  OBVIOUS
<1>0. /\ \A a \in DOMAIN pool : a \in Nat /\ pool[a] \in PoolType
      /\ \A t \in segs : t.lo \in Nat /\ t.hi \in Nat
  BY DEF KInv, TypeOK
<1>1. ASSUME DOMAIN pool' = DOMAIN pool, UNCHANGED segs,
             \A c \in DOMAIN pool : pool'[c].size = pool[c].size
      PROVE  NoByteLost'
  BY <1>1 DEF NoByteLost, Owns
<1>2. ASSUME NEW r \in Requests, SplitsPool(r) PROVE NoByteLost'
  <2>1. PICK a \in DOMAIN pool, b \in Nat \ DOMAIN pool :
          /\ b = a + pool[a].required + 1
          /\ DOMAIN pool' = DOMAIN pool \union {b}
          /\ \A c \in DOMAIN pool : c # a => pool'[c] = pool[c]
          /\ pool'[b] = Serving(r, pool[a].size - pool[a].required - 1)
          /\ pool'[a] = [pool[a] EXCEPT !.size = pool[a].required]
          /\ UNCHANGED segs
    BY <1>2 DEF SplitsPool
  <2>2. /\ pool'[b].size = pool[a].size - pool[a].required - 1
        /\ pool'[a].size = pool[a].required
        /\ a \in Nat /\ pool[a].size \in Nat /\ pool[a].required \in Nat
    BY <1>0, <2>1 DEF Serving, PoolType
  <2> SUFFICES ASSUME NEW t \in segs, NEW x \in t.lo .. t.hi
               PROVE  \E c \in DOMAIN pool' : x \in c .. c + pool'[c].size
    BY <2>1 DEF NoByteLost, Owns
  <2>3. x \in Int
    BY <1>0
  <2>4. PICK c \in DOMAIN pool : x \in c .. c + pool[c].size
    BY DEF NoByteLost, Owns
  <2>5. CASE c # a
    BY <2>1, <2>4, <2>5
  <2>6. CASE c = a /\ x < b
    <3>1. x \in a .. a + pool'[a].size
      BY <2>1, <2>2, <2>3, <2>4, <2>6
    <3> QED
      BY <2>1, <3>1
  <2>7. CASE c = a /\ x >= b
    <3>1. x \in b .. b + pool'[b].size
      BY <2>1, <2>2, <2>3, <2>4, <2>7
    <3> QED
      BY <2>1, <3>1
  <2> QED
    BY <2>1, <2>3, <2>5, <2>6, <2>7
<1>3. ASSUME NEW r \in Requests, AddsPool(r) PROVE NoByteLost'
  <2> DEFINE bytes == PAGE_ALIGN_UP(r.size + Header)
  <2>0. bytes \in Nat
    BY RequestType, AlignUp
  <2>1. PICK b \in Nat \ DOMAIN pool :
          /\ DOMAIN pool' = DOMAIN pool \union {b}
          /\ \A c \in DOMAIN pool : pool'[c] = pool[c]
          /\ pool'[b].size = bytes - 1
          /\ segs' = segs \union {[lo |-> b, hi |-> b + bytes - 1]}
    BY <1>3 DEF AddsPool, Serving, PageRun
  <2> HIDE DEF bytes
  <2> SUFFICES ASSUME NEW t \in segs', NEW x \in t.lo .. t.hi
               PROVE  \E c \in DOMAIN pool' : x \in c .. c + pool'[c].size
    BY DEF NoByteLost, Owns
  <2>2. CASE t \in segs
    BY <2>1, <2>2 DEF NoByteLost, Owns
  <2>3. CASE t = [lo |-> b, hi |-> b + bytes - 1]
    <3>1. x \in b .. b + (bytes - 1)
      BY <2>0, <2>3
    <3> QED
      BY <2>1, <3>1
  <2> QED
    BY <2>1, <2>2, <2>3
<1>4. ASSUME NEW r \in Requests, malloc(r) PROVE NoByteLost'
  <2>1. CASE TakesPool(r)
    BY <1>1, <2>1 DEF TakesPool, Serving
  <2>2. CASE UNCHANGED <<pool, chain, segs>>
    BY <1>1, <2>2
  <2> QED
    BY <1>2, <1>3, <1>4, <2>1, <2>2, Take, Split, Grow DEF malloc
<1>5. ASSUME NEW a \in DOMAIN pool, free_pool(a) PROVE NoByteLost'
  BY <1>1, <1>5, FreeKeeps
<1>6. CASE UNCHANGED vars
  BY <1>1, <1>6 DEF vars
<1> QED
  BY <1>4, <1>5, <1>6 DEF Next

\* No byte of the heap's pages is ever lost to all pools.
THEOREM BytesTheorem == Spec => []NoByteLost
<1>1. Init => NoByteLost
  <2> SUFFICES ASSUME Init PROVE NoByteLost
    OBVIOUS
  <2>1. PICK base \in PageBases :
          /\ pool = [a \in {base} |-> create_pool(2 * Page, Header, TRUE, Header)]
          /\ segs = {PageRun(base, 2 * Page)}
    BY DEF Init
  <2>2. base \in Nat /\ Page \in Nat
    BY KHeapAssumption DEF PageBases
  <2>3. /\ base \in DOMAIN pool /\ pool[base].size = 2 * Page - 1
        /\ segs = {[lo |-> base, hi |-> base + 2 * Page - 1]}
    BY <2>1 DEF create_pool, PageRun
  <2>4. \A x \in base .. base + 2 * Page - 1 : x \in base .. base + (2 * Page - 1)
    BY <2>2
  <2> QED
    BY <2>3, <2>4 DEF NoByteLost, Owns
<1> QED
  BY <1>1, KInit, KNext, BytesStep, PTL DEF Spec
=============================================================================
