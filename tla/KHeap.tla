-------------------------------- MODULE KHeap --------------------------------
(***************************************************************************)
(* The kernel heap, mem/kheap.c: a chain of pools cut out of pages that     *)
(* kmalloc hands out.  Pools are named by the address of their header; the  *)
(* pool at address a owns the bytes a .. a + size, header included.         *)
(*                                                                         *)
(* malloc and free run with interrupts off on the one core that is up, so   *)
(* each call is one step.  A step of malloc includes what its caller then   *)
(* writes to the memory: several callers write more bytes than they asked   *)
(* for (vfs.c and ustar.c one, create_task two), so a request is a size and *)
(* a number of bytes written beyond it.                                     *)
(***************************************************************************)
EXTENDS Naturals, Sequences

CONSTANTS
    Header,      \* sizeof(Pool), 26
    Page,        \* the page size, 4096
    Memory,      \* bound: bytes of memory that kmalloc can hand out
    Requests     \* the requests of the callers: records of size and over

ASSUME KHeapAssumption ==
    /\ Header \in Nat \ {0} /\ Page \in Nat \ {0} /\ Memory \in Nat
    /\ Header < 2 * Page
    /\ Requests \subseteq [size : Nat, over : {0, 1, 2}]

VARIABLES
    pool,     \* header address -> size, required_size, free; and written, the
              \* bytes its user writes, counted from the header
    chain,    \* the pools in the order of their next_pool links
    intact,   \* pools whose verify field is still 69
    segs,     \* the page runs obtained from kmalloc, as records lo .. hi
    halted

vars == <<pool, chain, intact, segs, halted>>

PAGE_ALIGN_UP(x) == ((x + Page - 1) \div Page) * Page

\* Variant: the size is one too small.
create_pool_short(size, required_size, free, written) ==
    [size |-> size - 2, required |-> required_size, free |-> free, written |-> written]

\* create_pool stores the size minus one.
create_pool(size, required_size, free, written) ==
    [size |-> size - 1, required |-> required_size, free |-> free, written |-> written]

\* kmalloc, by what it promises: pages that nobody has been given before.
FreshPages(seg) ==
    /\ seg.hi < Memory
    /\ \A t \in segs : seg.hi < t.lo \/ t.hi < seg.lo

PageRun(base, bytes) == [lo |-> base, hi |-> base + bytes - 1]

PageBases == {b \in 0 .. Memory : b % Page = 0}

\* init_kheap
Init ==
    /\ \E base \in PageBases :
         /\ base + 2 * Page <= Memory
         /\ pool = [a \in {base} |-> create_pool(2 * Page, Header, TRUE, Header)]
         /\ chain = <<base>>
         /\ intact = {base}
         /\ segs = {PageRun(base, 2 * Page)}
    /\ halted = FALSE

-----------------------------------------------------------------------------
(* malloc *)

\* Variant: the free flag is not looked at.
FitsUsed(a, size) == pool[a].size > size + Header

Fits(a, size) == pool[a].free /\ pool[a].size > size + Header

\* Variant: >= in place of >.
SplitsTight(a, size) == pool[a].size >= pool[a].required + size + Header

Splits(a, size) == pool[a].size > pool[a].required + size + Header

Stops(a, size) == Fits(a, size) \/ Splits(a, size)

\* The walk along the chain ends at its i-th pool.
WalkEndsAt(i, size) ==
    /\ i \in DOMAIN chain
    /\ Stops(chain[i], size)
    /\ \A j \in 1 .. i - 1 : ~Stops(chain[j], size)

\* The headers that a write of n bytes from a on runs over.
Overwritten(headers, a, n) == {b \in headers : a < b /\ b < a + n}

\* A free pool that is large enough is taken whole.
malloc_take(r) ==
    \E i \in DOMAIN chain :
      LET a == chain[i]
          n == r.size + Header
      IN  /\ WalkEndsAt(i, r.size)
          /\ Fits(a, r.size)
          /\ pool' = [pool EXCEPT ![a] = [size |-> @.size, required |-> n,
                                          free |-> FALSE, written |-> n + r.over]]
          /\ intact' = intact \ Overwritten(DOMAIN pool, a, n + r.over)
          /\ UNCHANGED <<chain, segs, halted>>

\* Variant: the new pool starts on the byte left behind required_size.
SplitAddressLow(a) == a + pool[a].required

SplitAddress(a) == a + pool[a].required + 1

\* Variant: the new pool does not inherit next_pool.
LinkedLast(i, b) == SubSeq(chain, 1, i) \o <<b>>

LinkedAfter(i, b) == SubSeq(chain, 1, i) \o <<b>> \o SubSeq(chain, i + 1, Len(chain))

\* The unused tail of a pool in use becomes a pool of its own, linked after it.
malloc_split(r) ==
    \E i \in DOMAIN chain :
      LET a == chain[i]
          b == SplitAddress(a)
          n == r.size + Header
      IN  /\ WalkEndsAt(i, r.size)
          /\ ~Fits(a, r.size)
          /\ pool' = [c \in DOMAIN pool \union {b} |->
                        IF c = b THEN create_pool(pool[a].size - pool[a].required, n,
                                                  FALSE, n + r.over)
                        ELSE IF c = a THEN [pool[a] EXCEPT !.size = pool[a].required]
                        ELSE pool[c]]
          /\ chain' = LinkedAfter(i, b)
          /\ intact' = (intact \union {b}) \ Overwritten(DOMAIN pool, b, n + r.over)
          /\ UNCHANGED <<segs, halted>>

WalkFails(size) == \A i \in DOMAIN chain : ~Stops(chain[i], size)

\* The end of the chain: new pages, all of them for this request's pool.  kmalloc
\* halts the machine when there are none.
malloc_grow(r) ==
    LET n     == r.size + Header
        bytes == PAGE_ALIGN_UP(n)
        found == {b \in PageBases : FreshPages(PageRun(b, bytes))}
    IN  /\ WalkFails(r.size)
        /\ \/ \E b \in found :
                /\ pool' = [c \in DOMAIN pool \union {b} |->
                              IF c = b THEN create_pool(bytes, n, FALSE, n + r.over)
                              ELSE pool[c]]
                /\ chain' = Append(chain, b)
                /\ intact' = (intact \union {b}) \ Overwritten(DOMAIN pool, b, n + r.over)
                /\ segs' = segs \union {PageRun(b, bytes)}
                /\ UNCHANGED halted
           \/ /\ found = {}
              /\ halted' = TRUE
              /\ UNCHANGED <<pool, chain, intact, segs>>

malloc(r) == ~halted /\ (malloc_take(r) \/ malloc_split(r) \/ malloc_grow(r))

-----------------------------------------------------------------------------
\* free of the pool at a, also of one that is free already (the peek system call
\* frees an event that stays queued).  A damaged header halts the machine.
free_pool(a) ==
    /\ ~halted
    /\ \/ /\ a \in intact
          /\ pool' = [pool EXCEPT ![a] = [size |-> @.size, required |-> Header,
                                          free |-> TRUE, written |-> Header]]
          /\ UNCHANGED halted
       \/ /\ a \notin intact
          /\ halted' = TRUE
          /\ UNCHANGED pool
    /\ UNCHANGED <<chain, intact, segs>>

Next ==
    \/ \E r \in Requests : malloc(r)
    \/ \E a \in DOMAIN pool : free_pool(a)

Spec == Init /\ [][Next]_vars

-----------------------------------------------------------------------------
Owns(a) == a .. a + pool[a].size

PoolType == [size : Nat, required : Nat, free : BOOLEAN, written : Nat]

TypeOK ==
    /\ DOMAIN pool \subseteq Nat
    /\ \A a \in DOMAIN pool : pool[a] \in PoolType
    /\ chain \in Seq(DOMAIN pool)
    /\ intact \subseteq DOMAIN pool
    /\ segs \subseteq [lo : Nat, hi : Nat]
    /\ halted \in BOOLEAN

\* No two pools own the same byte, so no two allocations ever share memory and no
\* header lies in another pool's data, and no pool reaches outside the pages the
\* heap was given.
PoolsSeparate ==
    /\ \A a, b \in DOMAIN pool : a < b => a + pool[a].size < b
    /\ \A a \in DOMAIN pool : \E t \in segs : t.lo <= a /\ a + pool[a].size <= t.hi

\* Every byte of the heap's pages belongs to some pool: splitting and freeing
\* never lose memory.
NoByteLost ==
    \A t \in segs : \A x \in t.lo .. t.hi : \E a \in DOMAIN pool : x \in Owns(a)

\* The links visit every pool exactly once, so malloc's walk ends and misses none.
ChainComplete ==
    /\ {chain[i] : i \in DOMAIN chain} = DOMAIN pool
    /\ \A i, j \in DOMAIN chain : chain[i] = chain[j] => i = j

\* The user of the pool writes at most one byte too many, and not beyond whole
\* pages: every caller but create_task, for strings that do not fill a page.
Modest(a) ==
    /\ pool[a].written <= pool[a].required + 1
    /\ pool[a].written <= PAGE_ALIGN_UP(pool[a].required)

\* What such a caller writes stays in its pool, from malloc to free, however often
\* the pool is split meanwhile: the byte that split_pool leaves behind
\* required_size absorbs the one byte that callers write too much.
WritesStayInside ==
    \A a \in DOMAIN pool : Modest(a) => pool[a].written <= pool[a].size + 1

\* While a pool is in use its user's memory is not handed out or resized.
UsedStays ==
    [][\A a \in DOMAIN pool :
         ~pool[a].free =>
           /\ a \in DOMAIN pool'
           /\ ~pool'[a].free => pool'[a].required = pool[a].required]_vars

\* Every pool passed to free has its verify value ("Invalid address to free
\* (KHeap), incorrect verify value").
HeadersIntact == intact = DOMAIN pool
=============================================================================
