--------------------------------- MODULE PMM ---------------------------------
(***************************************************************************)
(* The physical memory manager, mem/pmm.c: a bitmap at the start of every   *)
(* usable section of the bootloader's memory map, searched first fit.       *)
(* Addresses and lengths are counted in pages.  kmalloc runs on one core at *)
(* a time with nothing to interrupt it in the allocator, so a call is one   *)
(* step.  Nothing is ever freed: last_freed_page stays -1 and the branch of *)
(* kmalloc that would reuse it is dead.                                     *)
(***************************************************************************)
EXTENDS Naturals, Sequences

CONSTANTS
    Sections,    \* the memory map: a sequence of base, pages, usable
    PageBits,    \* pages that a bitmap of one page describes, 4096 * 8
    ByteBits,    \* pages that one byte of the bitmap describes, 8
    Requests     \* the numbers of pages that callers ask for

ASSUME PMMAssumption ==
    /\ Sections \in Seq([base : Nat, pages : Nat \ {0}, usable : BOOLEAN])
    /\ \A d, e \in DOMAIN Sections :
         d # e => \/ Sections[d].base + Sections[d].pages <= Sections[e].base
                  \/ Sections[e].base + Sections[e].pages <= Sections[d].base
    /\ PageBits \in Nat \ {0} /\ ByteBits \in Nat \ {0}
    /\ Requests \subseteq Nat

VARIABLES
    bitmap,      \* bitmap[e]: the frames of section e that are marked
    last,        \* the run returned last
    total,       \* kernel.total_memory_allocated
    status

vars == <<bitmap, last, total, status>>

Entries == DOMAIN Sections

\* init_PMM: every usable section is zeroed, its bitmap with it.
Init ==
    /\ bitmap = [e \in Entries |-> {}]
    /\ last = [lo |-> 0, n |-> 0]
    /\ total = 0
    /\ status = "running"

\* Variant: the bitmap takes no room.
get_bitmap_reserved_none(e) == 0

\* The pages of the bitmap.  The loop tries one page, again and again: it ends
\* only if one is enough.
get_bitmap_reserved(e) == 1

ReservedLoops(e) == ~(PageBits > Sections[e].pages - 1)

\* Only whole bytes of the bitmap are used.
PagesInSection(e) ==
    ((Sections[e].pages - get_bitmap_reserved(e)) \div ByteBits) * ByteBits

check_pages_avaliable(e, frame, n) ==
    /\ frame + n <= PagesInSection(e)
    /\ Sections[e].usable
    /\ \A g \in frame .. frame + n - 1 : g \notin bitmap[e]

Full(e, n) == \A f \in 0 .. PagesInSection(e) : ~check_pages_avaliable(e, f, n)

\* The search gets to section e, and does not get stuck there.
Reaches(e, n) ==
    \A d \in 1 .. e - 1 : Sections[d].usable => ~ReservedLoops(d) /\ Full(d, n)

Searches(e, n) == Sections[e].usable /\ ~ReservedLoops(e) /\ Reaches(e, n)

FirstFit(e, f, n) ==
    /\ check_pages_avaliable(e, f, n)
    /\ \A g \in 0 .. f - 1 : ~check_pages_avaliable(e, g, n)

\* Variant: the mark stops one frame early.
allocate_pages_short(e, frame, n) == [bitmap EXCEPT ![e] = @ \union (frame .. frame + n - 2)]

allocate_pages(e, frame, n) == [bitmap EXCEPT ![e] = @ \union (frame .. frame + n - 1)]

\* The page of a frame: after the bitmap.
PageOf(e, frame) == Sections[e].base + frame + get_bitmap_reserved(e)

\* The pages that were found are marked and cleared: what a caller finds in them is
\* zero, and no variable here.
kmalloc_returns(n) ==
    /\ n >= 1
    /\ \E e \in Entries : \E f \in 0 .. PagesInSection(e) :
         /\ Searches(e, n)
         /\ FirstFit(e, f, n)
         /\ bitmap' = allocate_pages(e, f, n)
         /\ last' = [lo |-> PageOf(e, f), n |-> n]
    /\ total' = total + n
    /\ UNCHANGED status

\* Less than one page is refused, the machine halts.
kmalloc_refuses(n) ==
    /\ n < 1
    /\ status' = "halted"
    /\ UNCHANGED <<bitmap, last, total>>

\* The search comes to a section whose bitmap needs more than one page.
GetsStuck(n) ==
    \E e \in Entries : Sections[e].usable /\ ReservedLoops(e) /\ Reaches(e, n)

\* No section that is searched has room: the machine halts after the last one,
\* unless the search got stuck before.
kmalloc_fails(n) ==
    /\ n >= 1
    /\ \A e \in Entries : Searches(e, n) => Full(e, n)
    /\ status' = IF GetsStuck(n) THEN "looping" ELSE "halted"
    /\ UNCHANGED <<bitmap, last, total>>

kmalloc(n) ==
    /\ status = "running"
    /\ kmalloc_returns(n) \/ kmalloc_refuses(n) \/ kmalloc_fails(n)

Next == \E n \in Requests : kmalloc(n)

Spec == Init /\ [][Next]_vars

-----------------------------------------------------------------------------
TypeOK ==
    /\ \A e \in Entries : bitmap[e] \subseteq 0 .. PagesInSection(e) - 1
    /\ DOMAIN bitmap = Entries
    /\ last \in [lo : Nat, n : Nat]
    /\ total \in Nat
    /\ status \in {"running", "halted", "looping"}

\* The pages whose frames are marked.
Owned == UNION {{PageOf(e, f) : f \in bitmap[e]} : e \in Entries}

\* The pages of usable sections, without the page that holds their bitmap.
UsablePages ==
    UNION {{Sections[e].base + i : i \in 1 .. Sections[e].pages - 1} :
             e \in {d \in Entries : Sections[d].usable}}

A == INSTANCE PageAllocator WITH Usable <- UsablePages, owned <- Owned

\* kmalloc keeps its promise: the run it returns lies in usable memory, holds no
\* bitmap, and none of its pages was ever returned before.
AllocatorPromise == A!ASpec

\* kmalloc always comes back or halts, whatever memory the machine has ("If you
\* want to run on real hardware, you can still use these same commands").
KmallocEnds == status # "looping"
=============================================================================
