---------------------------- MODULE PageAllocator ----------------------------
(***************************************************************************)
(* What kmalloc promises its callers (the heap, paging, spawn): a run of    *)
(* pages of usable memory that nobody has been given before, or no return.  *)
(***************************************************************************)
EXTENDS Naturals

CONSTANT Usable      \* the pages that may be handed out

VARIABLES
    owned,       \* pages handed out so far
    last,        \* the run returned last: first page and number of pages
    status       \* "running", or why the machine makes no progress any more

avars == <<owned, last, status>>

AInit == owned = {} /\ last = [lo |-> 0, n |-> 0] /\ status = "running"

Run(r) == r.lo .. r.lo + r.n - 1

Give ==
    /\ status = "running"
    /\ last' \in [lo : Nat, n : Nat \ {0}]
    /\ Run(last') \subseteq Usable \ owned
    /\ owned' = owned \union Run(last')
    /\ UNCHANGED status

Stop ==
    /\ status = "running"
    /\ status' \in {"halted", "looping"}
    /\ UNCHANGED <<owned, last>>

ANext == Give \/ Stop

ASpec == AInit /\ [][ANext]_avars
=============================================================================
