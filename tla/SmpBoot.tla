------------------------------ MODULE SmpBoot ------------------------------
(***************************************************************************)
(* Starting the other processors: init_smp of the bootstrap processor and   *)
(* ap_entry of the others (processors/smp.c), with the spin lock, the wait  *)
(* on the PIT (drivers/pit.c) and the timer interrupt that ends it.         *)
(*                                                                         *)
(* init_lock is taken by the bootstrap processor and released by the        *)
(* processor it has started.  While a processor initialises itself it       *)
(* rewrites the TSS descriptor of the GDT that all share, allocates its     *)
(* stack with a kmalloc that has no lock, and waits for a counter that the  *)
(* bootstrap processor's interrupt handler decrements.  Steps are as large  *)
(* as the other processors cannot see into them: the search and the mark of *)
(* kmalloc, the load and the store of pit_counter-- are apart.              *)
(***************************************************************************)
EXTENDS Naturals

CONSTANTS
    N,       \* how many processors there are beside the bootstrap processor
    Ms       \* what ap_entry passes to pit_wait, 10 in the code

ASSUME SmpAssumption == N \in Nat /\ Ms \in Nat \ {0}

APs == 1 .. N

VARIABLES
    lock,      \* init_lock
    bsp,       \* where the bootstrap processor is in init_smp
    i,         \* the index of the loop in init_smp
    ap,        \* where each processor is in ap_entry
    tss,       \* the TSS descriptor of the shared GDT
    pages,     \* pages that kmalloc has marked
    found,     \* what a processor's search in kmalloc has found
    stack,     \* the page each processor has its stack in, 0 for none
    counter,   \* kernel.pit_counter
    masked,    \* the PIT's line in the I/O APIC
    isr        \* the counter loaded by the handler, or Idle

bootVars == <<lock, bsp, i>>
waitVars == <<counter, masked, isr>>
vars     == <<bootVars, ap, tss, pages, found, stack, waitVars>>

\* The counter below zero: 2^64 - 1 and less, larger than any Ms.  It would take
\* 2^64 ticks to come back, so it stays there until it is set again.
Wrapped == Ms + 1

Decrement(c) == IF c \in {0, Wrapped} THEN Wrapped ELSE c - 1

\* The handler is not between its load and its store.
Idle == Ms + 2

\* The bootstrap processor enters init_smp with interrupts on, its own TSS loaded
\* and its wait in init_lapic_timer over.
Init ==
    /\ lock = FALSE /\ bsp = "loop" /\ i = 1
    /\ ap = [a \in APs |-> "parked"]
    /\ tss = "busy"
    /\ pages = 1
    /\ found = [a \in APs |-> 0]
    /\ stack = [a \in APs |-> 0]
    /\ counter = 0 /\ masked = TRUE /\ isr = Idle

-----------------------------------------------------------------------------
(* The bootstrap processor *)

\* Its code does not go on while it is in the handler.
Bsp(pc) == bsp = pc /\ isr = Idle

\* Variant: the processor is started without waiting for the one before.
acquire_ignored ==
    /\ Bsp("loop") /\ i <= N
    /\ lock' = TRUE
    /\ bsp' = "start"
    /\ UNCHANGED <<i, ap, tss, pages, found, stack, waitVars>>

acquire ==
    /\ Bsp("loop") /\ i <= N
    /\ ~lock
    /\ lock' = TRUE
    /\ bsp' = "start"
    /\ UNCHANGED <<i, ap, tss, pages, found, stack, waitVars>>

\* goto_address: the bootloader lets the parked processor run.
start_ap ==
    /\ Bsp("start")
    /\ ap' = [ap EXCEPT ![i] = "gdt"]
    /\ i' = i + 1
    /\ bsp' = "loop"
    /\ UNCHANGED <<lock, tss, pages, found, stack, waitVars>>

\* Variant: without the acquisition after the loop.
acquire_last_skipped ==
    /\ Bsp("loop") /\ i > N
    /\ bsp' = "ready"
    /\ UNCHANGED <<lock, i, ap, tss, pages, found, stack, waitVars>>

\* The acquisition after the loop, never released.
acquire_last ==
    /\ Bsp("loop") /\ i > N
    /\ ~lock
    /\ lock' = TRUE
    /\ bsp' = "ready"
    /\ UNCHANGED <<i, ap, tss, pages, found, stack, waitVars>>

\* lock_pit and disable_interrupts, after which _start goes on alone.
leave_smp ==
    /\ Bsp("ready")
    /\ masked' = TRUE
    /\ bsp' = "alone"
    /\ UNCHANGED <<lock, i, ap, tss, pages, found, stack, counter, isr>>

-----------------------------------------------------------------------------
(* The timer interrupt of the bootstrap processor: its own LAPIC timer, and   *)
(* the PIT while it is not masked.                                            *)

tick_load ==
    /\ bsp # "alone" /\ isr = Idle
    /\ isr' = counter
    /\ UNCHANGED <<bootVars, ap, tss, pages, found, stack, counter, masked>>

pit_decrement_counter ==
    /\ isr # Idle
    /\ counter' = Decrement(isr)
    /\ isr' = Idle
    /\ UNCHANGED <<bootVars, ap, tss, pages, found, stack, masked>>

-----------------------------------------------------------------------------
(* Another processor *)

Goes(a, from, to) == ap[a] = from /\ ap' = [ap EXCEPT ![a] = to]

\* Variant: the descriptor is left as the processor before has marked it.
ap_gdt_kept(a) ==
    /\ Goes(a, "gdt", "ltr")
    /\ UNCHANGED <<bootVars, tss, pages, found, stack, waitVars>>

\* create_system_segment_descriptor makes the TSS descriptor available again.
ap_gdt(a) ==
    /\ Goes(a, "gdt", "ltr")
    /\ tss' = "available"
    /\ UNCHANGED <<bootVars, pages, found, stack, waitVars>>

\* ltr marks the descriptor busy, and faults when it is busy already.
ap_ltr(a) ==
    /\ Goes(a, "ltr", IF tss = "busy" THEN "fault" ELSE "search")
    /\ tss' = "busy"
    /\ UNCHANGED <<bootVars, pages, found, stack, waitVars>>

\* alloc_pages: kmalloc looks for a free page,
ap_search(a) ==
    /\ Goes(a, "search", "mark")
    /\ found' = [found EXCEPT ![a] = pages]
    /\ UNCHANGED <<bootVars, tss, pages, stack, waitVars>>

\* and marks it.
ap_mark(a) ==
    /\ Goes(a, "mark", "timer")
    /\ pages' = found[a] + 1
    /\ stack' = [stack EXCEPT ![a] = found[a]]
    /\ UNCHANGED <<bootVars, tss, found, waitVars>>

\* init_lapic_timer calls pit_wait: the counter is set and the PIT unmasked.
pit_wait(a) ==
    /\ Goes(a, "timer", "wait")
    /\ counter' = Ms
    /\ masked' = FALSE
    /\ UNCHANGED <<bootVars, tss, pages, found, stack, isr>>

\* Variant: only zero ends the wait.
WaitOverAtZero == counter = 0

WaitOver == ~(counter > 0 /\ counter <= Ms)

\* One test of the loop in pit_wait; its end masks the PIT again.
pit_wait_test(a) ==
    /\ ap[a] = "wait"
    /\ ap' = [ap EXCEPT ![a] = IF WaitOver THEN "release" ELSE "wait"]
    /\ masked' = WaitOver
    /\ UNCHANGED <<bootVars, tss, pages, found, stack, counter, isr>>

\* spinlock_release, and halt with interrupts off.
ap_release(a) ==
    /\ Goes(a, "release", "halted")
    /\ lock' = FALSE
    /\ UNCHANGED <<bsp, i, tss, pages, found, stack, waitVars>>

ap_entry(a) ==
    \/ ap_gdt(a) \/ ap_ltr(a) \/ ap_search(a) \/ ap_mark(a)
    \/ pit_wait(a) \/ pit_wait_test(a) \/ ap_release(a)

-----------------------------------------------------------------------------
init_smp == acquire \/ start_ap \/ acquire_last \/ leave_smp

timer_isr == tick_load \/ pit_decrement_counter

Next ==
    \/ init_smp
    \/ timer_isr
    \/ \E a \in APs : ap_entry(a)

Spec == Init /\ [][Next]_vars

-----------------------------------------------------------------------------
APStates == {"parked", "gdt", "ltr", "search", "mark", "timer", "wait", "release",
             "halted", "fault"}

TypeOK ==
    /\ lock \in BOOLEAN /\ bsp \in {"loop", "start", "ready", "alone"} /\ i \in 1 .. N + 1
    /\ ap \in [APs -> APStates]
    /\ tss \in {"available", "busy"}
    /\ pages \in Nat /\ found \in [APs -> Nat] /\ stack \in [APs -> Nat]
    /\ counter \in 0 .. Wrapped /\ masked \in BOOLEAN /\ isr \in 0 .. Idle

\* The processor is inside its initialisation.
Busy(a) == ap[a] \notin {"parked", "halted"}

\* One processor initialises itself at a time, although the lock is released by
\* another processor than the one that took it; and when the bootstrap processor
\* goes on, all the others have halted.
OneAtATime ==
    /\ \A a, b \in APs : Busy(a) /\ Busy(b) => a = b
    /\ bsp \in {"ready", "alone"} => \A a \in APs : ap[a] = "halted"

\* No processor loads a TSS that another one has marked busy.
NoFault == \A a \in APs : ap[a] # "fault"

\* No two processors have their stack in the same page, although kmalloc searches
\* and marks without a lock.
OwnStacks ==
    \A a, b \in APs : stack[a] # 0 /\ stack[a] = stack[b] => a = b

\* The PIT is unmasked as long as a processor waits for its ticks: no processor
\* that is done masks it under one that is not.
WaitIsServed == \A a \in APs : ap[a] = "wait" => ~masked

\* What makes these invariants inductive.  The loop has passed exactly the
\* processors that were started; a processor inside its initialisation, and the
\* bootstrap processor between acquisition and start, keep the lock; a page that
\* was found is free until it is marked, and marked pages are never found.
HandOver ==
    /\ \A a \in APs : ap[a] = "parked" <=> a >= i
    /\ \A a \in APs : Busy(a) => lock /\ bsp = "loop"
    /\ bsp = "start" => lock /\ i <= N
    /\ \A a \in APs : ap[a] = "ltr" => tss = "available"
    /\ \A a \in APs : ap[a] = "mark" => found[a] = pages
    /\ pages > 0 /\ \A a \in APs : stack[a] < pages

IInv == TypeOK /\ OneAtATime /\ NoFault /\ OwnStacks /\ WaitIsServed /\ HandOver
=============================================================================
