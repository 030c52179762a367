----------------------------- MODULE BootProofs -----------------------------
(***************************************************************************)
(* Proofs about the boot: the hand-over of init_lock for every number of    *)
(* processors and every length of the wait; that this holds where _start    *)
(* calls init_smp; that every interrupt has its handler, on any machine;    *)
(* and that the loop over the MADT reads the table.                         *)
(***************************************************************************)
EXTENDS Boot, SequenceTheorems, WellFoundedInduction, TLAPS

USE DEF APs, APStates, Busy, Wrapped, Idle

LEMMA InitIInv == Init => IInv
<1> SUFFICES ASSUME Init PROVE IInv
  OBVIOUS
<1>1. TypeOK
  <2>1. /\ 1 \in 1 .. N + 1
        /\ 0 \in 0 .. Wrapped
        /\ Idle \in 0 .. Idle
    BY SmpAssumption
  <2>2. /\ i \in 1 .. N + 1 /\ counter \in 0 .. Wrapped /\ isr \in 0 .. Idle
    BY <2>1 DEF Init
  <2>3. /\ lock \in BOOLEAN /\ masked \in BOOLEAN
        /\ bsp \in {"loop", "start", "ready", "alone"}
        /\ tss \in {"available", "busy"}
    BY DEF Init
  <2>4. ap \in [APs -> APStates]
    BY DEF Init
  <2>5. pages \in Nat /\ found \in [APs -> Nat] /\ stack \in [APs -> Nat]
    BY SMT DEF Init
  <2> QED
    BY <2>2, <2>3, <2>4, <2>5 DEF TypeOK
<1>2. OneAtATime /\ NoFault /\ OwnStacks /\ WaitIsServed
  BY SmpAssumption DEF Init, OneAtATime, NoFault, OwnStacks, WaitIsServed
<1>3. HandOver
  BY SmpAssumption DEF Init, HandOver
<1> QED
  BY <1>1, <1>2, <1>3 DEF IInv

\* The bootstrap processor and its interrupts.
LEMMA BspStep ==
  ASSUME IInv, init_smp \/ timer_isr
  PROVE  IInv'
<1> USE SmpAssumption DEF IInv, TypeOK, bootVars, waitVars
<1>1. CASE acquire
  BY <1>1 DEF acquire, Bsp, OneAtATime, NoFault, OwnStacks, WaitIsServed, HandOver
<1>2. CASE start_ap
  BY <1>2 DEF start_ap, Bsp, OneAtATime, NoFault, OwnStacks, WaitIsServed, HandOver
<1>3. CASE acquire_last
  <2>1. \A a \in APs : ap[a] = "halted"
    BY <1>3 DEF acquire_last, Bsp, HandOver
  <2> QED
    BY <1>3, <2>1
    DEF acquire_last, Bsp, OneAtATime, NoFault, OwnStacks, WaitIsServed, HandOver
<1>4. CASE leave_smp
  BY <1>4 DEF leave_smp, Bsp, OneAtATime, NoFault, OwnStacks, WaitIsServed, HandOver
<1>5. CASE tick_load
  BY <1>5 DEF tick_load, OneAtATime, NoFault, OwnStacks, WaitIsServed, HandOver
<1>6. CASE pit_decrement_counter
  BY <1>6
  DEF pit_decrement_counter, Decrement, OneAtATime, NoFault, OwnStacks, WaitIsServed, HandOver
<1> QED
  BY <1>1, <1>2, <1>3, <1>4, <1>5, <1>6 DEF init_smp, timer_isr

\* One of the other processors.
LEMMA ApStep ==
  ASSUME IInv, NEW a \in APs, ap_entry(a)
  PROVE  IInv'
<1> USE SmpAssumption DEF IInv, TypeOK, bootVars, waitVars
<1>0. /\ Busy(a)
      /\ lock /\ bsp = "loop" /\ a < i
      /\ \A b \in APs \ {a} : ap[b] \in {"parked", "halted"}
  <2>1. Busy(a)
    BY DEF ap_entry, ap_gdt, ap_ltr, ap_search, ap_mark, pit_wait, pit_wait_test,
           ap_release, Goes
  <2> QED
    BY <2>1 DEF OneAtATime, HandOver
<1>1. CASE ap_gdt(a)
  BY <1>0, <1>1 DEF ap_gdt, Goes, OneAtATime, NoFault, OwnStacks, WaitIsServed, HandOver
<1>2. CASE ap_ltr(a)
  BY <1>0, <1>2 DEF ap_ltr, Goes, OneAtATime, NoFault, OwnStacks, WaitIsServed, HandOver
<1>3. CASE ap_search(a)
  BY <1>0, <1>3 DEF ap_search, Goes, OneAtATime, NoFault, OwnStacks, WaitIsServed, HandOver
<1>4. CASE ap_mark(a)
  <2>1. ap[a] = "mark" /\ found[a] = pages /\ pages' = pages + 1
    BY <1>4 DEF ap_mark, Goes, HandOver
  <2>2. stack' = [stack EXCEPT ![a] = pages]
    BY <1>4, <2>1 DEF ap_mark
  <2>3. OwnStacks'
    BY <2>2 DEF OwnStacks, HandOver
  <2>4. HandOver'
    BY <1>0, <1>4, <2>1, <2>2 DEF ap_mark, Goes, HandOver
  <2> QED
    BY <1>0, <1>4, <2>2, <2>3, <2>4 DEF ap_mark, Goes, OneAtATime, NoFault, WaitIsServed
<1>5. CASE pit_wait(a)
  <2>1. /\ ap[a] = "timer" /\ ap' = [ap EXCEPT ![a] = "wait"]
        /\ masked' = FALSE /\ counter' = Ms
        /\ UNCHANGED <<lock, bsp, i, tss, pages, found, stack, isr>>
    BY <1>5 DEF pit_wait, Goes
  <2>2. counter' \in 0 .. Wrapped
    BY <2>1
  <2>3. TypeOK'
    BY <2>1, <2>2
  <2>4. OneAtATime' /\ NoFault' /\ OwnStacks' /\ WaitIsServed'
    BY <1>0, <2>1 DEF OneAtATime, NoFault, OwnStacks, WaitIsServed
  <2>5. HandOver'
    BY <1>0, <2>1 DEF HandOver
  <2> QED
    BY <2>3, <2>4, <2>5
<1>6. CASE pit_wait_test(a)
  <2>1. CASE WaitOver
    <3>1. ap' = [ap EXCEPT ![a] = "release"] /\ masked' = TRUE
      BY <1>6, <2>1 DEF pit_wait_test
    <3> QED
      BY <1>0, <1>6, <3>1
      DEF pit_wait_test, OneAtATime, NoFault, OwnStacks, WaitIsServed, HandOver
  <2>2. CASE ~WaitOver
    <3>1. ap' = [ap EXCEPT ![a] = "wait"] /\ masked' = FALSE
      BY <1>6, <2>2 DEF pit_wait_test
    <3> QED
      BY <1>0, <1>6, <3>1
      DEF pit_wait_test, OneAtATime, NoFault, OwnStacks, WaitIsServed, HandOver
  <2> QED
    BY <2>1, <2>2
<1>7. CASE ap_release(a)
  BY <1>0, <1>7 DEF ap_release, Goes, OneAtATime, NoFault, OwnStacks, WaitIsServed, HandOver
<1> QED
  BY <1>1, <1>2, <1>3, <1>4, <1>5, <1>6, <1>7 DEF ap_entry

\* The inductive invariant of the start of the processors.
THEOREM BootInvariant == Spec => []IInv
<1>1. IInv /\ [Next]_vars => IInv'
  <2> SUFFICES ASSUME IInv, [Next]_vars PROVE IInv'
    OBVIOUS
  <2>1. CASE UNCHANGED vars
    BY <2>1 DEF vars, bootVars, waitVars, IInv, TypeOK, OneAtATime, NoFault, OwnStacks,
                WaitIsServed, HandOver
  <2> QED
    BY <2>1, BspStep, ApStep DEF Next
<1> QED
  BY <1>1, InitIInv, PTL DEF Spec

\* One processor initialises itself at a time, and the bootstrap processor goes on
\* when all have halted.
THEOREM Serialised == Spec => []OneAtATime
  BY BootInvariant, PTL DEF IInv

\* No ltr meets a busy TSS descriptor.
THEOREM NoBusyTSS == Spec => []NoFault
  BY BootInvariant, PTL DEF IInv

\* The unlocked kmalloc gives every processor a stack of its own.
THEOREM StacksDistinct == Spec => []OwnStacks
  BY BootInvariant, PTL DEF IInv

\* The PIT is unmasked while a processor waits for it.
THEOREM WaitServed == Spec => []WaitIsServed
  BY BootInvariant, PTL DEF IInv

-----------------------------------------------------------------------------
(* Interrupts and their handlers *)

EarlyStages == {"acpi", "apic"}
TableStages == {"madt", "gdt", "idt"}
LateStages  == {"pit", "timer", "wait", "syscalls", "smp", "tasks", "running"}

\* The registers are mapped before anything else uses them; nothing is redirected
\* before the IDT is there, and from then on only to vectors that it has.
HandlerInv ==
    /\ stage \in TableStages \union LateStages =>
           /\ <<"lapic", 0>> \in mapped
           /\ ioapic_device # 0 => <<"ioapic", ioapic_device>> \in mapped
    /\ stage \in EarlyStages => ioapic_device = 0
    /\ stage \notin LateStages => redirection = {}
    /\ \A r \in redirection : r.vec \in idt
    /\ stage \in LateStages => 40 \in idt
    /\ stage \in {"smp", "tasks", "running"} => 128 \in idt

\* _start begins with no table read and nothing redirected (entry.c:88-99).
LEMMA HandlerInit == BInit => HandlerInv
BY DEF BInit, HandlerInv, EarlyStages, TableStages, LateStages

\* map_ioapic adds one redirection, to the vector it is given (apic.c:35-66).
LEMMA Redirected ==
    ASSUME NEW vec, NEW irq, map_ioapic(vec, irq), NEW r \in redirection'
    PROVE  r \in redirection \/ r.vec = vec
BY DEF map_ioapic

\* Every step of the boot keeps the invariant.
LEMMA HandlerStep == HandlerInv /\ [BNext]_bvars => HandlerInv'
<1> SUFFICES ASSUME HandlerInv, [BNext]_bvars PROVE HandlerInv'
  OBVIOUS
<1> USE DEF HandlerInv, EarlyStages, TableStages, LateStages
<1>1. CASE init_acpi
  BY <1>1 DEF init_acpi, Goto, irqVars
<1>2. CASE init_apic
  BY <1>2 DEF init_apic, Goto
<1>3. CASE enumerate
  BY <1>3 DEF enumerate, irqVars
<1>4. CASE enumerate_astray
  BY <1>4 DEF enumerate_astray, Goto, tableVars, irqVars
<1>5. CASE enumerate_ends
  BY <1>5 DEF enumerate_ends, Goto, tableVars, irqVars
<1>6. CASE init_GDT
  BY <1>6 DEF init_GDT, Goto, tableVars, irqVars
<1>7. CASE init_IDT
  BY <1>7 DEF init_IDT, Goto, tableVars
<1>8. CASE init_PIT
  <2>1. map_ioapic(32, PitLine) /\ idt' = idt \union {32}
    BY <1>8 DEF init_PIT
  <2>2. \A r \in redirection' : r.vec \in idt'
    BY <2>1, Redirected
  <2> QED BY <1>8, <2>1, <2>2 DEF init_PIT, Goto, tableVars
<1>9. CASE init_lapic_timer
  BY <1>9 DEF init_lapic_timer, Goto, tableVars, irqVars
<1>10. CASE init_lapic_timer_ends
  BY <1>10 DEF init_lapic_timer_ends, Goto, tableVars
<1>11. CASE init_syscalls
  BY <1>11 DEF init_syscalls, Goto, tableVars
<1>12. CASE init_ps2_keyboard
  <2>1. map_ioapic(33, KeyLine) /\ idt' = idt \union {33}
    BY <1>12 DEF init_ps2_keyboard
  <2>2. \A r \in redirection' : r.vec \in idt'
    BY <2>1, Redirected
  <2> QED BY <1>12, <2>1, <2>2 DEF init_ps2_keyboard, Goto, tableVars
<1>13. CASE start_tasks
  BY <1>13 DEF start_tasks, Goto, tableVars, irqVars
<1>14. CASE pit_tick
  BY <1>14 DEF pit_tick, tableVars, irqVars
<1>15. ASSUME NEW step, InSmp(step) PROVE HandlerInv'
  BY <1>15 DEF InSmp, tableVars, irqVars
<1>16. CASE UNCHANGED bvars
  BY <1>16 DEF bvars, tableVars, irqVars
<1> QED
  BY <1>1, <1>2, <1>3, <1>4, <1>5, <1>6, <1>7, <1>8, <1>9, <1>10, <1>11, <1>12, <1>13,
     <1>14, <1>15, <1>16
  DEF BNext, _start

\* On every machine, whatever its tables say and whatever lies behind them, an
\* interrupt that comes while interrupts are on has its handler.
THEOREM HandlersReady == BSpec => []InterruptsHandled
<1>1. HandlerInv => InterruptsHandled
  <2> SUFFICES ASSUME HandlerInv PROVE InterruptsHandled
    OBVIOUS
  <2>1. \A line : Raised(line) \subseteq idt
    BY DEF HandlerInv, Raised
  <2> QED BY <2>1 DEF HandlerInv, InterruptsHandled, TableStages, LateStages
<1> QED BY <1>1, HandlerInit, HandlerStep, PTL DEF BSpec

-----------------------------------------------------------------------------
(* The other processors *)

\* No other processor runs before init_smp, nor after it.
BootInv ==
    /\ IInv
    /\ stage \notin {"smp", "tasks", "running"} =>
           bsp = "loop" /\ \A a \in APs : ap[a] = "parked"
    /\ stage \in {"tasks", "running"} => bsp = "alone"

\* As long as no processor initialises itself, the boot may set the TSS descriptor,
\* the counter and the mask as it likes.
LEMMA QuietStep ==
    ASSUME IInv, \A a \in APs : ~Busy(a),
           UNCHANGED <<bootVars, ap, pages, found, stack, isr>>,
           tss' \in {"available", "busy"}, counter' \in 0 .. Wrapped, masked' \in BOOLEAN
    PROVE  IInv'
<1> USE DEF IInv, bootVars
<1>1. \A a \in APs : ap[a] \in {"parked", "halted"}
  BY DEF Busy
<1>2. TypeOK'
  BY DEF TypeOK
<1>3. OneAtATime' /\ NoFault' /\ OwnStacks'
  BY DEF OneAtATime, NoFault, OwnStacks, Busy
<1>4. WaitIsServed'
  BY <1>1 DEF WaitIsServed
<1>5. HandOver'
  BY <1>1 DEF HandOver, Busy
<1> QED BY <1>2, <1>3, <1>4, <1>5

\* Every step of the boot keeps what SmpBoot relies on.
LEMMA BootStep == BootInv /\ [BNext]_bvars => BootInv'
<1> SUFFICES ASSUME BootInv, [BNext]_bvars PROVE BootInv'
  OBVIOUS
<1> USE DEF BootInv
<1>1. ASSUME UNCHANGED vars PROVE IInv'
  BY <1>1 DEF vars, bootVars, waitVars, IInv, TypeOK, OneAtATime, NoFault, OwnStacks,
     WaitIsServed, HandOver, Busy
<1>2. counter \in 0 .. Wrapped /\ tss \in {"available", "busy"} /\ masked \in BOOLEAN
  BY DEF IInv, TypeOK
<1>3. Ms \in 0 .. Wrapped
  BY SmpAssumption DEF Wrapped
<1>4. stage # "smp" => \A a \in APs : ~Busy(a)
  BY DEF IInv, OneAtATime, Busy
<1>5. CASE init_acpi \/ init_apic \/ enumerate \/ enumerate_astray \/ enumerate_ends \/ init_IDT
  BY <1>5, <1>1 DEF init_acpi, init_apic, enumerate, enumerate_astray, enumerate_ends, init_IDT,
     Goto, vars, bootVars
<1>6. CASE init_GDT
  BY <1>6, <1>2, <1>4, QuietStep DEF init_GDT, Goto, bootVars, waitVars
<1>7. CASE init_PIT
  BY <1>7, <1>2, <1>4, QuietStep DEF init_PIT, Goto, bootVars
<1>8. CASE init_lapic_timer
  BY <1>8, <1>2, <1>3, <1>4, QuietStep DEF init_lapic_timer, Goto, bootVars
<1>9. CASE init_lapic_timer_ends
  BY <1>9, <1>2, <1>4, QuietStep DEF init_lapic_timer_ends, Goto, bootVars
<1>10. CASE init_syscalls
  BY <1>10, <1>1 DEF init_syscalls, Goto, vars, bootVars
<1>11. CASE init_ps2_keyboard
  BY <1>11, <1>1 DEF init_ps2_keyboard, Goto, vars, bootVars
<1>12. CASE start_tasks
  BY <1>12, <1>2, <1>4, QuietStep DEF start_tasks, Goto, bootVars
<1>13. CASE pit_tick
  <2>1. IInv'
    BY <1>13, BspStep DEF pit_tick
  <2>2. UNCHANGED <<bsp, ap, stage>>
    BY <1>13 DEF pit_tick, timer_isr, tick_load, pit_decrement_counter, bootVars
  <2> QED BY <2>1, <2>2
<1>14. CASE InSmp(init_smp)
  BY <1>14, BspStep DEF InSmp
<1>15. CASE InSmp(timer_isr)
  BY <1>15, BspStep DEF InSmp
<1>16. ASSUME NEW a \in APs, InSmp(ap_entry(a)) PROVE BootInv'
  BY <1>16, ApStep DEF InSmp
<1>17. CASE UNCHANGED bvars
  BY <1>17, <1>1 DEF bvars, vars, bootVars
<1> QED
  BY <1>5, <1>6, <1>7, <1>8, <1>9, <1>10, <1>11, <1>12, <1>13, <1>14, <1>15, <1>16, <1>17
  DEF BNext, _start

\* In the whole boot, with the wait of the bootstrap processor before: one processor
\* initialises itself at a time, with a free TSS descriptor and a stack of its own.
THEOREM ProcessorsApart == BSpec => [](OneAtATime /\ NoFault /\ OwnStacks)
<1>1. BInit => BootInv
  <2> SUFFICES ASSUME BInit PROVE BootInv
    OBVIOUS
  <2>1. IInv
    BY InitIInv DEF BInit
  <2> QED BY <2>1 DEF BInit, Init, BootInv
<1>2. BootInv => OneAtATime /\ NoFault /\ OwnStacks
  BY DEF BootInv, IInv
<1> QED BY <1>1, <1>2, BootStep, PTL DEF BSpec

-----------------------------------------------------------------------------
(* Induction: the library's well-foundedness of < on the naturals, for sets *)

LEMMA Least ==
  ASSUME NEW T, T \subseteq Nat, T # {}
  PROVE  \E x \in T : \A y \in T : x <= y
<1> DEFINE R == OpToRel(<, Nat)
<1>1. IsWellFoundedOn(R, Nat)
  BY NatLessThanWellFounded
<1>2. \A x, y \in Nat : x < y => <<x, y>> \in R
  BY DEF OpToRel
<1> HIDE DEF R
<1>3. \E x \in T : \A y \in T : ~ (<<y, x>> \in R)
  BY <1>1, WFMin
<1>4. PICK x \in T : \A y \in T : ~ (<<y, x>> \in R)
  BY <1>3
<1>5. \A y \in T : ~(y < x) /\ x \in Nat /\ y \in Nat
  BY <1>2, <1>4
<1>6. \A y \in T : x <= y
  BY <1>5
<1> QED
  BY <1>6

LEMMA Induction ==
  ASSUME NEW T, 0 \in T, \A n \in Nat : n \in T => n + 1 \in T
  PROVE  Nat \subseteq T
<1> SUFFICES ASSUME Nat \ T # {} PROVE FALSE
  OBVIOUS
<1>1. PICK x \in Nat \ T : \A y \in Nat \ T : x <= y
  BY Least
<1>2. x # 0 /\ x - 1 \in Nat /\ (x - 1) + 1 = x
  OBVIOUS
<1>3. x - 1 \in T
  BY <1>1, <1>2
<1> QED
  BY <1>2, <1>3

-----------------------------------------------------------------------------
(* The loop over the MADT *)

\* The sums that LengthOf is defined with, of the first k lengths.
Sums(entries) ==
    CHOOSE sum : sum = [k \in 0 .. Len(entries) |->
                          IF k = 0 THEN 0 ELSE sum[k - 1] + entries[k].length]

LEMMA LengthIsSum == ASSUME NEW entries PROVE LengthOf(entries) = Sums(entries)[Len(entries)]
  BY DEF LengthOf, Sums

\* The sums exist, so they are what their equation says.
LEMMA SumsEquation ==
  ASSUME NEW entries, Len(entries) \in Nat
  PROVE  Sums(entries) = [k \in 0 .. Len(entries) |->
                            IF k = 0 THEN 0 ELSE Sums(entries)[k - 1] + entries[k].length]
<1> DEFINE T == {n \in Nat : \E s : s = [k \in 0 .. n |->
                                          IF k = 0 THEN 0 ELSE s[k - 1] + entries[k].length]}
<1>1. 0 \in T
  <2> DEFINE s == [k \in 0 .. 0 |-> 0]
  <2>1. s = [k \in 0 .. 0 |-> IF k = 0 THEN 0 ELSE s[k - 1] + entries[k].length]
    OBVIOUS
  <2> QED
    BY <2>1
<1>2. ASSUME NEW n \in Nat, n \in T PROVE n + 1 \in T
  <2>1. PICK s : s = [k \in 0 .. n |-> IF k = 0 THEN 0 ELSE s[k - 1] + entries[k].length]
    BY <1>2
  <2> DEFINE t == [k \in 0 .. n + 1 |->
                     IF k <= n THEN s[k] ELSE s[n] + entries[n + 1].length]
  <2>2. ASSUME NEW k \in 0 .. n + 1
        PROVE  t[k] = IF k = 0 THEN 0 ELSE t[k - 1] + entries[k].length
    <3>1. CASE k = 0
      BY <2>1, <3>1
    <3>2. CASE k # 0 /\ k <= n
      <4>1. k - 1 \in 0 .. n /\ k \in 0 .. n
        BY <3>2
      <4>2. t[k] = s[k] /\ t[k - 1] = s[k - 1]
        BY <4>1, <3>2
      <4>3. s[k] = s[k - 1] + entries[k].length
        BY <2>1, <3>2, <4>1
      <4> QED
        BY <3>2, <4>2, <4>3
    <3>3. CASE k = n + 1
      <4>1. t[k] = s[n] + entries[k].length /\ t[n] = s[n] /\ k - 1 = n /\ k # 0
        BY <3>3
      <4> QED
        BY <4>1
    <3> QED
      BY <3>1, <3>2, <3>3
  <2>3. t = [k \in 0 .. n + 1 |-> IF k = 0 THEN 0 ELSE t[k - 1] + entries[k].length]
    BY <2>2
  <2> HIDE DEF t
  <2> QED
    BY <2>3
<1> HIDE DEF T
<1>3. Len(entries) \in T
  BY <1>1, <1>2, Induction
<1> QED
  BY <1>3 DEF T, Sums

\* A table: its entries have lengths above zero.
IsTable(entries) ==
    Len(entries) \in Nat /\ \A k \in 1 .. Len(entries) : entries[k].length \in Nat \ {0}

LEMMA SumsType ==
  ASSUME NEW entries, IsTable(entries)
  PROVE  /\ Sums(entries)[0] = 0
         /\ \A k \in 0 .. Len(entries) : Sums(entries)[k] \in Nat
         /\ \A k \in 1 .. Len(entries) :
              Sums(entries)[k] = Sums(entries)[k - 1] + entries[k].length
<1> DEFINE S == Sums(entries)
           T == {n \in Nat : n <= Len(entries) => S[n] \in Nat}
<1>0. Len(entries) \in Nat
  BY DEF IsTable
<1>1. S = [k \in 0 .. Len(entries) |-> IF k = 0 THEN 0 ELSE S[k - 1] + entries[k].length]
  BY <1>0, SumsEquation
<1> HIDE DEF S
<1>2. S[0] = 0
  BY <1>0, <1>1
<1>3. \A k \in 1 .. Len(entries) : S[k] = S[k - 1] + entries[k].length
  BY <1>0, <1>1
<1>4. ASSUME NEW n \in Nat, n \in T PROVE n + 1 \in T
  <2>1. CASE n + 1 <= Len(entries)
    <3>1. n + 1 \in 1 .. Len(entries) /\ (n + 1) - 1 = n /\ S[n] \in Nat
      BY <1>0, <1>4, <2>1
    <3>2. S[n + 1] = S[n] + entries[n + 1].length /\ entries[n + 1].length \in Nat
      BY <1>3, <3>1 DEF IsTable
    <3> QED
      BY <3>1, <3>2
  <2> QED
    BY <2>1
<1>5. 0 \in T
  BY <1>2
<1> HIDE DEF T
<1>6. Nat \subseteq T
  BY <1>4, <1>5, Induction
<1>7. \A k \in 0 .. Len(entries) : S[k] \in Nat
  BY <1>0, <1>6 DEF T
<1> QED
  BY <1>2, <1>3, <1>7 DEF S

\* The sum of a part of the table is less than that of the table.
LEMMA SumsGrow ==
  ASSUME NEW entries, IsTable(entries), NEW k \in 0 .. Len(entries)
  PROVE  Sums(entries)[k] <= Sums(entries)[Len(entries)]
<1> DEFINE S == Sums(entries)
           T == {n \in Nat : k + n <= Len(entries) => S[k] <= S[k + n]}
<1>0. Len(entries) \in Nat /\ k \in Nat
  BY DEF IsTable
<1>1. /\ \A m \in 0 .. Len(entries) : S[m] \in Nat
      /\ \A m \in 1 .. Len(entries) : S[m] = S[m - 1] + entries[m].length
  BY SumsType
<1> HIDE DEF S
<1>2. 0 \in T
  BY <1>0, <1>1
<1>3. ASSUME NEW n \in Nat, n \in T PROVE n + 1 \in T
  <2>1. CASE k + (n + 1) <= Len(entries)
    <3>1. /\ k + (n + 1) \in 1 .. Len(entries) /\ k + (n + 1) - 1 = k + n
          /\ k + n \in 0 .. Len(entries) /\ S[k] <= S[k + n]
      BY <1>0, <1>3, <2>1
    <3>2. S[k + (n + 1)] = S[k + n] + entries[k + (n + 1)].length
      BY <1>1, <3>1
    <3>3. entries[k + (n + 1)].length \in Nat
      BY <3>1 DEF IsTable
    <3>4. S[k] \in Nat /\ S[k + n] \in Nat
      BY <1>1, <3>1
    <3> QED
      BY <3>1, <3>2, <3>3, <3>4
  <2> QED
    BY <2>1
<1> HIDE DEF T
<1>4. Len(entries) - k \in T
  BY <1>0, <1>2, <1>3, Induction
<1>5. k + (Len(entries) - k) = Len(entries) /\ Len(entries) <= Len(entries)
  BY <1>0
<1> QED
  BY <1>4, <1>5 DEF T, S

\* What the kernel may rely on of a machine's tables.
LEMMA MachineType ==
  ASSUME machine \in Machines
  PROVE  /\ IsTable(machine.madt) /\ DOMAIN machine.madt = 1 .. Len(machine.madt)
         /\ Len(machine.behind) \in Nat \ {0} /\ machine.behind[1].length \in Nat
         /\ Len(Memory) = Len(machine.madt) + Len(machine.behind)
         /\ \A k \in 1 .. Len(machine.madt) : Memory[k] = machine.madt[k]
         /\ Memory[Len(machine.madt) + 1] = machine.behind[1]
<1> DEFINE E == [type : EntryTypes, length : Nat, base : Nat]
           F == [type : EntryTypes, length : Nat \ {0}, base : Nat]
           madt == machine.madt
           behind == machine.behind
<1>0. \A e \in F : e \in E /\ e.length \in Nat \ {0}
  OBVIOUS
<1>1. /\ madt \in Seq(F)
      /\ behind \in Seq(E) /\ behind # <<>>
  BY MachinesAssumption DEF Machine
<1> HIDE DEF madt, behind, E, F
<1>2. \A k \in 1 .. Len(madt) : madt[k] \in E /\ madt[k].length \in Nat \ {0}
  BY <1>0, <1>1
<1>3. madt \in Seq(E) /\ Len(madt) \in Nat /\ DOMAIN madt = 1 .. Len(madt)
  BY <1>1, <1>2
<1>4. Len(behind) \in Nat \ {0} /\ behind[1] \in E
  BY <1>1, EmptySeq
<1>5. /\ Len(madt \o behind) = Len(madt) + Len(behind)
      /\ \A k \in 1 .. Len(madt) + Len(behind) :
           (madt \o behind)[k] = IF k <= Len(madt) THEN madt[k] ELSE behind[k - Len(madt)]
  BY <1>1, <1>3, ConcatProperties
<1>6. \A k \in 1 .. Len(madt) : (madt \o behind)[k] = madt[k]
  BY <1>3, <1>4, <1>5
<1>7. /\ Len(madt) + 1 \in 1 .. Len(madt) + Len(behind) /\ ~(Len(madt) + 1 <= Len(madt))
      /\ Len(madt) + 1 - Len(madt) = 1
  BY <1>3, <1>4
<1>8. (madt \o behind)[Len(madt) + 1] = behind[1]
  BY <1>5, <1>7
<1>9. Memory = madt \o behind
  BY DEF Memory, madt, behind
<1>10. behind[1].length \in Nat
  BY <1>4 DEF E
<1> QED
  BY <1>2, <1>3, <1>4, <1>5, <1>6, <1>8, <1>9, <1>10 DEF IsTable, madt, behind

\* The loop counts the lengths of the entries from the second on, and behind the
\* table that of what lies there; it has registered the last I/O APIC so far.
Counted ==
    IF Len(machine.madt) = 0 THEN HeaderSize
    ELSE IF entry <= Len(machine.madt)
    THEN HeaderSize + Sums(machine.madt)[entry] - machine.madt[1].length
    ELSE HeaderSize + Sums(machine.madt)[Len(machine.madt)] - machine.madt[1].length
           + machine.behind[1].length

Registered ==
    /\ ioapic_device # 0 =>
         ioapic_device \in 1 .. entry - 1 /\ machine.madt[ioapic_device].type = "IOAPIC"
    /\ \A k \in 1 .. entry - 1 : machine.madt[k].type = "IOAPIC" => k <= ioapic_device

Progress ==
    /\ entry \in 1 .. Len(machine.madt) + 1
    /\ incremented = Counted
    /\ ioapic_device \in Nat /\ Registered

TableInv ==
    /\ machine \in Machines
    /\ stage \in EarlyStages => entry = 1 /\ incremented = HeaderSize /\ ioapic_device = 0
    /\ stage \in EarlyStages \union {"madt"} /\ Stops => Progress
    /\ stage \notin EarlyStages \union {"madt", "halted", "astray"} /\ Stops =>
         entry = Len(machine.madt) + 1 /\ ioapic_device \in Nat /\ Registered

\* While entries of the table are left the loop goes on, and then it ends.
LEMMA LoopBound ==
  ASSUME machine \in Machines, Stops, Progress
  PROVE  InTable <=> entry <= Len(machine.madt)
<1> DEFINE L == Len(machine.madt)
           S == Sums(machine.madt)
           m == machine.madt[1].length
           b == machine.behind[1].length
<1>1. /\ IsTable(machine.madt) /\ L \in Nat /\ b \in Nat
  BY MachineType DEF IsTable
<1>2. InTable <=> incremented < HeaderSize + S[L]
  BY LengthIsSum DEF InTable
<1>3. CASE L = 0
  <2>1. S[0] = 0
    BY <1>1, SumsType
  <2>2. entry = 1
    BY <1>3 DEF Progress
  <2> QED
    BY <1>2, <1>3, <2>1, <2>2 DEF Progress, Counted, HeaderSize
<1>4. CASE L # 0 /\ entry <= L
  <2>1. entry \in 1 .. L /\ entry \in 0 .. L /\ 1 \in 1 .. L
    BY <1>1, <1>4 DEF Progress
  <2>2. m \in Nat /\ m > 0
    BY <1>1, <2>1 DEF IsTable
  <2>3. S[entry] \in Nat /\ S[L] \in Nat /\ S[entry] <= S[L]
    BY <1>1, <2>1, SumsType, SumsGrow
  <2>4. incremented = HeaderSize + S[entry] - m
    BY <1>4 DEF Progress, Counted
  <2> HIDE DEF S, m, L
  <2> QED
    BY <1>2, <1>4, <2>2, <2>3, <2>4 DEF HeaderSize, L
<1>5. CASE L # 0 /\ entry > L
  <2>1. 1 \in 1 .. L /\ L \in 0 .. L
    BY <1>1, <1>5
  <2>2. m \in Nat
    BY <1>1, <2>1 DEF IsTable
  <2>3. S[L] \in Nat
    BY <1>1, <2>1, SumsType
  <2>4. incremented = HeaderSize + S[L] - m + b /\ entry \in Nat
    BY <1>1, <1>5 DEF Progress, Counted
  <2>5. b >= m
    BY DEF Stops
  <2> HIDE DEF S, m, L, b
  <2> QED
    BY <1>1, <1>2, <1>5, <2>2, <2>3, <2>4, <2>5 DEF HeaderSize, L
<1> QED
  BY <1>1, <1>3, <1>4, <1>5 DEF Progress

LEMMA EnumerateStep ==
  ASSUME machine \in Machines, Stops, Progress, enumerate
  PROVE  Progress'
<1> DEFINE L == Len(machine.madt)
           S == Sums(machine.madt)
<1>0. /\ IsTable(machine.madt) /\ L \in Nat /\ machine' = machine
      /\ \A k \in 1 .. L : Memory[k] = machine.madt[k]
      /\ Memory[L + 1] = machine.behind[1]
  BY MachineType DEF IsTable, enumerate
<1>1. entry \in 1 .. L
  BY <1>0, LoopBound DEF enumerate, Progress
<1>2. Memory[entry] = machine.madt[entry] /\ machine.madt[entry].length \in Nat \ {0}
  BY <1>0, <1>1 DEF IsTable
<1>3. entry' = entry + 1 /\ incremented' = incremented + Memory[entry + 1].length
  BY <1>2 DEF enumerate
<1>4. /\ 1 \in 1 .. L /\ L # 0
      /\ entry \in 0 .. L /\ S[entry] \in Nat /\ machine.madt[1].length \in Nat
      /\ incremented = HeaderSize + S[entry] - machine.madt[1].length
  <2>1. 1 \in 1 .. L /\ L # 0 /\ entry \in 0 .. L
    BY <1>0, <1>1
  <2>2. S[entry] \in Nat /\ machine.madt[1].length \in Nat
    BY <1>0, <2>1, SumsType DEF IsTable
  <2> QED
    BY <1>0, <1>1, <2>1, <2>2 DEF Progress, Counted
<1>5. incremented' = Counted'
  <2>1. CASE entry + 1 <= L
    <3>1. entry + 1 \in 1 .. L /\ (entry + 1) - 1 = entry
      BY <1>0, <1>1, <2>1
    <3>2. S[entry + 1] = S[entry] + machine.madt[entry + 1].length
      BY <1>0, <3>1, SumsType
    <3>3. machine.madt[entry + 1].length \in Nat /\ Memory[entry + 1] = machine.madt[entry + 1]
      BY <1>0, <3>1 DEF IsTable
    <3>4. Counted' = HeaderSize + S[entry + 1] - machine.madt[1].length
      BY <1>0, <1>3, <1>4, <2>1 DEF Counted
    <3> HIDE DEF S
    <3> QED
      BY <1>3, <1>4, <3>2, <3>3, <3>4 DEF HeaderSize
  <2>2. CASE entry = L
    <3>1. Memory[entry + 1] = machine.behind[1] /\ machine.behind[1].length \in Nat
      BY <1>0, <2>2, MachineType
    <3>2. Counted' = HeaderSize + S[L] - machine.madt[1].length + machine.behind[1].length
      BY <1>0, <1>3, <1>4, <2>2 DEF Counted
    <3> HIDE DEF S
    <3> QED
      BY <1>3, <1>4, <2>2, <3>1, <3>2 DEF HeaderSize
  <2> QED
    BY <1>0, <1>1, <2>1, <2>2
<1>6. ioapic_device' \in Nat /\ Registered'
  <2>0. entry' - 1 = entry /\ entry \in Nat
    BY <1>0, <1>1, <1>3
  <2>1. CASE machine.madt[entry].type = "IOAPIC"
    <3>1. ioapic_device' = entry
      BY <1>2, <2>1 DEF enumerate
    <3> QED
      BY <1>0, <1>1, <2>0, <2>1, <3>1 DEF Registered
  <2>2. CASE machine.madt[entry].type # "IOAPIC"
    <3>1. ioapic_device' = ioapic_device
      BY <1>2, <2>2 DEF enumerate
    <3> QED
      BY <1>0, <1>1, <2>0, <2>2, <3>1 DEF Registered, Progress
  <2> QED
    BY <2>1, <2>2
<1>7. entry' \in 1 .. Len(machine'.madt) + 1
  BY <1>0, <1>1, <1>3
<1> QED
  BY <1>5, <1>6, <1>7 DEF Progress

LEMMA TableInit == BInit => TableInv
<1> SUFFICES ASSUME BInit PROVE TableInv
  OBVIOUS
<1>1. /\ machine \in Machines /\ stage = "acpi"
      /\ entry = 1 /\ incremented = HeaderSize /\ ioapic_device = 0
  BY DEF BInit
<1>2. IsTable(machine.madt) /\ Len(machine.madt) \in Nat
  BY <1>1, MachineType DEF IsTable
<1>3. incremented = Counted
  <2>1. CASE Len(machine.madt) = 0
    BY <1>1, <2>1 DEF Counted
  <2>2. CASE Len(machine.madt) # 0
    <3>1. 1 \in 1 .. Len(machine.madt) /\ 1 - 1 = 0
      BY <1>2, <2>2
    <3>2. /\ Sums(machine.madt)[1] = 0 + machine.madt[1].length
          /\ machine.madt[1].length \in Nat
      BY <1>2, <3>1, SumsType DEF IsTable
    <3>3. Counted = HeaderSize + Sums(machine.madt)[1] - machine.madt[1].length
      BY <1>1, <1>2, <2>2, <3>1 DEF Counted
    <3> QED
      BY <1>1, <3>2, <3>3 DEF HeaderSize
  <2> QED
    BY <2>1, <2>2
<1>4. Progress
  BY <1>1, <1>2, <1>3 DEF Progress, Registered
<1> QED
  BY <1>1, <1>4 DEF TableInv, EarlyStages

LEMMA TableStep == TableInv /\ [BNext]_bvars => TableInv'
<1> SUFFICES ASSUME TableInv, [BNext]_bvars PROVE TableInv'
  OBVIOUS
<1> DEFINE Done == /\ entry = Len(machine.madt) + 1
                   /\ ioapic_device \in Nat /\ Registered
<1>1. ASSUME UNCHANGED <<machine, entry, incremented, ioapic_device>>
      PROVE  /\ machine' \in Machines /\ (Stops' <=> Stops) /\ (Progress' <=> Progress)
             /\ Done' <=> Done
             /\ entry' = entry /\ incremented' = incremented /\ ioapic_device' = ioapic_device
  BY <1>1 DEF TableInv, Stops, Progress, Counted, Registered
<1>2. CASE init_acpi \/ init_apic
  <2>1. /\ stage \in EarlyStages /\ stage' \in EarlyStages \union {"madt", "halted", "astray"}
        /\ UNCHANGED <<machine, entry, incremented, ioapic_device>>
    BY <1>2 DEF init_acpi, init_apic, Goto, EarlyStages
  <2> HIDE DEF Done
  <2> QED
    BY <1>1, <2>1 DEF TableInv, EarlyStages
<1>3. CASE enumerate
  <2>1. stage = "madt" /\ stage' = "madt" /\ machine' = machine
    BY <1>3 DEF enumerate
  <2>2. Stops' => Progress'
    BY <1>3, <2>1, EnumerateStep DEF TableInv, Stops
  <2> QED
    BY <2>1, <2>2 DEF TableInv, EarlyStages
<1>4. CASE enumerate_astray
  BY <1>4, <1>1 DEF enumerate_astray, Goto, tableVars, TableInv, EarlyStages
<1>5. CASE enumerate_ends
  <2>1. /\ stage = "madt" /\ stage' = "gdt" /\ ~InTable
        /\ UNCHANGED <<machine, entry, incremented, ioapic_device>>
    BY <1>5 DEF enumerate_ends, Goto, tableVars
  <2>2. ASSUME Stops PROVE Done
    <3>1. machine \in Machines /\ Progress
      BY <2>1, <2>2 DEF TableInv
    <3>2. ~(entry <= Len(machine.madt)) /\ Len(machine.madt) \in Nat
      BY <2>1, <2>2, <3>1, LoopBound, MachineType DEF IsTable
    <3> QED
      BY <3>1, <3>2 DEF Progress
  <2> QED
    BY <1>1, <2>1, <2>2 DEF TableInv, EarlyStages
<1>6. ASSUME UNCHANGED <<machine, entry, incremented, ioapic_device>>,
             stage \notin EarlyStages \union {"madt", "halted", "astray"},
             stage' \notin EarlyStages \union {"madt", "halted", "astray"}
      PROVE  TableInv'
  BY <1>1, <1>6 DEF TableInv, EarlyStages
<1>7. CASE init_GDT \/ init_IDT \/ init_PIT \/ init_lapic_timer \/ init_lapic_timer_ends
           \/ init_syscalls \/ init_ps2_keyboard \/ start_tasks \/ pit_tick
  BY <1>6, <1>7
  DEF init_GDT, init_IDT, init_PIT, init_lapic_timer, init_lapic_timer_ends, init_syscalls,
      init_ps2_keyboard, start_tasks, pit_tick, Goto, tableVars, EarlyStages
<1>8. ASSUME NEW step, InSmp(step) PROVE TableInv'
  BY <1>6, <1>8 DEF InSmp, tableVars, EarlyStages
<1>9. CASE UNCHANGED bvars
  BY <1>1, <1>9 DEF bvars, tableVars, TableInv
<1> QED
  BY <1>2, <1>3, <1>4, <1>5, <1>7, <1>8, <1>9 DEF BNext, _start

\* On every machine whose table is followed by something as long as its first entry
\* the loop reads exactly the table, although it adds the length of the wrong entry,
\* and the kernel goes on with the last I/O APIC.
THEOREM TableRead == BSpec => []TableEnumerated
<1>1. TableInv => TableEnumerated
  <2> SUFFICES ASSUME TableInv PROVE TableEnumerated
    OBVIOUS
  <2>1. stage = "madt" /\ Stops /\ InTable => entry <= Len(machine.madt)
    BY LoopBound DEF TableInv
  <2>2. ASSUME stage \notin {"acpi", "apic", "madt", "halted", "astray"}, Stops
        PROVE  entry = Len(machine.madt) + 1 /\ ioapic_device = LastIoapic
    <3> DEFINE io == {k \in DOMAIN machine.madt : machine.madt[k].type = "IOAPIC"}
    <3>1. /\ entry = Len(machine.madt) + 1 /\ ioapic_device \in Nat /\ Registered
          /\ machine \in Machines
      BY <2>2 DEF TableInv, EarlyStages
    <3>2. DOMAIN machine.madt = 1 .. entry - 1 /\ Len(machine.madt) \in Nat
      BY <3>1, MachineType DEF IsTable
    <3>3. CASE ioapic_device = 0
      <4>1. io = {}
        BY <3>1, <3>2, <3>3 DEF Registered
      <4> QED
        BY <3>1, <3>3, <4>1 DEF LastIoapic
    <3>4. CASE ioapic_device # 0
      <4>1. ioapic_device \in io /\ \A j \in io : j <= ioapic_device /\ j \in Nat
        BY <3>1, <3>2, <3>4 DEF Registered
      <4> HIDE DEF io
      <4>2. ASSUME NEW k \in io, \A j \in io : j <= k PROVE k = ioapic_device
        <5>1. ioapic_device <= k /\ k <= ioapic_device /\ k \in Nat
          BY <4>1, <4>2
        <5> QED
          BY <3>1, <5>1
      <4>3. (CHOOSE k \in io : \A j \in io : j <= k) = ioapic_device
        BY <4>1, <4>2
      <4>4. io # {}
        BY <4>1
      <4> QED
        BY <3>1, <4>3, <4>4 DEF LastIoapic, io
    <3> QED
      BY <3>3, <3>4
  <2> QED
    BY <2>1, <2>2 DEF TableEnumerated
<1> QED
  BY <1>1, TableInit, TableStep, PTL DEF BSpec
=============================================================================
