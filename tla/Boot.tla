-------------------------------- MODULE Boot --------------------------------
(***************************************************************************)
(* The boot sequence of _start (kernel/entry.c) around SmpBoot: the tables  *)
(* of the firmware (drivers/acpi.c), the enumeration of the MADT and the    *)
(* redirection of interrupts (drivers/apic.c), the descriptor tables, the   *)
(* PIT and the first wait for it, the other processors, the keyboard.       *)
(*                                                                         *)
(* What the machine is like is chosen at the start: every entry of a table  *)
(* counts with its length in bytes, and so does what lies in memory behind  *)
(* the MADT, for the loop over its entries may read it.                     *)
(***************************************************************************)
EXTENDS SmpBoot, Sequences, FiniteSets

CONSTANT Machines     \* the machines to boot on

HeaderSize == 44      \* sizeof(MADT)
Pins       == 24      \* lines of an I/O APIC
PitLine    == 2       \* IRQ 0 is wired to line 2
KeyLine    == 1

\* MADTEntryHeader with what the kernel uses of IOApic.
Entry(type, length, base) == [type |-> type, length |-> length, base |-> base]
EntryTypes == {"LOCAL_APIC", "IOAPIC", "other"}

Machine == [revision : Nat, apic : BOOLEAN, rsdt : Seq(STRING),
            madt : Seq([type : EntryTypes, length : Nat \ {0}, base : Nat]),
            behind : Seq([type : EntryTypes, length : Nat, base : Nat])]

ASSUME MachinesAssumption ==
    Machines \subseteq Machine /\ \A m \in Machines : m.behind # <<>>

VARIABLES
    machine,       \* the machine, which never changes
    stage,         \* the initialiser that is next
    entry,         \* the position of the loop over the MADT
    incremented,   \* its sum of lengths
    ioapic_device, \* the entry that was registered, 0 for none
    redirection,   \* what was written to registers of I/O APICs
    idt,           \* the vectors that have a handler
    lapics,        \* what was started: the local APIC and its timer
    mapped         \* what was mapped into the kernel's page tree

tableVars == <<machine, entry, incremented, ioapic_device, mapped>>
irqVars   == <<redirection, idt, lapics>>
bvars     == <<vars, stage, tableVars, irqVars>>

BInit ==
    /\ Init
    /\ machine \in Machines
    /\ stage = "acpi" /\ entry = 1 /\ incremented = HeaderSize /\ ioapic_device = 0
    /\ redirection = {} /\ idt = {} /\ lapics = {} /\ mapped = {}

Goto(from, to) == stage = from /\ stage' = to

-----------------------------------------------------------------------------
(* The tables of the firmware *)

\* Only the RSDT of revision 0 is supported.
init_acpi ==
    /\ Goto("acpi", IF machine.revision # 0 THEN "halted" ELSE "apic")
    /\ mapped' = {<<"rsdp", 0>>} \union (IF machine.revision # 0 THEN {} ELSE {<<"rsdt", 0>>})
    /\ UNCHANGED <<vars, machine, entry, incremented, ioapic_device, irqVars>>

\* Without a table of that name the function ends without a result: any address.
find_MADT == \E k \in DOMAIN machine.rsdt : machine.rsdt[k] = "APIC"

\* verify_apic, find_MADT and init_local_apic.
init_apic ==
    /\ Goto("apic", IF ~machine.apic THEN "halted" ELSE IF ~find_MADT THEN "astray" ELSE "madt")
    /\ IF machine.apic /\ find_MADT
       THEN lapics' = {"enabled"} /\ mapped' = mapped \union {<<"lapic", 0>>}
       ELSE UNCHANGED <<lapics, mapped>>
    /\ UNCHANGED <<vars, machine, entry, incremented, ioapic_device, redirection, idt>>

\* The entries in memory, from the first of the table on.
Memory == machine.madt \o machine.behind

LengthOf(entries) ==
    LET sum[k \in 0 .. Len(entries)] == IF k = 0 THEN 0 ELSE sum[k - 1] + entries[k].length
    IN  sum[Len(entries)]

\* Variant: the loop takes one more entry when the sum is equal.
InTable_longer == incremented <= HeaderSize + LengthOf(machine.madt)

InTable == incremented < HeaderSize + LengthOf(machine.madt)

\* The position is advanced first: what is added is the length of the next entry.
\* A length of zero leaves the loop at its place for ever.
enumerate ==
    /\ stage = "madt" /\ InTable /\ entry < Len(Memory)
    /\ IF Memory[entry].type = "IOAPIC"
       THEN ioapic_device' = entry /\ mapped' = mapped \union {<<"ioapic", entry>>}
       ELSE UNCHANGED <<ioapic_device, mapped>>
    /\ entry' = IF Memory[entry].length = 0 THEN entry ELSE entry + 1
    /\ incremented' = incremented + Memory[entry'].length
    /\ UNCHANGED <<vars, machine, stage, irqVars>>

\* Memory of which nothing is known.
enumerate_astray ==
    /\ Goto("madt", "astray") /\ InTable /\ entry = Len(Memory)
    /\ UNCHANGED <<vars, tableVars, irqVars>>

enumerate_ends ==
    /\ Goto("madt", "gdt") /\ ~InTable
    /\ UNCHANGED <<vars, tableVars, irqVars>>

-----------------------------------------------------------------------------
(* The descriptor tables and the redirection of interrupts *)

\* After init_TSS; ltr marks the TSS descriptor busy.
init_GDT ==
    /\ Goto("gdt", "idt")
    /\ tss' = "busy"
    /\ UNCHANGED <<bootVars, ap, pages, found, stack, waitVars, tableVars, irqVars>>

\* The exceptions, the timer of the local APIC and the spurious interrupt.
init_IDT ==
    /\ Goto("idt", "pit")
    /\ idt' = ((0 .. 20) \ {2, 15}) \union {40, 255}
    /\ UNCHANGED <<vars, tableVars, redirection, lapics>>

\* The register of a line: the base is added, and not subtracted and doubled.
EntryNum(irq) == (IF ioapic_device = 0 THEN 0 ELSE Memory[ioapic_device].base) + irq * 2

\* The vector of the line is written and the line unmasked.
map_ioapic(vec, irq) ==
    redirection' = {r \in redirection : r.reg # EntryNum(irq)}
                   \union {[io |-> ioapic_device, reg |-> EntryNum(irq), vec |-> vec]}

\* set_IDT_entry, map_ioapic, lock_pit.
init_PIT ==
    /\ Goto("pit", "timer")
    /\ idt' = idt \union {32}
    /\ map_ioapic(32, PitLine)
    /\ masked' = TRUE
    /\ UNCHANGED <<bootVars, ap, tss, pages, found, stack, counter, isr, tableVars, lapics>>

\* The vector that a line of the machine raises: the I/O APIC that has the line
\* looks into the register of the line's number there, less its base.
Raised(line) ==
    {r.vec : r \in {r \in redirection :
        /\ r.io \in DOMAIN machine.madt
        /\ LET base == machine.madt[r.io].base IN
           line \in base .. base + Pins - 1 /\ r.reg = 2 * (line - base)}}

\* init_lapic_timer: the timer runs down while pit_wait enables interrupts.
init_lapic_timer ==
    /\ Goto("timer", "wait")
    /\ counter' = Ms
    /\ masked' = FALSE
    /\ UNCHANGED <<bootVars, ap, tss, pages, found, stack, isr, tableVars, irqVars>>

\* A tick of the PIT before there is another timer.
pit_tick ==
    /\ stage = "wait" /\ 32 \in Raised(PitLine) /\ "enabled" \in lapics
    /\ timer_isr
    /\ UNCHANGED <<stage, tableVars, irqVars>>

\* The wait is over: the timer of the local APIC is set going.
init_lapic_timer_ends ==
    /\ Goto("wait", "syscalls")
    /\ WaitOver /\ isr = Idle
    /\ masked' = TRUE
    /\ lapics' = lapics \union {"timer"}
    /\ UNCHANGED <<bootVars, ap, tss, pages, found, stack, counter, isr, tableVars, redirection, idt>>

\* And enable_interrupts.
init_syscalls ==
    /\ Goto("syscalls", "smp")
    /\ idt' = idt \union {128}
    /\ UNCHANGED <<vars, tableVars, redirection, lapics>>

\* Variant: the line is mapped and its vector has no handler.
init_ps2_keyboard_unhandled ==
    /\ Goto("smp", "tasks") /\ bsp = "alone"
    /\ map_ioapic(33, KeyLine)
    /\ UNCHANGED <<vars, tableVars, idt, lapics>>

\* Interrupts are off again.
init_ps2_keyboard ==
    /\ Goto("smp", "tasks") /\ bsp = "alone"
    /\ idt' = idt \union {33}
    /\ map_ioapic(33, KeyLine)
    /\ UNCHANGED <<vars, tableVars, lapics>>

\* The rest of _start: lock_pit, unlock_lapic_timer and enable_interrupts.
start_tasks ==
    /\ Goto("tasks", "running")
    /\ masked' = TRUE
    /\ UNCHANGED <<bootVars, ap, tss, pages, found, stack, counter, isr, tableVars, irqVars>>

-----------------------------------------------------------------------------
_start ==
    \/ init_acpi \/ init_apic \/ enumerate \/ enumerate_astray \/ enumerate_ends
    \/ init_GDT \/ init_IDT \/ init_PIT \/ init_lapic_timer \/ init_lapic_timer_ends
    \/ init_syscalls \/ init_ps2_keyboard \/ start_tasks

\* The steps of SmpBoot, once _start has come to them.
InSmp(step) == stage = "smp" /\ step /\ UNCHANGED <<stage, tableVars, irqVars>>

BNext ==
    \/ _start
    \/ pit_tick
    \/ InSmp(init_smp)
    \/ InSmp(timer_isr)
    \/ \E a \in APs : InSmp(ap_entry(a))

\* Every processor executes, the handler runs to its end, the PIT ticks as long as
\* it is unmasked and the timer of the local APIC from then on.  The bootstrap
\* processor goes on between two ticks; when it spins it retries for ever, and
\* nobody else takes the lock in between.
BSpec ==
    /\ BInit /\ [][BNext]_bvars
    /\ SF_bvars(_start) /\ WF_bvars(pit_tick)
    /\ SF_bvars(InSmp(init_smp)) /\ WF_bvars(InSmp(timer_isr))
    /\ \A a \in APs : WF_bvars(InSmp(ap_entry(a)))

-----------------------------------------------------------------------------
(* Properties *)

\* What lies behind the table is at least as long as the table's first entry: in
\* text, say the name of the next table, a length is above 32.
Stops == machine.behind[1].length >= machine.madt[1].length

LastIoapic ==
    LET io == {k \in DOMAIN machine.madt : machine.madt[k].type = "IOAPIC"}
    IN  IF io = {} THEN 0 ELSE CHOOSE k \in io : \A j \in io : j <= k

\* Although the loop over the MADT adds the length of the wrong entry, it reads all
\* entries of the table, no other one, and registers the last I/O APIC, provided
\* that what lies behind is long enough (apic.c:176-197).
TableEnumerated ==
    /\ stage = "madt" /\ Stops /\ InTable => entry <= Len(machine.madt)
    /\ stage \notin {"acpi", "apic", "madt", "halted", "astray"} /\ Stops =>
           entry = Len(machine.madt) + 1 /\ ioapic_device = LastIoapic

\* Every interrupt that may come while interrupts are on has its handler in the
\* IDT, whatever the registers were that map_ioapic has really written: a vector
\* without a handler is a gate that is not present in the cleared page of the IDT, and
\* its interrupt a panic.  The registers that handlers and pit_wait use are mapped.
InterruptsHandled ==
    /\ stage \in {"wait", "smp", "running"} =>
           {<<"lapic", 0>>} \union ({<<"ioapic", ioapic_device>>} \ {<<"ioapic", 0>>}) \subseteq mapped
    /\ stage = "wait" => Raised(PitLine) \subseteq idt
    /\ stage = "smp" => 40 \in idt /\ (~masked => Raised(PitLine) \subseteq idt)
    /\ stage = "running" => {40, 128} \union Raised(KeyLine) \subseteq idt

\* A machine this kernel is made for: its last I/O APIC begins at line 0.
Supported ==
    /\ machine.revision = 0 /\ machine.apic /\ find_MADT /\ Stops
    /\ LastIoapic # 0 /\ machine.madt[LastIoapic].base = 0

\* On such a machine _start comes to its end: all processors are started, and the
\* wait of each one ends, whether the handler's ticks come one by one, in bursts
\* that skip zero, or overwrite the counter that was just set.
BootGoesOn == Supported => <>(stage = "running")
=============================================================================
