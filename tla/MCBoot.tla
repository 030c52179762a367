-------------------------------- MODULE MCBoot --------------------------------
(***************************************************************************)
(* Machines with one and two I/O APICs, in both orders, with a table that   *)
(* begins with its longest and with its shortest entry, and with text, a    *)
(* zero, a short entry and a stray I/O APIC behind it; and machines that    *)
(* the kernel gives up on.                                                  *)
(***************************************************************************)
EXTENDS Boot

Cpu      == Entry("LOCAL_APIC", 8, 0)
Io(base) == Entry("IOAPIC", 12, base)
Override == Entry("other", 10, 0)
Text     == Entry("other", 80, 0)

Made(revision, apic, rsdt, madt, behind) ==
    [revision |-> revision, apic |-> apic, rsdt |-> rsdt, madt |-> madt, behind |-> behind]

Usual(madt, behind) == Made(0, TRUE, <<"FACP", "APIC">>, madt, behind)

MachinesDef == {
    Usual(<<Cpu, Cpu, Io(0), Override>>, <<Text>>),
    Usual(<<Cpu, Io(0), Override>>, <<Entry("other", 8, 0), Text>>),
    Usual(<<Io(0), Cpu>>, <<Entry("other", 4, 0), Entry("IOAPIC", 9, 7), Text>>),
    Usual(<<Cpu, Io(24), Io(0)>>, <<Text>>),
    Usual(<<Cpu, Io(0), Io(24)>>, <<Text>>),
    Usual(<<Cpu, Override>>, <<Text>>),
    Usual(<<Cpu, Io(0)>>, <<Entry("other", 0, 0), Text>>),
    Usual(<<Cpu, Io(0)>>, <<Entry("other", 2, 0)>>),
    Made(2, TRUE, <<"FACP", "APIC">>, <<Cpu, Io(0)>>, <<Text>>),
    Made(0, FALSE, <<"APIC">>, <<Cpu, Io(0)>>, <<Text>>),
    Made(0, TRUE, <<"FACP">>, <<Cpu, Io(0)>>, <<Text>>)}
=============================================================================
