------------------------------- MODULE MCPaging -------------------------------
(***************************************************************************)
(* Page trees of three levels of six entries in a memory that does not last *)
(* for all that may be asked of it.                                         *)
(***************************************************************************)
EXTENDS Paging

Section(base, pages, usable) == [base |-> base, pages |-> pages, usable |-> usable]

\* A section too small for one byte of bitmap, a reserved section between usable
\* ones, and adjacent sections whose last page is never used.
MixedMap ==
    <<Section(0, 2, TRUE), Section(2, 3, FALSE), Section(5, 17, TRUE),
      Section(22, 24, TRUE), Section(48, 18, TRUE)>>

\* The read-only part and the rest of the image, in the last page table but one.
KernelImageDef == <<[v |-> 204, page |-> 2, n |-> 1], [v |-> 205, page |-> 3, n |-> 2]>>

ApicsDef == <<68, 69>>

Elf(endianness, class, machine_type) ==
    [magic |-> TRUE, endianness |-> endianness, class |-> class, machine_type |-> machine_type]

Segment(loadable, offset, v, file, mem) ==
    [loadable |-> loadable, offset |-> offset, v |-> v, file |-> file, mem |-> mem]

\* A program with its data first and its text below, in one page with the data, and
\* bytes that are not in the file; one with nothing to load; and others that are
\* refused.
ProgramsDef ==
    <<[id |-> Elf(1, 2, 62),
       headers |-> <<Segment(FALSE, 0, 20, 1, 1), Segment(TRUE, 4, 7, 2, 2), Segment(TRUE, 1, 4, 2, 3)>>],
      [id |-> Elf(1, 2, 62), headers |-> <<Segment(FALSE, 0, 0, 0, 0)>>],
      [id |-> Elf(1, 1, 62), headers |-> <<Segment(TRUE, 0, 2, 2, 2)>>],
      [id |-> Elf(1, 2, 3), headers |-> <<Segment(TRUE, 0, 2, 2, 2)>>]>>

\* The programs are linked as the theorem about their images supposes.
ASSUME LayoutAssumption == Layout
=============================================================================
