-------------------------------- MODULE MCPMM --------------------------------
(***************************************************************************)
(* A memory map for PMM, with bitmap bytes of two bits and bitmap pages of  *)
(* sixteen.                                                                 *)
(***************************************************************************)
EXTENDS PMM

Section(base, pages, usable) == [base |-> base, pages |-> pages, usable |-> usable]

\* A section that needs a second page of bitmap, after one that is soon full.
LargeMap == <<Section(0, 5, TRUE), Section(5, 17, TRUE)>>
=============================================================================
