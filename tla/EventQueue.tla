----------------------------- MODULE EventQueue -----------------------------
(***************************************************************************)
(* What an event queue promises a user program that is calm, that is, has   *)
(* never peeked at an event and never had two events pending: every event   *)
(* that is added is delivered exactly once, in the order in which the       *)
(* events were added.  Nothing is promised from the first misuse on.        *)
(***************************************************************************)
EXTENDS Sequences

CONSTANT Event

VARIABLES
    pending,     \* events added and not delivered yet, oldest first
    delivered,   \* events the program has taken, in order
    calm         \* no misuse so far

qvars == <<pending, delivered, calm>>

QInit == pending = <<>> /\ delivered = <<>> /\ calm = TRUE

Add(e) ==
    /\ pending' = Append(pending, e)
    /\ UNCHANGED <<delivered, calm>>

Take ==
    /\ pending # <<>>
    /\ delivered' = Append(delivered, Head(pending))
    /\ pending' = Tail(pending)
    /\ UNCHANGED calm

Misuse == calm' = FALSE

QNext == Take \/ (\E e \in Event : Add(e)) \/ Misuse

QSpec == QInit /\ [][QNext]_qvars
=============================================================================
