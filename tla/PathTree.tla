------------------------------- MODULE PathTree -------------------------------
(***************************************************************************)
(* What the file system promises: a set of paths, each of a directory, a    *)
(* file or a device.  A path that exists stays, and stays what it is; a new  *)
(* one is made in a directory that exists, under a name it does not have.   *)
(* The promise is off once something was created through `.` or `..`.       *)
(***************************************************************************)
EXTENDS Naturals, Sequences, SequencesExt

VARIABLES tree, calm

Kinds == {"dir", "file", "device"}

Known == {e.path : e \in tree}

Init == tree = {} /\ calm = TRUE

Mount ==
    /\ calm /\ calm'
    /\ \E e \in tree' \ tree :
           /\ Len(e.path) = 1 /\ e.kind = "dir"
           /\ e.path \notin Known
           /\ tree' = tree \union {e}

Create ==
    /\ calm /\ calm'
    /\ \E e \in tree' \ tree :
           /\ Len(e.path) > 1 /\ e.kind \in Kinds
           /\ e.path \notin Known
           /\ [path |-> Front(e.path), kind |-> "dir"] \in tree
           /\ tree' = tree \union {e}

\* Something is created through `.` or `..`, or was before.
Unpromised == calm' = FALSE

Next == Mount \/ Create \/ Unpromised

Spec == Init /\ [][Next]_<<tree, calm>>
=============================================================================
