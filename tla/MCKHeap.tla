------------------------------- MODULE MCKHeap -------------------------------
(***************************************************************************)
(* Requests for model checking KHeap with a three-byte header and           *)
(* eight-byte pages, where a request of five bytes fills its page exactly.  *)
(***************************************************************************)
EXTENDS KHeap

\* Requests written exactly, strings written with their terminator one past the
\* end (vfs.c, ustar.c), and create_task's copy of the working directory, two past.
AllRequests == [size : {1, 5}, over : {0}] \union [size : {2}, over : {1, 2}]
=============================================================================
