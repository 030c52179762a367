---------------------------- MODULE AddressSpaces ----------------------------
(***************************************************************************)
(* What map_pages and alloc_pages promise: address spaces, each a function  *)
(* from virtual to physical pages, kept as a set of mappings.  The call     *)
(* under way maps the virtual pages of its range one after the other;       *)
(* nothing else changes, in its own address space or another.               *)
(***************************************************************************)
EXTENDS Naturals

VARIABLES
    maps,    \* the mappings: records of space, v, page, user
    at       \* the call under way: op, space, v, page, user, and n pages left

Before(m) == m.space = at.space /\ m.v = at.v

\* map_pages maps to the pages it was given, alloc_pages to any.
MapNext ==
    /\ at.op \in {"map", "alloc"} /\ at.n > 0
    /\ \E m \in maps' :
           /\ m.space = at.space /\ m.v = at.v /\ m.user = at.user
           /\ at.op = "map" => m.page = at.page
           /\ maps' = {k \in maps : ~Before(k)} \union {m}
    /\ at.n > 1 => /\ at'.op = at.op /\ at'.space = at.space /\ at'.user = at.user
                   /\ at'.v = at.v + 1 /\ at'.n = at.n - 1
                   /\ at.op = "map" => at'.page = at.page + 1

Spec == maps = {} /\ [][MapNext]_maps
=============================================================================
