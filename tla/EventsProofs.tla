---------------------------- MODULE EventsProofs ----------------------------
(***************************************************************************)
(* For every number of events and of heap cells: the chain of an event      *)
(* queue always covers its length; and a program that is calm gets what     *)
(* EventQueue promises.                                                     *)
(***************************************************************************)
EXTENDS Events, TLAPS

\* Taking out one node leaves a chain one shorter, of the same cells.
LEMMA UnlinkType ==
  ASSUME NEW S, NEW s \in Seq(S), NEW i \in 1 .. Len(s)
  PROVE  Unlink(s, i) \in Seq(S) /\ Len(Unlink(s, i)) = Len(s) - 1
  BY DEF Unlink

\* What vector_pop does to a chain that covers the length.
LEMMA PopType ==
  ASSUME NEW S, NEW v \in [nodes : Seq(S), length : Nat],
         v.length # 0, v.length <= Len(v.nodes)
  PROVE  LET w == vector_pop(v, v.length - 1)
         IN  /\ w \in [nodes : Seq(S), length : Nat]
             /\ w.length = v.length - 1
             /\ w.length <= Len(w.nodes)
<1> DEFINE n == v.nodes
           k == v.length
           w == vector_pop(v, k - 1)
<1>1. n \in Seq(S) /\ k \in Nat /\ k # 0 /\ k <= Len(n) /\ Len(n) \in Nat
  OBVIOUS
<1>2. CASE k = 1
  <2>1. w = [length |-> k - 1, nodes |-> Tail(n)]
    BY <1>1, <1>2 DEF vector_pop
  <2>2. n # <<>> /\ Tail(n) \in Seq(S) /\ Len(Tail(n)) = Len(n) - 1
    BY <1>1
  <2> QED
    BY <1>1, <1>2, <2>1, <2>2
<1>3. CASE k # 1 /\ k < Len(n)
  <2>1. w = [length |-> k - 1, nodes |-> Unlink(n, k + 1)]
    BY <1>1, <1>3 DEF vector_pop
  <2>2. Unlink(n, k + 1) \in Seq(S) /\ Len(Unlink(n, k + 1)) = Len(n) - 1
    BY <1>1, <1>3, UnlinkType
  <2> QED
    BY <1>1, <1>3, <2>1, <2>2
<1>4. CASE k # 1 /\ k = Len(n)
  <2>1. w = [length |-> k - 1, nodes |-> n]
    BY <1>1, <1>4 DEF vector_pop
  <2> QED
    BY <1>1, <1>4, <2>1
<1> QED
  BY <1>1, <1>2, <1>3, <1>4

\* What poll and peek look at is a cell, when something is pending.
LEMMA NewestIsCell ==
  ASSUME TypeOK, ChainCoversLength, queue.length # 0
  PROVE  Newest \in Cells /\ Newest = queue.nodes[queue.length]
<1>1. queue.nodes \in Seq(Cells) /\ queue.length \in Nat /\ queue.length \in 1 .. Len(queue.nodes)
  BY DEF TypeOK, ChainCoversLength
<1>2. Newest = queue.nodes[queue.length]
  BY <1>1 DEF Newest, vector_at
<1> QED
  BY <1>1, <1>2

Inv == TypeOK /\ ChainCoversLength

LEMMA InvNext == Inv /\ [Next]_vars => Inv'
<1> SUFFICES ASSUME Inv, [Next]_vars PROVE Inv'
  OBVIOUS
<1> USE EventsAssumption
<1>1. ASSUME NEW e \in Event, add_event(e) PROVE Inv'
  <2>1. PICK c \in Cells : /\ allocated' = allocated \union {c}
                           /\ data' = [data EXCEPT ![c] = e]
                           /\ queue' = vector_push(queue, c)
    BY <1>1 DEF add_event
  <2>2. /\ queue'.nodes = Append(queue.nodes, c) /\ queue'.length = queue.length + 1
        /\ queue' \in [nodes : Seq(Cells), length : Nat]
    BY <2>1 DEF vector_push, Inv, TypeOK
  <2> QED
    BY <1>1, <2>1, <2>2 DEF add_event, Inv, TypeOK, ChainCoversLength
<1>2. CASE NothingPending
  BY <1>2 DEF NothingPending, Inv, TypeOK, ChainCoversLength
<1>3. CASE /\ queue.length # 0
           /\ got' = Append(got, data[Newest])
           /\ queue' = vector_pop(queue, queue.length - 1)
           /\ allocated' = allocated \ {Newest}
           /\ UNCHANGED <<data, toAdd, calm>>
  <2>1. /\ queue' \in [nodes : Seq(Cells), length : Nat]
        /\ queue'.length <= Len(queue'.nodes)
    BY <1>3, PopType DEF Inv, TypeOK, ChainCoversLength
  <2>2. data[Newest] \in Event \union {NoEvent}
    BY <1>3, NewestIsCell DEF Inv, TypeOK
  <2> QED
    BY <1>3, <2>1, <2>2 DEF Inv, TypeOK, ChainCoversLength
<1>4. CASE syscall_peek /\ ~NothingPending
  BY <1>4 DEF syscall_peek, Inv, TypeOK, ChainCoversLength
<1>5. CASE UNCHANGED vars
  BY <1>5 DEF vars, Inv, TypeOK, ChainCoversLength
<1> QED
  BY <1>1, <1>2, <1>3, <1>4, <1>5 DEF Next, syscall_poll, syscall_peek

\* The types, and with them that no walk along the chain runs off its end,
\* calm or not.
THEOREM ChainTheorem == Spec => [](TypeOK /\ ChainCoversLength)
<1>1. Init => Inv
  BY DEF Init, Inv, TypeOK, ChainCoversLength, new_vector
<1> QED
  BY <1>1, InvNext, PTL DEF Spec, Inv

-----------------------------------------------------------------------------
(* While the program is calm *)

\* One event at most is pending, and the queued cells hold events.
CalmInv ==
    /\ Inv /\ CellsLive
    /\ calm => /\ queue.length \in {0, 1}
               /\ \A c \in allocated : data[c] \in Event

LEMMA CalmInit == Init => CalmInv
  BY DEF Init, CalmInv, Inv, TypeOK, ChainCoversLength, CellsLive, new_vector

\* The only pending event and its cell.
LEMMA Only ==
  ASSUME CalmInv, calm
  PROVE  /\ queue.length = 0 => queue.nodes = <<>> /\ allocated = {} /\ Pending = <<>>
         /\ queue.length = 1 => /\ queue.nodes = <<queue.nodes[1]>>
                                /\ allocated = {queue.nodes[1]}
                                /\ Newest = queue.nodes[1]
                                /\ Pending = <<data[queue.nodes[1]]>>
<1>1. queue.nodes \in Seq(Cells) /\ Len(queue.nodes) = queue.length
  BY DEF CalmInv, Inv, TypeOK, CellsLive
<1>2. ASSUME queue.length = 0
      PROVE  queue.nodes = <<>> /\ allocated = {} /\ Pending = <<>>
  BY <1>1, <1>2 DEF CalmInv, CellsLive, Pending
<1>3. ASSUME queue.length = 1
      PROVE  /\ queue.nodes = <<queue.nodes[1]>>
             /\ allocated = {queue.nodes[1]}
             /\ Newest = queue.nodes[1]
             /\ Pending = <<data[queue.nodes[1]]>>
  <2>1. queue.nodes = <<queue.nodes[1]>>
    BY <1>1, <1>3
  <2>2. allocated = {queue.nodes[1]}
    BY <1>1, <1>3 DEF CalmInv, CellsLive
  <2>3. Newest = queue.nodes[1]
    BY <1>3 DEF Newest, vector_at
  <2>4. Pending = <<data[queue.nodes[1]]>>
    BY <1>1, <1>3 DEF Pending
  <2> QED
    BY <2>1, <2>2, <2>3, <2>4
<1> QED
  BY <1>2, <1>3

\* A step after which the program is no longer calm may do anything.
LEMMA Misused ==
  ASSUME CalmInv, [Next]_vars, calm' = FALSE
  PROVE  CalmInv' /\ Q!QNext
<1>1. Inv'
  BY InvNext DEF CalmInv
<1> QED
  BY <1>1 DEF CalmInv, CellsLive, Q!QNext, Q!Misuse

\* Every step keeps CalmInv and is a step, or a stutter, of the promise.
LEMMA CalmNext ==
  ASSUME CalmInv, [Next]_vars
  PROVE  CalmInv' /\ [Q!QNext]_<<Pending, got, calm>>
<1>0. Inv'
  BY InvNext DEF CalmInv
<1>1. ASSUME NEW e \in Event, add_event(e), calm' = TRUE
      PROVE  CalmInv' /\ Q!QNext
  <2>1. queue.length = 0 /\ calm = TRUE
    BY <1>1 DEF add_event, CalmInv, Inv, TypeOK
  <2>2. queue.nodes = <<>> /\ allocated = {} /\ Pending = <<>>
    BY <2>1, Only
  <2>3. PICK c \in Cells : /\ allocated' = {c}
                           /\ data' = [data EXCEPT ![c] = e]
                           /\ queue' = [nodes |-> <<c>>, length |-> 1]
    <3>1. PICK c \in Cells : /\ allocated' = allocated \union {c}
                             /\ data' = [data EXCEPT ![c] = e]
                             /\ queue' = vector_push(queue, c)
      BY <1>1 DEF add_event
    <3>2. Append(<<>>, c) = <<c>> /\ 0 + 1 = 1 /\ {} \union {c} = {c}
      OBVIOUS
    <3>3. vector_push(queue, c) = [nodes |-> <<c>>, length |-> 1]
      BY <2>1, <2>2, <3>2 DEF vector_push
    <3> QED
      BY <2>2, <3>1, <3>2, <3>3
  <2>4. data'[c] = e
    BY <2>3 DEF CalmInv, Inv, TypeOK
  <2>5. CalmInv'
    BY <1>0, <2>3, <2>4 DEF CalmInv, CellsLive
  <2>6. Pending' = <<e>>
    BY <2>3, <2>4 DEF Pending
  <2>7. Q!Add(e)
    BY <1>1, <2>1, <2>2, <2>6 DEF Q!Add, add_event
  <2> QED
    BY <2>5, <2>7 DEF Q!QNext
<1>2. CASE NothingPending
  <2>1. queue.length = 0 /\ UNCHANGED <<queue, allocated, got, calm>>
    BY <1>2 DEF NothingPending
  <2>2. CalmInv'
    BY <1>0, <2>1, Only DEF CalmInv, CellsLive
  <2>3. Pending' = Pending
    BY <2>1 DEF Pending
  <2> QED
    BY <2>1, <2>2, <2>3
<1>3. CASE syscall_poll /\ ~NothingPending /\ calm' = TRUE
  <2>0. /\ queue.length # 0
        /\ got' = Append(got, data[Newest])
        /\ queue' = vector_pop(queue, queue.length - 1)
        /\ allocated' = allocated \ {Newest}
        /\ UNCHANGED <<data, calm>>
    BY <1>3 DEF syscall_poll
  <2>1. queue.length = 1 /\ calm = TRUE /\ queue' = vector_pop(queue, 0)
    <3>1. calm = TRUE
      BY <1>3, <2>0
    <3>2. queue.length = 1
      BY <2>0, <3>1 DEF CalmInv
    <3> QED
      BY <2>0, <3>1, <3>2
  <2>2. /\ queue.nodes = <<queue.nodes[1]>> /\ allocated = {queue.nodes[1]}
        /\ Newest = queue.nodes[1] /\ Pending = <<data[queue.nodes[1]]>>
    BY <2>1, Only
  <2>3. queue'.length = 0 /\ queue'.nodes = <<>> /\ allocated' = {}
    <3>1. queue.nodes \in Seq(Cells) /\ Len(queue.nodes) = 1
      BY <2>1 DEF CalmInv, Inv, TypeOK, CellsLive
    <3>2. queue.nodes # <<>>
      <4>1. \A t \in Seq(Cells) : Len(t) = 1 => t # <<>>
        OBVIOUS
      <4> QED
        BY <3>1, <4>1, Zenon
    <3>3. Tail(queue.nodes) \in Seq(Cells) /\ Len(Tail(queue.nodes)) = 0
      BY <3>1, <3>2
    <3>4. \A t \in Seq(Cells) : Len(t) = 0 => t = <<>>
      OBVIOUS
    <3>5. Tail(queue.nodes) = <<>>
      BY <3>3, <3>4, Zenon
    <3>6. queue' = [length |-> 0, nodes |-> Tail(queue.nodes)]
      BY <2>1 DEF vector_pop
    <3> QED
      BY <2>0, <2>2, <3>5, <3>6
  <2>4. CalmInv'
    BY <1>0, <2>3 DEF CalmInv, CellsLive
  <2>5. Pending' = <<>>
    BY <2>3 DEF Pending
  <2>6. Q!Take
    BY <2>0, <2>2, <2>5 DEF Q!Take
  <2> QED
    BY <2>4, <2>6 DEF Q!QNext
<1>4. CASE calm' = FALSE
  BY <1>4, Misused
<1>5. CASE UNCHANGED vars
  BY <1>5 DEF vars, CalmInv, Inv, TypeOK, ChainCoversLength, CellsLive, Pending
<1>6. calm' = TRUE \/ calm' = FALSE
  BY <1>0 DEF Inv, TypeOK
<1>7. syscall_peek => NothingPending \/ calm' = FALSE
  BY DEF syscall_peek
<1> QED
  BY <1>1, <1>2, <1>3, <1>4, <1>5, <1>6, <1>7 DEF Next

\* While the program is calm no freed cell is ever read or freed again by poll,
\* and no event leaks.
THEOREM CellsTheorem == Spec => []CellsLive
<1>1. CalmInv /\ [Next]_vars => CalmInv'
  BY CalmNext
<1> QED
  BY <1>1, CalmInit, PTL DEF Spec, CalmInv

\* The queue implements EventQueue: a calm program receives every event exactly
\* once and in order.
THEOREM PromiseTheorem == Spec => QueuePromise
<1>1. CalmInv /\ [Next]_vars => CalmInv' /\ [Q!QNext]_(Q!qvars)
  BY CalmNext DEF Q!qvars
<1>2. Init => Q!QInit
  <2>1. Init => Pending = <<>>
    BY DEF Init, Pending, new_vector
  <2> QED
    BY <2>1 DEF Q!QInit, Init
<1> QED
  BY <1>1, <1>2, CalmInit, PTL DEF Spec, QueuePromise, Q!QSpec
=============================================================================
