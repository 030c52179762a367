------------------------------- MODULE Events -------------------------------
(***************************************************************************)
(* One task's event queue: tasks/events.c and the poll and peek system      *)
(* calls of tasks/syscalls.c, over Vector and over the heap cells that hold *)
(* the events.  Each operation runs with interrupts off and is one step.    *)
(*                                                                         *)
(* A cell that is freed keeps its contents until malloc hands it out again; *)
(* which free cell malloc picks is left open.                               *)
(***************************************************************************)
EXTENDS Vector

CONSTANTS
    Event,        \* the events the kernel will add, each once
    NoEvent,      \* an Event with do_handle = false
    Cells         \* bound: heap cells of the size of an Event

ASSUME EventsAssumption == NoEvent \notin Event

VARIABLES
    queue,       \* the Vector of cells
    data,        \* contents of each cell
    allocated,   \* cells that malloc has handed out
    toAdd,       \* events not added yet
    got,         \* the events the program has received from poll, in order
    calm         \* history: no event was peeked at and no two were pending

vars == <<queue, data, allocated, toAdd, got, calm>>

\* new_event_queue
Init ==
    /\ queue = new_vector
    /\ data = [c \in Cells |-> NoEvent]
    /\ allocated = {}
    /\ toAdd = Event
    /\ got = <<>>
    /\ calm = TRUE

\* Variant: the address is pushed and the event never written to it.
add_event_unwritten(e) ==
    /\ e \in toAdd
    /\ \E c \in Cells \ allocated :
         /\ allocated' = allocated \union {c}
         /\ queue' = vector_push(queue, c)
    /\ toAdd' = toAdd \ {e}
    /\ calm' = (calm /\ queue.length = 0)
    /\ UNCHANGED <<data, got>>

\* The exit of a child: add_event allocates the event and pushes its address.
add_event(e) ==
    /\ e \in toAdd
    /\ \E c \in Cells \ allocated :
         /\ allocated' = allocated \union {c}
         /\ data' = [data EXCEPT ![c] = e]
         /\ queue' = vector_push(queue, c)
    /\ toAdd' = toAdd \ {e}
    /\ calm' = (calm /\ queue.length = 0)
    /\ UNCHANGED got

\* The temporary do_handle = false event of an empty queue, allocated and freed
\* within the system call.
NothingPending ==
    /\ queue.length = 0
    /\ \E c \in Cells \ allocated : data' = [data EXCEPT ![c] = NoEvent]
    /\ UNCHANGED <<queue, allocated, toAdd, got, calm>>

\* The event that poll and peek look at: the newest by length.
Newest == vector_at(queue, queue.length - 1)

\* Variant: the event is not freed after it was copied out.
syscall_poll_leaks ==
    \/ NothingPending
    \/ /\ queue.length # 0
       /\ got' = Append(got, data[Newest])
       /\ queue' = vector_pop(queue, queue.length - 1)
       /\ UNCHANGED <<data, toAdd, allocated, calm>>

\* poll pops the event; the system call copies it to the program and frees it.
syscall_poll ==
    \/ NothingPending
    \/ /\ queue.length # 0
       /\ got' = Append(got, data[Newest])
       /\ queue' = vector_pop(queue, queue.length - 1)
       /\ allocated' = allocated \ {Newest}
       /\ UNCHANGED <<data, toAdd, calm>>

\* peek leaves the event queued; the system call copies it and frees it too.
syscall_peek ==
    \/ NothingPending
    \/ /\ queue.length # 0
       /\ allocated' = allocated \ {Newest}
       /\ calm' = FALSE
       /\ UNCHANGED <<queue, data, toAdd, got>>

Next ==
    \/ \E e \in Event : add_event(e)
    \/ syscall_poll
    \/ syscall_peek

Spec == Init /\ [][Next]_vars

-----------------------------------------------------------------------------
TypeOK ==
    /\ queue \in [nodes : Seq(Cells), length : Nat]
    /\ data \in [Cells -> Event \union {NoEvent}]
    /\ allocated \subseteq Cells
    /\ toAdd \subseteq Event
    /\ got \in Seq(Event \union {NoEvent})
    /\ calm \in BOOLEAN

\* vector_pop takes a node too many or none, yet the chain is never shorter than
\* length: vector_at and vector_set never walk past the last node, whatever the
\* program and its children do.
ChainCoversLength == queue.length <= Len(queue.nodes)

\* While the program is calm no node refers to a freed cell, no two nodes to the
\* same cell, and exactly the queued cells are allocated, so poll never reads or
\* frees a dead event and none leaks.
CellsLive ==
    calm => /\ Len(queue.nodes) = queue.length
            /\ allocated = {queue.nodes[i] : i \in 1 .. queue.length}

\* The queue as the program sees it.
Pending == [i \in 1 .. queue.length |-> data[queue.nodes[i]]]

Q == INSTANCE EventQueue WITH pending <- Pending, delivered <- got

\* The queue keeps its promise: a calm program receives every exit event exactly
\* once and in order.
QueuePromise == Q!QSpec

\* No event is received twice ("Spawn a new process & create an event when it's
\* finished executing").
ReceivedOnce == \A i, j \in DOMAIN got : got[i] = got[j] => i = j
=============================================================================
