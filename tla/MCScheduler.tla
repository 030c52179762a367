----------------------------- MODULE MCScheduler -----------------------------
(***************************************************************************)
(* The shipped system with a history variable: which tasks got the          *)
(* processor since each task last had it (or was created).                  *)
(***************************************************************************)
EXTENDS Shell

VARIABLES
    served,     \* served[p]: the tasks switched to while p waits
    overtaken   \* some waiting task saw another one get the processor twice

hvars == <<svars, served, overtaken>>

HInit == SInit /\ served = [p \in Pids |-> {}] /\ overtaken = FALSE

Waiting(p) == p \in present /\ p # cur'

\* A switch to cur': it starts waiting anew, and the waiting tasks have seen it.
Switched ==
    /\ pc = "select" /\ pc' = "user"
    /\ overtaken' = (overtaken \/ \E p \in Pids : Waiting(p) /\ cur' \in served[p])
    /\ served' = [p \in Pids |->
                    IF Waiting(p) THEN served[p] \union {cur'} ELSE {}]

HNext ==
    /\ SNext
    /\ Switched \/ (~(pc = "select" /\ pc' = "user") /\ UNCHANGED <<served, overtaken>>)

\* The fairness of Shell, with the history that each step determines.
HSpec ==
    /\ HInit /\ [][HNext]_hvars
    /\ WF_hvars(timer_isr /\ HNext) /\ WF_hvars(task_select /\ HNext)

\* Round robin: while a task waits for the processor no other task gets it twice,
\* also when tasks are appended to the list or exit during the round.
RoundRobin == ~overtaken
=============================================================================
