-------------------------------- MODULE Shell --------------------------------
(***************************************************************************)
(* The system as it is shipped: the scheduler, the event queue of every     *)
(* task, and the shell (userspace/shell.c) as the init process, pid 1.  The *)
(* shell starts one program at a time and polls its queue until it sees an  *)
(* EVENT_TASK_EXITED; the programs it starts spawn, poll and exit as they   *)
(* like.  The only event kind is EVENT_TASK_EXITED, so an event is the pid  *)
(* it carries in data0.  Events shows that one pending event at a time is   *)
(* delivered intact, so the cells that hold the events are left out here.   *)
(***************************************************************************)
EXTENDS Scheduler, Vector

ShellPid == 1

VARIABLES
    queue,    \* queue[p]: the event queue of task p
    sh,       \* where the shell is: at its prompt or in wait_for_event
    child     \* the program the shell started last, 0 before the first one

shellVars == <<queue, sh, child>>
svars     == <<vars, shellVars>>

SInit ==
    /\ Init
    /\ queue = [p \in Pids |-> new_vector]
    /\ sh = "prompt"
    /\ child = 0

InUser(p) == pc = "user" /\ cur = p

-----------------------------------------------------------------------------
(* The shell *)

\* main: a line was read and names a program that could be started.  When spawn
\* fails the shell prompts again and nothing changes.
shell_spawn ==
    /\ InUser(ShellPid) /\ sh = "prompt"
    /\ syscall_spawn
    /\ child' = length
    /\ sh' = "wait"
    /\ UNCHANGED queue

\* poll: the queue without the event returned; an empty queue does not change.
Polled(q) == IF q.length = 0 THEN q ELSE vector_pop(q, q.length - 1)

\* Variant: the first answer of poll ends the wait, do_handle is not looked at.
wait_for_any_answer ==
    /\ InUser(ShellPid) /\ sh = "wait"
    /\ queue' = [queue EXCEPT ![ShellPid] = Polled(@)]
    /\ sh' = "prompt"
    /\ UNCHANGED <<vars, child>>

\* One turn of the loop in wait_for_event.
wait_for_event ==
    /\ InUser(ShellPid) /\ sh = "wait"
    /\ queue' = [queue EXCEPT ![ShellPid] = Polled(@)]
    /\ sh' = IF queue[ShellPid].length = 0 THEN "wait" ELSE "prompt"
    /\ UNCHANGED <<vars, child>>

-----------------------------------------------------------------------------
(* The other programs *)

program_spawn ==
    /\ cur # ShellPid
    /\ syscall_spawn
    /\ UNCHANGED shellVars

program_poll ==
    /\ pc = "user" /\ cur # ShellPid
    /\ queue' = [queue EXCEPT ![cur] = Polled(@)]
    /\ UNCHANGED <<vars, sh, child>>

\* Variants: the event goes to the shell, or is not added.
program_exit_tells_shell ==
    /\ cur # ShellPid
    /\ syscall_exit
    /\ queue' = [queue EXCEPT ![ShellPid] = vector_push(@, cur)]
    /\ UNCHANGED <<sh, child>>

program_exit_silent ==
    /\ cur # ShellPid
    /\ syscall_exit
    /\ UNCHANGED shellVars

\* syscall_exit adds the event to the queue of the parent, which may have exited.
program_exit ==
    /\ cur # ShellPid
    /\ syscall_exit
    /\ queue' = [queue EXCEPT ![parent[cur]] = vector_push(@, cur)]
    /\ UNCHANGED <<sh, child>>

-----------------------------------------------------------------------------
Kernel == (try_spawn_init \/ timer_isr \/ task_select) /\ UNCHANGED shellVars

SNext ==
    \/ Kernel
    \/ shell_spawn \/ wait_for_event
    \/ program_spawn \/ program_poll \/ program_exit

SSpec == SInit /\ [][SNext]_svars

\* As in Scheduler: of the shell nothing is assumed.
SFairness ==
    /\ WF_svars(timer_isr /\ UNCHANGED shellVars)
    /\ WF_svars(task_select /\ UNCHANGED shellVars)

SFairSpec == SSpec /\ SFairness

-----------------------------------------------------------------------------
\* The shell prompts only when the program it started last has exited, however
\* that program, its children and the timer interleave.
PromptAfterExit == sh = "prompt" /\ child # 0 => child \notin present

\* The shell never has more than one event pending and none when it prompts, so
\* vector_pop's wrong link is never taken for its queue and no stale event can
\* end a later wait (the shell is calm in the sense of Events).
OneEventPending ==
    /\ Len(queue[ShellPid].nodes) = queue[ShellPid].length
    /\ queue[ShellPid].length \in {0, 1}
    /\ queue[ShellPid].length = 1 =>
         sh = "wait" /\ queue[ShellPid].nodes = <<child>> /\ child \notin present

\* No wake-up is lost: a shell that waits for a program that has exited has its event
\* pending, and the next turn of the loop sees it, whatever has been polled before and
\* whoever else has exited in the meantime.
ExitSeen == sh = "wait" /\ child \notin present => queue[ShellPid].length = 1
=============================================================================
