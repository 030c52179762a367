------------------------------ MODULE Scheduler ------------------------------
(***************************************************************************)
(* The task list and the timer-driven round robin of the bootstrap          *)
(* processor: tasks/tasklist.c, tasks/switch.asm, tasks/switchutils.c,      *)
(* tasks/end_task.c and the part of tasks/spawn.c that enters a task.       *)
(*                                                                         *)
(* Every other core is parked in halt() with interrupts off before          *)
(* can_task_switch is set, so one core takes all the timer interrupts.      *)
(* System calls and task_select run with interrupts off: each is one step,  *)
(* and one pass of task_select's tail recursion is one step.                *)
(*                                                                         *)
(* get_task() returns NULL for the pid just past the end of the list, and   *)
(* task_select reads (and clears a bit of) the flags byte of that NULL      *)
(* task, at address 240 of whatever page tree is loaded.  The user images   *)
(* are position independent and linked at 0, so in a user tree page 0 is    *)
(* the image's ELF header and the byte is zero ("clear"); in the kernel's   *)
(* own tree, and for an image linked elsewhere, page 0 is "unmapped" and    *)
(* the access is a page fault that ends in kpanic().                        *)
(***************************************************************************)
EXTENDS Naturals

CONSTANTS
    MaxTasks,    \* bound: tasks that fit in memory, the kernel's own included
    Page0Kinds   \* what page 0 is in the images that may be spawned

ASSUME MaxTasksAssumption == MaxTasks \in Nat /\ MaxTasks >= 2

ASSUME Page0Assumption == Page0Kinds \subseteq {"clear", "unmapped"}

Pids == 0 .. MaxTasks - 1

VARIABLES
    length,      \* kernel.tasklist.list->length
    present,     \* pids whose flags have TASK_PRESENT
    firstExec,   \* pids whose flags have TASK_FIRST_EXEC
    running,     \* pids whose flags have TASK_RUNNING
    parent,      \* Task.parent
    ctx,         \* what Task.current_rsp resumes, "none" before the first save
    page0,       \* page 0 of the task's page tree
    cur,         \* kernel.tasklist.current_tasks[0]
    space,       \* cr3: the pid whose page tree is loaded
    lock,        \* scheduler_lock
    canSwitch,   \* kernel.can_task_switch
    pc           \* where the core is

taskVars == <<present, firstExec, running, ctx>>
listVars == <<length, parent, page0>>
coreVars == <<cur, space, lock, canSwitch, pc>>
vars     == <<taskVars, listVars, coreVars>>

\* The places where the core executes with interrupts enabled: _start's final
\* loop, user code, and the loop that ends syscall_exit.
Interruptible == {"idle", "user", "spin"}

PCs == Interruptible \union {"boot", "select", "halted", "panic", "ended"}

InList(pid) == pid < length

\* init_tasklist: the kernel's own task 0, never PRESENT, its own parent.
Init ==
    /\ length = 1
    /\ present = {} /\ firstExec = {} /\ running = {}
    /\ parent = [p \in Pids |-> 0]
    /\ ctx = [p \in Pids |-> "none"]
    /\ page0 = [p \in Pids |-> "unmapped"]
    /\ cur = 0 /\ space = 0
    /\ lock = FALSE
    /\ canSwitch = FALSE
    /\ pc = "boot"

-----------------------------------------------------------------------------
(* create_task and the fields that spawn fills in after it *)

\* Variant: the new task's flags land in the newest existing slot.
create_task_newest_slot(par) ==
    /\ length < MaxTasks
    /\ length' = length + 1
    /\ present' = present \union {length - 1}
    /\ firstExec' = firstExec \union {length - 1}
    /\ parent' = [parent EXCEPT ![length] = par]
    /\ \E k \in Page0Kinds : page0' = [page0 EXCEPT ![length] = k]
    /\ UNCHANGED <<running, ctx>>

\* Variant: the new task is not PRESENT.
create_task_absent(par) ==
    /\ length < MaxTasks
    /\ length' = length + 1
    /\ firstExec' = firstExec \union {length}
    /\ parent' = [parent EXCEPT ![length] = par]
    /\ \E k \in Page0Kinds : page0' = [page0 EXCEPT ![length] = k]
    /\ UNCHANGED <<present, running, ctx>>

create_task(par) ==
    /\ length < MaxTasks
    /\ length' = length + 1
    /\ present' = present \union {length}
    /\ firstExec' = firstExec \union {length}
    /\ parent' = [parent EXCEPT ![length] = par]
    /\ \E k \in Page0Kinds : page0' = [page0 EXCEPT ![length] = k]
    /\ UNCHANGED <<running, ctx>>

\* Variant: switching is allowed also when the init process could not be spawned.
try_spawn_init_no_halt ==
    /\ pc = "boot"
    /\ \/ create_task(cur)
       \/ UNCHANGED <<taskVars, listVars>>
    /\ canSwitch' = TRUE
    /\ pc' = "idle"
    /\ UNCHANGED <<cur, space, lock>>

\* The init process is spawned with interrupts off; only then is switching
\* allowed, and _start idles.  Without an init process the machine halts.
try_spawn_init ==
    /\ pc = "boot"
    /\ \/ /\ create_task(cur)
          /\ canSwitch' = TRUE
          /\ pc' = "idle"
       \/ /\ pc' = "halted"
          /\ UNCHANGED <<taskVars, listVars, canSwitch>>
    /\ UNCHANGED <<cur, space, lock>>

\* A spawn that fails (no such file, not an ELF file) changes none of this.
syscall_spawn ==
    /\ pc = "user"
    /\ create_task(cur)
    /\ UNCHANGED coreVars

\* The exit system call, also reached by every CPU exception of a user task.
\* The task keeps its slot in the list and spins until the next timer tick.
syscall_exit ==
    /\ pc = "user"
    /\ InList(cur) /\ cur # 0
    /\ present' = present \ {cur}
    /\ pc' = IF length # 1 THEN "spin" ELSE "ended"
    /\ UNCHANGED <<firstExec, running, ctx, listVars, cur, space, lock, canSwitch>>

-----------------------------------------------------------------------------
(* The timer interrupt *)

\* Variant: task_set_rsp is forgotten.
timer_isr_save_skipped ==
    /\ pc \in Interruptible
    /\ canSwitch
    /\ pc' = "select"
    /\ UNCHANGED <<taskVars, listVars, cur, space, lock, canSwitch>>

\* task_switch up to the call of task_select: the interrupted context is
\* saved in the current task.
timer_isr ==
    /\ pc \in Interruptible
    /\ canSwitch
    /\ ctx' = IF InList(cur) THEN [ctx EXCEPT ![cur] = pc] ELSE ctx
    /\ pc' = "select"
    /\ UNCHANGED <<present, firstExec, running, listVars, cur, space, lock, canSwitch>>

\* Variant: the scan always restarts at pid 1.
CandidateFromInit == 1

\* The pid that this pass of task_select looks at.  The wrap-around compares
\* the pid before the increment, so the pid just past the list is visited.
Candidate == IF cur >= length THEN 0 ELSE cur + 1

\* Variant: TASK_RUNNING stays set in the task switched away from.
StillRunningKept == running

\* TASK_RUNNING is cleared in the task switched away from before the next one
\* is looked at.
StillRunning == running \ {cur}

Selectable(pid) == InList(pid) /\ pid \in present /\ pid \notin StillRunning

\* This pass dereferences the NULL task in a tree without a page 0.
NullFault ==
    /\ length # 1
    /\ page0[space] = "unmapped"
    /\ ~InList(cur) \/ ~InList(Candidate)

\* A pass that finds nothing to run: release the lock and try the next pid.
select_next ==
    /\ pc = "select" /\ ~lock
    /\ length # 1
    /\ ~NullFault
    /\ ~Selectable(Candidate)
    /\ cur' = Candidate
    /\ running' = StillRunning
    /\ UNCHANGED <<present, firstExec, ctx, listVars, space, lock, canSwitch, pc>>

\* A page tree is named by the pid of its task.
task_get_cr3(pid) == pid

\* A pass that returns a task, and the rest of task_switch: load its page
\* tree and resume its saved context, or enter it for the first time.  With a
\* single task in the list task_select returns it without releasing the lock.
select_found ==
    /\ pc = "select" /\ ~lock
    /\ ~NullFault
    /\ length # 1 => Selectable(Candidate)
    /\ LET new == IF length = 1 THEN 0 ELSE Candidate
       IN  /\ cur' = new
           /\ space' = task_get_cr3(new)
           /\ running' = IF length = 1 THEN StillRunning ELSE StillRunning \union {new}
           /\ firstExec' = firstExec \ {new}
           /\ pc' = IF new \in firstExec THEN "user" ELSE ctx[new]
    /\ lock' = (length = 1)
    /\ UNCHANGED <<present, ctx, listVars, canSwitch>>

\* The page fault: syscall_exit finds no current task and returns, and
\* exception_handler panics and halts.
select_fault ==
    /\ pc = "select" /\ ~lock
    /\ NullFault
    /\ cur' = IF InList(cur) THEN Candidate ELSE cur
    /\ running' = StillRunning
    /\ lock' = TRUE
    /\ pc' = "panic"
    /\ UNCHANGED <<present, firstExec, ctx, listVars, space, canSwitch>>

task_select == select_next \/ select_found \/ select_fault

-----------------------------------------------------------------------------
Next ==
    \/ try_spawn_init
    \/ syscall_spawn
    \/ syscall_exit
    \/ timer_isr
    \/ task_select

Spec == Init /\ [][Next]_vars

\* The LAPIC timer is periodic, and task_select is straight-line kernel code
\* with interrupts off.  User programs are not assumed to do anything.
Fairness == WF_vars(timer_isr) /\ WF_vars(task_select)

FairSpec == Spec /\ Fairness

-----------------------------------------------------------------------------
(* Safety *)

TypeOK ==
    /\ length \in 1 .. MaxTasks
    /\ present \subseteq Pids /\ firstExec \subseteq Pids /\ running \subseteq Pids
    /\ parent \in [Pids -> Pids]
    /\ ctx \in [Pids -> Interruptible \union {"none"}]
    /\ page0 \in [Pids -> {"clear", "unmapped"}]
    /\ cur \in 0 .. MaxTasks /\ space \in Pids
    /\ lock \in BOOLEAN /\ canSwitch \in BOOLEAN
    /\ pc \in PCs

\* Whenever code that can be interrupted or make a system call executes, the
\* current pid names a task of the list and that task's page tree is loaded,
\* although task_select steps one pid past the end of the list
\* (get_current_task() is never NULL in a handler).
CurrentInList == pc \in Interruptible => InList(cur) /\ space = cur

\* TASK_RUNNING marks exactly the task that executes: at most the current pid
\* ever has it, and user code, as well as the loop that ends syscall_exit, only
\* executes in the task that has it.
OneRunning ==
    /\ running \subseteq {cur}
    /\ pc \in {"user", "spin"} => running = {cur}

Executes(p) == pc \in Interruptible /\ cur = p

\* task_switch resumes a task only from a stack pointer that an earlier
\* task_switch saved in it, taken inside user code: a task that may be selected,
\* was entered before and does not execute has such a context.
SavedContext ==
    \A p \in present \ firstExec : Executes(p) \/ ctx[p] = "user"

\* task_select returns a lone task without releasing scheduler_lock; the lock is
\* still free whenever the core is back outside task_select, because switching
\* starts after the second task exists and the list never shrinks.
LockFree == lock => pc = "panic"

\* The scheduler's access to the task past the end of the list panics only in
\* the page tree of a user image that leaves page 0 unmapped, never in the
\* kernel's own tree, where page 0 is always unmapped.
PanicOnlyUnmapped ==
    pc = "panic" => space # 0 /\ page0[space] = "unmapped"

\* What makes the invariants above inductive.  Switching implies two tasks; the
\* kernel's own tree is loaded only before the first switch, which finds the
\* init process; an executing task was entered; flags belong to listed tasks.
Bookkeeping ==
    /\ cur <= length
    /\ \A p \in present : 0 < p /\ p < length
    /\ firstExec \subseteq present
    /\ pc = "boot" => /\ length = 1 /\ cur = 0 /\ space = 0
                      /\ present = {} /\ running = {}
    /\ pc \in Interruptible \union {"select"} => length >= 2
    /\ pc = "idle" => cur = 0 /\ space = 0 /\ running = {} /\ 1 \in present
    /\ pc = "select" /\ space = 0 => cur = 0 /\ running = {} /\ 1 \in present
    /\ pc = "user" => cur \in present \ firstExec
    /\ pc = "spin" => cur \notin present
    /\ pc \in {"user", "spin"} => space # 0
    /\ pc # "ended"

IInv ==
    /\ TypeOK /\ Bookkeeping
    /\ CurrentInList /\ OneRunning /\ SavedContext /\ LockFree /\ PanicOnlyUnmapped

\* Exit is final: a task of the list that lost TASK_PRESENT never gets it back
\* and is never entered again, whatever the other tasks spawn.
ExitIsFinal ==
    [][\A p \in Pids :
          InList(p) /\ p \notin present
            => p \notin present' /\ ~(cur' = p /\ pc' = "user")]_vars

-----------------------------------------------------------------------------
(* Liveness *)

\* A task that is PRESENT gets the processor, unless the kernel panics: no set of
\* tasks that spin, spawn or exit starves it.
EveryTaskRuns ==
    \A p \in Pids : (p \in present) ~> (pc = "panic" \/ (pc = "user" /\ cur = p))

\* When the last user task has exited the kernel reports it and stops
\* (all_tasks_ended: "All tasks halted, nothing left to do.").
AllTasksEnd == (canSwitch /\ present = {}) ~> (pc = "ended")
=============================================================================
