--------------------------- MODULE SchedulerProofs ---------------------------
(***************************************************************************)
(* The safety properties of Scheduler, Shell and MCScheduler, for every     *)
(* number of tasks and every mix of images: those of the task list from the *)
(* inductive invariant IInv, those of the shell's queue from ShellInv, and  *)
(* the round robin from RoundInv.                                           *)
(***************************************************************************)
EXTENDS MCScheduler, TLAPS

LEMMA PidFacts ==
  /\ MaxTasks \in Nat /\ 0 \in Pids /\ 1 \in Pids
  /\ \A n \in Nat : n < MaxTasks => n \in Pids
  /\ \A p \in Pids : p \in Nat /\ p < MaxTasks
  BY MaxTasksAssumption DEF Pids

LEMMA InitIInv == Init => IInv
<1> SUFFICES ASSUME Init PROVE IInv
  OBVIOUS
<1> USE MaxTasksAssumption DEF Init
<1>1. TypeOK
  <2>1. /\ parent \in [Pids -> Pids]
        /\ ctx \in [Pids -> Interruptible \union {"none"}]
        /\ page0 \in [Pids -> {"clear", "unmapped"}]
    BY PidFacts
  <2>2. length \in 1 .. MaxTasks /\ cur \in 0 .. MaxTasks /\ space \in Pids
    BY MaxTasksAssumption DEF Pids
  <2>3. present \subseteq Pids /\ firstExec \subseteq Pids /\ running \subseteq Pids
    OBVIOUS
  <2>4. lock \in BOOLEAN /\ canSwitch \in BOOLEAN /\ pc \in PCs
    BY DEF PCs
  <2> QED
    BY <2>1, <2>2, <2>3, <2>4 DEF TypeOK
<1>2. Bookkeeping
  BY DEF Bookkeeping, Interruptible
<1>3. CurrentInList /\ OneRunning /\ SavedContext /\ LockFree /\ PanicOnlyUnmapped
  BY DEF CurrentInList, OneRunning, SavedContext, LockFree, PanicOnlyUnmapped, Interruptible
<1> QED
  BY <1>1, <1>2, <1>3 DEF IInv

\* The pid a pass of task_select looks at never leaves 0 .. length, and no task
\* but the one switched away from could have been RUNNING.
LEMMA Pass ==
  ASSUME IInv, pc = "select"
  PROVE  /\ Candidate \in 0 .. length
         /\ StillRunning = {}
         /\ length \in Nat /\ length >= 2
         /\ space = 0 => Selectable(Candidate) /\ ~NullFault
  BY DEF IInv, TypeOK, Bookkeeping, OneRunning, Candidate, StillRunning,
         Selectable, NullFault, InList, Interruptible

\* The task that a pass selects resumes, or begins, in user code.
LEMMA Resumes ==
  ASSUME IInv, pc = "select", Selectable(Candidate)
  PROVE  /\ Candidate \in present /\ Candidate # 0 /\ Candidate \in Pids
         /\ Candidate < length
         /\ Candidate \notin firstExec => ctx[Candidate] = "user"
  BY MaxTasksAssumption
  DEF IInv, TypeOK, Bookkeeping, SavedContext, Selectable, InList, Executes,
      Interruptible, Pids

\* What create_task does, in terms of the types.
LEMMA Created ==
  ASSUME IInv, NEW par \in Pids, create_task(par)
  PROVE  /\ length \in Pids /\ length' = length + 1 /\ length' \in 1 .. MaxTasks
         /\ present' = present \union {length}
         /\ firstExec' = firstExec \union {length}
         /\ parent' \in [Pids -> Pids]
         /\ page0' \in [Pids -> {"clear", "unmapped"}]
         /\ \A p \in Pids : p < length => page0'[p] = page0[p]
         /\ UNCHANGED <<running, ctx>>
<1>1. /\ length \in Pids /\ length' = length + 1 /\ length' \in 1 .. MaxTasks
      /\ UNCHANGED <<running, ctx>>
  BY PidFacts DEF create_task, IInv, TypeOK
<1>2. PICK k \in Page0Kinds : page0' = [page0 EXCEPT ![length] = k]
  BY DEF create_task
<1>3. /\ page0' \in [Pids -> {"clear", "unmapped"}]
      /\ \A p \in Pids : p < length => page0'[p] = page0[p]
  BY <1>1, <1>2, PidFacts, Page0Assumption DEF IInv, TypeOK
<1> QED
  BY <1>1, <1>3 DEF create_task, IInv, TypeOK

LEMMA NextIInv == IInv /\ [Next]_vars => IInv'
<1> SUFFICES ASSUME IInv, [Next]_vars PROVE IInv'
  OBVIOUS
<1> USE PidFacts
<1>1. CASE try_spawn_init
  <2>1. CASE /\ create_task(cur) /\ canSwitch' = TRUE /\ pc' = "idle"
    <3>1. /\ pc = "boot" /\ length = 1 /\ cur = 0 /\ space = 0
          /\ present = {} /\ firstExec = {} /\ running = {} /\ cur \in Pids
          /\ UNCHANGED <<cur, space, lock>>
      BY <1>1 DEF try_spawn_init, IInv, Bookkeeping
    <3>2. TypeOK'
      BY <2>1, <3>1, Created DEF IInv, TypeOK, PCs, Interruptible
    <3>3. Bookkeeping'
      BY <2>1, <3>1, Created DEF Bookkeeping, Interruptible
    <3>4. (CurrentInList /\ OneRunning /\ PanicOnlyUnmapped)'
      BY <2>1, <3>1, Created
      DEF CurrentInList, OneRunning, PanicOnlyUnmapped, Interruptible, InList
    <3>6. LockFree'
      BY <2>1, <3>1 DEF IInv, LockFree
    <3>5. SavedContext'
      BY <2>1, <3>1, Created DEF SavedContext
    <3> QED
      BY <3>2, <3>3, <3>4, <3>5, <3>6 DEF IInv
  <2>2. CASE /\ pc' = "halted" /\ UNCHANGED <<taskVars, listVars, canSwitch>>
    <3>1. UNCHANGED <<length, present, firstExec, running, parent, ctx, page0,
                      cur, space, lock, canSwitch>> /\ pc = "boot"
      BY <1>1, <2>2 DEF try_spawn_init, taskVars, listVars
    <3> QED
      BY <2>2, <3>1
      DEF IInv, TypeOK, Bookkeeping, CurrentInList, OneRunning, SavedContext, LockFree,
          PanicOnlyUnmapped, Executes, PCs, Interruptible
  <2> QED
    BY <1>1, <2>1, <2>2 DEF try_spawn_init
<1>2. CASE syscall_spawn
  <2>1. /\ pc = "user" /\ cur \in Pids /\ create_task(cur)
        /\ cur # length /\ space \in Pids /\ space < length
        /\ UNCHANGED <<cur, space, lock, canSwitch, pc>>
    BY <1>2 DEF syscall_spawn, coreVars, IInv, TypeOK, CurrentInList, InList, Interruptible
  <2>2. TypeOK'
    BY <2>1, Created DEF IInv, TypeOK
  <2>6. /\ length \in Nat /\ length >= 2 /\ cur < length /\ cur \in present \ firstExec
        /\ firstExec \subseteq present /\ space # 0
        /\ \A p \in present : p \in Nat /\ 0 < p /\ p < length
    BY <2>1 DEF IInv, TypeOK, Bookkeeping, CurrentInList, Interruptible, InList
  <2>7. \A p \in present' : 0 < p /\ p < length'
    BY <2>1, <2>6, Created
  <2>3. Bookkeeping'
    BY <2>1, <2>6, <2>7, Created DEF Bookkeeping, Interruptible
  <2>4. (CurrentInList /\ OneRunning /\ LockFree /\ PanicOnlyUnmapped)'
    BY <2>1, Created
    DEF IInv, TypeOK, Bookkeeping, CurrentInList, OneRunning, LockFree,
        PanicOnlyUnmapped, Interruptible, InList
  <2>5. SavedContext'
    BY <2>1, Created DEF IInv, SavedContext, Executes
  <2> QED
    BY <2>2, <2>3, <2>4, <2>5 DEF IInv
<1>3. CASE syscall_exit
  <2>1. TypeOK'
    BY <1>3 DEF IInv, TypeOK, PCs, Interruptible,
        syscall_exit, listVars
  <2>2. Bookkeeping'
    BY <1>3 DEF IInv, TypeOK, Bookkeeping, OneRunning, CurrentInList, Interruptible, InList,
        syscall_exit, listVars
  <2>3. (CurrentInList /\ OneRunning)'
    BY <1>3 DEF IInv, TypeOK, Bookkeeping, CurrentInList, OneRunning, InList, Interruptible,
        syscall_exit, listVars
  <2>4. SavedContext'
    BY <1>3 DEF IInv, TypeOK, Bookkeeping, SavedContext, Executes, Interruptible, InList,
        syscall_exit, listVars
  <2>5. (LockFree /\ PanicOnlyUnmapped)'
    BY <1>3 DEF IInv, TypeOK, LockFree, PanicOnlyUnmapped, Interruptible,
        syscall_exit, listVars
  <2> QED
    BY <2>1, <2>2, <2>3, <2>4, <2>5 DEF IInv
<1>4. CASE timer_isr
  <2>1. TypeOK'
    BY <1>4 DEF IInv, TypeOK, PCs, Interruptible,
        timer_isr, listVars
  <2>2. Bookkeeping'
    BY <1>4 DEF IInv, TypeOK, Bookkeeping, OneRunning, CurrentInList, Interruptible, InList,
        timer_isr, listVars
  <2>3. (CurrentInList /\ OneRunning)'
    BY <1>4 DEF IInv, TypeOK, Bookkeeping, CurrentInList, OneRunning, InList, Interruptible,
        timer_isr, listVars
  <2>4. SavedContext'
    BY <1>4 DEF IInv, TypeOK, Bookkeeping, SavedContext, Executes, Interruptible, InList,
        timer_isr, listVars
  <2>5. (LockFree /\ PanicOnlyUnmapped)'
    BY <1>4 DEF IInv, TypeOK, LockFree, PanicOnlyUnmapped, Interruptible,
        timer_isr, listVars
  <2> QED
    BY <2>1, <2>2, <2>3, <2>4, <2>5 DEF IInv
<1>5. CASE select_next
  <2>1. TypeOK'
    BY <1>5, Pass DEF IInv, TypeOK, PCs, Interruptible,
        select_next, listVars
  <2>2. Bookkeeping'
    BY <1>5, Pass DEF IInv, TypeOK, Bookkeeping, OneRunning, CurrentInList, Interruptible, InList,
        select_next, listVars
  <2>3. (CurrentInList /\ OneRunning)'
    BY <1>5, Pass DEF IInv, TypeOK, Bookkeeping, CurrentInList, OneRunning, InList, Interruptible,
        select_next, listVars
  <2>4. SavedContext'
    BY <1>5, Pass DEF IInv, TypeOK, Bookkeeping, SavedContext, Executes, Interruptible, InList,
        select_next, listVars
  <2>5. (LockFree /\ PanicOnlyUnmapped)'
    BY <1>5, Pass DEF IInv, TypeOK, LockFree, PanicOnlyUnmapped, Interruptible,
        select_next, listVars
  <2> QED
    BY <2>1, <2>2, <2>3, <2>4, <2>5 DEF IInv
<1>6. CASE select_found
  <2>1. TypeOK'
    BY <1>6, Pass, Resumes DEF IInv, TypeOK, PCs, Interruptible,
        select_found, task_get_cr3, listVars
  <2>2. Bookkeeping'
    BY <1>6, Pass, Resumes DEF IInv, TypeOK, Bookkeeping, OneRunning, CurrentInList, Interruptible, InList,
        select_found, task_get_cr3, listVars
  <2>3. (CurrentInList /\ OneRunning)'
    BY <1>6, Pass, Resumes DEF IInv, TypeOK, Bookkeeping, CurrentInList, OneRunning, InList, Interruptible,
        select_found, task_get_cr3, listVars
  <2>4. SavedContext'
    BY <1>6, Pass, Resumes DEF IInv, TypeOK, Bookkeeping, SavedContext, Executes, Interruptible, InList,
        select_found, task_get_cr3, listVars
  <2>5. (LockFree /\ PanicOnlyUnmapped)'
    BY <1>6, Pass, Resumes DEF IInv, TypeOK, LockFree, PanicOnlyUnmapped, Interruptible,
        select_found, task_get_cr3, listVars
  <2> QED
    BY <2>1, <2>2, <2>3, <2>4, <2>5 DEF IInv
<1>7. CASE select_fault
  <2>1. /\ pc = "select" /\ pc' = "panic" /\ lock' = TRUE
        /\ running' = {} /\ cur' \in {cur, Candidate}
        /\ UNCHANGED <<length, parent, page0, present, firstExec, ctx, space, canSwitch>>
    BY <1>7, Pass DEF select_fault, listVars
  <2>2. page0[space] = "unmapped"
    BY <1>7 DEF select_fault, NullFault
  <2>3. space # 0
    BY <1>7, Pass DEF select_fault
  <2>4. cur' \in 0 .. length
    BY <2>1, Pass DEF IInv, TypeOK, Bookkeeping
  <2> QED
    BY <2>1, <2>2, <2>3, <2>4
    DEF IInv, TypeOK, Bookkeeping, CurrentInList, OneRunning, SavedContext, LockFree,
        PanicOnlyUnmapped, Executes, PCs, Interruptible
<1>8. CASE UNCHANGED vars
  BY <1>8
  DEF IInv, TypeOK, Bookkeeping, CurrentInList, OneRunning, SavedContext, LockFree,
      PanicOnlyUnmapped, Executes, Interruptible, InList,
      vars, taskVars, listVars, coreVars
<1> QED
  BY <1>1, <1>2, <1>3, <1>4, <1>5, <1>6, <1>7, <1>8 DEF Next, task_select

\* The inductive invariant holds throughout.
THEOREM SchedulerInvariant == Spec => []IInv
  BY InitIInv, NextIInv, PTL DEF Spec

\* Type correctness of the task list and of the core's state.
THEOREM TypeCorrect == Spec => []TypeOK
  BY SchedulerInvariant, PTL DEF IInv

\* get_current_task() is never NULL in a handler, and the loaded page tree is
\* that of the current task.
THEOREM CurrentTaskListed == Spec => []CurrentInList
  BY SchedulerInvariant, PTL DEF IInv

\* TASK_RUNNING marks exactly the executing task.
THEOREM RunningIsCurrent == Spec => []OneRunning
  BY SchedulerInvariant, PTL DEF IInv

\* No task is resumed from a stack pointer that no task_switch saved.
THEOREM ContextsSaved == Spec => []SavedContext
  BY SchedulerInvariant, PTL DEF IInv

\* The branch of task_select that leaks scheduler_lock is never taken.
THEOREM LockNotLeaked == Spec => []LockFree
  BY SchedulerInvariant, PTL DEF IInv

\* The NULL task is harmless unless an image leaves page 0 unmapped.
THEOREM PanicCause == Spec => []PanicOnlyUnmapped
  BY SchedulerInvariant, PTL DEF IInv

\* An exited task stays exited and is never entered again.
THEOREM ExitFinal == Spec => ExitIsFinal
<1>1. IInv /\ [Next]_vars
        => [\A p \in Pids :
              InList(p) /\ p \notin present
                => p \notin present' /\ ~(cur' = p /\ pc' = "user")]_vars
  <2> SUFFICES ASSUME IInv, Next, NEW p \in Pids, InList(p), p \notin present
               PROVE  p \notin present' /\ ~(cur' = p /\ pc' = "user")
    OBVIOUS
  <2>1. CASE try_spawn_init
    BY <2>1 DEF try_spawn_init, create_task, InList, taskVars, IInv, TypeOK
  <2>2. CASE syscall_spawn
    BY <2>2 DEF syscall_spawn, create_task, InList, coreVars, IInv, TypeOK, Bookkeeping
  <2>3. CASE syscall_exit
    BY <2>3 DEF syscall_exit
  <2>4. CASE timer_isr
    BY <2>4 DEF timer_isr
  <2>5. CASE select_next
    BY <2>5 DEF select_next
  <2>6. CASE select_found
    BY <2>6, Pass, Resumes DEF select_found
  <2>7. CASE select_fault
    BY <2>7 DEF select_fault
  <2> QED
    BY <2>1, <2>2, <2>3, <2>4, <2>5, <2>6, <2>7 DEF Next, task_select
<1> QED
  BY <1>1, SchedulerInvariant, PTL DEF Spec, ExitIsFinal

-----------------------------------------------------------------------------
(* The shipped system *)

\* What the shell and the programs do to the task list is what tasks do.
LEMMA ShellStep == [SNext]_svars => [Next]_vars
  BY DEF SNext, svars, Kernel, shell_spawn, wait_for_event, program_spawn, program_poll,
         program_exit, Next

LEMMA HistoryStep == [HNext]_hvars => [SNext]_svars
  BY DEF HNext, hvars

\* The shell with its history implements the scheduler, so everything above holds
\* of the shipped system too.
THEOREM ShippedSystem == HSpec => SSpec /\ Spec
<1>1. HInit => SInit /\ Init
  BY DEF HInit, SInit
<1> QED
  BY <1>1, ShellStep, HistoryStep, PTL DEF HSpec, SSpec, Spec

LEMMA SchedulerInShell == SSpec => []IInv
<1>1. SInit => IInv
  BY InitIInv DEF SInit
<1>2. IInv /\ [SNext]_svars => IInv'
  BY NextIInv, ShellStep
<1> QED
  BY <1>1, <1>2, PTL DEF SSpec

\* The queue with the one event of the child, and the program whose exit it waits for.
Pending == [nodes |-> <<child>>, length |-> 1]

\* The shell waits for exactly the program it started last: no other task that may
\* still exit has the shell for its parent, and while the program runs the queue is
\* empty.
ShellInv ==
    /\ DOMAIN queue = Pids
    /\ child \in Nat /\ child < length /\ child # ShellPid
    /\ \A p \in present : parent[p] = ShellPid => p = child /\ sh = "wait"
    /\ \/ sh = "prompt" /\ queue[ShellPid] = new_vector
       \/ /\ sh = "wait" /\ child # 0 /\ child \in present /\ parent[child] = ShellPid
          /\ queue[ShellPid] = new_vector
       \/ sh = "wait" /\ child # 0 /\ child \notin present /\ queue[ShellPid] = Pending
    /\ sh = "prompt" => child \notin present

LEMMA ShellInvInit == SInit => ShellInv
  BY PidFacts DEF SInit, Init, ShellInv, ShellPid

\* What a new task does to parents.
LEMMA CreatedParent ==
  ASSUME IInv, NEW par \in Pids, create_task(par)
  PROVE  /\ parent'[length] = par
         /\ \A p \in present : p # length /\ parent'[p] = parent[p]
<1>1. parent \in [Pids -> Pids] /\ parent' = [parent EXCEPT ![length] = par]
  BY DEF create_task, IInv, TypeOK
<1>2. length \in Pids
  BY PidFacts, MaxTasksAssumption DEF create_task, IInv, TypeOK, Pids
<1>3. \A p \in present : p \in Pids /\ p # length
  BY <1>2 DEF IInv, TypeOK, Bookkeeping, Pids
<1> QED
  BY <1>1, <1>2, <1>3

LEMMA ShellInvStep == IInv /\ ShellInv /\ [SNext]_svars => ShellInv'
<1> SUFFICES ASSUME IInv, ShellInv, [SNext]_svars PROVE ShellInv'
  OBVIOUS
<1> USE PidFacts DEF ShellPid
<1>0. /\ length \in Nat /\ present \subseteq Pids /\ parent \in [Pids -> Pids]
      /\ \A p \in present : p \in Nat /\ p < length
      /\ pc = "user" => cur \in present /\ cur \in Pids /\ cur < length
  BY DEF IInv, TypeOK, Bookkeeping
<1>1. CASE try_spawn_init /\ UNCHANGED shellVars
  <2>1. pc = "boot" /\ cur = 0 /\ length = 1 /\ present = {} /\ 0 \in Pids
    BY <1>1 DEF try_spawn_init, IInv, Bookkeeping
  <2>2. CASE UNCHANGED <<taskVars, listVars>>
    BY <1>1, <2>2 DEF ShellInv, Pending, shellVars, taskVars, listVars
  <2>3. CASE create_task(cur)
    BY <1>1, <2>1, <2>3, Created, CreatedParent DEF ShellInv, Pending, shellVars
  <2> QED
    BY <1>1, <2>2, <2>3 DEF try_spawn_init
<1>2. CASE (timer_isr \/ task_select) /\ UNCHANGED shellVars
  <2>1. UNCHANGED <<length, present, parent, queue, sh, child>>
    BY <1>2 DEF timer_isr, task_select, select_next, select_found, select_fault, listVars,
                shellVars
  <2> QED
    BY <2>1 DEF ShellInv, Pending
<1>3. CASE shell_spawn
  <2>1. /\ pc = "user" /\ cur = 1 /\ sh = "prompt" /\ create_task(1)
        /\ child' = length /\ sh' = "wait" /\ queue' = queue /\ 1 \in Pids /\ 1 < length
    BY <1>0, <1>3 DEF shell_spawn, InUser, syscall_spawn
  <2> QED
    BY <1>0, <2>1, Created, CreatedParent DEF ShellInv, Pending
<1>4. CASE wait_for_event
  <2>1. UNCHANGED <<length, present, parent, child>> /\ sh = "wait"
    BY <1>4 DEF wait_for_event, vars, taskVars, listVars
  <2>2. DOMAIN queue' = Pids
    BY <1>4 DEF wait_for_event, ShellInv
  <2>3. CASE queue[1] = new_vector
    <3>1. queue'[1] = new_vector /\ sh' = "wait"
      BY <1>4, <2>3 DEF wait_for_event, ShellInv, Polled, new_vector
    <3> QED
      BY <2>1, <2>2, <2>3, <3>1 DEF ShellInv, new_vector, Pending
  <2>4. CASE queue[1] = Pending
    <3>1. queue[1].length = 1 /\ queue[1].nodes = <<child>> /\ Tail(<<child>>) = <<>>
      BY <2>4 DEF Pending
    <3>2. queue'[1] = new_vector /\ sh' = "prompt"
      BY <1>4, <3>1 DEF wait_for_event, ShellInv, Polled, vector_pop, new_vector
    <3>3. child \notin present
      BY <2>4 DEF ShellInv, new_vector, Pending
    <3> QED
      BY <2>1, <2>2, <3>2, <3>3 DEF ShellInv
  <2> QED
    BY <2>3, <2>4 DEF ShellInv
<1>5. CASE program_spawn
  <2>1. /\ pc = "user" /\ cur # 1 /\ create_task(cur)
        /\ UNCHANGED <<queue, sh, child>>
    BY <1>5 DEF program_spawn, syscall_spawn, shellVars
  <2> QED
    BY <1>0, <2>1, Created, CreatedParent DEF ShellInv, Pending
<1>6. CASE program_poll
  <2>1. /\ UNCHANGED <<length, present, parent, sh, child>> /\ cur # 1
        /\ queue' = [queue EXCEPT ![cur] = Polled(@)]
    BY <1>6 DEF program_poll, vars, taskVars, listVars
  <2>2. queue'[1] = queue[1] /\ DOMAIN queue' = DOMAIN queue
    BY <2>1 DEF ShellInv
  <2> QED
    BY <2>1, <2>2 DEF ShellInv, Pending
<1>7. CASE program_exit
  <2>1. /\ pc = "user" /\ cur # 1 /\ present' = present \ {cur} /\ cur \in present
        /\ queue' = [queue EXCEPT ![parent[cur]] = vector_push(@, cur)]
        /\ UNCHANGED <<length, parent, sh, child>>
    BY <1>0, <1>7 DEF program_exit, syscall_exit, listVars
  <2>2. CASE parent[cur] = 1
    <3>1. cur = child /\ sh = "wait" /\ queue[1] = new_vector
      BY <2>1, <2>2 DEF ShellInv
    <3>2. queue'[1] = [nodes |-> Append(<<>>, child), length |-> 1]
      BY <2>1, <2>2, <3>1 DEF ShellInv, vector_push, new_vector
    <3>a. Append(<<>>, child) = <<child>>
      OBVIOUS
    <3>b. Pending' = [nodes |-> <<child>>, length |-> 1]
      BY <2>1 DEF Pending
    <3>3. queue'[1] = Pending' /\ DOMAIN queue' = DOMAIN queue
      BY <2>1, <3>2, <3>a, <3>b
    <3>4. child # 0
      BY <3>1 DEF ShellInv
    <3> QED
      BY <2>1, <3>1, <3>3, <3>4 DEF ShellInv
  <2>3. CASE parent[cur] # 1
    <3>1. queue'[1] = queue[1] /\ DOMAIN queue' = DOMAIN queue
      BY <2>1, <2>3 DEF ShellInv
    <3>2. CASE cur = child
      BY <1>0, <2>1, <2>3, <3>1, <3>2 DEF ShellInv, Pending
    <3>3. CASE cur # child
      BY <2>1, <3>1, <3>3 DEF ShellInv, Pending
    <3> QED
      BY <3>2, <3>3
  <2> QED
    BY <2>2, <2>3
<1>8. CASE UNCHANGED svars
  BY <1>8 DEF svars, vars, taskVars, listVars, shellVars, ShellInv, Pending
<1> QED
  BY <1>1, <1>2, <1>3, <1>4, <1>5, <1>6, <1>7, <1>8 DEF SNext, Kernel

LEMMA ShellInvariant == SSpec => []ShellInv
  BY ShellInvInit, ShellInvStep, SchedulerInShell, PTL DEF SSpec

\* When the shell prompts, the program it started last has exited.
THEOREM ShellPrompts == SSpec => []PromptAfterExit
<1>1. ShellInv => PromptAfterExit
  BY DEF ShellInv, PromptAfterExit
<1> QED
  BY <1>1, ShellInvariant, PTL

\* The shell's queue never holds a second event or a stale one.
THEOREM ShellQueue == SSpec => []OneEventPending
<1>1. Len(<<>>) = 0 /\ Len(<<child>>) = 1
  OBVIOUS
<1>2. ASSUME ShellInv, queue[1] = new_vector PROVE OneEventPending
  BY <1>1, <1>2 DEF OneEventPending, new_vector, ShellPid
<1>3. ASSUME sh = "wait", child \notin present, queue[1] = Pending PROVE OneEventPending
  BY <1>1, <1>3 DEF OneEventPending, Pending, ShellPid
<1>4. ShellInv => OneEventPending
  BY <1>2, <1>3 DEF ShellInv, ShellPid
<1> QED
  BY <1>4, ShellInvariant, PTL

\* The exit of the program that the shell waits for is never lost.
THEOREM ExitNotLost == SSpec => []ExitSeen
<1>1. ShellInv => ExitSeen
  BY DEF ShellInv, ExitSeen, Pending
<1> QED
  BY <1>1, ShellInvariant, PTL

-----------------------------------------------------------------------------
(* Round robin *)

\* The pids that the scan has passed since p had the processor, in the order of
\* task_select: from p + 1 up to the current pid, around the end of the list.
Passed(p, q) == IF cur < p THEN q > p \/ q <= cur ELSE p < q /\ q <= cur

\* A waiting task has seen only tasks that the scan has passed since.
RoundInv ==
    /\ DOMAIN served = Pids
    /\ ~overtaken
    /\ \A p \in Pids : p >= length => served[p] = {}
    /\ \A p \in present : \A q \in served[p] : q \in Nat /\ Passed(p, q)

LEMMA RoundInvInit == HInit => RoundInv
  BY DEF HInit, SInit, Init, RoundInv

\* A pass that finds nothing moves the scan past a pid that is not PRESENT.
LEMMA ScanMoves ==
  ASSUME IInv, RoundInv, cur' = Candidate, Candidate \notin present
  PROVE  \A p \in present : \A q \in served[p] : q \in Nat /\ Passed(p, q)'
<1> SUFFICES ASSUME NEW p \in present, NEW q \in served[p]
             PROVE  q \in Nat /\ Passed(p, q)'
  OBVIOUS
<1>1. p \in Nat /\ 0 < p /\ p < length /\ length \in Nat /\ cur \in Nat /\ p # cur'
  BY PidFacts DEF IInv, TypeOK, Bookkeeping
<1>2. q \in Nat /\ Passed(p, q)
  BY DEF RoundInv
<1>3. cur' = IF cur >= length THEN 0 ELSE cur + 1
  BY DEF Candidate
<1> QED
  BY <1>1, <1>2, <1>3 DEF Passed

\* Steps that neither switch nor move the scan keep the round.
LEMMA RoundKept ==
  ASSUME IInv, RoundInv, UNCHANGED <<served, overtaken, cur>>,
         \/ length' = length /\ present' \subseteq present
         \/ length' = length + 1 /\ present' = present \union {length} /\ length \in Pids
  PROVE  RoundInv'
<1>1. length \in Nat
  BY DEF IInv, TypeOK
<1>2. \A p \in present' : \A q \in served[p] : q \in Nat /\ Passed(p, q)
  BY <1>1, PidFacts DEF RoundInv
<1>3. \A p \in Pids : p >= length' => served[p] = {}
  BY <1>1, PidFacts DEF RoundInv
<1> QED
  BY <1>2, <1>3 DEF RoundInv, Passed

LEMMA SelectNextRound == ASSUME IInv, RoundInv, select_next, HNext PROVE RoundInv'
<1>1. /\ pc = "select" /\ pc' = "select" /\ cur' = Candidate /\ ~Selectable(Candidate)
      /\ UNCHANGED <<present, length>>
  BY DEF select_next, listVars
<1>2. UNCHANGED <<served, overtaken>>
  BY <1>1 DEF HNext, Switched
<1>3. Candidate \notin present
  BY <1>1, Pass DEF Selectable, InList, IInv, Bookkeeping
<1> QED
  BY <1>1, <1>2, <1>3, ScanMoves DEF RoundInv

LEMMA SelectFaultRound == ASSUME IInv, RoundInv, select_fault, HNext PROVE RoundInv'
<1>1. /\ pc = "select" /\ pc' = "panic" /\ NullFault
      /\ cur' = (IF InList(cur) THEN Candidate ELSE cur)
      /\ UNCHANGED <<present, length>>
  BY DEF select_fault, listVars
<1>2. UNCHANGED <<served, overtaken>>
  BY <1>1 DEF HNext, Switched
<1>3. CASE ~InList(cur)
  BY <1>1, <1>2, <1>3, RoundKept
<1>4. CASE InList(cur)
  <2>1. Candidate \notin present
    BY <1>1, <1>4 DEF NullFault, InList, IInv, Bookkeeping
  <2> QED
    BY <1>1, <1>2, <1>4, <2>1, ScanMoves DEF RoundInv
<1> QED
  BY <1>3, <1>4

LEMMA SelectFoundRound == ASSUME IInv, RoundInv, select_found, HNext PROVE RoundInv'
<1>1. /\ pc = "select" /\ length \in Nat /\ length >= 2 /\ Selectable(Candidate)
      /\ cur' = Candidate
      /\ pc' = IF Candidate \in firstExec THEN "user" ELSE ctx[Candidate]
      /\ UNCHANGED <<present, length>>
  BY Pass DEF select_found, listVars
<1>2. /\ pc' = "user" /\ Candidate \in present /\ Candidate \in Nat
  BY <1>1, Resumes, PidFacts
<1>3. Switched
  BY <1>1, <1>2 DEF HNext
<1>4. cur' = cur + 1 /\ cur \in Nat
  BY <1>1, <1>2 DEF Candidate, IInv, TypeOK, Bookkeeping
<1>5. ASSUME NEW p \in present, p # cur'
      PROVE  /\ cur' \notin served[p]
             /\ \A q \in served[p] \union {cur'} : q \in Nat /\ Passed(p, q)'
  <2>1. p \in Nat
    BY PidFacts DEF IInv, TypeOK
  <2>2. \A q \in served[p] : q \in Nat /\ Passed(p, q)
    BY DEF RoundInv
  <2> QED
    BY <1>4, <1>5, <2>1, <2>2 DEF Passed
<1>6. ~overtaken'
  BY <1>3, <1>5 DEF Switched, Waiting, RoundInv
<1>7. \A p \in Pids : served'[p] = IF Waiting(p) THEN served[p] \union {cur'} ELSE {}
  BY <1>3 DEF Switched
<1>8. DOMAIN served' = Pids
  BY <1>3 DEF Switched
<1>9. \A p \in Pids : p >= length => served'[p] = {}
  <2> SUFFICES ASSUME NEW p \in Pids, p >= length PROVE served'[p] = {}
    OBVIOUS
  <2>1. p \notin present
    BY <1>1, PidFacts DEF IInv, Bookkeeping
  <2> QED
    BY <1>7, <2>1 DEF Waiting
<1>10. \A p \in present : \A q \in served'[p] : q \in Nat /\ Passed(p, q)'
  <2> SUFFICES ASSUME NEW p \in present, NEW q \in served'[p]
               PROVE  q \in Nat /\ Passed(p, q)'
    OBVIOUS
  <2>1. p \in Pids
    BY DEF IInv, TypeOK
  <2>2. p # cur' /\ q \in served[p] \union {cur'}
    BY <1>7, <2>1 DEF Waiting
  <2> QED
    BY <1>5, <2>2
<1> QED
  BY <1>1, <1>6, <1>8, <1>9, <1>10 DEF RoundInv

LEMMA RoundInvStep == IInv /\ RoundInv /\ [HNext]_hvars => RoundInv'
<1> SUFFICES ASSUME IInv, RoundInv, [HNext]_hvars PROVE RoundInv'
  OBVIOUS
<1>1. CASE UNCHANGED hvars
  BY <1>1, RoundKept DEF hvars, svars, vars, listVars, taskVars, coreVars
<1>2. CASE HNext /\ task_select
  BY <1>2, SelectNextRound, SelectFaultRound, SelectFoundRound DEF task_select
<1>3. CASE HNext /\ ~task_select
  <2>1. /\ cur' = cur
        /\ pc # "select"
        /\ \/ length' = length /\ present' \subseteq present
           \/ \E par \in Pids : create_task(par)
    <3>1. cur \in Pids \/ pc \notin {"boot", "user"}
      BY PidFacts DEF IInv, TypeOK, Bookkeeping, CurrentInList, InList, Interruptible
    <3>2. CASE try_spawn_init
      BY <3>1, <3>2 DEF try_spawn_init, listVars, taskVars
    <3>3. CASE timer_isr
      BY <3>3 DEF timer_isr, listVars, Interruptible
    <3>4. CASE shell_spawn \/ program_spawn
      BY <3>1, <3>4 DEF shell_spawn, program_spawn, syscall_spawn, coreVars
    <3>5. CASE wait_for_event \/ program_poll
      BY <3>5 DEF wait_for_event, program_poll, InUser, vars, listVars, taskVars, coreVars
    <3>6. CASE program_exit
      BY <3>6 DEF program_exit, syscall_exit, listVars
    <3> QED
      BY <1>3, <3>2, <3>3, <3>4, <3>5, <3>6 DEF HNext, SNext, Kernel
  <2>2. UNCHANGED <<served, overtaken>>
    BY <1>3, <2>1 DEF HNext, Switched
  <2>3. CASE length' = length /\ present' \subseteq present
    BY <2>1, <2>2, <2>3, RoundKept
  <2>4. ASSUME NEW par \in Pids, create_task(par) PROVE RoundInv'
    BY <2>1, <2>2, <2>4, Created, RoundKept
  <2> QED
    BY <2>1, <2>3, <2>4
<1> QED
  BY <1>1, <1>2, <1>3

\* While a task waits for the processor no other task gets it twice, for every
\* number of tasks and whatever they spawn or exit during the round.
THEOREM SchedulerRoundRobin == HSpec => []RoundRobin
<1>1. HSpec => []IInv
  BY ShippedSystem, SchedulerInShell, PTL
<1>2. RoundInv => RoundRobin
  BY DEF RoundInv, RoundRobin
<1>3. HSpec => []RoundInv
  BY <1>1, RoundInvInit, RoundInvStep, PTL DEF HSpec
<1> QED
  BY <1>2, <1>3, PTL
=============================================================================
