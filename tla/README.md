# PotatOS in TLA+

PotatOS is a small x86-64 operating system in C: a kernel, a shell and a few
programs. This directory holds TLA+ models of the parts of the kernel
that keep state, TLC configurations that check them on small instances, and TLAPS proofs
of the properties that matter most for every value of the constants. Source paths in this
file are relative to the kernel's sources `src/src/`, and `userspace/` and `README.md` to `src/`.

## 1. Inventory

| Component | Source | State | Operations | Model |
|---|---|---|---|---|
| task list and scheduler | `tasks/tasklist.c`, `tasks/switch.asm`, `tasks/switchutils.c`, `tasks/end_task.c` | vector of tasks with flags, page tree, saved stack pointer; current pid; `scheduler_lock`; `can_task_switch` | create a task, timer interrupt, one pass of `task_select`, first entry, resumption, exit | `Scheduler` |
| event queues | `tasks/events.c`, `tasks/syscalls.c` | one vector of heap cells per task | `add_event`, poll, peek | `Events`, abstractly `EventQueue` |
| vector | `mem/vector.c` | chain of nodes and a length | push, at, pop | `Vector` (operators) |
| shell and programs | `userspace/` | prompt or wait | spawn, poll, exit | `Shell` |
| kernel heap | `mem/kheap.c` | chain of pools in physical pages | `init_kheap`, `malloc`, `split_pool`, `free` | `KHeap` |
| physical memory manager | `mem/pmm.c` | a bitmap at the start of every section | `kmalloc` | `PMM`, abstractly `PageAllocator` |
| paging | `mem/paging.c`, `mem/map.c` | page trees of the kernel and the tasks | `map_pages`, `alloc_pages`, `map_all`, `mmap` | `Paging`, abstractly `AddressSpaces` |
| VFS, devices, descriptors | `fs/vfs.c`, `tasks/syscalls.c`, `drivers/` | drives, resource table | mount, `create_device`, open, close, read, write | `Files`, abstractly `PathTree` |
| TempFS, initial ramdisk | `fs/tempfs.c`, `fs/ustar.c` | inodes, chains of entries and of file nodes | new, find, add, read, write, unpack | `TempFS` (operators), `Files` |
| keyboard | `drivers/keyboard.c` | `KeyboardData` cells, the one in use, the reader's buffer | open, close, read, the interrupt handler | `Keyboard` |
| multiprocessor start | `processors/smp.c`, `drivers/pit.c` | `init_lock`, TSS descriptor, PIT counter and mask | `init_smp`, `ap_entry`, the timer's handler | `SmpBoot` |
| boot sequence, ACPI, APIC, descriptor tables | `kernel/entry.c`, `drivers/acpi.c`, `drivers/apic.c`, `cpu/` | firmware tables, registered I/O APIC, redirections, vectors with a handler | the initialisers in the order of `_start` | `Boot` (the file system's part in `Files`, the last steps in `Scheduler`) |
| screen and output | `utils/printf.c`, `drivers/renderfont.c`, `drivers/framebuffer.c`, `utils/string.c` | position and colours, two buffers, `serial_lock` | print, wrap, scroll, cursor, echo, erase, `fb0`, clear | `Console` |
| program loading | `tasks/spawn.c` | none of its own | check the file, size the image, map, copy, open streams, create the task | `Paging`, parts of `Scheduler` and `Files` |
| panic and exceptions | `cpu/exceptions.asm`, `kernel/panic.c` | none | exit of a user task, or print and halt | parts of `Scheduler` and `Console` |

**How they interact.** The timer interrupt of the bootstrap processor drives the scheduler;
all other processors halt after their start. System calls run with interrupts off except for
two loops that turn them on: the reader of `D:/stdin` and the loop that ends `syscall_exit`.
So the interleavings are those of *user code*, of *the two loops*, of *interrupt handlers*
and, during boot, of *processors*. `spawn` uses the VFS (image and streams), the PMM and the
page trees, and creates the task last. `syscall_exit` adds an event to the parent's queue;
the shell polls for it. The heap takes pages from the PMM; vectors, events, inodes and
keyboard data are cells of the heap. Interrupt handlers run in whichever page tree is loaded,
which matters for the keyboard (it writes to a user address) and for the scheduler (it reads
through a NULL task).

**What is hard here.** Order of exits and polls; a tick between any two user steps; contexts
saved twice by a task that has exited; a spin lock that is released by another processor than
took it; a counter decremented without a lock by two timers; linked chains whose ends are
found by counts; a heap whose split condition must agree to the byte with what callers write;
memory that runs out half-way; keys that come when nobody reads; a print that faults with its
lock held; tables of the firmware read by a loop that adds up the wrong lengths; handlers that six
initialisers install and enable in an order no one of them sees. The `hazards` of
`PROJECT.json` list each one at its line with the properties that would catch it.

**What makes each part correct.** The *scheduler*: bookkeeping agrees with what executes,
nobody starves, exit is final. *Events*: each exit is delivered once. *Shell*: prompts after
its program has ended and not before. *Heap*: pools partition the memory, the chain reaches
all of them, users stay inside. *PMM*: pages are usable and handed out once. *Paging*: each
call maps its range and nothing else; trees share no tables. *Loading*: a program finds its
file's bytes where the file puts them. *Files*: nothing gets lost,
files read back. *Keyboard*: the buffer is respected, the line arrives, the read ends.
*Boot*: the tables are read to their end, each interrupt has its handler before it can come,
processors start one at a time and the boot goes on. *Output*: glyphs stay in the buffer, the
screen shows the text, numbers are told right.

## 2. Modules and how they correspond to the code

The names of definitions are those of the C functions wherever they model one, and the `map` of
`PROJECT.json` names the lines for each. Definitions commented "Variant" are deliberately
wrong forms of the one that follows: each shows that some property notices that mistake. No
specification uses them.

- **`Scheduler`** — The list only grows (`task_remove` has no caller), so a task is a pid
  below `length`. `present`, `firstExec`, `running` are the flag bits; `ctx` says where the
  saved stack pointer of a task leads; `space` is the loaded page tree; `page0` whether a
  tree's page 0 is readable and zero at byte 240 or unmapped. `pc` says what the core does: `boot`, `idle` (the kernel waits for
  the first tick), `user`, `spin` (the loop at the end of exit), `select`, `panic`, `ended`.
  Every pass of the recursion in `task_select` is one step (`select_next`, `select_found`,
  `select_fault`); the pid one past the list is visited in each round as in the code, where
  the flags of a NULL task are read at address 240 of the loaded tree. `MCScheduler` adds a history
  of who was served.
- **`Vector`, `Events`, `EventQueue`** — A vector is a chain of nodes and a length that may
  differ, since `vector_pop` of an index above 0 unlinks the node *after* it. `Events` has
  heap cells with contents, so that the `free` in peek is visible as reuse. The history
  variable `calm` is true until a program peeks or lets two events be pending.
- **`Shell`** — extends `Scheduler` and `Vector`: the shell as pid 1 with `sh` and
  `child`, all other programs free to spawn, poll and exit.
- **`KHeap`** — pools by the address of their header, in bytes of pages, and the chain of their links;
  requests with the number of bytes the caller writes too many (0, 1 for strings, 2 for the working
  directory). `malloc`'s outcomes (take, split, new pool from the PMM) are three actions.
- **`PMM`, `PageAllocator`** — sections of a memory map; a bitmap per section that describes
  itself too; the search with its rounding; the ways in which `kmalloc` ends: it returns,
  halts, or loops in `get_bitmap_reserved`.
- **`Paging`, `AddressSpaces`** — extends `PMM`. Virtual pages are numbers, the index on each
  level is division by `Span` and remainder, tables are functions kept at physical pages. `todo` is
  the rest of the call under way, so memory may run out between any two pages or tables.
  `spawn` checks the identification of a program, sizes its image from the lowest and the highest loadable segment, takes
  its pages in one call, copies the segments and maps them; `memory` holds what was copied where.
  `AddressSpaces` sees only the set of mappings that a walk of the trees finds.
- **`TempFS`, `Files`, `PathTree`** — inodes as a sequence, directories and files as chains.
  A walk along a path is a sequence of steps, the archive and the streams of the first task
  are boot steps, then the system calls of one task. `astray` marks states in which the code
  follows NULL or a piece of the heap that was used before and taken for cleared; the model stops there, as nothing can be said.
  `dotted` becomes true when something is created through `.` or `..`.
- **`Keyboard`** — tasks with buffers, `KeyboardData` cells, the handler by kinds of key: those with a
  character, those for which the tables have 0 and which store a NUL (`blank`), the others, and an interrupt
  without a scan code (`empty`). A key that interrupts another task than the reader writes the memory of *that*
  task, whose buffer is then unknown, or faults and ends it inside the handler (`isr_faults`); `spoiled` has the
  tasks whose line this touches. `misuse` records what takes a guarantee away: a closed device, a read of
  length 0, a read on the data of one that has not returned (`Modest` is none of these), and any two reads that overlap
  (`Orderly` excludes these too). `stuck`: the interrupt was not acknowledged.
- **`SmpBoot`** — the bootstrap processor, `N - 1` others in their steps, the TSS
  descriptor, pages, and the PIT counter with the handler's load and store as two steps.
- **`Boot`** — extends `SmpBoot` to the whole of `_start`: `stage` is the initialiser that comes next.
  The machine is chosen at the start: revision, names in the RSDT, entries of the MADT with
  their lengths, and what lies in memory *behind* the MADT, since the loop of `init_apic`
  adds the length of the entry after the one it has read. `redirection` is what `map_ioapic`
  really writes, to a register numbered as in the code; `Raised` is what the hardware makes of
  it. The steps of `SmpBoot` happen in the stage `smp`.
- **`Console`** — the back and the front buffer as cells 8 pixels wide; the position as a column and a row of
  pixels. Rows are `Pitch` apart, but the buffer (`Buffer`) is sized by the width, as in the code; `Packed` is a machine that
  does not pad its rows. A glyph beyond the buffer is noted in `stray`, and one row behind it, which `scroll_pixel` also
  writes, is part of the state. A print takes the lock, writes character by character, and swaps the buffers; `printf` and
  `kstatusf` release the lock after the swap and `k_ok` before it. The text of a program may hold a conversion, which reads
  something or faults. The digits of `%i` are counted by one loop and filled in from the end by another, and cut at nine; ten
  digits overrun the buffer (`pc = "astray"`), which `kmalloc_fails` can do with any number a program asks for. The echo of the
  keyboard and the panic draw through the same operators. `calm` is true until a picture, a cursor at the line's
  end, output beside typing or an exception makes the picture something else than the text.
- **`MC…`** modules only hold the constants' values; **`…Proofs`** the theorems.

## 3. Runs

| Run | Shows |
|---|---|
| `scheduler` | `OneRunning`, `SavedContext`, `LockFree`, `PanicOnlyUnmapped`, `RoundRobin`, `ExitIsFinal`, `EveryTaskRuns` over every order of spawn, exit, poll and tick; `PromptAfterExit`, `OneEventPending`, `ExitSeen`: the shipped shell is a calm user of its queue, and the exit it waits for is in it. |
| `events` | no walk leaves the chain (`ChainCoversLength`); a calm program's events implement `EventQueue` (`QueuePromise`) and leak nothing (`CellsLive`). |
| `kheap` | `PoolsSeparate`, `NoByteLost`, `ChainComplete`, `WritesStayInside` (for callers at most one byte over), `UsedStays`. |
| `paging` | `AllocatorPromise` (PMM implements `PageAllocator`), `TablesPrivate`, `SpacePromise` (trees implement `AddressSpaces`), `ImageSeen` (a spawned program finds its file's bytes at their addresses). |
| `files` | `DirectoriesWhole`, `ReadsBack`, `TreePromise` (inodes implement `PathTree`), `BootEnds`. |
| `keyboard` | `NoOverrun`, `KeepsKeyboard`, `LineIntact`, `ReadEnds`: the index, the reader, the line and the end of a read, with opens, overlapping reads and keys that interrupt another task. |
| `smp` | `TableEnumerated`, `InterruptsHandled`, `OneAtATime`, `NoFault`, `OwnStacks`, `BootGoesOn`: the boot on eleven machines. |
| `console` | `DrawnInside`, `ScreenIsText` (both where rows are not padded), `NumberTold`. |
| `scheduler_end` | *violated*: after the last exit the closing message of `kernel/entry.c:127` is never reached; `task_select` searches forever. |
| `events_twice` | *violated*: two exits before a poll, and one is received twice while another is lost, against `tasks/syscalls.c:119`. |
| `kheap_dir` | *violated*: the copy of the working directory in `create_task` ends two bytes past its request and can overwrite the header behind it, on which `kheap.c:70` halts. |
| `pmm_loop` | *violated*: on a section of more than 128 MiB `get_bitmap_reserved` never ends, though `README.md:31` offers real hardware. |

The type invariants of the modules that have a proof module are proved there and not checked again.

### Bounds, and why they are enough

- `scheduler`: 6 pids, i.e. the kernel's task and 5 user tasks. The search needs one task that exits,
  one that waits, one that is created during the round and one past the end of the list; the
  shell, a program, its children and a second program coexist.
- `events`: 3 events and 4 cells, so that all may be pending while a freed cell is reused.
- `kheap`: header 3, page 8, memory of 4 pages. A request of 5
  bytes fills its page exactly, one of 1 or 2 leaves enough or just too little for a second
  pool, so every outcome of the split condition occurs; callers write 0, 1 or 2 bytes too
  many; the pages last for several pools and run out.
- `paging`: 6 entries on 3 levels, so that ranges cross the ends of tables on one and on two
  levels; memory of 5 sections, one too small, one reserved, with remainders at the bitmap's
  rounding, and too little of it for the third tree, so that it runs out at every kind of step.
  Pages of 2 bytes, and four programs: segments in falling order that share a page, with bytes that
  are not in the file and a header that is not loadable; one with nothing to load; two that are refused.
- `files`: blocks of 2 bytes with writes of 0 to 3, so that a block is filled in part,
  exactly and by one more; an archive with a directory and two files; 16 paths that name
  each kind of object, missing drives, `.` and `..`.
- `keyboard`: 2 tasks and 2 cells, which is what a stale cell and two overlapping reads take; buffers up to 2 bytes, so that a
  line is empty, full, erased and typed again. That longer lines keep their order is proved for every length (`LineDelivered`).
  The constraint `Modest` ends the search where a read begins on data in use, the device is closed or a
  read has length 0; the properties claim nothing about those states. The proofs of the
  safety properties do not use the constraint.
- `smp`: 6 processors and waits of 10 ticks, as in the code: four hand-overs after the first, and ticks that
  skip zero. The counter below zero is one
  value above the wait, from which no number of ticks brings it back in time. The machines have one
  or two I/O APICs in both orders, or none; a first entry longer and shorter than what lies
  behind the table; a zero there, which the loop never leaves; no MADT, no APIC, a later revision.
- `console`: a screen of three lines of three characters, with glyphs of two rows, and six prints, keys or
  pictures: enough to fill the screen, scroll it, wrap a line under the cursor and erase across
  its end. Rows are not padded. Numbers are zero, the two sides of a power of ten and of sixteen, the longest that `%i` has room
  for and the first with ten digits.

### Fairness, and why the code justifies it

- *Timer and search* (`WF(timer_isr)`, `WF(task_select)`): the LAPIC timer is periodic; the
  search is kernel code with interrupts off. Programs are assumed to do nothing. This is the
  timer *while it is acknowledged*: see the keyboard below.
- *Shell*: none, and it is not claimed that it prompts again. The release of the Enter key that started a program
  usually comes while nobody reads, is not acknowledged (`drivers/keyboard.c:75`), and stops the ticks. `ExitSeen` and
  `PromptAfterExit` say what holds without the timer: the shell's wait and its queue agree.
- *Keyboard*: each task is switched to again and again and its slice is long enough for one
  turn of the reader's loop (strong, as the turn is interrupted); a delivered interrupt is
  handled; the user presses Enter in the end.
- *Boot*: processors execute, the PIT ticks while it is unmasked and its vector is redirected. The
  bootstrap processor's steps are strongly fair because it spins, for the counter or for the lock,
  between interrupts that end, and nobody else takes the lock in between. `BootGoesOn`
  claims the end only for a `Supported` machine.
- *Output*: no liveness is claimed.
- *Files*: boot runs straight on. System calls are not assumed to happen.

Deadlock is not checked where the system may stop: it panics, halts, runs out of memory, or
has reached a bound of the model.

## 4. Proofs

All proofs hold for every value of the constants that satisfies the `ASSUME`s of the modules. `ImagesSeen` has a further
hypothesis, `Layout`, which `MCPaging` has TLC evaluate on the constants of its run.

| Module | Inductive invariant | Results |
|---|---|---|
| `SchedulerProofs` | `IInv`: the safety properties with `Bookkeeping`; `ShellInv`; `RoundInv` | `TypeCorrect`, `CurrentTaskListed`, `RunningIsCurrent`, `ContextsSaved`, `LockNotLeaked`, `PanicCause`, `ExitFinal`; `ShippedSystem` (the shell's system implements the scheduler), `ShellPrompts`, `ShellQueue`, `ExitNotLost`, `SchedulerRoundRobin` |
| `EventsProofs` | `CalmInv` | `ChainTheorem`, `CellsTheorem`, `PromiseTheorem` (refinement) |
| `KHeapProofs` | `KInv`, and `WInv` for the writes | `LayoutTheorem`, `WritesTheorem`, `UsedTheorem`, `ChainTheorem`, `BytesTheorem` |
| `PagingProofs` | types of the bitmaps; `QInv` with `CallOk`; `TreeInv` with `Placing`; `CountInv`; `LoadInv` | `PMMTypes`, `PromiseKept` (refinement); `PagingTypes`, `PagesPromised` (the same refinement with the callers), `TreesKept`, `TablesApart`, `SpacesKept` (refinement), `ImagesSeen` (under `Layout`) |
| `BootProofs` | `IInv` of `SmpBoot`, with `HandOver`; `HandlerInv`; `BootInv`; `TableInv` | `Serialised`, `NoBusyTSS`, `StacksDistinct`, `WaitServed`, `HandlersReady`, `ProcessorsApart`, `TableRead` |
| `FilesProofs` | `FInv`: types, pointers and `LastHeld`; `DInv` with `Whole`; `TInv` with `Later`, `WalkPlace` | `FilesType`, `FilesReadBack`, `DirectoriesInvariant`, `WholeTheorem`, `TreeKept` (refinement) |
| `ConsoleProofs` | `ScreenInv`; `ToldInv`; `PictureInv` with `CalmText` | `GlyphsInside`, `NumbersTold`, `TextShown` |
| `KeyboardProofs` | `IInv` with `OwnData`, `OneReader`, `LineSoFar` | `KeyboardInvariant`, `BufferRespected`, `KeyboardKept`, `LineDelivered` |

Why the strengthenings are needed:

- `Bookkeeping`: that the lock is not leaked by a lone task follows from switching starting
  only after a second task is listed and the list never shrinking; that the kernel's own tree, where
  page 0 is unmapped, never faults follows from the first search finding pid 1 before it
  leaves the list.
- `ShellInv`: the shell's queue is right only because no task but the program it waits for may still
  exit with the shell for its parent; each of the three situations (prompt, waiting for a program that
  runs, waiting with the event pending) fixes the queue.
- `RoundInv`: what a waiting task has seen being served lies between it and the position of the search,
  in the cyclic order of pids. New tasks come behind all pids in that order, so they overtake nobody.
- `CalmInv`: while a program is calm, length is 0 or 1, the chain is exactly as long, and
  exactly its cells are allocated; only then is the wrong unlinking of `vector_pop` harmless.
- `KInv`: pools cannot overlap after a split only if each has room for its header and
  what was asked of it (`RequiredFits`). `WInv` adds the bytes written. `ChainComplete` and
  `NoByteLost` are inductive relative to it: a split inserts the new header behind the one it was cut from
  and leaves the two with exactly the bytes of the one.
- `CallOk`: the parts of the call under way write only to trees there are, or make the next tree first and
  write to it afterwards; `spawn` enters the new tree's `mmap_upto` before the tree exists, so the two
  lists differ in length in between, also for ever if memory runs out there.
- `Placing`: each table has a place (tree, level, range of virtual pages), roots are on the first level,
  and an entry above the last level leads to the table whose place is below it. That no table is shared or
  lost follows, since a table cannot have two places; a new table is a page that was never handed
  out before, so it disturbs no place.
- For `SpacesKept` two more facts follow from `Placing` by induction over the levels: no two tables have the same place
  (`PlaceUnique`), and the table on level k of the way to page v has the place v divided by `Span`
  (`WalkPlaces`, with `IndexSplits`). So the entry that a step writes is the one of the page the call is at, and the only one.
  `CountInv`: a range that is to be mapped has a page left. `spawn` can compute a size of zero or less from
  odd headers, but then it asks `kmalloc` for that many pages first, which halts the machine.
- `LoadInv`: a tree that is finished has its image on pages that were handed out (`Present`: the bytes of the file in one run of
  pages, and those pages mapped one after the other), and the call under way is either one whose parts touch no image
  (`Harmless`) or the spawn of the last tree in one of three stages: the pages not yet taken (`Asking`), taken and not yet written, so that
  no finished image may lie in them (`Copying`), written and mapped up to page d (`Entering`). The run that `kmalloc` gives is new, which
  is `PagesPromised`, so the copy writes no other image; the entries written are those of `SpacesKept`; the way of the processor
  to a mapping is the walk of `WalkReaches`; and `mmap_upto` begins behind the image, rounded up to a page
  (`RegularPages`), so an `mmap` at no address in particular never meets it.
- `Layout` is what the code leaves to the linker script and to the programs: the segments of a program that is accepted do not overlap and
  begin on a page, and none of its pages is the stack's, an argument page, an APIC's or one that a program asks `mmap` for.
  Without it `ImageSeen` is false: later parts of `spawn` map over the image, and nothing checks.
- `HandOver`: a processor in its initialisation keeps the lock, and the loop has passed
  exactly the started ones; so a page that was found is still free when it is marked.
- `HandlerInv`: by stage, which vectors have a handler, and that a redirection names only
  vectors that have one; what a line raises is a subset of it whatever register was written.
- `BootInv`: until the stage `smp` the start of processors has not begun, after it all are
  alone; between the two the invariant of `SmpBoot` is kept by its own steps.
- `TableInv`: the bytes that the loop over the MADT has added up are those of all entries up to the
  current one but the first, so the sum is short of the table's length by the first entry
  until it has left the table; what lies behind makes up for it.
- `ScreenInv`: between prints the column is at least −1, where the cursor at the end of a line leaves it,
  and the row lets one more glyph fit; a print, a cursor and an erasure lead back there, each
  through intermediate positions further left (`Fits` with its lower bound as a parameter).
- `ToldInv`: in the middle of a number, what is told and what is left to write are together the digits that the
  conversion made (`FormatValue`: they denote the number, whatever the base and however many noughts fill it up). For `%i` as
  many are counted as are found (`AsManyCounted`), and the cut leaves the digits of a number below 10^9 alone (`CutDigits`).
- `PictureInv`: the back buffer shows the text also in the middle of a print, and nothing below its last line (`Clean`), so that
  a line end or a scroll brings up dark rows. This part holds for any pitch; that the front buffer gets all of it is where `Packed` is used; the typed characters lie in the last line and end before its last
  column, so a correction never crosses the end of a line. The line end is no glyph of the font (`"LF" \notin Letters`): the
  keyboard handles Enter apart from the letters.
- `LastHeld`: a file read back is right because its chain of nodes holds the last write up to the length,
  also when the chain is longer from an earlier write; that a write goes to an inode that exists is
  the rest of `FInv`.
- `Whole`: a directory's count leads to the end of its chain (`Good`), the chain begins with `.` and `..`, no
  two directories share a chain, and the `..` of a directory has its parent's chain. The last two are needed for the
  directories that did *not* change: an entry added to one chain must not lengthen another. All of it is claimed
  only until something is created through `.` or `..` (`dotted`), where it is false in the code.
- `TInv`: an entry of a directory is younger than the directory (`Later`), and its `..` fixes its parent, so a directory that is reached
  has one path and one new entry is one new path; no two drives share a root; and where a walk along a path stands
  (`WalkPlace`), with the names it has left, is the inode that the names it has used lead to. A stream has a path of one name, hence
  `MaxDepth > 0`.
- `OwnData`: no two reads are on the same cell, the cell of a read describes its buffer, and the cells that no read uses are
  idle with a length of 0; so an open that replaces the cell of the file does not touch one in use, and the length found by equality
  is never ahead of the buffer. `OneReader`: among orderly programs the one reader's cell is the handler's. `LineSoFar`: the line also while it is
  being typed.

The proof of a refinement shows that the initial states map to initial states and each step
to a step or a stutter.

**Recursive definitions.** The prover cannot instantiate an induction theorem with an operator. Where a property
follows a sum or a tree to any length (`LengthOf` the MADT, the directories `Reached` from the drives, the walk to a table
and the levels of a page tree, the digits of a number and their value) the proofs use the
least counterexample instead: a set of naturals that is not empty has a least member (`Least`, from `WFMin` and
`NatLessThanWellFounded`), so a *set* of naturals with 0 and with the successor of each member is all of them
(`Induction`). With the set of numbers for which a function of that length exists it
gives the equation of the recursive function (`SumsEquation`, `WalkEquation`, `LevelsEquation`, `SumEquation`, `CountEquation`), with others what is claimed of it.
The digits recurse on all naturals: the functions for the numbers up to n agree with one another (`PartUnique`) and so make one for all (`DigitsEquation`).

**Only model-checked.** Every liveness property (`EveryTaskRuns`, `ReadEnds`,
 `BootGoesOn`, `BootEnds`), because the prover does not reason about fairness.

## 5. What was noticed besides

None of these is a property of a run; each is visible in a definition of a model or in its comment, or is
named here because the models leave it out.

- *Keyboard.* A key, and also the release of the Enter key that ended a line, which comes
  while nobody reads is not acknowledged (`drivers/keyboard.c:75`), nor is an interrupt without a scan code (`:76`): vector 33 stays in
  service, and neither keys nor timer ticks arrive any more. Keys without a character, and Backspace on an empty line,
  insert a NUL. The handler writes to the reader's address in the tree of whichever task is
  running (`:94`, `:109`, `:134`); where that is not mapped, the fault ends the interrupted task inside the handler, without acknowledgement.
  A length of 0 makes the limit `-1`. Each `spawn` replaces the `KeyboardData` of stdin.
- *Interrupts.* `end_of_interrupt` turns interrupts on before `iretq`. The path for an
  unknown system call leaves with `ret` (`syscall_handler.asm:74-76`).
- *Events.* The comments of poll and peek are swapped (`tasks/syscalls.c:70`, `:81`); peek
  frees the event it leaves in the queue (`:88`).
- *Memory.* Pages at the end of a section are never used (`mem/pmm.c:92`). `mmap` passes
  bytes as pages (`tasks/mmap.c:24`) and so maps pages it did not take. `spawn` maps two pages for the
  one it took for the arguments (`tasks/spawn.c:134`), the second often being a page table of
  the new tree; argument pointers are addresses of the direct map (`:142`).
- *Loading.* The first segment's address is not rounded down to a page, so an image that does not
  begin at the start of a page is mapped with its bytes shifted, and a lone segment at address 0
  is not found as the last one. The bytes that are not in the file are zero only because `kmalloc` clears its pages (`mem/pmm.c:98`).
- *Output.* The text of a program is the format of `printf` (`fs/vfs.c:296`); a fault in it
  leaves `serial_lock` held, and the next print hangs. `scroll_pixel` writes a row behind the
  buffer (`drivers/framebuffer.c:113`). The buffer is sized by the width and addressed by the pitch (`:65`, `:94`): where rows are
  padded, the lower glyphs lie behind it and the swap (`:88`) shows less than the screen. At the last column the cursor wraps, leaves a white cell
  and a column of −1 (`drivers/keyboard.c:68`, `:111`). Without a font the cursor is drawn
  through a NULL font (`drivers/renderfont.c:24`). `%i` has room for
  nine digits (`utils/printf.c:32-35`); `mem/pmm.c:106` prints a number of pages that a program chooses (`tasks/mmap.c:23`) and that may have ten.
- *APIC.* The loop over the MADT adds the length of the next entry (`drivers/apic.c:195-196`); a zero behind the table
  keeps it for ever. The last I/O APIC wins, and the register of a line is numbered from its base
  instead of relative to it, so lines of one that does not begin at 0 are not redirected. `find_MADT` has no result
  when there is no table.
- *Files.* `.` has a count of 2 and `..` of 0 of its own over a chain they share with the
  directory (the comment of `fs/tempfs.c:40` calls them identical), so creation through them
  overwrites entries; through `..` of a root it loses all others. The first `FileNode`, a
  root's inode and the one of `.` are not cleared, which matters where the heap hands out a piece that was freed before (fresh pages are cleared by
  `mem/pmm.c:98`). A failed open returns a descriptor. A
  directory can be opened as a file and has no inode then. Only `fb0` can be written.
  `fs/vfs.c:180` and `fs/ustar.c:24` write one byte past their buffers.
- *PIT.* `pit_wait` may return early, as the LAPIC timer decrements the same counter.
- *Never called*: `task_remove`, `cleanup_event`, `lock_syscall_handler`,
  `unlock_syscall_handler`, `lock_lapic_timer`, `push_vmem`, `write_vmem`, `virt_to_phys`,
  `unmount`, `mkfile`, `mkdir`, `change_cd`. They are no actions of any model.

## 6. What is not modelled

- The bit layouts of descriptors, page entries and device registers; the shapes of glyphs and
  the colours beyond background; the transmit loop of the serial port; the C library's wrappers and
  the helpers on strings, which have no state; the vendored bootloader header.
- The bytes of arguments; the fields of the archive's headers
  are taken as parsed. Names are model values: that one of 20 characters or more runs into
  the fields behind it in the inode (`fs/tempfs.c:59`) is outside the models, as is the
  use of a freed path to tell what is printed about a new file (`fs/vfs.c:229`).
- Register contents beyond which code a saved stack pointer leads to; the entry and exit code
  of system calls; `getcwd`.
- Rights of a page beyond user or kernel.

## 7. Plan

Done, in this order: scheduler, events, shell, heap, PMM, multiprocessor start, keyboard, files, paging,
output, boot, program loading.

Then the proofs, in the order of the table in section 4; the last ones so far are those of the shell, the round robin, the
heap's chain and bytes, the MADT, the page trees, the digits of numbers, the file system's paths, the text on the screen and the images of programs.

Next:

1. A composition of `Keyboard` with `Scheduler` in which `stuck` stops the timer, to state
   which fairness of the scheduler depends on which behaviour of the reader.
2. What user mode may reach: a property of `Paging` that no user mapping leads to a table or to
   another task's page, which `tasks/mmap.c:24` and `tasks/spawn.c:134` are expected to break; find the line
   of the repository that promises it before it becomes a run.
