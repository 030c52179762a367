-------------------------------- MODULE Paging --------------------------------
(***************************************************************************)
(* The page trees (mem/paging.c, mem/map.c) on the pages of PMM: the        *)
(* kernel's own tree, the tree of every task that spawn makes and fills     *)
(* with the segments of a program (tasks/spawn.c), and what mmap maps into  *)
(* it later.                                                                *)
(*                                                                         *)
(* Addresses are counted in pages.  The four nested loops of map_pages and  *)
(* alloc_pages count up the virtual page; the table on each level is made   *)
(* when the loop comes to it and there is none.  todo is what the call      *)
(* under way has still to do: every kmalloc and every entry is a step, for  *)
(* memory may run out at each of them.  Interrupts are off in all of this.  *)
(***************************************************************************)
EXTENDS PMM

CONSTANTS
    Fan,          \* entries of a table, 512
    Levels,       \* levels of tables, 4
    PageSize,     \* bytes of a page, 4096
    Hhdm,         \* the virtual page at which physical page 0 is mapped
    KernelImage,  \* what map_kernel maps of the image: a sequence of v, page, n
    KernelStack, UserStack, Argv,   \* where these lie in a tree
    StackPages,   \* KERNEL_STACK_PAGES
    Apics,        \* the physical pages of the two APICs
    Programs,     \* bound: the files that spawn may be asked for
    Lengths,      \* bound: the bytes that mmap is asked for
    Fixed,        \* bound: the virtual pages that mmap may be asked to map at
    MaxTrees      \* bound: the trees that are made

\* What validate_elf looks at, and the fields of elf_program_header that are used;
\* addresses, sizes and offsets are in bytes.
Identification == [magic : BOOLEAN, endianness : Nat, class : Nat, machine_type : Nat]
ProgramHeader  == [loadable : BOOLEAN, offset : Nat, v : Nat, file : Nat, mem : Nat]

ASSUME PagingAssumption ==
    /\ Fan \in Nat \ {0} /\ Levels \in Nat \ {0} /\ PageSize \in Nat \ {0}
    /\ {Hhdm, KernelStack, UserStack, Argv, MaxTrees} \subseteq Nat
    /\ StackPages \in Nat \ {0} /\ Apics \in Seq(Nat)
    /\ KernelImage \in Seq([v : Nat, page : Nat, n : Nat \ {0}])
    /\ Programs \in Seq([id : Identification, headers : Seq(ProgramHeader)])
    /\ \A p \in DOMAIN Programs : Programs[p].headers # <<>>
    /\ Fixed \subseteq Nat \ {0}
    /\ Lengths \subseteq Nat

VARIABLES
    tables,   \* the tables, by the physical page they fill
    roots,    \* the top tables: the kernel's, then the tasks'
    todo,     \* the rest of the call under way
    taken,    \* the run of pages that the call has got for contents
    upto,     \* mmap_upto of each tree
    program,  \* the program each tree was made for, 0 for the kernel
    memory    \* the bytes of programs in physical memory

pvars == <<tables, roots, todo, taken, upto, program, memory>>
allVars == <<vars, pvars>>

NoEntry == [present |-> FALSE, page |-> 0, user |-> FALSE]
EntryOf(page, user) == [present |-> TRUE, page |-> page, user |-> user]

PInit ==
    /\ Init
    /\ tables = <<>> /\ roots = <<>>
    /\ todo = <<>> /\ taken = 0 /\ upto = <<>>
    /\ program = <<0>> /\ memory = <<>>

-----------------------------------------------------------------------------
(* What the callers ask for *)

\* page counts from the pages taken if from is "taken", from zero otherwise.
Part(op, space, v, n, from, page, user) ==
    [op |-> op, space |-> space, v |-> v, n |-> n, from |-> from, page |-> page, user |-> user]

Copy(s)    == <<Part("copy", s, 0, 1, "taken", 0, FALSE)>>
Take(n)    == <<Part("take", 0, 0, n, "zero", 0, FALSE)>>
NewTree(s) == <<Part("tree", s, 0, 1, "zero", 0, FALSE)>>
MapTaken(s, v, n)    == <<Part("map", s, v, n, "taken", 0, TRUE)>>
MapKernel(s, v, n, p) == Part("map", s, v, n, "zero", p, FALSE)
Alloc(s, v, user)    == <<Part("alloc", s, v, StackPages, "zero", 0, user)>>

map_kernel(s) ==
    [k \in DOMAIN KernelImage |->
        MapKernel(s, KernelImage[k].v, KernelImage[k].n, KernelImage[k].page)]
    \o Alloc(s, KernelStack, FALSE)

\* Section after section.  Memory of the kinds that are mapped is the usable one here.
map_sections(s) ==
    LET Direct(e) == MapKernel(s, Hhdm + Sections[e].base, Sections[e].pages, Sections[e].base)
        parts[e \in 0 .. Len(Sections)] ==
          IF e = 0 THEN <<>>
          ELSE IF Sections[e].usable THEN Append(parts[e - 1], Direct(e)) ELSE parts[e - 1]
    IN  parts[Len(Sections)]

map_all(s) == map_kernel(s) \o map_sections(s)

\* Both APICs end up at their physical address in the direct map.
map_apic_into_task(s) ==
    [k \in DOMAIN Apics |-> MapKernel(s, Hhdm + Apics[k], 1, Apics[k])]

Calling == status = "running" /\ todo = <<>>

init_paging ==
    /\ Calling /\ roots = <<>>
    /\ todo' = NewTree(1) \o map_all(1)
    /\ UNCHANGED <<vars, tables, roots, taken, upto, program, memory>>

PAGE_ALIGN_UP(bytes) == (bytes + PageSize - 1) \div PageSize

validate_elf(id) == id.magic /\ id.endianness = 1 /\ id.class = 2 /\ id.machine_type = 62

Loadable(h) == {k \in DOMAIN h : h[k].loadable}

\* The first of the lowest segments; the first header when there is none.
first_loadable_segment(h) ==
    IF Loadable(h) = {} THEN 1
    ELSE CHOOSE k \in Loadable(h) : \A j \in Loadable(h) :
             h[k].v < h[j].v \/ (h[k].v = h[j].v /\ k <= j)

\* The first of the highest segments above address 0; the first header when there
\* is none, be it loadable or not.
last_loadable_segment(h) ==
    LET above == {k \in Loadable(h) : h[k].v > 0}
    IN  IF above = {} THEN 1
        ELSE CHOOSE k \in above : \A j \in above :
                 h[k].v > h[j].v \/ (h[k].v = h[j].v /\ k <= j)

ImageStart(h) == h[first_loadable_segment(h)].v
ImageEnd(h)   == LET e == h[last_loadable_segment(h)] IN e.v + e.mem

\* Variant: only whole pages are counted.
pages_to_map_down(h) == (ImageEnd(h) - ImageStart(h)) \div PageSize

pages_to_map(h) == PAGE_ALIGN_UP(ImageEnd(h) - ImageStart(h))

\* A file that is not valid is refused before anything is taken.  The argument page
\* is one page, two are mapped.
spawn(p) ==
    /\ Calling /\ roots # <<>> /\ Len(roots) < MaxTrees
    /\ validate_elf(Programs[p].id)
    /\ LET s == Len(roots) + 1
           h == Programs[p].headers
       IN  /\ todo' = Take(pages_to_map(h)) \o Copy(s) \o NewTree(s) \o map_all(s)
                      \o MapTaken(s, ImageStart(h) \div PageSize, pages_to_map(h))
                      \o Alloc(s, UserStack, TRUE)
                      \o Take(1) \o MapTaken(s, Argv, 2)
                      \o map_apic_into_task(s)
           /\ upto' = Append(upto, PAGE_ALIGN_UP(ImageEnd(h)))
           /\ program' = Append(program, p)
    /\ UNCHANGED <<vars, tables, roots, taken, memory>>

\* As many pages are mapped as bytes were asked for, but taken for the bytes only.
\* An address of 0 is NULL: the kernel chooses.
syscall_mmap(s, addr, length) ==
    /\ Calling /\ length > 0
    /\ todo' = Take(PAGE_ALIGN_UP(length))
               \o MapTaken(s, IF addr = 0 THEN upto[s] ELSE addr, length)
    /\ upto' = IF addr = 0 THEN [upto EXCEPT ![s] = @ + PAGE_ALIGN_UP(length)] ELSE upto
    /\ UNCHANGED <<vars, tables, roots, taken, program, memory>>

\* Anyone else: the heap, the drivers, the descriptor tables.
kmalloc_elsewhere(n) ==
    /\ Calling /\ kmalloc(n)
    /\ UNCHANGED pvars

-----------------------------------------------------------------------------
(* The steps of the call *)

\* The virtual pages below an entry that is k levels above a page's own entry.
Span[k \in 0 .. Levels] == IF k = 0 THEN 1 ELSE Fan * Span[k - 1]

\* Variant: the mask is one less than the entries of a table.
IndexShort(v, k) == (v \div Span[Levels - k]) % (Fan - 1)

\* The index of virtual page v on level k; level 1 is the root.
Index(v, k) == (v \div Span[Levels - k]) % Fan

\* The tables on the way to v, level by level; 0 where there is none.  Page 0 is
\* never a table: a section begins with its bitmap.
TableAt(root, v) ==
    LET Below(page, i) == IF page = 0 \/ ~tables[page][i].present THEN 0 ELSE tables[page][i].page
        t[k \in 1 .. Levels] == IF k = 1 THEN root ELSE Below(t[k - 1], Index(v, k - 1))
    IN  t

Now   == Head(todo)
Doing(ops) == status = "running" /\ todo # <<>> /\ Now.op \in ops

Root == roots[Now.space]
Way  == TableAt(Root, Now.v)

Runs == Doing({"map", "alloc"}) /\ Now.v < Span[Levels]
Leaf == Way[Levels]

WithTable(page) ==
    [p \in DOMAIN tables \union {page} |->
        IF p = page THEN [i \in 0 .. Fan - 1 |-> NoEntry] ELSE tables[p]]

\* One page is done; the call ends when none is left.
Advance ==
    todo' = IF Now.n = 1 THEN Tail(todo)
            ELSE <<[Now EXCEPT !.v = @ + 1, !.page = @ + 1, !.n = @ - 1]>> \o Tail(todo)

Enter(entry) == tables' = [tables EXCEPT ![Leaf][Index(Now.v, Levels)] = entry]

PhysAddr == IF Now.from = "taken" THEN taken + Now.page ELSE Now.page

take_pages ==
    /\ Doing({"take"})
    /\ kmalloc_returns(Now.n)
    /\ taken' = last'.lo
    /\ todo' = Tail(todo)
    /\ UNCHANGED <<tables, roots, upto, program, memory>>

\* The bytes of every loadable segment go where it lies behind the first one, header
\* by header; what is behind them in memory is zero, as kmalloc has left it.
copy_segments ==
    /\ Doing({"copy"})
    /\ LET p == program[Now.space]
           h == Programs[p].headers
           To(k)   == taken * PageSize + h[k].v - ImageStart(h)
           Into(b) == {k \in Loadable(h) : b \in To(k) .. To(k) + h[k].file - 1}
           Copied  == UNION {To(k) .. To(k) + h[k].file - 1 : k \in Loadable(h)}
           LastOf(b) == CHOOSE k \in Into(b) : \A j \in Into(b) : j <= k
       IN  memory' = [b \in DOMAIN memory \union Copied |->
                        IF b \in Copied
                        THEN [program |-> p, at |-> h[LastOf(b)].offset + b - To(LastOf(b))]
                        ELSE memory[b]]
    /\ todo' = Tail(todo)
    /\ UNCHANGED <<vars, tables, roots, taken, upto, program>>

init_paging_task ==
    /\ Doing({"tree"})
    /\ kmalloc_returns(1)
    /\ tables' = WithTable(last'.lo)
    /\ roots' = Append(roots, last'.lo)
    /\ todo' = Tail(todo)
    /\ upto' = IF upto = <<>> THEN <<0>> ELSE upto
    /\ UNCHANGED <<taken, program, memory>>

\* The first table that is missing is made, with all rights.
add_table ==
    /\ Runs
    /\ \E k \in 2 .. Levels :
         /\ Way[k] = 0 /\ Way[k - 1] # 0
         /\ kmalloc_returns(1)
         /\ tables' = [WithTable(last'.lo) EXCEPT
                         ![Way[k - 1]][Index(Now.v, k - 1)] = EntryOf(last'.lo, TRUE)]
    /\ UNCHANGED <<roots, todo, taken, upto, program, memory>>

map_page ==
    /\ Runs /\ Now.op = "map" /\ Leaf # 0
    /\ Enter(EntryOf(PhysAddr, Now.user))
    /\ Advance
    /\ UNCHANGED <<vars, roots, taken, upto, program, memory>>

alloc_page ==
    /\ Runs /\ Now.op = "alloc" /\ Leaf # 0
    /\ kmalloc_returns(1)
    /\ Enter(EntryOf(last'.lo, Now.user))
    /\ Advance
    /\ UNCHANGED <<roots, taken, upto, program, memory>>

\* The loops run off the last virtual page: the machine halts.
runs_off ==
    /\ Doing({"map", "alloc"}) /\ Now.v >= Span[Levels]
    /\ status' = "halted"
    /\ UNCHANGED <<bitmap, last, total, pvars>>

\* A page is needed and there is none, or none was asked for.
Needs == IF Now.op = "take" THEN Now.n ELSE 1
out_of_memory ==
    /\ \/ Doing({"take", "tree"})
       \/ Runs /\ (Now.op = "alloc" \/ Leaf = 0)
    /\ kmalloc_refuses(Needs) \/ kmalloc_fails(Needs)
    /\ UNCHANGED pvars

Step ==
    \/ take_pages \/ copy_segments \/ init_paging_task \/ add_table \/ map_page \/ alloc_page
    \/ runs_off \/ out_of_memory

PNext ==
    \/ Step
    \/ init_paging
    \/ \E p \in DOMAIN Programs : spawn(p)
    \/ \E s \in 2 .. Len(roots), addr \in Fixed \union {0}, length \in Lengths :
           syscall_mmap(s, addr, length)
    \/ \E n \in Requests : kmalloc_elsewhere(n)

PSpec == PInit /\ [][PNext]_allVars

-----------------------------------------------------------------------------
(* Properties *)

\* The tables of a tree, with the virtual pages they begin at, in units of what an
\* entry of the level above spans.
Placed(s) ==
    LET at[k \in 1 .. Levels] ==
          IF k = 1 THEN {[space |-> s, level |-> 1, v |-> 0, page |-> roots[s]]}
          ELSE UNION {{[space |-> s, level |-> k, v |-> t.v * Fan + i, page |-> tables[t.page][i].page] :
                           i \in {i \in 0 .. Fan - 1 : tables[t.page][i].present}} :
                      t \in at[k - 1]}
    IN  UNION {at[k] : k \in 1 .. Levels}

Trees == UNION {Placed(s) : s \in DOMAIN roots}

\* The mappings that the processor finds in the trees.
Maps ==
    UNION {{[space |-> t.space, v |-> t.v * Fan + i,
             page |-> tables[t.page][i].page, user |-> tables[t.page][i].user] :
                i \in {i \in 0 .. Fan - 1 : tables[t.page][i].present}} :
           t \in {t \in Trees : t.level = Levels}}

At == IF todo = <<>> THEN Part("none", 0, 0, 0, "zero", 0, FALSE)
      ELSE [Now EXCEPT !.page = PhysAddr]

\* The trees are address spaces: map_pages and alloc_pages map exactly the pages of
\* their range, one after the other across the ends of tables on every level, and
\* disturb no other mapping of this tree or another (paging.c:85-192).
Space        == INSTANCE AddressSpaces WITH maps <- Maps, at <- At
SpacePromise == Space!Spec

\* Every table has its place in one tree, and every page that is a table was handed
\* out by kmalloc: no two trees or two places share one, and none is lost.
TablesPrivate ==
    /\ \A t, u \in Trees : t.page = u.page => t = u
    /\ {t.page : t \in Trees} = DOMAIN tables
    /\ DOMAIN tables \subseteq Owned

\* A program whose segments are not empty, do not overlap, do not all lie at address
\* 0, and begin on a page: what the linker makes.
Regular(h) ==
    /\ \A j, k \in Loadable(h) :
         j # k => h[j].v + h[j].mem <= h[k].v \/ h[k].v + h[k].mem <= h[j].v
    /\ \A k \in Loadable(h) : h[k].mem > 0 /\ h[k].file <= h[k].mem
    /\ \E k \in Loadable(h) : h[k].v > 0
    /\ ImageStart(h) % PageSize = 0

\* The virtual pages of an image.
ImagePages(h) ==
    LET v == ImageStart(h) \div PageSize IN v .. v + pages_to_map(h) - 1

\* The virtual pages of a task that are mapped besides: its stack, the pages of its
\* arguments, the APICs, and what it may ask mmap for at an address of its choice.
Elsewhere ==
    (UserStack .. UserStack + StackPages - 1) \union (Argv .. Argv + 1)
    \union {Hhdm + Apics[k] : k \in DOMAIN Apics}
    \union UNION {UNION {addr .. addr + length - 1 : length \in Lengths} : addr \in Fixed}

\* Where the programs are linked: what is loaded of a program that spawn accepts is
\* regular and lies apart from what else is mapped.  Nothing in the code checks it.
Layout ==
    \A p \in DOMAIN Programs :
        LET h == Programs[p].headers IN
        validate_elf(Programs[p].id) =>
            Loadable(h) = {} \/ (Regular(h) /\ ImagePages(h) \intersect Elsewhere = {})

\* The processor finds the byte at an address of tree s.
Sees(s, addr, byte) ==
    LET v == addr \div PageSize
        t == TableAt(roots[s], v)[Levels]
        at == tables[t][Index(v, Levels)].page * PageSize + (addr % PageSize)
    IN  /\ t # 0 /\ tables[t][Index(v, Levels)].present
        /\ at \in DOMAIN memory /\ memory[at] = byte

\* A task whose spawn has returned finds every byte of its program's file at the
\* address the file gives it, whatever the order of the headers and the gaps
\* between segments, and whatever was spawned and mapped since (spawn.c:107-128).
\* Nothing that is not an x86-64 file has become a task.
ImageSeen ==
    \A s \in 2 .. Len(program) :
        s < Len(program) \/ todo = <<>> =>
            LET h == Programs[program[s]].headers IN
            /\ validate_elf(Programs[program[s]].id)
            /\ Regular(h) => \A k \in Loadable(h) : \A b \in 0 .. h[k].file - 1 :
                   Sees(s, h[k].v + b, [program |-> program[s], at |-> h[k].offset + b])
=============================================================================
