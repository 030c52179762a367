-------------------------------- MODULE Files --------------------------------
(***************************************************************************)
(* The virtual file system (fs/vfs.c) on TempFS drives: the boot that makes *)
(* the drives, the devices and the files of the initial ramdisk, and the    *)
(* system calls of the task that runs afterwards.                           *)
(*                                                                         *)
(* open and create_device walk a path from the root of its drive, a name a  *)
(* step; walk is where they are.  Interrupts are off in a system call and   *)
(* the boot has one processor in here, so only one walk is under way.       *)
(*                                                                         *)
(* The kernel follows what it finds without asking whether it is NULL or    *)
(* was ever written.  What happens then depends on what lies there; the     *)
(* model stops and astray says why.                                         *)
(***************************************************************************)
EXTENDS TempFS

CONSTANTS
    Drives,        \* the drive letters
    Archive,       \* the entries of the initial ramdisk: [names, size, type]
    Paths,         \* bound: the paths that the task opens
    Fds,           \* bound: the descriptors that the task reads, writes and closes
    NumResources,  \* NUM_RESOURCES
    MaxInodes,     \* bound: no path is opened when there are as many inodes
    MaxDepth,      \* bound: the names in a path
    MaxSize,       \* bound: the bytes of a read or write
    MaxWrites      \* bound: the writes of the task

ASSUME FilesAssumption ==
    /\ {"D", "R"} \subseteq Drives /\ Drives \subseteq STRING
    /\ Archive \in Seq([names : Seq(STRING), size : Nat, type : STRING])
    /\ Paths \subseteq [drive : STRING, names : Seq(STRING), slash : BOOLEAN]
    /\ Fds \subseteq 0 .. NumResources - 1
    /\ \A k \in DOMAIN Archive : Len(Archive[k].names) <= MaxDepth
    /\ \A p \in Paths : Len(p.names) <= MaxDepth
    /\ {NumResources, MaxInodes, MaxDepth, MaxSize, MaxWrites} \subseteq Nat /\ MaxDepth > 0

VARIABLES
    fs,         \* the inodes and chains of entries of all drives
    drives,     \* kernel.drives: the root inode of each drive, NULL if not present
    resources,  \* the files of the current task
    walk,       \* the open or create_device under way
    boot,       \* how many steps of the boot are done
    astray,     \* "no", or why the kernel is not in a state that is modelled
    dotted,     \* history: something was created through `.` or `..`
    writes,     \* how often the task has written
    last        \* history: what was written to each inode last

vars == <<fs, drives, resources, walk, boot, astray, dotted, writes, last>>

\* The NULL pointer to a File; a File itself has a mode.
NoFile == [private |-> NULL, mode |-> "none"]

Modes == {"readonly", "writeonly", "readwrite"}
Flags == {"none", "creat", "creatall"}

\* "device" is a walk of create_device, which creates the last name only.
Walker(by, path, flags, mode, fd) ==
    [by |-> by, at |-> "walking", rest |-> path.names, slash |-> path.slash,
     obj |-> NULL, flags |-> flags, mode |-> mode, fd |-> fd]

Idle == [Walker("nobody", [names |-> <<>>, slash |-> FALSE], "none", "none", 0) EXCEPT !.at = "idle"]

Init ==
    /\ fs = Empty
    /\ drives = [d \in Drives |-> NULL]
    /\ resources = [fd \in 0 .. NumResources - 1 |-> NoFile]
    /\ walk = Idle
    /\ boot = 0
    /\ astray = "no" /\ dotted = FALSE
    /\ writes = 0
    /\ last = <<>>

-----------------------------------------------------------------------------
(* The walk along a path *)

\* A path without a drive is one of the current directory, which is R:/ for all tasks.
Absolute(path) == IF path.drive = "" THEN [path EXCEPT !.drive = "R"] ELSE path

\* A drive that is none, or not present, ends the walk before it begins.
Start(by, p, flags, mode, fd) ==
    LET path == Absolute(p)
        w    == Walker(by, path, flags, mode, fd)
        there == path.drive \in Drives /\ drives[path.drive] # NULL
    IN  walk' = IF there THEN [w EXCEPT !.obj = tempfs_open_dir(fs, drives[path.drive])]
                         ELSE [w EXCEPT !.at = "failed"]

Name     == Head(walk.rest)
LastName == Len(walk.rest) = 1 /\ ~walk.slash
Found    == tempfs_find(fs, walk.obj, Name)

Walking == astray = "no" /\ walk.at = "walking"
AtDir   == Walking /\ walk.rest # <<>> /\ ~LastName /\ walk.obj # NULL
AtFile  == Walking /\ walk.rest # <<>> /\ LastName /\ walk.obj # NULL

\* Whether the name at hand is made if it is not there.
Creates == walk.flags = "creatall" \/ (LastName /\ walk.flags \in {"creat", "device"})

Dot(inode) == fs.inodes[inode].filename \in {".", ".."}

Made(new) ==
    /\ fs' = new
    /\ dotted' = (dotted \/ Dot(walk.obj))

Fails == walk' = [walk EXCEPT !.at = "failed"]

Opens(inode) == walk' = [walk EXCEPT !.at = "opened", !.obj = inode, !.rest = <<>>]

Rest == UNCHANGED <<drives, resources, boot, writes, last>>

\* The path has ended with a slash, or there was none: the directory itself is opened.
walk_ends ==
    /\ Walking /\ walk.rest = <<>>
    /\ Opens(walk.obj)
    /\ Rest /\ UNCHANGED <<fs, astray, dotted>>

walk_dir_found ==
    /\ AtDir /\ Found # NULL
    /\ walk' = [walk EXCEPT !.obj = tempfs_open_dir(fs, Found), !.rest = Tail(@)]
    /\ Rest /\ UNCHANGED <<fs, astray, dotted>>

walk_dir_created ==
    /\ AtDir /\ Found = NULL /\ Creates /\ HasEnd(fs, walk.obj)
    /\ Made(tempfs_mkdir(fs, walk.obj, Name))
    /\ walk' = [walk EXCEPT !.obj = tempfs_open_dir(fs', tempfs_find(fs', walk.obj, Name)),
                            !.rest = Tail(@)]
    /\ Rest /\ UNCHANGED astray

\* A directory or a file is missing, or the device to be created exists.
walk_fails ==
    /\ \/ (AtDir \/ AtFile) /\ Found = NULL /\ ~Creates
       \/ AtFile /\ Found # NULL /\ walk.by = "device"
    /\ Fails
    /\ Rest /\ UNCHANGED <<fs, astray, dotted>>

\* A directory is opened as a file with NULL for its inode.
walk_file_found ==
    /\ AtFile /\ Found # NULL /\ walk.by # "device"
    /\ Opens(tempfs_open_file(fs, Found))
    /\ Rest /\ UNCHANGED <<fs, astray, dotted>>

walk_file_created ==
    /\ AtFile /\ Found = NULL /\ Creates /\ HasEnd(fs, walk.obj)
    /\ Made(IF walk.by = "device" THEN tempfs_create_device(fs, walk.obj, Name)
                                  ELSE tempfs_mkfile(fs, walk.obj, Name))
    /\ Opens(tempfs_find(fs', walk.obj, Name))
    /\ Rest /\ UNCHANGED astray

\* A file taken for a directory, a directory whose end is not where its count says,
\* or the function of a device that is none.
walk_astray ==
    /\ Walking /\ walk.rest # <<>>
    /\ \/ walk.obj = NULL /\ astray' = "null"
       \/ (AtDir \/ AtFile) /\ Found = NULL /\ Creates /\ ~HasEnd(fs, walk.obj) /\ astray' = "null"
       \/ AtFile /\ Found # NULL /\ fs.inodes[Found].type = "unknown" /\ astray' = "junk"
    /\ Rest /\ UNCHANGED <<fs, walk, dotted>>

WalkStep ==
    \/ walk_ends \/ walk_dir_found \/ walk_dir_created \/ walk_fails
    \/ walk_file_found \/ walk_file_created \/ walk_astray

-----------------------------------------------------------------------------
(* The boot *)

Mount(d)       == [op |-> "mount", drive |-> d]
Device(name)   == [op |-> "device", path |-> [drive |-> "D", names |-> <<name>>, slash |-> FALSE]]
Stream(name, fd, flags, mode) ==
    [op |-> "stream", path |-> [drive |-> "D", names |-> <<name>>, slash |-> FALSE],
     fd |-> fd, flags |-> flags, mode |-> mode]
Unpack(entry)  ==
    [op |-> "unpack", entry |-> entry,
     path |-> [drive |-> "R", names |-> entry.names, slash |-> FALSE]]

\* init_devices, setup_initrd, the drivers, and what spawn opens for the first task.
Script ==
    <<Mount("D"), Device("devzero"), Mount("R")>>
    \o [k \in DOMAIN Archive |-> Unpack(Archive[k])]
    \o <<Device("stdin"), Device("fb0"), Device("fbinfo0"),
         Stream("stdin", 0, "none", "readonly"),
         Stream("stdout", 1, "creatall", "readwrite"),
         Stream("stderr", 2, "creatall", "readwrite")>>

Booted == boot = Len(Script)
Ready  == astray = "no" /\ walk = Idle
Now    == Script[boot + 1]

BootAt(op) == Ready /\ ~Booted /\ Now.op = op

\* The count of entries of a root is read before it is ever written.  It is zero in
\* memory that is fresh from kmalloc, and may be anything in a piece of the heap that
\* was freed before; which of them malloc takes is left open here.
mount ==
    /\ BootAt("mount")
    /\ \/ /\ fs' = tempfs_new(fs)
          /\ drives' = [drives EXCEPT ![Now.drive] = Len(fs.inodes) + 1]
          /\ boot' = boot + 1
          /\ UNCHANGED astray
       \/ astray' = "junk" /\ UNCHANGED <<fs, drives, boot>>
    /\ UNCHANGED <<resources, walk, dotted, writes, last>>

create_device ==
    /\ BootAt("device")
    /\ Start("device", Now.path, "device", "none", 0)
    /\ UNCHANGED <<fs, drives, resources, boot, astray, dotted, writes, last>>

\* The callers do not look at the status.
create_device_returns ==
    /\ walk.by = "device" /\ walk.at \in {"opened", "failed"}
    /\ walk' = Idle /\ boot' = boot + 1
    /\ UNCHANGED <<fs, drives, resources, astray, dotted, writes, last>>

\* An entry of type '5' is a directory: it is made with its first file.
unpack_skips ==
    /\ BootAt("unpack") /\ Now.entry.type = "5"
    /\ boot' = boot + 1
    /\ UNCHANGED <<fs, drives, resources, walk, astray, dotted, writes, last>>

\* Variant: the directories of the path are not made.
unpack_opens_creat ==
    /\ BootAt("unpack") /\ Now.entry.type # "5"
    /\ Start("unpack", Now.path, "creat", "writeonly", 0)
    /\ UNCHANGED <<fs, drives, resources, boot, astray, dotted, writes, last>>

unpack_opens ==
    /\ BootAt("unpack") /\ Now.entry.type # "5"
    /\ Start("unpack", Now.path, "creatall", "writeonly", 0)
    /\ UNCHANGED <<fs, drives, resources, boot, astray, dotted, writes, last>>

\* What is written is told apart by a number, this one for the archive.
Archived == 1

\* What the first FileNode's next_node may be: zero, or what the piece of the heap held
\* when it was freed.
StrayOf(inode) == IF fs.inodes[inode].bytes = <<>> THEN BOOLEAN ELSE {fs.inodes[inode].stray}

\* n bytes are written to a regular file.  A stray next_node is followed as soon as
\* the bytes do not fit into the first node.
WriteTo(inode, n, stamp) ==
    \E stray \in StrayOf(inode) :
        IF stray /\ n > B
        THEN astray' = "junk" /\ UNCHANGED <<fs, last>>
        ELSE /\ fs' = tempfs_write(fs, inode, n, stamp, stray)
             /\ last' = [i \in DOMAIN last \union {inode} |->
                           IF i = inode THEN stamp ELSE last[i]]
             /\ UNCHANGED astray

\* The file is written and closed; without it the machine is halted.
unpack_returns ==
    /\ astray = "no"
    /\ walk.by = "unpack" /\ walk.at \in {"opened", "failed"}
    /\ IF walk.at = "failed" \/ walk.obj = NULL
       THEN /\ astray' = IF walk.at = "failed" THEN "halt" ELSE "null"
            /\ UNCHANGED <<fs, last>>
       ELSE WriteTo(walk.obj, Now.entry.size, Archived)
    /\ walk' = Idle /\ boot' = boot + 1
    /\ UNCHANGED <<drives, resources, dotted, writes>>

stream_opens ==
    /\ BootAt("stream")
    /\ Start("stream", Now.path, Now.flags, Now.mode, Now.fd)
    /\ UNCHANGED <<fs, drives, resources, boot, astray, dotted, writes, last>>

\* What open has returned: NULL, or a File for what the walk has come to.
Opened == IF walk.at = "failed" THEN NoFile ELSE [private |-> walk.obj, mode |-> walk.mode]

stream_returns ==
    /\ walk.by = "stream" /\ walk.at \in {"opened", "failed"}
    /\ resources' = [resources EXCEPT ![walk.fd] = Opened]
    /\ walk' = Idle /\ boot' = boot + 1
    /\ UNCHANGED <<fs, drives, astray, dotted, writes, last>>

BootStep ==
    \/ mount \/ create_device \/ create_device_returns
    \/ unpack_skips \/ unpack_opens \/ unpack_returns
    \/ stream_opens \/ stream_returns

-----------------------------------------------------------------------------
(* The system calls of the task.  A call that is refused (the wrong mode, no   *)
(* descriptor left) changes nothing.                                           *)

InProgram == Ready /\ Booted

Free == {fd \in 0 .. NumResources - 1 : resources[fd] = NoFile}

syscall_open(path, flags, mode) ==
    /\ InProgram
    /\ Len(fs.inodes) < MaxInodes
    /\ \E fd \in Free :
           /\ \A other \in Free : fd <= other
           /\ Start("open", path, flags, mode, fd)
    /\ UNCHANGED <<fs, drives, resources, boot, astray, dotted, writes, last>>

\* The descriptor is returned whether or not there is a file behind it.
syscall_open_returns ==
    /\ walk.by = "open" /\ walk.at \in {"opened", "failed"}
    /\ resources' = [resources EXCEPT ![walk.fd] = Opened]
    /\ walk' = Idle
    /\ UNCHANGED <<fs, drives, boot, astray, dotted, writes, last>>

\* Neither a missing file nor a missing inode is noticed.
Pointless(f) == f = NoFile \/ f.private = NULL

\* The inode of a root is taken for a device's if its type happens to say so.
syscall_close(fd) ==
    /\ InProgram
    /\ LET f == resources[fd] IN
       \/ ~Pointless(f) /\ resources' = [resources EXCEPT ![fd] = NoFile] /\ UNCHANGED astray
       \/ Pointless(f) /\ astray' = "null" /\ UNCHANGED resources
       \/ ~Pointless(f) /\ fs.inodes[f.private].type = "unknown"
          /\ astray' = "junk" /\ UNCHANGED resources
    /\ UNCHANGED <<fs, drives, walk, boot, dotted, writes, last>>

IsDir(f)    == f.private # NULL /\ fs.inodes[f.private].is_dir
IsDevice(f) == f.private # NULL /\ fs.inodes[f.private].type = "device"

\* Only the frame buffer has a function for writing; it leaves the files alone.
Writable(f) == f.private # NULL /\ fs.inodes[f.private].filename = "fb0"

syscall_write(fd, n) ==
    /\ InProgram /\ writes < MaxWrites
    /\ LET f == resources[fd] IN
       \/ (Pointless(f) \/ IsDir(f) \/ (IsDevice(f) /\ ~Writable(f)))
          /\ f.mode # "readonly" /\ astray' = "null" /\ UNCHANGED <<fs, last, writes>>
       \/ ~Pointless(f) /\ ~IsDir(f) /\ ~IsDevice(f) /\ f.mode # "readonly"
          /\ WriteTo(f.private, n, Archived + writes + 1) /\ writes' = writes + 1
    /\ UNCHANGED <<drives, resources, walk, boot, dotted>>

\* A read that goes well changes nothing in here: tempfs_read is what it delivers.
syscall_read(fd, n) ==
    /\ InProgram
    /\ LET f == resources[fd] IN
       /\ f.mode # "writeonly"
       /\ \/ (Pointless(f) \/ IsDir(f)) /\ astray' = "null"
          \/ ~Pointless(f) /\ fs.inodes[f.private].stray /\ n > B /\ astray' = "junk"
    /\ UNCHANGED <<fs, drives, resources, walk, boot, dotted, writes, last>>

Next ==
    \/ WalkStep
    \/ BootStep
    \/ \E path \in Paths, flags \in Flags, mode \in Modes : syscall_open(path, flags, mode)
    \/ syscall_open_returns
    \/ \E fd \in Fds : syscall_close(fd)
    \/ \E fd \in Fds, n \in 0 .. MaxSize : syscall_write(fd, n) \/ syscall_read(fd, n)

Spec == Init /\ [][Next]_vars

\* The boot is one processor that runs straight on.
FairSpec == Spec /\ WF_vars(WalkStep \/ BootStep)

-----------------------------------------------------------------------------
(* Properties *)

\* The entries of a directory besides `.` and `..`.
Proper(dir) ==
    LET es == Entries(fs, dir)
    IN  {e \in {es[k] : k \in DOMAIN es} : ~Dot(e)}

\* Everything that is reached from the roots, with its path: the drive, then names.
Reached ==
    LET at[k \in 0 .. MaxDepth] ==
          IF k = 0 THEN {[path |-> <<d>>, inode |-> drives[d]] :
                             d \in {d \in Drives : drives[d] # NULL}}
          ELSE UNION {{[path |-> Append(r.path, fs.inodes[e].filename), inode |-> e] :
                           e \in Proper(r.inode)} :
                      r \in {r \in at[k - 1] : fs.inodes[r.inode].is_dir}}
    IN  UNION {at[k] : k \in DOMAIN at}

Kind(inode) ==
    IF fs.inodes[inode].is_dir THEN "dir"
    ELSE IF fs.inodes[inode].type = "device" THEN "device" ELSE "file"

Tree == {[path |-> r.path, kind |-> Kind(r.inode)] : r \in Reached}

\* The count of entries that tempfs_addentry walks by (tempfs.c:53) is one less than
\* the length of the chain, in every directory and however its entries came about;
\* the chain begins with `.` and `..`, which stand for the directory and for the one
\* it is in, and has no name twice.  It holds as long as nothing is created through
\* `.` or `..`, whose counts are their own.
DirectoriesWhole ==
    LET all == Reached IN
    ~dotted =>
        \A r \in {r \in all : fs.inodes[r.inode].is_dir} :
            LET es  == Entries(fs, r.inode)
                up  == IF Len(r.path) = 1 THEN r.path ELSE SubSeq(r.path, 1, Len(r.path) - 1)
            IN  /\ Len(es) = fs.inodes[r.inode].num_entries + 1
                /\ fs.inodes[es[1]].filename = "." /\ First(fs, es[1]) = First(fs, r.inode)
                /\ fs.inodes[es[2]].filename = ".."
                /\ \E p \in all : p.path = up /\ First(fs, es[2]) = First(fs, p.inode)
                /\ \A j, k \in DOMAIN es :
                       fs.inodes[es[j]].filename = fs.inodes[es[k]].filename => j = k

\* The chains of inodes are a tree of paths that only grows, a name at a time and in
\* a directory that exists: no open and no boot step loses or changes what was there.
Promise     == INSTANCE PathTree WITH tree <- Tree, calm <- ~dotted
TreePromise == Promise!Spec

\* A read of no more than a file's length delivers what was written last, however
\* the file was longer or shorter before (tempfs.c:123-156): the nodes of an earlier
\* write are used again and the length is that of the last one.
ReadsBack ==
    \A i \in DOMAIN last :
        tempfs_read(fs, i, tempfs_length(fs, i)) = [k \in 1 .. tempfs_length(fs, i) |-> last[i]]

\* The boot comes to its end with the descriptors of the first task open, unless it
\* met a piece of the heap that was used before and taken for cleared.
BootEnds ==
    <>(\/ Booted /\ \A fd \in 0 .. 2 : ~Pointless(resources[fd])
       \/ astray = "junk")
=============================================================================
