-------------------------------- MODULE TempFS --------------------------------
(***************************************************************************)
(* The memory file system (fs/tempfs.c) as operators on its memory fs, a    *)
(* record of two sequences: the inodes, and the chains of DirEntryNodes.    *)
(* A chain is the sequence of the inodes of its entries; a pointer to an    *)
(* inode or to the first node of a chain is an index, NULL is 0.            *)
(*                                                                         *)
(* Two entries are made with every directory, `.` and `..`.  They are       *)
(* inodes of their own that share the chain of the directory they stand for *)
(* but not its count of entries, which addentry uses to find the end.       *)
(*                                                                         *)
(* The chain of FileNodes of a file is its bytes: B to a node, Junk where   *)
(* nothing was written.  The first node's next_node is what malloc left     *)
(* there; "stray" says that this was not zero.                              *)
(***************************************************************************)
EXTENDS Naturals, Sequences

CONSTANT B     \* FILENODE_DATA_SIZE

ASSUME BlockAssumption == B \in Nat \ {0}

NULL == 0
Junk == 0

Inode(name, is_dir) ==
    [filename |-> name, is_dir |-> is_dir, type |-> "regular",
     first_node |-> NULL, num_entries |-> 0, length |-> 0, bytes |-> <<>>, stray |-> FALSE]

Empty == [inodes |-> <<>>, chains |-> <<>>]

-----------------------------------------------------------------------------
(* The chain of a directory *)

First(fs, dir) == fs.inodes[dir].first_node

Entries(fs, dir) == fs.chains[First(fs, dir)]

tempfs_find(fs, dir, name) ==
    LET es == Entries(fs, dir)
        hits == {k \in DOMAIN es : fs.inodes[es[k]].filename = name}
    IN  IF hits = {} THEN NULL
        ELSE es[CHOOSE k \in hits : \A j \in hits : k <= j]

\* Variant: the walk ends one step early.
LastNodeShort(fs, dir) == fs.inodes[dir].num_entries

\* The place of the node that a new entry is linked to: num_entries steps from the
\* first one.
LastNode(fs, dir) == fs.inodes[dir].num_entries + 1

\* The walk does not run off the chain.
HasEnd(fs, dir) == LastNode(fs, dir) <= Len(Entries(fs, dir))

\* The new entry follows the node that was found; what followed it before is gone.
Linked(fs, dir) ==
    [fs.chains EXCEPT ![First(fs, dir)] =
        Append(SubSeq(@, 1, LastNode(fs, dir)), Len(fs.inodes) + 1)]

\* Variant: the entry is not counted.
tempfs_addentry_uncounted(fs, dir, name, is_dir) ==
    [inodes |-> Append(fs.inodes, Inode(name, is_dir)), chains |-> Linked(fs, dir)]

tempfs_addentry(fs, dir, name, is_dir) ==
    [inodes |-> Append([fs.inodes EXCEPT ![dir].num_entries = @ + 1], Inode(name, is_dir)),
     chains |-> Linked(fs, dir)]

\* The entries `.` and `..` of the directory d; up is the chain `..` stands for.
\* `.` counts two entries from the beginning, `..` none.
WithDots(fs, d, up) ==
    LET c   == Len(fs.chains) + 1
        dot == [Inode(".", TRUE) EXCEPT !.first_node = c, !.num_entries = 2]
        one == [inodes |-> Append([fs.inodes EXCEPT ![d].first_node = c], dot),
                chains |-> Append(fs.chains, <<Len(fs.inodes) + 1>>)]
        two == tempfs_addentry(one, d, "..", TRUE)
    IN  [two EXCEPT !.inodes[Len(two.inodes)].first_node = up]

-----------------------------------------------------------------------------
(* The functions of the file system *)

\* A new file system, with `..` of the root standing for the root itself.  The
\* root and its `.` are not cleared, and malloc may give them memory that was used
\* before: their types are unknown, and the root's count is taken to be zero here
\* (mount has the other case).
tempfs_new(fs) ==
    LET root == Len(fs.inodes) + 1
        bare == [fs EXCEPT !.inodes = Append(@, Inode("", TRUE))]
        new  == WithDots(bare, root, Len(fs.chains) + 1)
    IN  [new EXCEPT !.inodes[root].type = "unknown", !.inodes[root + 1].type = "unknown"]

tempfs_mkdir(fs, dir, name) ==
    LET a == tempfs_addentry(fs, dir, name, TRUE)
    IN  WithDots(a, Len(a.inodes), First(a, dir))

tempfs_mkfile(fs, dir, name) == tempfs_addentry(fs, dir, name, FALSE)

tempfs_create_device(fs, dir, name) ==
    LET a == tempfs_addentry(fs, dir, name, FALSE)
    IN  [a EXCEPT !.inodes[Len(a.inodes)].type = "device"]

tempfs_open_dir(fs, inode) == IF fs.inodes[inode].is_dir THEN inode ELSE NULL

tempfs_open_file(fs, inode) ==
    IF fs.inodes[inode].type = "device" \/ ~fs.inodes[inode].is_dir THEN inode ELSE NULL

\* How many bytes the chain holds after n bytes were written: a node is added
\* after the one that is filled last.
Capacity(n) == B * (((n + B - 1) \div B) + 1)

\* Variant: what the file holds is taken for what was written.
tempfs_write_longest(fs, file, n, v, stray) ==
    LET f == fs.inodes[file]
        held == Len(f.bytes)
        size == IF Capacity(n) > held THEN Capacity(n) ELSE held
    IN  [fs EXCEPT !.inodes[file].length = IF n > @ THEN n ELSE @,
                   !.inodes[file].stray = stray,
                   !.inodes[file].bytes =
                       [k \in 1 .. size |-> IF k <= n THEN v
                                            ELSE IF k <= held THEN @[k] ELSE Junk]]

\* n bytes v are written from the beginning; bytes behind them stay.  With a stray
\* next_node in the first node no second one is allocated.
tempfs_write(fs, file, n, v, stray) ==
    LET f == fs.inodes[file]
        held == Len(f.bytes)
        size == IF stray THEN B ELSE IF Capacity(n) > held THEN Capacity(n) ELSE held
    IN  [fs EXCEPT !.inodes[file].length = n,
                   !.inodes[file].stray = stray,
                   !.inodes[file].bytes =
                       [k \in 1 .. size |-> IF k <= n THEN v
                                            ELSE IF k <= held THEN @[k] ELSE Junk]]

\* At most n bytes, up to the end of the chain: the length is not looked at.
tempfs_read(fs, file, n) ==
    LET held == fs.inodes[file].bytes
    IN  SubSeq(held, 1, IF n < Len(held) THEN n ELSE Len(held))

tempfs_length(fs, file) == fs.inodes[file].length
=============================================================================
