----------------------------- MODULE FilesProofs -----------------------------
(***************************************************************************)
(* Proofs about the file system, for every archive, set of paths, number of *)
(* descriptors and size of a FileNode: that what was written last is read   *)
(* back, that directories stay whole, and that the chains are a tree of     *)
(* paths (PathTree) which only grows.                                       *)
(***************************************************************************)
EXTENDS Files, SequenceTheorems, WellFoundedInduction, TLAPS

-----------------------------------------------------------------------------
(* The memory of TempFS *)

\* The strings; those that the kernel itself uses are named for the provers.
Text == STRING \union {"", ".", "..", "devzero", "stdin", "fb0", "fbinfo0", "stdout", "stderr"}

InodeType ==
    [filename : Text, is_dir : BOOLEAN, type : {"regular", "unknown", "device"},
     first_node : Nat, num_entries : Nat, length : Nat, bytes : Seq(Nat), stray : BOOLEAN]

LEMMA InodeIsInode ==
  ASSUME NEW name \in Text, NEW is_dir \in BOOLEAN
  PROVE  Inode(name, is_dir) \in InodeType
<1>1. <<>> \in Seq(Nat)
  OBVIOUS
<1> QED
  BY <1>1 DEF Inode, InodeType, NULL

LEMMA TextHas == {"", ".", ".."} \subseteq Text
  BY DEF Text

\* Two inodes that may differ in the count of entries only.
SameBut(a, b) ==
    /\ a.filename = b.filename /\ a.is_dir = b.is_dir /\ a.type = b.type
    /\ a.first_node = b.first_node /\ a.length = b.length /\ a.bytes = b.bytes
    /\ a.stray = b.stray

LEMMA CountUp ==
  ASSUME NEW r \in InodeType
  PROVE  /\ [r EXCEPT !.num_entries = @ + 1] \in InodeType
         /\ [r EXCEPT !.num_entries = @ + 1].num_entries = r.num_entries + 1
         /\ SameBut([r EXCEPT !.num_entries = @ + 1], r)
  BY DEF InodeType, SameBut

\* Pointers lead to what is there: entries to inodes, directories to chains.
FsType(f) ==
    /\ f \in [inodes : Seq(InodeType), chains : Seq(Seq(Nat))]
    /\ \A c \in DOMAIN f.chains : \A k \in DOMAIN f.chains[c] :
         f.chains[c][k] \in DOMAIN f.inodes
    /\ \A i \in DOMAIN f.inodes :
         f.inodes[i].is_dir => f.inodes[i].first_node \in DOMAIN f.chains

IsDirectory(f, dir) == dir \in DOMAIN f.inodes /\ f.inodes[dir].is_dir

LEMMA FsFacts ==
  ASSUME NEW f, FsType(f)
  PROVE  /\ f.inodes \in Seq(InodeType) /\ Len(f.inodes) \in Nat
         /\ DOMAIN f.inodes = 1 .. Len(f.inodes)
         /\ f.chains \in Seq(Seq(Nat)) /\ Len(f.chains) \in Nat
         /\ DOMAIN f.chains = 1 .. Len(f.chains)
         /\ \A i \in 1 .. Len(f.inodes) : f.inodes[i] \in InodeType
         /\ \A c \in 1 .. Len(f.chains) : /\ f.chains[c] \in Seq(Nat)
                                          /\ Len(f.chains[c]) \in Nat
                                          /\ DOMAIN f.chains[c] = 1 .. Len(f.chains[c])
<1>1. f.inodes \in Seq(InodeType) /\ f.chains \in Seq(Seq(Nat))
  BY DEF FsType
<1> QED
  BY <1>1

LEMMA DirFacts ==
  ASSUME NEW f, FsType(f), NEW dir, IsDirectory(f, dir)
  PROVE  /\ dir \in Nat \ {0} /\ f.inodes[dir] \in InodeType
         /\ First(f, dir) \in DOMAIN f.chains /\ First(f, dir) \in Nat \ {0}
         /\ Entries(f, dir) \in Seq(Nat) /\ Entries(f, dir) = f.chains[First(f, dir)]
         /\ Len(Entries(f, dir)) \in Nat /\ DOMAIN Entries(f, dir) = 1 .. Len(Entries(f, dir))
         /\ \A k \in DOMAIN Entries(f, dir) : Entries(f, dir)[k] \in DOMAIN f.inodes
         /\ LastNode(f, dir) = f.inodes[dir].num_entries + 1
         /\ LastNode(f, dir) \in Nat \ {0} /\ f.inodes[dir].num_entries \in Nat
<1>1. dir \in 1 .. Len(f.inodes) /\ Len(f.inodes) \in Nat /\ f.inodes[dir] \in InodeType
  BY FsFacts DEF IsDirectory
<1>2. First(f, dir) \in 1 .. Len(f.chains) /\ DOMAIN f.chains = 1 .. Len(f.chains)
  BY FsFacts DEF First, FsType, IsDirectory
<1>3. f.inodes[dir].num_entries \in Nat
  BY <1>1 DEF InodeType
<1>4. /\ f.chains[First(f, dir)] \in Seq(Nat) /\ Len(f.chains[First(f, dir)]) \in Nat
      /\ DOMAIN f.chains[First(f, dir)] = 1 .. Len(f.chains[First(f, dir)])
  BY <1>2, FsFacts
<1>5. \A k \in DOMAIN f.chains[First(f, dir)] : f.chains[First(f, dir)][k] \in DOMAIN f.inodes
  BY <1>2 DEF FsType
<1> QED
  BY <1>1, <1>2, <1>3, <1>4, <1>5, FsFacts DEF Entries, LastNode

\* tempfs_addentry: the count of the directory, one inode at the end, and the entry
\* behind the node that the count leads to.
EntryAdded(f, g, dir, new) ==
    LET n == Len(f.inodes)
        c == First(f, dir)
        m == LastNode(f, dir)
    IN  /\ g \in [inodes : Seq(InodeType), chains : Seq(Seq(Nat))]
        /\ Len(g.inodes) = n + 1
        /\ \A i \in 1 .. n : i # dir => g.inodes[i] = f.inodes[i]
        /\ SameBut(g.inodes[dir], f.inodes[dir])
        /\ g.inodes[dir].num_entries = f.inodes[dir].num_entries + 1
        /\ g.inodes[n + 1] = new
        /\ Len(g.chains) = Len(f.chains)
        /\ \A k \in 1 .. Len(f.chains) : k # c => g.chains[k] = f.chains[k]
        /\ Len(g.chains[c]) = m + 1 /\ g.chains[c][m + 1] = n + 1
        /\ \A k \in 1 .. m : g.chains[c][k] = f.chains[c][k]

LEMMA AddEntry ==
  ASSUME NEW f, FsType(f), NEW dir, IsDirectory(f, dir), HasEnd(f, dir),
         NEW name \in Text, NEW is_dir \in BOOLEAN
  PROVE  EntryAdded(f, tempfs_addentry(f, dir, name, is_dir), dir, Inode(name, is_dir))
<1> DEFINE g == tempfs_addentry(f, dir, name, is_dir)
           n == Len(f.inodes)
           c == First(f, dir)
           m == LastNode(f, dir)
           r == [f.inodes[dir] EXCEPT !.num_entries = @ + 1]
           ins == [f.inodes EXCEPT ![dir] = r]
           es == Append(SubSeq(f.chains[c], 1, m), n + 1)
           cs == [f.chains EXCEPT ![c] = es]
<1>1. /\ f.inodes \in Seq(InodeType) /\ n \in Nat /\ DOMAIN f.inodes = 1 .. n
      /\ f.chains \in Seq(Seq(Nat)) /\ DOMAIN f.chains = 1 .. Len(f.chains)
      /\ \A i \in 1 .. n : f.inodes[i] \in InodeType
  BY FsFacts
<1>2. /\ dir \in 1 .. n /\ c \in 1 .. Len(f.chains) /\ f.chains[c] \in Seq(Nat)
      /\ m \in 1 .. Len(f.chains[c]) /\ Len(f.chains[c]) \in Nat
  <2>1. /\ dir \in 1 .. n /\ c \in 1 .. Len(f.chains)
        /\ Entries(f, dir) \in Seq(Nat) /\ Entries(f, dir) = f.chains[c]
        /\ Len(Entries(f, dir)) \in Nat /\ m \in Nat \ {0}
    BY <1>1, DirFacts DEF IsDirectory
  <2>2. m <= Len(Entries(f, dir))
    BY DEF HasEnd
  <2> HIDE DEF m, c, n
  <2> QED
    BY <2>1, <2>2
<1>3. r \in InodeType /\ r.num_entries = f.inodes[dir].num_entries + 1
      /\ SameBut(r, f.inodes[dir])
  BY <1>1, <1>2, CountUp
<1>4. /\ g.inodes = Append(ins, Inode(name, is_dir)) /\ g.chains = cs
      /\ g = [inodes |-> g.inodes, chains |-> g.chains]
  BY DEF tempfs_addentry, Linked
<1>5. Inode(name, is_dir) \in InodeType
  BY InodeIsInode
<1>6. /\ SubSeq(f.chains[c], 1, m) \in Seq(Nat) /\ Len(SubSeq(f.chains[c], 1, m)) = m
      /\ \A k \in 1 .. m : SubSeq(f.chains[c], 1, m)[k] = f.chains[c][k]
  BY <1>2
<1>7. /\ es \in Seq(Nat) /\ Len(es) = m + 1 /\ es[m + 1] = n + 1
      /\ \A k \in 1 .. m : es[k] = f.chains[c][k]
  <2> HIDE DEF n, c, m
  <2>1. n + 1 \in Nat /\ m \in Nat
    BY <1>1, <1>2
  <2> QED
    BY <1>6, <2>1, AppendProperties
<1> HIDE DEF g, r, es, n, c, m
<1>8. /\ ins \in Seq(InodeType) /\ Len(ins) = n /\ ins[dir] = r
      /\ \A i \in 1 .. n : i # dir => ins[i] = f.inodes[i]
  BY <1>1, <1>2, <1>3, ExceptSeq DEF n
<1>9. /\ cs \in Seq(Seq(Nat)) /\ Len(cs) = Len(f.chains) /\ cs[c] = es
      /\ \A k \in 1 .. Len(f.chains) : k # c => cs[k] = f.chains[k]
  BY <1>1, <1>2, <1>7, ExceptSeq
<1> HIDE DEF ins, cs
<1>10. /\ g.inodes \in Seq(InodeType) /\ Len(g.inodes) = n + 1
       /\ g.inodes[n + 1] = Inode(name, is_dir)
       /\ \A i \in 1 .. n : g.inodes[i] = ins[i]
  BY <1>1, <1>4, <1>5, <1>8
<1>11. g \in [inodes : Seq(InodeType), chains : Seq(Seq(Nat))]
  BY <1>4, <1>9, <1>10
<1> QED
  BY <1>2, <1>3, <1>4, <1>7, <1>8, <1>9, <1>10, <1>11 DEF g, n, c, m, EntryAdded

\* As FsType, for memory whose last inode is a directory without its chain.
Unfinished(f) ==
    /\ f \in [inodes : Seq(InodeType), chains : Seq(Seq(Nat))]
    /\ \A c \in DOMAIN f.chains : \A k \in DOMAIN f.chains[c] :
         f.chains[c][k] \in DOMAIN f.inodes
    /\ \A i \in DOMAIN f.inodes :
         f.inodes[i].is_dir /\ i # Len(f.inodes) => f.inodes[i].first_node \in DOMAIN f.chains
    /\ Len(f.inodes) # 0
    /\ f.inodes[Len(f.inodes)].is_dir /\ f.inodes[Len(f.inodes)].num_entries = 0

\* An inode that differs in its chain and count.
Chained(a, b) ==
    /\ a.filename = b.filename /\ a.is_dir = b.is_dir /\ a.type = b.type
    /\ a.length = b.length /\ a.bytes = b.bytes /\ a.stray = b.stray

LEMMA SetFirst ==
  ASSUME NEW r \in InodeType, NEW c \in Nat
  PROVE  /\ [r EXCEPT !.first_node = c] \in InodeType
         /\ [r EXCEPT !.first_node = c].first_node = c
         /\ [r EXCEPT !.first_node = c].num_entries = r.num_entries
         /\ Chained([r EXCEPT !.first_node = c], r)
  BY DEF InodeType, Chained

\* The two entries of a new directory: `.` and `..` are the last inodes, and their
\* chain is the last one.
DotsAdded(f, g, up) ==
    LET n == Len(f.inodes)
        c == Len(f.chains) + 1
    IN  /\ g \in [inodes : Seq(InodeType), chains : Seq(Seq(Nat))]
        /\ Len(g.inodes) = n + 2
        /\ \A i \in 1 .. n - 1 : g.inodes[i] = f.inodes[i]
        /\ Chained(g.inodes[n], f.inodes[n])
        /\ g.inodes[n].first_node = c /\ g.inodes[n].num_entries = 1
        /\ g.inodes[n + 1] = [Inode(".", TRUE) EXCEPT !.first_node = c, !.num_entries = 2]
        /\ g.inodes[n + 2] = [Inode("..", TRUE) EXCEPT !.first_node = up]
        /\ Len(g.chains) = c
        /\ \A k \in 1 .. c - 1 : g.chains[k] = f.chains[k]
        /\ Len(g.chains[c]) = 2 /\ g.chains[c][1] = n + 1 /\ g.chains[c][2] = n + 2

LEMMA Dots ==
  ASSUME NEW f, Unfinished(f), NEW up \in Nat
  PROVE  /\ Len(f.inodes) \in Nat \ {0} /\ Len(f.chains) \in Nat
         /\ DotsAdded(f, WithDots(f, Len(f.inodes), up), up)
<1> DEFINE n == Len(f.inodes)
           c == Len(f.chains) + 1
           g == WithDots(f, n, up)
           r == [f.inodes[n] EXCEPT !.first_node = c]
           ins == [f.inodes EXCEPT ![n] = r]
           dot == [Inode(".", TRUE) EXCEPT !.first_node = c, !.num_entries = 2]
           dots == [Inode("..", TRUE) EXCEPT !.first_node = up]
           one == [inodes |-> Append(ins, dot), chains |-> Append(f.chains, <<n + 1>>)]
           two == tempfs_addentry(one, n, "..", TRUE)
<1>1. /\ f.inodes \in Seq(InodeType) /\ n \in Nat \ {0} /\ DOMAIN f.inodes = 1 .. n
      /\ f.chains \in Seq(Seq(Nat)) /\ DOMAIN f.chains = 1 .. Len(f.chains)
      /\ Len(f.chains) \in Nat /\ c \in Nat \ {0}
      /\ \A i \in 1 .. n : f.inodes[i] \in InodeType
      /\ n \in 1 .. n
  <2>1. f.inodes \in Seq(InodeType) /\ f.chains \in Seq(Seq(Nat)) /\ n # 0
    BY DEF Unfinished
  <2> QED
    BY <2>1
<1>2. /\ r \in InodeType /\ r.first_node = c /\ r.num_entries = 0
      /\ Chained(r, f.inodes[n]) /\ r.is_dir
  <2>1. f.inodes[n] \in InodeType /\ c \in Nat
    BY <1>1
  <2>2. f.inodes[n].is_dir /\ f.inodes[n].num_entries = 0
    BY DEF Unfinished
  <2> HIDE DEF n, c
  <2>3. r \in InodeType /\ r.first_node = c /\ r.num_entries = f.inodes[n].num_entries
        /\ Chained(r, f.inodes[n])
    BY <2>1, SetFirst
  <2> QED
    BY <2>2, <2>3 DEF Chained
<1>3. /\ dot \in InodeType /\ dot.first_node = c /\ dot.is_dir
      /\ dots \in InodeType /\ dots.first_node = up
  <2>1. Inode(".", TRUE) \in InodeType /\ Inode("..", TRUE) \in InodeType
    BY InodeIsInode, TextHas
  <2> QED
    BY <1>1, <2>1 DEF InodeType, Inode
<1>4. g = [two EXCEPT !.inodes[Len(two.inodes)].first_node = up]
  BY DEF WithDots
<1>5. /\ <<n + 1>> \in Seq(Nat) /\ Len(<<n + 1>>) = 1 /\ <<n + 1>>[1] = n + 1
  BY <1>1
<1> HIDE DEF n, c, g, r, dot, dots
<1>6. /\ ins \in Seq(InodeType) /\ Len(ins) = n /\ ins[n] = r
      /\ \A i \in 1 .. n : i # n => ins[i] = f.inodes[i]
  BY <1>1, <1>2, ExceptSeq DEF n
<1>7. /\ one.inodes \in Seq(InodeType) /\ Len(one.inodes) = n + 1
      /\ \A i \in 1 .. n : one.inodes[i] = ins[i]
      /\ one.inodes[n + 1] = dot
  <2> HIDE DEF ins
  <2> QED
    BY <1>3, <1>6, AppendProperties
<1>8. /\ one.chains \in Seq(Seq(Nat)) /\ Len(one.chains) = c
      /\ \A k \in 1 .. c - 1 : one.chains[k] = f.chains[k]
      /\ one.chains[c] = <<n + 1>>
  <2>1. Len(f.chains) + 1 = c /\ c - 1 = Len(f.chains)
    BY <1>1 DEF c
  <2> QED
    BY <1>1, <1>5, <2>1, AppendProperties
<1>9. one = [inodes |-> one.inodes, chains |-> one.chains]
  OBVIOUS
<1> HIDE DEF one, ins
<1>10. FsType(one) /\ IsDirectory(one, n) /\ First(one, n) = c /\ LastNode(one, n) = 1
       /\ HasEnd(one, n)
  <2>1. one \in [inodes : Seq(InodeType), chains : Seq(Seq(Nat))]
    BY <1>7, <1>8, <1>9
  <2>2. DOMAIN one.inodes = 1 .. n + 1 /\ DOMAIN one.chains = 1 .. c
    BY <1>1, <1>7, <1>8
  <2>3. ASSUME NEW k \in DOMAIN one.chains, NEW j \in DOMAIN one.chains[k]
        PROVE  one.chains[k][j] \in 1 .. n + 1
    <3>1. CASE k = c
      BY <1>1, <1>5, <1>8, <2>3, <3>1
    <3>2. CASE k # c
      <4>0. k \in 1 .. c - 1 /\ c - 1 = Len(f.chains)
        BY <1>1, <2>2, <3>2 DEF c
      <4>1. k \in DOMAIN f.chains /\ one.chains[k] = f.chains[k]
        BY <1>1, <1>8, <4>0
      <4>2. f.chains[k][j] \in 1 .. n
        BY <1>1, <2>3, <4>1 DEF Unfinished
      <4> QED
        BY <1>1, <4>1, <4>2
    <3> QED
      BY <3>1, <3>2
  <2>4. ASSUME NEW i \in DOMAIN one.inodes, one.inodes[i].is_dir
        PROVE  one.inodes[i].first_node \in 1 .. c
    <3>1. CASE i = n + 1
      BY <1>1, <1>3, <1>7, <3>1
    <3>2. CASE i = n
      BY <1>1, <1>2, <1>6, <1>7, <3>2
    <3>3. CASE i # n /\ i # n + 1
      <4>1. i \in 1 .. n /\ one.inodes[i] = f.inodes[i]
        BY <1>1, <1>6, <1>7, <2>2, <3>3
      <4>2. f.inodes[i].first_node \in 1 .. Len(f.chains)
        BY <1>1, <2>4, <3>3, <4>1 DEF Unfinished, n
      <4> QED
        BY <1>1, <4>1, <4>2 DEF c
    <3> QED
      BY <3>1, <3>2, <3>3
  <2>5. FsType(one)
    BY <2>1, <2>2, <2>3, <2>4 DEF FsType
  <2>6. one.inodes[n] = r
    BY <1>1, <1>6, <1>7
  <2>7. IsDirectory(one, n) /\ First(one, n) = c /\ LastNode(one, n) = 1
    BY <1>1, <1>2, <2>2, <2>6 DEF IsDirectory, First, LastNode
  <2>8. HasEnd(one, n)
    <3>1. Entries(one, n) = <<n + 1>>
      BY <1>8, <2>7 DEF Entries
    <3> QED
      BY <1>5, <2>7, <3>1 DEF HasEnd
  <2> QED
    BY <2>5, <2>7, <2>8
<1>11. /\ two \in [inodes : Seq(InodeType), chains : Seq(Seq(Nat))]
       /\ Len(two.inodes) = n + 2
       /\ \A i \in 1 .. n + 1 : i # n => two.inodes[i] = one.inodes[i]
       /\ SameBut(two.inodes[n], one.inodes[n])
       /\ two.inodes[n].num_entries = one.inodes[n].num_entries + 1
       /\ two.inodes[n + 2] = Inode("..", TRUE)
       /\ Len(two.chains) = c
       /\ \A k \in 1 .. c : k # c => two.chains[k] = one.chains[k]
       /\ Len(two.chains[c]) = 2 /\ two.chains[c][2] = n + 2
       /\ two.chains[c][1] = one.chains[c][1]
  <2>1. (n + 1) + 1 = n + 2 /\ 1 + 1 = 2 /\ 1 \in 1 .. 1
    BY <1>1
  <2>2. ".." \in Text /\ TRUE \in BOOLEAN
    BY TextHas
  <2>3. /\ two \in [inodes : Seq(InodeType), chains : Seq(Seq(Nat))]
        /\ Len(two.inodes) = Len(one.inodes) + 1
        /\ \A i \in 1 .. Len(one.inodes) : i # n => two.inodes[i] = one.inodes[i]
        /\ SameBut(two.inodes[n], one.inodes[n])
        /\ two.inodes[n].num_entries = one.inodes[n].num_entries + 1
        /\ two.inodes[Len(one.inodes) + 1] = Inode("..", TRUE)
        /\ Len(two.chains) = Len(one.chains)
        /\ \A k \in 1 .. Len(one.chains) : k # First(one, n) => two.chains[k] = one.chains[k]
        /\ Len(two.chains[First(one, n)]) = LastNode(one, n) + 1
        /\ two.chains[First(one, n)][LastNode(one, n) + 1] = Len(one.inodes) + 1
        /\ \A k \in 1 .. LastNode(one, n) :
             two.chains[First(one, n)][k] = one.chains[First(one, n)][k]
    <3>1. EntryAdded(one, two, n, Inode("..", TRUE))
      BY <1>10, <2>2, AddEntry
    <3> HIDE DEF two
    <3> QED
      BY <3>1 DEF EntryAdded
  <2> HIDE DEF two
  <2>4. First(one, n) = c /\ LastNode(one, n) = 1
    BY <1>10
  <2>5. Len(one.inodes) = n + 1 /\ Len(one.chains) = c
    BY <1>7, <1>8
  <2>6. Len(two.inodes) = n + 2 /\ two.inodes[n + 2] = Inode("..", TRUE)
    BY <2>1, <2>3, <2>5
  <2>7. /\ Len(two.chains[c]) = 2 /\ two.chains[c][2] = n + 2
        /\ two.chains[c][1] = one.chains[c][1]
    BY <2>1, <2>3, <2>4, <2>5
  <2>8. \A i \in 1 .. n + 1 : i # n => two.inodes[i] = one.inodes[i]
    BY <2>3, <2>5
  <2>9. Len(two.chains) = c /\ \A k \in 1 .. c : k # c => two.chains[k] = one.chains[k]
    BY <2>3, <2>4, <2>5
  <2> QED
    BY <2>3, <2>6, <2>7, <2>8, <2>9
<1> HIDE DEF two
<1>12. /\ g.inodes = [two.inodes EXCEPT ![n + 2] = dots] /\ g.chains = two.chains
       /\ g = [inodes |-> g.inodes, chains |-> g.chains]
  <2>1. g.chains = two.chains /\ g = [inodes |-> g.inodes, chains |-> g.chains]
    BY <1>4, <1>11
  <2>2. g.inodes = [two.inodes EXCEPT ![n + 2] = [two.inodes[n + 2] EXCEPT !.first_node = up]]
    BY <1>4, <1>11
  <2> QED
    BY <1>11, <2>1, <2>2 DEF dots
<1>13. /\ g.inodes \in Seq(InodeType) /\ Len(g.inodes) = n + 2 /\ g.inodes[n + 2] = dots
       /\ \A i \in 1 .. n + 1 : g.inodes[i] = two.inodes[i]
  <2>1. n + 2 \in 1 .. n + 2 /\ \A i \in 1 .. n + 1 : i \in 1 .. n + 2 /\ i # n + 2
    BY <1>1
  <2>2. two.inodes \in Seq(InodeType)
    BY <1>11
  <2> QED
    BY <1>3, <1>11, <1>12, <2>1, <2>2, ExceptSeq
<1>14. /\ \A i \in 1 .. n - 1 : g.inodes[i] = f.inodes[i]
       /\ g.inodes[n + 1] = dot
  <2>1. \A i \in 1 .. n - 1 : i \in 1 .. n /\ i \in 1 .. n + 1 /\ i # n
    BY <1>1
  <2>2. n + 1 \in 1 .. n + 1 /\ n + 1 # n
    BY <1>1
  <2>3. \A i \in 1 .. n + 1 : i # n => g.inodes[i] = one.inodes[i]
    BY <1>11, <1>13
  <2>4. \A i \in 1 .. n : i # n => one.inodes[i] = f.inodes[i]
    BY <1>6, <1>7
  <2> QED
    BY <1>7, <2>1, <2>2, <2>3, <2>4
<1>15. /\ Chained(g.inodes[n], f.inodes[n])
       /\ g.inodes[n].first_node = c /\ g.inodes[n].num_entries = 1
  <2>0. n \in 1 .. n /\ n \in 1 .. n + 1
    BY <1>1
  <2>1. g.inodes[n] = two.inodes[n] /\ one.inodes[n] = r
    <3>1. g.inodes[n] = two.inodes[n]
      BY <1>13, <2>0
    <3>2. one.inodes[n] = ins[n]
      BY <1>7, <2>0
    <3> QED
      BY <1>6, <3>1, <3>2
  <2> QED
    BY <1>2, <1>11, <2>1 DEF SameBut, Chained
<1>16. /\ Len(g.chains) = c /\ Len(g.chains[c]) = 2
       /\ g.chains[c][1] = n + 1 /\ g.chains[c][2] = n + 2
       /\ \A k \in 1 .. c - 1 : g.chains[k] = f.chains[k]
  <2>1. \A k \in 1 .. c - 1 : k \in 1 .. c /\ k # c
    BY <1>1
  <2> QED
    <3>1. one.chains[c][1] = n + 1
      BY <1>5, <1>8
    <3> QED
      BY <1>8, <1>11, <1>12, <2>1, <3>1
<1>17. g \in [inodes : Seq(InodeType), chains : Seq(Seq(Nat))]
  BY <1>11, <1>12, <1>13
<1> QED
  BY <1>1, <1>13, <1>14, <1>15, <1>16, <1>17 DEF n, c, g, dot, dots, DotsAdded

\* A new directory at inode i with the chain c, in g: `.` and `..` follow it, and
\* `..` stands for the chain up.
NewDirectory(g, i, c, name, up) ==
    /\ g.inodes[i].filename = name /\ g.inodes[i].is_dir
    /\ g.inodes[i].first_node = c /\ g.inodes[i].num_entries = 1
    /\ g.inodes[i + 1].filename = "." /\ g.inodes[i + 1].is_dir
    /\ g.inodes[i + 1].first_node = c
    /\ g.inodes[i + 2].filename = ".." /\ g.inodes[i + 2].is_dir
    /\ g.inodes[i + 2].first_node = up
    /\ Len(g.chains[c]) = 2 /\ g.chains[c][1] = i + 1 /\ g.chains[c][2] = i + 2

\* The entry n + 1 is added to dir, whose count leads to the end of its chain.
Grows(f, g, dir) ==
    LET n == Len(f.inodes)
        p == First(f, dir)
        m == LastNode(f, dir)
    IN  /\ \A i \in 1 .. n : i # dir => g.inodes[i] = f.inodes[i]
        /\ SameBut(g.inodes[dir], f.inodes[dir])
        /\ g.inodes[dir].num_entries = f.inodes[dir].num_entries + 1
        /\ \A k \in 1 .. Len(f.chains) : k # p => g.chains[k] = f.chains[k]
        /\ Len(g.chains[p]) = m + 1 /\ g.chains[p][m + 1] = n + 1
        /\ \A k \in 1 .. m : g.chains[p][k] = f.chains[p][k]

FileMade(f, g, dir, name) ==
    /\ g \in [inodes : Seq(InodeType), chains : Seq(Seq(Nat))]
    /\ Len(g.inodes) = Len(f.inodes) + 1 /\ Len(g.chains) = Len(f.chains)
    /\ Grows(f, g, dir)
    /\ g.inodes[Len(f.inodes) + 1].filename = name /\ ~g.inodes[Len(f.inodes) + 1].is_dir

DirMade(f, g, dir, name) ==
    /\ g \in [inodes : Seq(InodeType), chains : Seq(Seq(Nat))]
    /\ Len(g.inodes) = Len(f.inodes) + 3 /\ Len(g.chains) = Len(f.chains) + 1
    /\ Grows(f, g, dir)
    /\ NewDirectory(g, Len(f.inodes) + 1, Len(f.chains) + 1, name, First(f, dir))

DriveMade(f, g) ==
    /\ g \in [inodes : Seq(InodeType), chains : Seq(Seq(Nat))]
    /\ Len(g.inodes) = Len(f.inodes) + 3 /\ Len(g.chains) = Len(f.chains) + 1
    /\ \A i \in 1 .. Len(f.inodes) : g.inodes[i] = f.inodes[i]
    /\ \A k \in 1 .. Len(f.chains) : g.chains[k] = f.chains[k]
    /\ NewDirectory(g, Len(f.inodes) + 1, Len(f.chains) + 1, "", Len(f.chains) + 1)

LEMMA MkFile ==
  ASSUME NEW f, FsType(f), NEW dir, IsDirectory(f, dir), HasEnd(f, dir), NEW name \in Text
  PROVE  FileMade(f, tempfs_mkfile(f, dir, name), dir, name)
<1>1. EntryAdded(f, tempfs_mkfile(f, dir, name), dir, Inode(name, FALSE))
  BY AddEntry DEF tempfs_mkfile
<1> QED
  BY <1>1 DEF EntryAdded, FileMade, Grows, Inode

LEMMA MkDevice ==
  ASSUME NEW f, FsType(f), NEW dir, IsDirectory(f, dir), HasEnd(f, dir), NEW name \in Text
  PROVE  FileMade(f, tempfs_create_device(f, dir, name), dir, name)
<1> DEFINE a == tempfs_addentry(f, dir, name, FALSE)
           n == Len(f.inodes)
           g == tempfs_create_device(f, dir, name)
           r == [Inode(name, FALSE) EXCEPT !.type = "device"]
<1>1. EntryAdded(f, a, dir, Inode(name, FALSE))
  BY AddEntry
<1>2. g = [a EXCEPT !.inodes[Len(a.inodes)].type = "device"]
  BY DEF tempfs_create_device
<1> HIDE DEF a, g
<1>3. /\ a \in [inodes : Seq(InodeType), chains : Seq(Seq(Nat))] /\ Len(a.inodes) = n + 1
      /\ a.inodes[n + 1] = Inode(name, FALSE) /\ n \in Nat /\ dir \in 1 .. n
  BY <1>1, FsFacts DEF EntryAdded, IsDirectory
<1>4. /\ g.inodes = [a.inodes EXCEPT ![n + 1] = r] /\ g.chains = a.chains
      /\ g = [inodes |-> g.inodes, chains |-> g.chains]
  BY <1>2, <1>3
<1>5. r \in InodeType /\ r.filename = name /\ ~r.is_dir
  BY InodeIsInode DEF Inode, InodeType, NULL
<1> HIDE DEF r, n
<1>6. n + 1 \in 1 .. n + 1 /\ \A i \in 1 .. n : i \in 1 .. n + 1 /\ i # n + 1
  BY <1>3
<1>7. a.inodes \in Seq(InodeType)
  BY <1>3
<1>8. /\ g.inodes \in Seq(InodeType) /\ Len(g.inodes) = n + 1 /\ g.inodes[n + 1] = r
      /\ \A i \in 1 .. n : g.inodes[i] = a.inodes[i]
  BY <1>3, <1>4, <1>5, <1>6, <1>7, ExceptSeq
<1>9. g \in [inodes : Seq(InodeType), chains : Seq(Seq(Nat))]
  BY <1>3, <1>4, <1>8
<1>10. Grows(f, g, dir)
  BY <1>1, <1>3, <1>4, <1>8 DEF EntryAdded, Grows, n
<1> QED
  BY <1>1, <1>4, <1>5, <1>8, <1>9, <1>10 DEF EntryAdded, FileMade, g, n

LEMMA MkDir ==
  ASSUME NEW f, FsType(f), NEW dir, IsDirectory(f, dir), HasEnd(f, dir), NEW name \in Text
  PROVE  DirMade(f, tempfs_mkdir(f, dir, name), dir, name)
<1> DEFINE a == tempfs_addentry(f, dir, name, TRUE)
           g == tempfs_mkdir(f, dir, name)
           n == Len(f.inodes)
           c == Len(f.chains)
           p == First(f, dir)
           m == LastNode(f, dir)
<1>1. EntryAdded(f, a, dir, Inode(name, TRUE))
  BY AddEntry
<1>2. g = WithDots(a, Len(a.inodes), First(a, dir))
  BY DEF tempfs_mkdir
<1> HIDE DEF a, g
<1>3. /\ a \in [inodes : Seq(InodeType), chains : Seq(Seq(Nat))]
      /\ Len(a.inodes) = n + 1 /\ a.inodes[n + 1] = Inode(name, TRUE) /\ Len(a.chains) = c
      /\ Grows(f, a, dir)
  BY <1>1 DEF EntryAdded, Grows
<1>4. /\ n \in Nat /\ dir \in 1 .. n /\ c \in Nat /\ p \in 1 .. c /\ m \in Nat \ {0}
      /\ m <= Len(f.chains[p]) /\ Len(f.chains[p]) \in Nat
  <2>1. /\ n \in Nat /\ dir \in 1 .. n /\ c \in Nat /\ p \in 1 .. c /\ m \in Nat \ {0}
        /\ Entries(f, dir) = f.chains[p] /\ Len(Entries(f, dir)) \in Nat
    BY FsFacts, DirFacts DEF IsDirectory
  <2>2. m <= Len(Entries(f, dir))
    BY DEF HasEnd
  <2> HIDE DEF m, n, c, p
  <2> QED
    BY <2>1, <2>2
<1>5. DOMAIN a.inodes = 1 .. n + 1 /\ DOMAIN a.chains = 1 .. c
  <2>1. a.inodes \in Seq(InodeType) /\ a.chains \in Seq(Seq(Nat))
    BY <1>3
  <2> HIDE DEF n, c
  <2> QED
    BY <1>3, <2>1
<1>6. First(a, dir) = p /\ p \in Nat
  <2>1. SameBut(a.inodes[dir], f.inodes[dir])
    BY <1>3 DEF Grows
  <2>2. First(a, dir) = p
    BY <2>1 DEF SameBut, First
  <2> HIDE DEF p
  <2> QED
    BY <1>4, <2>2
<1>7. Unfinished(a)
  <2>1. ASSUME NEW k \in 1 .. c, NEW j \in DOMAIN a.chains[k]
        PROVE  a.chains[k][j] \in 1 .. n + 1
    <3>1. CASE k = p
      <4>1. DOMAIN a.chains[p] = 1 .. m + 1
        <5>0. a.chains \in Seq(Seq(Nat)) /\ Len(a.chains) = c
          BY <1>3
        <5>1. a.chains[p] \in Seq(Nat)
          BY <1>4, <5>0, ElementOfSeq
        <5> QED
          BY <1>3, <5>1 DEF Grows
      <4>2. CASE j = m + 1
        BY <1>3, <1>4, <3>1, <4>2 DEF Grows
      <4>3. CASE j # m + 1
        <5>1. j \in 1 .. m /\ j \in 1 .. Len(f.chains[p])
          BY <1>4, <2>1, <3>1, <4>1, <4>3
        <5>2. f.chains[p][j] \in 1 .. n
          BY <1>4, <5>1, FsFacts DEF FsType
        <5>3. a.chains[k][j] = f.chains[p][j]
          BY <1>3, <3>1, <5>1 DEF Grows
        <5> QED
          BY <1>4, <5>2, <5>3
      <4> QED
        BY <4>2, <4>3
    <3>2. CASE k # p
      <4>1. a.chains[k] = f.chains[k]
        BY <1>3, <3>2 DEF Grows
      <4>2. f.chains[k][j] \in 1 .. n
        BY <2>1, <4>1, FsFacts DEF FsType
      <4> QED
        BY <1>4, <4>1, <4>2
    <3> QED
      BY <3>1, <3>2
  <2>2. ASSUME NEW i \in 1 .. n, a.inodes[i].is_dir PROVE a.inodes[i].first_node \in 1 .. c
    <3>1. a.inodes[i].is_dir = f.inodes[i].is_dir /\ a.inodes[i].first_node = f.inodes[i].first_node
      BY <1>3 DEF Grows, SameBut
    <3> QED
      BY <2>2, <3>1, FsFacts DEF FsType
  <2>3. \A i \in 1 .. n + 1 : i # n + 1 => i \in 1 .. n
    BY <1>4
  <2>4. a.inodes[n + 1].is_dir /\ a.inodes[n + 1].num_entries = 0 /\ n + 1 # 0
    BY <1>3, <1>4 DEF Inode
  <2> QED
    BY <1>3, <1>5, <2>1, <2>2, <2>3, <2>4 DEF Unfinished
<1>8. DotsAdded(a, g, p)
  BY <1>2, <1>6, <1>7, Dots
<1>9. /\ g \in [inodes : Seq(InodeType), chains : Seq(Seq(Nat))]
      /\ Len(g.inodes) = (n + 1) + 2
      /\ \A i \in 1 .. (n + 1) - 1 : g.inodes[i] = a.inodes[i]
      /\ Chained(g.inodes[n + 1], a.inodes[n + 1])
      /\ g.inodes[n + 1].first_node = c + 1 /\ g.inodes[n + 1].num_entries = 1
      /\ g.inodes[(n + 1) + 1] = [Inode(".", TRUE) EXCEPT !.first_node = c + 1, !.num_entries = 2]
      /\ g.inodes[(n + 1) + 2] = [Inode("..", TRUE) EXCEPT !.first_node = p]
      /\ Len(g.chains) = c + 1
      /\ \A k \in 1 .. (c + 1) - 1 : g.chains[k] = a.chains[k]
      /\ Len(g.chains[c + 1]) = 2
      /\ g.chains[c + 1][1] = (n + 1) + 1 /\ g.chains[c + 1][2] = (n + 1) + 2
  <2> HIDE DEF n, c, p
  <2> QED
    BY <1>3, <1>8 DEF DotsAdded
<1>10. /\ (n + 1) - 1 = n /\ (c + 1) - 1 = c /\ (n + 1) + 2 = n + 3
  BY <1>4
<1>11. Grows(f, g, dir)
  <2>1. \A i \in 1 .. n : g.inodes[i] = a.inodes[i]
    BY <1>9, <1>10
  <2>2. \A k \in 1 .. c : g.chains[k] = a.chains[k]
    BY <1>9, <1>10
  <2> QED
    BY <1>3, <1>4, <2>1, <2>2 DEF Grows
<1>12. NewDirectory(g, n + 1, c + 1, name, p)
  <2>1. g.inodes[n + 1].filename = name /\ g.inodes[n + 1].is_dir
    BY <1>3, <1>9 DEF Chained, Inode
  <2>2. /\ g.inodes[(n + 1) + 1].filename = "." /\ g.inodes[(n + 1) + 1].is_dir
        /\ g.inodes[(n + 1) + 1].first_node = c + 1
        /\ g.inodes[(n + 1) + 2].filename = ".." /\ g.inodes[(n + 1) + 2].is_dir
        /\ g.inodes[(n + 1) + 2].first_node = p
    BY <1>9 DEF Inode
  <2> QED
    BY <1>9, <2>1, <2>2 DEF NewDirectory
<1> QED
  BY <1>9, <1>10, <1>11, <1>12 DEF DirMade, g

LEMMA NewDrive ==
  ASSUME NEW f, FsType(f)
  PROVE  DriveMade(f, tempfs_new(f))
<1> DEFINE n == Len(f.inodes)
           c == Len(f.chains)
           a == [f EXCEPT !.inodes = Append(@, Inode("", TRUE))]
           w == WithDots(a, n + 1, c + 1)
           g == tempfs_new(f)
           root == [w.inodes[n + 1] EXCEPT !.type = "unknown"]
           dot  == [w.inodes[n + 2] EXCEPT !.type = "unknown"]
           ins  == [w.inodes EXCEPT ![n + 1] = root]
<1>1. /\ n \in Nat /\ c \in Nat /\ f.inodes \in Seq(InodeType) /\ f.chains \in Seq(Seq(Nat))
      /\ DOMAIN f.inodes = 1 .. n /\ DOMAIN f.chains = 1 .. c
      /\ (n + 1) + 1 = n + 2 /\ (n + 1) + 2 = n + 3 /\ (n + 1) - 1 = n /\ (c + 1) - 1 = c
  BY FsFacts
<1>2. f \in [inodes : Seq(InodeType), chains : Seq(Seq(Nat))]
  BY DEF FsType
<1>3. a = [inodes |-> Append(f.inodes, Inode("", TRUE)), chains |-> f.chains]
  <2> DEFINE x == Append(f.inodes, Inode("", TRUE))
  <2> HIDE DEF x
  <2>1. [f EXCEPT !.inodes = x] = [inodes |-> x, chains |-> f.chains]
    BY <1>2
  <2> QED
    BY <2>1 DEF x
<1>4. g = [w EXCEPT !.inodes[n + 1].type = "unknown", !.inodes[(n + 1) + 1].type = "unknown"]
  BY DEF tempfs_new
<1>0. Len(f.inodes) = n /\ Len(f.chains) = c
  OBVIOUS
<1> HIDE DEF n, c, a, w, g
<1>a. n \in Nat /\ c \in Nat
  BY <1>1
<1>b. /\ (n + 1) + 1 = n + 2 /\ (n + 1) + 2 = n + 3 /\ (n + 1) - 1 = n /\ (c + 1) - 1 = c
      /\ n + 1 \in Nat /\ c + 1 \in Nat
  BY <1>a
<1>5. /\ a.inodes \in Seq(InodeType) /\ Len(a.inodes) = n + 1 /\ a.chains = f.chains
      /\ a.inodes[n + 1] = Inode("", TRUE) /\ \A i \in 1 .. n : a.inodes[i] = f.inodes[i]
      /\ a = [inodes |-> a.inodes, chains |-> a.chains]
      /\ DOMAIN a.inodes = 1 .. n + 1
  <2>1. Inode("", TRUE) \in InodeType
    BY InodeIsInode, TextHas
  <2>2. a.inodes = Append(f.inodes, Inode("", TRUE)) /\ a.chains = f.chains
    BY <1>3
  <2>3. a = [inodes |-> a.inodes, chains |-> a.chains]
    BY <1>3
  <2>4. /\ a.inodes \in Seq(InodeType) /\ Len(a.inodes) = n + 1
        /\ a.inodes[n + 1] = Inode("", TRUE) /\ \A i \in 1 .. n : a.inodes[i] = f.inodes[i]
    <3> DEFINE x == Inode("", TRUE)
    <3>1. x \in InodeType /\ a.inodes = Append(f.inodes, x)
      BY <2>1, <2>2
    <3> HIDE DEF x
    <3>2. /\ a.inodes \in Seq(InodeType) /\ Len(a.inodes) = Len(f.inodes) + 1
          /\ \A i \in 1 .. Len(f.inodes) : a.inodes[i] = f.inodes[i]
          /\ a.inodes[Len(f.inodes) + 1] = x
      BY <1>1, <3>1, AppendProperties
    <3> QED
      BY <1>0, <3>2 DEF x
  <2>5. DOMAIN a.inodes = 1 .. n + 1
    <3>1. DOMAIN a.inodes = 1 .. Len(a.inodes)
      BY <2>4, LenProperties
    <3> QED
      BY <2>4, <3>1
  <2> QED
    BY <2>2, <2>3, <2>4, <2>5
<1>6. Unfinished(a)
  <2>1. a \in [inodes : Seq(InodeType), chains : Seq(Seq(Nat))]
    BY <1>1, <1>5
  <2>2. ASSUME NEW k \in DOMAIN a.chains, NEW j \in DOMAIN a.chains[k]
        PROVE  a.chains[k][j] \in 1 .. n + 1
    <3>1. a.chains[k][j] \in 1 .. n
      BY <1>1, <1>5 DEF FsType
    <3> QED
      BY <1>1, <3>1
  <2>3. ASSUME NEW i \in 1 .. n + 1, a.inodes[i].is_dir, i # n + 1
        PROVE  a.inodes[i].first_node \in DOMAIN a.chains
    <3>1. i \in 1 .. n /\ a.inodes[i] = f.inodes[i]
      <4>1. i \in 1 .. n
        BY <1>1, <2>3
      <4> QED
        BY <1>5, <4>1
    <3> QED
      BY <1>1, <1>5, <2>3, <3>1 DEF FsType
  <2>4. a.inodes[n + 1].is_dir /\ a.inodes[n + 1].num_entries = 0 /\ n + 1 # 0
    <3>1. Inode("", TRUE).is_dir /\ Inode("", TRUE).num_entries = 0
      BY DEF Inode
    <3>2. n + 1 # 0
      BY <1>1
    <3> QED
      BY <1>5, <3>1, <3>2
  <2> QED
    BY <1>5, <2>1, <2>2, <2>3, <2>4 DEF Unfinished
<1>7. DotsAdded(a, w, c + 1)
  <2>1. c + 1 \in Nat /\ Len(a.inodes) = n + 1
    BY <1>b, <1>5
  <2> QED
    BY <1>6, <2>1, Dots DEF w
<1>8. /\ w \in [inodes : Seq(InodeType), chains : Seq(Seq(Nat))]
      /\ Len(w.inodes) = (n + 1) + 2
      /\ \A i \in 1 .. (n + 1) - 1 : w.inodes[i] = a.inodes[i]
      /\ Chained(w.inodes[n + 1], a.inodes[n + 1])
      /\ w.inodes[n + 1].first_node = c + 1 /\ w.inodes[n + 1].num_entries = 1
      /\ w.inodes[(n + 1) + 1] = [Inode(".", TRUE) EXCEPT !.first_node = c + 1, !.num_entries = 2]
      /\ w.inodes[(n + 1) + 2] = [Inode("..", TRUE) EXCEPT !.first_node = c + 1]
      /\ Len(w.chains) = c + 1
      /\ \A k \in 1 .. (c + 1) - 1 : w.chains[k] = a.chains[k]
      /\ Len(w.chains[c + 1]) = 2
      /\ w.chains[c + 1][1] = (n + 1) + 1 /\ w.chains[c + 1][2] = (n + 1) + 2
  <2>1. Len(a.inodes) = n + 1 /\ Len(a.chains) = c
    BY <1>5 DEF c
  <2> QED
    BY <1>7, <2>1 DEF DotsAdded
<1>9. n + 1 \in 1 .. n + 3 /\ n + 2 \in 1 .. n + 3 /\ n + 3 \in 1 .. n + 3
      /\ \A i \in 1 .. n : i \in 1 .. n + 3 /\ i # n + 1 /\ i # n + 2
  BY <1>1
<1>10. w.inodes \in Seq(InodeType) /\ Len(w.inodes) = n + 3
  BY <1>1, <1>8
<1>11. /\ w.inodes[n + 1] \in InodeType /\ w.inodes[n + 2] \in InodeType
  BY <1>9, <1>10, ElementOfSeq
<1>12. /\ root \in InodeType /\ root.filename = w.inodes[n + 1].filename
       /\ root.is_dir = w.inodes[n + 1].is_dir /\ root.num_entries = w.inodes[n + 1].num_entries
       /\ root.first_node = w.inodes[n + 1].first_node
       /\ dot \in InodeType /\ dot.filename = w.inodes[n + 2].filename
       /\ dot.is_dir = w.inodes[n + 2].is_dir
       /\ dot.first_node = w.inodes[n + 2].first_node
  BY <1>11 DEF InodeType
<1>13. /\ g.inodes = [ins EXCEPT ![n + 2] = dot] /\ g.chains = w.chains
       /\ g = [inodes |-> g.inodes, chains |-> g.chains]
  <2>1. /\ g.inodes = [[w.inodes EXCEPT ![n + 1].type = "unknown"] EXCEPT ![n + 2].type = "unknown"]
        /\ g.chains = w.chains /\ g = [inodes |-> g.inodes, chains |-> g.chains]
    BY <1>1, <1>4, <1>8
  <2>2. [w.inodes EXCEPT ![n + 1].type = "unknown"] = ins
    OBVIOUS
  <2>3. ins[n + 2] = w.inodes[n + 2]
    <3>1. n + 2 # n + 1 /\ DOMAIN w.inodes = 1 .. n + 3
      BY <1>a, <1>10
    <3> QED
      BY <1>9, <3>1
  <2> QED
    BY <2>1, <2>2, <2>3
<1> HIDE DEF root, dot
<1>14. /\ ins \in Seq(InodeType) /\ Len(ins) = n + 3 /\ ins[n + 1] = root
       /\ \A i \in 1 .. n + 3 : i # n + 1 => ins[i] = w.inodes[i]
  BY <1>9, <1>10, <1>12, ExceptSeq
<1> HIDE DEF ins
<1>15. /\ g.inodes \in Seq(InodeType) /\ Len(g.inodes) = n + 3 /\ g.inodes[n + 2] = dot
       /\ \A i \in 1 .. n + 3 : i # n + 2 => g.inodes[i] = ins[i]
  BY <1>9, <1>12, <1>13, <1>14, ExceptSeq
<1>16. n + 1 # n + 2 /\ n + 3 # n + 2 /\ n + 3 # n + 1
  BY <1>1
<1>17. /\ g.inodes[n + 1] = root /\ g.inodes[n + 3] = w.inodes[n + 3]
       /\ \A i \in 1 .. n : g.inodes[i] = f.inodes[i]
  <2>1. g.inodes[n + 1] = root /\ g.inodes[n + 3] = w.inodes[n + 3]
    BY <1>9, <1>14, <1>15, <1>16
  <2>2. \A i \in 1 .. n : g.inodes[i] = w.inodes[i]
    BY <1>9, <1>14, <1>15
  <2>3. \A i \in 1 .. n : w.inodes[i] = f.inodes[i]
    BY <1>b, <1>5, <1>8
  <2> QED
    BY <2>1, <2>2, <2>3
<1>18. g \in [inodes : Seq(InodeType), chains : Seq(Seq(Nat))]
  BY <1>8, <1>13, <1>15
<1>19. NewDirectory(g, n + 1, c + 1, "", c + 1)
  <2>1. g.inodes[n + 1].filename = "" /\ g.inodes[n + 1].is_dir
    <3>1. Inode("", TRUE).is_dir /\ Inode("", TRUE).filename = ""
      BY DEF Inode
    <3>2. w.inodes[n + 1].is_dir /\ w.inodes[n + 1].filename = ""
      BY <1>5, <1>8, <3>1 DEF Chained
    <3> QED
      BY <1>12, <1>17, <3>2
  <2>2. g.inodes[n + 1].first_node = c + 1 /\ g.inodes[n + 1].num_entries = 1
    BY <1>8, <1>12, <1>17
  <2>3. /\ g.inodes[(n + 1) + 1].filename = "." /\ g.inodes[(n + 1) + 1].is_dir
        /\ g.inodes[(n + 1) + 1].first_node = c + 1
    <3>1. w.inodes[(n + 1) + 1].is_dir /\ w.inodes[(n + 1) + 1].filename = "."
          /\ w.inodes[(n + 1) + 1].first_node = c + 1
      BY <1>8 DEF Inode
    <3>2. w.inodes[n + 2].is_dir /\ w.inodes[n + 2].filename = "."
          /\ w.inodes[n + 2].first_node = c + 1
      BY <1>b, <3>1
    <3>3. g.inodes[n + 2].is_dir /\ g.inodes[n + 2].filename = "."
          /\ g.inodes[n + 2].first_node = c + 1
      BY <1>12, <1>15, <3>2
    <3> QED
      BY <1>b, <3>3
  <2>4. /\ g.inodes[(n + 1) + 2].filename = ".." /\ g.inodes[(n + 1) + 2].is_dir
        /\ g.inodes[(n + 1) + 2].first_node = c + 1
    <3>1. w.inodes[(n + 1) + 2].is_dir /\ w.inodes[(n + 1) + 2].filename = ".."
          /\ w.inodes[(n + 1) + 2].first_node = c + 1
      BY <1>8 DEF Inode
    <3>2. g.inodes[(n + 1) + 2] = w.inodes[(n + 1) + 2]
      BY <1>b, <1>17
    <3> QED
      BY <3>1, <3>2
  <2> QED
    BY <1>8, <1>13, <2>1, <2>2, <2>3, <2>4 DEF NewDirectory
<1>20. \A k \in 1 .. c : g.chains[k] = f.chains[k]
  BY <1>1, <1>5, <1>8, <1>13
<1> QED
  BY <1>8, <1>13, <1>15, <1>17, <1>18, <1>19, <1>20 DEF DriveMade, g, n, c

-----------------------------------------------------------------------------
(* What every operation keeps *)

\* Nothing that was there is moved, renamed or written.
Kept(f, g) ==
    /\ FsType(g)
    /\ Len(f.inodes) <= Len(g.inodes)
    /\ \A i \in 1 .. Len(f.inodes) : SameBut(g.inodes[i], f.inodes[i])

LEMMA Behind ==
  ASSUME NEW n \in Nat
  PROVE  /\ \A i \in 1 .. n + 3 : i \in 1 .. n \/ i = n + 1 \/ i = (n + 1) + 1 \/ i = (n + 1) + 2
         /\ \A i \in 1 .. n : i \in 1 .. n + 1 /\ i \in 1 .. n + 3
         /\ n + 1 \in 1 .. n + 1 /\ n <= n + 1
  OBVIOUS

LEMMA GrowsKeeps ==
  ASSUME NEW f, FsType(f), NEW dir, IsDirectory(f, dir), HasEnd(f, dir),
         NEW g, Grows(f, g, dir), g.chains \in Seq(Seq(Nat)), Len(f.chains) <= Len(g.chains)
  PROVE  /\ \A i \in 1 .. Len(f.inodes) : SameBut(g.inodes[i], f.inodes[i])
         /\ \A i \in 1 .. Len(f.inodes) :
              g.inodes[i].is_dir => g.inodes[i].first_node \in 1 .. Len(f.chains)
         /\ \A k \in 1 .. Len(f.chains) : \A j \in DOMAIN g.chains[k] :
              g.chains[k][j] \in 1 .. Len(f.inodes) + 1
<1> DEFINE n == Len(f.inodes)
           c == Len(f.chains)
           p == First(f, dir)
           m == LastNode(f, dir)
<1>1. /\ n \in Nat /\ dir \in 1 .. n /\ c \in Nat /\ p \in 1 .. c /\ m \in Nat \ {0}
      /\ m <= Len(f.chains[p]) /\ Len(f.chains[p]) \in Nat /\ Len(g.chains) \in Nat
  <2>1. /\ n \in Nat /\ dir \in 1 .. n /\ c \in Nat /\ p \in 1 .. c /\ m \in Nat \ {0}
        /\ Entries(f, dir) = f.chains[p] /\ Len(Entries(f, dir)) \in Nat
    BY FsFacts, DirFacts DEF IsDirectory
  <2>2. m <= Len(Entries(f, dir)) /\ Len(g.chains) \in Nat
    BY DEF HasEnd
  <2> HIDE DEF m, n, c, p
  <2> QED
    BY <2>1, <2>2
<1>2. \A i \in 1 .. n : SameBut(g.inodes[i], f.inodes[i])
  BY DEF Grows, SameBut
<1>3. \A i \in 1 .. n : g.inodes[i].is_dir => g.inodes[i].first_node \in 1 .. c
  BY <1>2, FsFacts DEF SameBut, FsType
<1>4. ASSUME NEW k \in 1 .. c, NEW j \in DOMAIN g.chains[k]
      PROVE  g.chains[k][j] \in 1 .. n + 1
  <2>1. CASE k = p
    <3>1. DOMAIN g.chains[p] = 1 .. m + 1
      <4>0. p \in 1 .. Len(g.chains)
        BY <1>1
      <4>1. g.chains[p] \in Seq(Nat)
        BY <4>0, ElementOfSeq
      <4> QED
        BY <4>1, LenProperties DEF Grows
    <3>2. CASE j = m + 1
      <4>1. g.chains[k][j] = n + 1
        BY <2>1, <3>2 DEF Grows
      <4> QED
        BY <1>1, <4>1, Behind
    <3>3. CASE j # m + 1
      <4>1. j \in 1 .. m /\ j \in 1 .. Len(f.chains[p])
        <5>1. j \in 1 .. m + 1
          BY <1>4, <2>1, <3>1
        <5> HIDE DEF m, n, c, p
        <5> QED
          BY <1>1, <3>3, <5>1
      <4>2. f.chains[p][j] \in 1 .. n
        BY <1>1, <4>1, FsFacts DEF FsType
      <4>3. g.chains[k][j] = f.chains[p][j]
        BY <2>1, <4>1 DEF Grows
      <4> QED
        BY <1>1, <4>2, <4>3, Behind
    <3> QED
      BY <3>2, <3>3
  <2>2. CASE k # p
    <3>1. g.chains[k] = f.chains[k]
      BY <2>2 DEF Grows
    <3>2. f.chains[k][j] \in 1 .. n
      BY <1>4, <3>1, FsFacts DEF FsType
    <3> QED
      BY <1>1, <3>1, <3>2
  <2> QED
    BY <2>1, <2>2
<1> QED
  BY <1>2, <1>3, <1>4

LEMMA FileKeeps ==
  ASSUME NEW f, FsType(f), NEW dir, IsDirectory(f, dir), HasEnd(f, dir),
         NEW g, NEW name, FileMade(f, g, dir, name)
  PROVE  Kept(f, g)
<1> DEFINE n == Len(f.inodes)
           c == Len(f.chains)
<1>1. /\ g \in [inodes : Seq(InodeType), chains : Seq(Seq(Nat))]
      /\ Len(g.inodes) = n + 1 /\ Len(g.chains) = c /\ ~g.inodes[n + 1].is_dir
      /\ Grows(f, g, dir)
  BY DEF FileMade
<1>2. n \in Nat /\ c \in Nat /\ c <= c
  BY FsFacts
<1>3. /\ g.inodes \in Seq(InodeType) /\ g.chains \in Seq(Seq(Nat))
  BY <1>1
<1>4. DOMAIN g.inodes = 1 .. n + 1 /\ DOMAIN g.chains = 1 .. c
  BY <1>1, <1>3, LenProperties
<1>5. /\ \A i \in 1 .. n : SameBut(g.inodes[i], f.inodes[i])
      /\ \A i \in 1 .. n : g.inodes[i].is_dir => g.inodes[i].first_node \in 1 .. c
      /\ \A k \in 1 .. c : \A j \in DOMAIN g.chains[k] : g.chains[k][j] \in 1 .. n + 1
  BY <1>1, <1>2, <1>3, GrowsKeeps
<1> HIDE DEF n, c
<1>6. \A i \in 1 .. n + 1 : i # n + 1 => i \in 1 .. n
  BY <1>2
<1>7. FsType(g)
  BY <1>1, <1>4, <1>5, <1>6 DEF FsType
<1>8. n <= n + 1
  BY <1>2
<1> QED
  BY <1>1, <1>5, <1>7, <1>8 DEF Kept, n

\* A new directory at the end of the memory.
LEMMA DirectoryKeeps ==
  ASSUME NEW f, FsType(f), NEW g, NEW name, NEW up,
         g \in [inodes : Seq(InodeType), chains : Seq(Seq(Nat))],
         Len(g.inodes) = Len(f.inodes) + 3, Len(g.chains) = Len(f.chains) + 1,
         \A i \in 1 .. Len(f.inodes) : SameBut(g.inodes[i], f.inodes[i]),
         \A i \in 1 .. Len(f.inodes) :
           g.inodes[i].is_dir => g.inodes[i].first_node \in 1 .. Len(f.chains),
         \A k \in 1 .. Len(f.chains) : \A j \in DOMAIN g.chains[k] :
           g.chains[k][j] \in 1 .. Len(f.inodes) + 1,
         NewDirectory(g, Len(f.inodes) + 1, Len(f.chains) + 1, name, up),
         up \in 1 .. Len(f.chains) + 1
  PROVE  Kept(f, g)
<1> DEFINE n == Len(f.inodes)
           c == Len(f.chains)
<1>1. n \in Nat /\ c \in Nat
  BY FsFacts
<1>2. g.inodes \in Seq(InodeType) /\ g.chains \in Seq(Seq(Nat))
  OBVIOUS
<1>3. DOMAIN g.inodes = 1 .. n + 3 /\ DOMAIN g.chains = 1 .. c + 1
  BY <1>2, LenProperties
<1>4. /\ g.inodes[n + 1].first_node = c + 1 /\ g.inodes[(n + 1) + 1].first_node = c + 1
      /\ g.inodes[(n + 1) + 2].first_node = up
      /\ Len(g.chains[c + 1]) = 2
      /\ g.chains[c + 1][1] = (n + 1) + 1 /\ g.chains[c + 1][2] = (n + 1) + 2
  BY DEF NewDirectory
<1>5. ASSUME NEW i \in 1 .. n + 3, g.inodes[i].is_dir
      PROVE  g.inodes[i].first_node \in 1 .. c + 1
  <2>1. CASE i \in 1 .. n
    <3>1. g.inodes[i].first_node \in 1 .. c
      BY <1>5, <2>1
    <3> HIDE DEF n, c
    <3> QED
      BY <1>1, <3>1
  <2>2. CASE i \notin 1 .. n
    <3> HIDE DEF n, c
    <3>1. i = n + 1 \/ i = (n + 1) + 1 \/ i = (n + 1) + 2
      BY <1>1, <2>2, Behind
    <3>2. c + 1 \in 1 .. c + 1
      BY <1>1
    <3>3. up \in 1 .. c + 1
      BY DEF c
    <3> QED
      BY <1>4, <3>1, <3>2, <3>3
  <2> QED
    BY <2>1, <2>2
<1>6. ASSUME NEW k \in 1 .. c + 1, NEW j \in DOMAIN g.chains[k]
      PROVE  g.chains[k][j] \in 1 .. n + 3
  <2>1. CASE k \in 1 .. c
    <3>1. g.chains[k][j] \in 1 .. n + 1
      BY <1>6, <2>1
    <3> HIDE DEF n, c
    <3> QED
      BY <1>1, <3>1
  <2>2. CASE k \notin 1 .. c
    <3>1. c + 1 \in 1 .. Len(g.chains)
      BY <1>1
    <3>2. g.chains[c + 1] \in Seq(Nat)
      BY <1>2, <3>1, ElementOfSeq
    <3> HIDE DEF n, c
    <3>3. k = c + 1
      BY <1>1, <1>6, <2>2
    <3>4. DOMAIN g.chains[c + 1] = 1 .. 2
      BY <1>4, <3>2, LenProperties
    <3>5. j = 1 \/ j = 2
      BY <3>3, <3>4
    <3>6. (n + 1) + 1 \in 1 .. n + 3 /\ (n + 1) + 2 \in 1 .. n + 3
      BY <1>1
    <3> QED
      BY <1>4, <3>3, <3>5, <3>6
  <2> QED
    BY <2>1, <2>2
<1>7. FsType(g)
  BY <1>3, <1>5, <1>6 DEF FsType
<1>8. n <= n + 3
  BY <1>1
<1> QED
  BY <1>7, <1>8 DEF Kept

LEMMA DirKeeps ==
  ASSUME NEW f, FsType(f), NEW dir, IsDirectory(f, dir), HasEnd(f, dir),
         NEW g, NEW name, DirMade(f, g, dir, name)
  PROVE  Kept(f, g)
<1>1. /\ g \in [inodes : Seq(InodeType), chains : Seq(Seq(Nat))]
      /\ Len(g.inodes) = Len(f.inodes) + 3 /\ Len(g.chains) = Len(f.chains) + 1
      /\ Grows(f, g, dir)
      /\ NewDirectory(g, Len(f.inodes) + 1, Len(f.chains) + 1, name, First(f, dir))
  BY DEF DirMade
<1>2. Len(f.chains) \in Nat /\ First(f, dir) \in 1 .. Len(f.chains)
  BY FsFacts, DirFacts
<1>3. First(f, dir) \in 1 .. Len(f.chains) + 1 /\ Len(f.chains) <= Len(g.chains)
  BY <1>1, <1>2
<1>4. g.chains \in Seq(Seq(Nat))
  BY <1>1
<1>5. /\ \A i \in 1 .. Len(f.inodes) : SameBut(g.inodes[i], f.inodes[i])
      /\ \A i \in 1 .. Len(f.inodes) :
           g.inodes[i].is_dir => g.inodes[i].first_node \in 1 .. Len(f.chains)
      /\ \A k \in 1 .. Len(f.chains) : \A j \in DOMAIN g.chains[k] :
           g.chains[k][j] \in 1 .. Len(f.inodes) + 1
  BY <1>1, <1>3, <1>4, GrowsKeeps
<1> QED
  BY <1>1, <1>3, <1>5, DirectoryKeeps

LEMMA DriveKeeps ==
  ASSUME NEW f, FsType(f), NEW g, DriveMade(f, g)
  PROVE  Kept(f, g)
<1>1. /\ g \in [inodes : Seq(InodeType), chains : Seq(Seq(Nat))]
      /\ Len(g.inodes) = Len(f.inodes) + 3 /\ Len(g.chains) = Len(f.chains) + 1
      /\ \A i \in 1 .. Len(f.inodes) : g.inodes[i] = f.inodes[i]
      /\ \A k \in 1 .. Len(f.chains) : g.chains[k] = f.chains[k]
      /\ NewDirectory(g, Len(f.inodes) + 1, Len(f.chains) + 1, "", Len(f.chains) + 1)
  BY DEF DriveMade
<1>2. Len(f.chains) \in Nat /\ Len(f.inodes) \in Nat
  BY FsFacts
<1>3. Len(f.chains) + 1 \in 1 .. Len(f.chains) + 1
  BY <1>2
<1>4. \A i \in 1 .. Len(f.inodes) : SameBut(g.inodes[i], f.inodes[i])
  BY <1>1 DEF SameBut
<1>5. \A i \in 1 .. Len(f.inodes) :
        g.inodes[i].is_dir => g.inodes[i].first_node \in 1 .. Len(f.chains)
  BY <1>1, FsFacts DEF FsType
<1>6. \A k \in 1 .. Len(f.chains) : \A j \in DOMAIN g.chains[k] :
        g.chains[k][j] \in 1 .. Len(f.inodes)
  BY <1>1, FsFacts DEF FsType
<1>7. \A x \in 1 .. Len(f.inodes) : x \in 1 .. Len(f.inodes) + 1
  BY <1>2
<1>8. \A k \in 1 .. Len(f.chains) : \A j \in DOMAIN g.chains[k] :
        g.chains[k][j] \in 1 .. Len(f.inodes) + 1
  BY <1>6, <1>7
<1> QED
  BY <1>1, <1>3, <1>4, <1>5, <1>8, DirectoryKeeps

-----------------------------------------------------------------------------
(* Looking up a name *)

LEMMA Least ==
  ASSUME NEW T, T \subseteq Nat, T # {}
  PROVE  \E x \in T : \A y \in T : x <= y
<1> DEFINE R == OpToRel(<, Nat)
<1>1. IsWellFoundedOn(R, Nat)
  BY NatLessThanWellFounded
<1>2. \A x, y \in Nat : x < y => <<x, y>> \in R
  BY DEF OpToRel
<1> HIDE DEF R
<1>3. PICK x \in T : \A y \in T : ~ (<<y, x>> \in R)
  BY <1>1, WFMin
<1>4. \A y \in T : ~(y < x) /\ x \in Nat /\ y \in Nat
  BY <1>2, <1>3
<1>5. \A y \in T : x <= y
  BY <1>4
<1> QED
  BY <1>5

\* The first entry with the name, if there is one.
Finds(f, dir, name, i) ==
    LET es == Entries(f, dir)
    IN  \/ i = NULL /\ \A k \in DOMAIN es : f.inodes[es[k]].filename # name
        \/ /\ i \in DOMAIN f.inodes /\ f.inodes[i].filename = name
           /\ \E k \in DOMAIN es : /\ es[k] = i
                                   /\ \A j \in DOMAIN es :
                                        f.inodes[es[j]].filename = name => k <= j

LEMMA FindFinds ==
  ASSUME NEW f, FsType(f), NEW dir, IsDirectory(f, dir), NEW name
  PROVE  Finds(f, dir, name, tempfs_find(f, dir, name))
<1> DEFINE es == Entries(f, dir)
           hits == {k \in DOMAIN es : f.inodes[es[k]].filename = name}
           first == CHOOSE k \in hits : \A j \in hits : k <= j
<1>1. CASE hits = {}
  BY <1>1 DEF tempfs_find, Finds
<1>2. CASE hits # {}
  <2>1. DOMAIN es \subseteq Nat /\ \A k \in DOMAIN es : es[k] \in DOMAIN f.inodes
    BY DirFacts
  <2>2. hits \subseteq Nat
    BY <2>1
  <2>3. \E k \in hits : \A j \in hits : k <= j
    BY <1>2, <2>2, Least
  <2>4. first \in hits /\ \A j \in hits : first <= j
    BY <2>3
  <2>5. tempfs_find(f, dir, name) = es[first]
    BY <1>2 DEF tempfs_find
  <2> HIDE DEF first
  <2> QED
    BY <2>1, <2>4, <2>5 DEF Finds
<1> QED
  BY <1>1, <1>2

-----------------------------------------------------------------------------
(* Writing *)

LEMMA Fits ==
  ASSUME NEW n \in Nat
  PROVE  Capacity(n) \in Nat /\ n <= Capacity(n)
<1> DEFINE x == n + B - 1
           q == x \div B
<1>1. B \in Nat \ {0}
  BY BlockAssumption
<1>2. x \in Nat /\ n <= x
  BY <1>1
<1>3. \A y \in Nat, b \in Nat \ {0} :
        y \div b \in Nat /\ b * ((y \div b) + 1) > y /\ b * ((y \div b) + 1) \in Nat
  OBVIOUS
<1> HIDE DEF x
<1>4. B * (q + 1) > x /\ B * (q + 1) \in Nat
  BY <1>1, <1>2, <1>3
<1> HIDE DEF q
<1>5. B * (q + 1) >= n
  BY <1>2, <1>4
<1> QED
  BY <1>4, <1>5 DEF Capacity, q, x

\* Two inodes of which one was written: the directory that they are is the same.
SameDir(a, b) ==
    /\ a.filename = b.filename /\ a.is_dir = b.is_dir /\ a.type = b.type
    /\ a.first_node = b.first_node /\ a.num_entries = b.num_entries

\* The file holds n bytes v.
Holds(r, n, v) ==
    r.length = n /\ n <= Len(r.bytes) /\ \A k \in 1 .. n : r.bytes[k] = v

\* The memory after a write of n bytes v to the inode i.
Written(f, g, i, n, v) ==
    /\ g.chains = f.chains
    /\ Len(g.inodes) = Len(f.inodes)
    /\ \A j \in 1 .. Len(f.inodes) : j # i => g.inodes[j] = f.inodes[j]
    /\ SameDir(g.inodes[i], f.inodes[i])
    /\ Holds(g.inodes[i], n, v)

LEMMA WriteWrites ==
  ASSUME NEW f, FsType(f), NEW i \in DOMAIN f.inodes, NEW n \in Nat, NEW v \in Nat,
         NEW stray \in BOOLEAN, ~(stray /\ n > B)
  PROVE  /\ FsType(tempfs_write(f, i, n, v, stray))
         /\ Written(f, tempfs_write(f, i, n, v, stray), i, n, v)
<1> DEFINE g == tempfs_write(f, i, n, v, stray)
           held == Len(f.inodes[i].bytes)
           size == IF stray THEN B ELSE IF Capacity(n) > held THEN Capacity(n) ELSE held
           bytes == [k \in 1 .. size |-> IF k <= n THEN v
                                         ELSE IF k <= held THEN f.inodes[i].bytes[k] ELSE Junk]
           r == [f.inodes[i] EXCEPT !.length = n, !.stray = stray, !.bytes = bytes]
<1>1. /\ f.inodes \in Seq(InodeType) /\ f.inodes[i] \in InodeType
      /\ DOMAIN f.inodes = 1 .. Len(f.inodes)
  BY FsFacts
<1>2. f.inodes[i].bytes \in Seq(Nat) /\ held \in Nat
  <2>1. f.inodes[i].bytes \in Seq(Nat)
    BY <1>1 DEF InodeType
  <2> QED
    BY <2>1, LenProperties
<1>3. size \in Nat /\ n <= size
  <2>1. B \in Nat /\ Capacity(n) \in Nat /\ n <= Capacity(n)
    BY BlockAssumption, Fits
  <2> HIDE DEF held
  <2> QED
    BY <1>2, <2>1
<1>4. \A k \in 1 .. held : f.inodes[i].bytes[k] \in Nat
  BY <1>2
<1>5. g = [f EXCEPT !.inodes[i].length = n, !.inodes[i].stray = stray, !.inodes[i].bytes = bytes]
  BY DEF tempfs_write
<1> HIDE DEF held, size
<1>6. bytes \in [1 .. size -> Nat]
  BY <1>2, <1>3, <1>4 DEF Junk
<1>7. /\ bytes \in Seq(Nat) /\ Len(bytes) = size /\ \A k \in 1 .. n : bytes[k] = v
  <2>1. \A k \in 1 .. n : k \in 1 .. size /\ k <= n
    BY <1>3
  <2>2. \A k \in 1 .. n : bytes[k] = v
    BY <2>1
  <2> HIDE DEF bytes
  <2>3. bytes \in Seq(Nat)
    BY <1>3, <1>6, SeqDef
  <2>4. DOMAIN bytes = 1 .. size
    BY <1>6
  <2>5. Len(bytes) = size
    BY <1>3, <2>3, <2>4, LenProperties
  <2> QED
    BY <2>2, <2>3, <2>5
<1> HIDE DEF bytes, g
<1>8. r \in InodeType /\ SameDir(r, f.inodes[i]) /\ r.length = n /\ r.bytes = bytes
  BY <1>1, <1>7 DEF InodeType, SameDir
<1>9. f \in [inodes : Seq(InodeType), chains : Seq(Seq(Nat))]
  BY DEF FsType
<1>10. /\ g.inodes = [f.inodes EXCEPT ![i] = r] /\ g.chains = f.chains
       /\ g = [inodes |-> g.inodes, chains |-> g.chains]
  BY <1>1, <1>5, <1>9
<1> HIDE DEF r
<1>11. /\ g.inodes \in Seq(InodeType) /\ Len(g.inodes) = Len(f.inodes) /\ g.inodes[i] = r
       /\ \A j \in 1 .. Len(f.inodes) : j # i => g.inodes[j] = f.inodes[j]
  BY <1>1, <1>8, <1>10, ExceptSeq
<1>12. Written(f, g, i, n, v)
  BY <1>3, <1>7, <1>8, <1>10, <1>11 DEF Written, Holds
<1>13. DOMAIN g.inodes = DOMAIN f.inodes
  BY <1>1, <1>11, LenProperties
<1>14. \A j \in DOMAIN f.inodes : /\ g.inodes[j].is_dir = f.inodes[j].is_dir
                                  /\ g.inodes[j].first_node = f.inodes[j].first_node
  BY <1>1, <1>8, <1>11 DEF SameDir
<1>15. g \in [inodes : Seq(InodeType), chains : Seq(Seq(Nat))]
  BY <1>9, <1>10, <1>11
<1>16. FsType(g)
  BY <1>10, <1>13, <1>14, <1>15 DEF FsType
<1> QED
  BY <1>12, <1>16 DEF g

\* A read of the length of a file that holds n bytes v delivers them.
Delivers(f, i, v) ==
    tempfs_read(f, i, tempfs_length(f, i)) = [k \in 1 .. tempfs_length(f, i) |-> v]

LEMMA ReadReads ==
  ASSUME NEW f, FsType(f), NEW i \in DOMAIN f.inodes, NEW n \in Nat, NEW v, Holds(f.inodes[i], n, v)
  PROVE  Delivers(f, i, v)
<1> DEFINE held == f.inodes[i].bytes
           x == IF n < Len(held) THEN n ELSE Len(held)
<1>1. held \in Seq(Nat) /\ Len(held) \in Nat
  <2>1. f.inodes[i] \in InodeType
    BY FsFacts
  <2> QED
    BY <2>1 DEF InodeType
<1>2. /\ n <= Len(held) /\ \A k \in 1 .. n : held[k] = v
      /\ tempfs_length(f, i) = n
  BY DEF Holds, tempfs_length
<1>3. tempfs_read(f, i, n) = SubSeq(held, 1, x)
  BY DEF tempfs_read
<1> HIDE DEF held
<1>4. x = n
  BY <1>1, <1>2
<1> HIDE DEF x
<1>5. SubSeq(held, 1, n) = [k \in 1 .. n |-> v]
  <2>1. SubSeq(held, 1, n) = [k \in 1 .. n |-> held[k]]
    BY <1>1, <1>2
  <2> QED
    BY <1>2, <2>1
<1> QED
  BY <1>2, <1>3, <1>4, <1>5 DEF Delivers

-----------------------------------------------------------------------------
(* The boot's script *)

Steps ==
    {Mount("D"), Device("devzero"), Mount("R"),
     Device("stdin"), Device("fb0"), Device("fbinfo0"),
     Stream("stdin", 0, "none", "readonly"),
     Stream("stdout", 1, "creatall", "readwrite"),
     Stream("stderr", 2, "creatall", "readwrite")}
    \union {Unpack(Archive[k]) : k \in DOMAIN Archive}

LEMMA ScriptSteps == Script \in Seq(Steps) /\ Len(Script) \in Nat
<1> DEFINE a == <<Mount("D"), Device("devzero"), Mount("R")>>
           b == [k \in DOMAIN Archive |-> Unpack(Archive[k])]
           c == <<Device("stdin"), Device("fb0"), Device("fbinfo0"),
                  Stream("stdin", 0, "none", "readonly"),
                  Stream("stdout", 1, "creatall", "readwrite"),
                  Stream("stderr", 2, "creatall", "readwrite")>>
<1>1. a \in Seq(Steps)
  <2>1. {Mount("D"), Device("devzero"), Mount("R")} \subseteq Steps
    BY DEF Steps
  <2> QED
    BY <2>1
<1>2. b \in Seq(Steps)
  <2>1. Archive \in Seq([names : Seq(STRING), size : Nat, type : STRING])
    BY FilesAssumption
  <2>2. DOMAIN Archive = 1 .. Len(Archive) /\ Len(Archive) \in Nat
    BY <2>1, LenProperties
  <2>3. \A k \in DOMAIN Archive : Unpack(Archive[k]) \in Steps
    BY DEF Steps
  <2>4. b \in [1 .. Len(Archive) -> Steps]
    BY <2>2, <2>3
  <2> HIDE DEF b
  <2> QED
    BY <2>2, <2>4, SeqDef
<1>3. c \in Seq(Steps)
  <2>1. {Device("stdin"), Device("fb0"), Device("fbinfo0"),
         Stream("stdin", 0, "none", "readonly"),
         Stream("stdout", 1, "creatall", "readwrite"),
         Stream("stderr", 2, "creatall", "readwrite")} \subseteq Steps
    BY DEF Steps
  <2> QED
    BY <2>1
<1>4. Script = (a \o b) \o c
  BY DEF Script
<1> HIDE DEF a, b, c
<1>5. a \o b \in Seq(Steps)
  BY <1>1, <1>2, ConcatProperties
<1>6. Script \in Seq(Steps)
  BY <1>3, <1>4, <1>5, ConcatProperties
<1> QED
  BY <1>6, LenProperties

WalkFlags == {"none", "creat", "creatall", "device"}
WalkModes == {"none", "readonly", "writeonly", "readwrite"}

\* What a step of the boot has to offer.
StepOk(s) ==
    /\ s.op \in {"mount", "device", "unpack", "stream"}
    /\ s.op = "mount" => s.drive \in Drives
    /\ s.op # "mount" => /\ s.path.drive # "" /\ s.path.names \in Seq(Text)
                         /\ s.path.slash = FALSE
    /\ s.op = "unpack" => s.entry.size \in Nat
    /\ s.op = "stream" => s.flags \in WalkFlags /\ s.mode \in WalkModes /\ s.fd \in Nat

LEMMA StepsOk == \A s \in Steps : StepOk(s)
<1>1. StepOk(Mount("D")) /\ StepOk(Mount("R"))
  <2>1. "D" \in Drives /\ "R" \in Drives
    BY FilesAssumption
  <2>2. \A d : Mount(d).op = "mount" /\ Mount(d).drive = d
    BY DEF Mount
  <2> QED
    BY <2>1, <2>2 DEF StepOk
<1>2. ASSUME NEW name \in Text PROVE StepOk(Device(name))
  <2>1. <<name>> \in Seq(Text)
    OBVIOUS
  <2>2. /\ Device(name).op = "device" /\ Device(name).path.names = <<name>>
        /\ Device(name).path.slash = FALSE /\ Device(name).path.drive # ""
    BY DEF Device
  <2> QED
    BY <2>1, <2>2 DEF StepOk
<1>3. ASSUME NEW name \in Text, NEW fd \in Nat, NEW flags \in WalkFlags, NEW mode \in WalkModes
      PROVE  StepOk(Stream(name, fd, flags, mode))
  <2>1. <<name>> \in Seq(Text)
    OBVIOUS
  <2> DEFINE s == Stream(name, fd, flags, mode)
  <2>2. /\ s.op = "stream" /\ s.path.names = <<name>> /\ s.path.slash = FALSE
        /\ s.fd = fd /\ s.flags = flags /\ s.mode = mode /\ s.path.drive # ""
    BY DEF Stream
  <2> HIDE DEF s
  <2>3. StepOk(s)
    BY <2>1, <2>2 DEF StepOk
  <2> QED
    BY <2>3 DEF s
<1>4. ASSUME NEW k \in DOMAIN Archive PROVE StepOk(Unpack(Archive[k]))
  <2>1. Archive[k] \in [names : Seq(STRING), size : Nat, type : STRING]
    <3>1. Archive \in Seq([names : Seq(STRING), size : Nat, type : STRING])
      BY FilesAssumption
    <3>2. DOMAIN Archive = 1 .. Len(Archive)
      BY <3>1, LenProperties
    <3> QED
      BY <3>1, <3>2, ElementOfSeq
  <2>2. Archive[k].names \in Seq(STRING) /\ Archive[k].size \in Nat
    BY <2>1
  <2>3. STRING \subseteq Text
    BY DEF Text
  <2>4. Archive[k].names \in Seq(Text)
    BY <2>2, <2>3, SeqMonotonic
  <2> QED
    BY <2>2, <2>4 DEF StepOk, Unpack
<1>5. {"devzero", "stdin", "fb0", "fbinfo0", "stdout", "stderr"} \subseteq Text
  BY DEF Text
<1>6. /\ StepOk(Device("devzero")) /\ StepOk(Device("stdin")) /\ StepOk(Device("fb0"))
      /\ StepOk(Device("fbinfo0"))
  BY <1>2, <1>5
<1>7. {"none", "creatall"} \subseteq WalkFlags /\ {"readonly", "readwrite"} \subseteq WalkModes
  BY DEF WalkFlags, WalkModes
<1>8. /\ StepOk(Stream("stdin", 0, "none", "readonly"))
      /\ StepOk(Stream("stdout", 1, "creatall", "readwrite"))
      /\ StepOk(Stream("stderr", 2, "creatall", "readwrite"))
  BY <1>3, <1>5, <1>7
<1> QED
  BY <1>1, <1>4, <1>6, <1>8 DEF Steps

LEMMA NowOk ==
  ASSUME boot \in 0 .. Len(Script), ~Booted
  PROVE  StepOk(Now) /\ boot + 1 \in 0 .. Len(Script) /\ boot < Len(Script)
<1>1. Script \in Seq(Steps) /\ Len(Script) \in Nat
  BY ScriptSteps
<1>2. boot # Len(Script)
  BY DEF Booted
<1>3. boot + 1 \in 1 .. Len(Script) /\ boot + 1 \in 0 .. Len(Script) /\ boot < Len(Script)
  BY <1>1, <1>2
<1>4. Script[boot + 1] \in Steps
  BY <1>1, <1>3, ElementOfSeq
<1> QED
  BY <1>3, <1>4, StepsOk DEF Now

-----------------------------------------------------------------------------
(* The pointers of the kernel lead into the memory, and the files hold what was *)
(* written last.                                                               *)

WalkSet ==
    [by : {"nobody", "device", "unpack", "stream", "open"},
     at : {"idle", "walking", "opened", "failed"}, rest : Seq(Text), slash : BOOLEAN,
     obj : Nat, flags : WalkFlags, mode : WalkModes, fd : Nat]

\* The walk is at a directory, or nowhere; one of the boot is that of its next step.
WalkOk ==
    /\ walk \in WalkSet
    /\ walk.obj \in 0 .. Len(fs.inodes)
    /\ walk.at = "walking" /\ walk.obj # NULL => IsDirectory(fs, walk.obj)
    /\ walk.by \in {"device", "unpack", "stream"} => ~Booted /\ Now.op = walk.by

Pointers ==
    /\ drives \in [Drives -> 0 .. Len(fs.inodes)]
    /\ resources \in [0 .. NumResources - 1 -> [private : 0 .. Len(fs.inodes), mode : WalkModes]]

LastHeld ==
    \A i \in DOMAIN last :
        i \in DOMAIN fs.inodes /\ Holds(fs.inodes[i], fs.inodes[i].length, last[i])

FInv ==
    /\ FsType(fs) /\ Pointers /\ WalkOk /\ LastHeld
    /\ boot \in 0 .. Len(Script) /\ writes \in Nat

LEMMA IdleOk == Idle \in WalkSet /\ Idle.obj = NULL /\ Idle.at = "idle" /\ Idle.by = "nobody"
<1>1. <<>> \in Seq(Text)
  OBVIOUS
<1> QED
  BY <1>1 DEF Idle, Walker, WalkSet, WalkFlags, WalkModes, NULL

LEMMA FInit == Init => FInv
<1> SUFFICES ASSUME Init PROVE FInv
  OBVIOUS
<1> USE DEF Init
<1>1. fs.inodes = <<>> /\ fs.chains = <<>> /\ fs = [inodes |-> <<>>, chains |-> <<>>]
  BY DEF Empty
<1>2. FsType(fs)
  <2>1. <<>> \in Seq(InodeType) /\ <<>> \in Seq(Seq(Nat))
    OBVIOUS
  <2>2. DOMAIN fs.inodes = {} /\ DOMAIN fs.chains = {}
    BY <1>1
  <2>3. fs \in [inodes : Seq(InodeType), chains : Seq(Seq(Nat))]
    BY <1>1, <2>1
  <2> QED
    BY <2>2, <2>3 DEF FsType
<1>3. Len(fs.inodes) \in Nat /\ 0 \in 0 .. Len(fs.inodes)
  BY <1>1
<1>4. Pointers
  BY <1>3 DEF Pointers, NoFile, NULL, WalkModes
<1>5. WalkOk
  <2>1. walk = Idle
    OBVIOUS
  <2> QED
    BY <1>3, <2>1, IdleOk DEF WalkOk, NULL
<1>6. DOMAIN last = {}
  OBVIOUS
<1>7. LastHeld
  BY <1>6 DEF LastHeld
<1>8. boot \in 0 .. Len(Script) /\ writes \in Nat
  BY ScriptSteps
<1> QED
  BY <1>2, <1>4, <1>5, <1>7, <1>8 DEF FInv

\* A walk begins at the root of a drive or fails at once.
LEMMA StartOk ==
  ASSUME FInv, NEW by \in {"device", "unpack", "stream", "open"}, NEW p, NEW flags \in WalkFlags,
         NEW mode \in WalkModes, NEW fd \in Nat, p.names \in Seq(Text), p.slash \in BOOLEAN,
         by # "open" => ~Booted /\ Now.op = by,
         Start(by, p, flags, mode, fd), UNCHANGED <<fs, boot>>,
         Absolute(p).names = p.names, Absolute(p).slash = p.slash
  PROVE  WalkOk'
<1> DEFINE path == Absolute(p)
           w == Walker(by, path, flags, mode, fd)
           there == path.drive \in Drives /\ drives[path.drive] # NULL
<1>1. w \in WalkSet /\ w.obj = NULL /\ w.by = by /\ w.at = "walking"
  <2>1. path.names \in Seq(Text) /\ path.slash \in BOOLEAN
    OBVIOUS
  <2> HIDE DEF path
  <2> QED
    BY <2>1 DEF Walker, WalkSet, NULL
<1>2. walk' = IF there THEN [w EXCEPT !.obj = tempfs_open_dir(fs, drives[path.drive])]
                       ELSE [w EXCEPT !.at = "failed"]
  BY DEF Start
<1>3. Len(fs.inodes) \in Nat /\ DOMAIN fs.inodes = 1 .. Len(fs.inodes)
  BY FsFacts DEF FInv
<1>4. fs' = fs /\ Booted' = Booted /\ Now' = Now
  BY DEF Booted, Now
<1>5. by \in {"device", "unpack", "stream"} => ~Booted /\ Now.op = by
  OBVIOUS
<1> HIDE DEF w
<1>6. CASE there
  <2> DEFINE i == drives[path.drive]
             o == tempfs_open_dir(fs, i)
  <2>1. i \in 0 .. Len(fs.inodes) /\ i # 0
    BY <1>6 DEF FInv, Pointers, NULL
  <2> HIDE DEF i
  <2>2. o \in 0 .. Len(fs.inodes) /\ (o # NULL => IsDirectory(fs, o))
    <3>1. i \in DOMAIN fs.inodes
      BY <1>3, <2>1
    <3>2. 0 \in 0 .. Len(fs.inodes)
      BY <1>3
    <3> QED
      BY <2>1, <3>1, <3>2 DEF tempfs_open_dir, IsDirectory, NULL
  <2>3. o \in Nat
    BY <1>3, <2>2
  <2>4. walk' = [w EXCEPT !.obj = o]
    BY <1>2, <1>6 DEF i
  <2> HIDE DEF o
  <2>5. walk' \in WalkSet /\ walk'.obj = o /\ walk'.by = by /\ walk'.at = "walking"
    BY <1>1, <2>3, <2>4 DEF WalkSet
  <2> QED
    BY <1>4, <1>5, <2>2, <2>5 DEF WalkOk
<1>7. CASE ~there
  <2>1. walk' = [w EXCEPT !.at = "failed"]
    BY <1>2, <1>7
  <2>2. walk' \in WalkSet /\ walk'.obj = 0 /\ walk'.by = by /\ walk'.at = "failed"
    BY <1>1, <2>1 DEF WalkSet, NULL
  <2>3. 0 \in 0 .. Len(fs.inodes)
    BY <1>3
  <2> QED
    BY <1>4, <1>5, <2>2, <2>3 DEF WalkOk
<1> QED
  BY <1>6, <1>7

\* Pointers and files are as good in memory that keeps what was there.
LEMMA KeptOk ==
  ASSUME FInv, Kept(fs, fs'), UNCHANGED <<drives, resources, boot, writes, last>>
  PROVE  /\ FsType(fs') /\ Pointers' /\ LastHeld' /\ (boot \in 0 .. Len(Script) /\ writes \in Nat)'
         /\ Len(fs.inodes) \in Nat /\ Len(fs'.inodes) \in Nat
         /\ Len(fs.inodes) <= Len(fs'.inodes)
<1>1. FsType(fs) /\ FsType(fs') /\ Len(fs.inodes) <= Len(fs'.inodes)
  BY DEF FInv, Kept
<1>2. /\ Len(fs.inodes) \in Nat /\ Len(fs'.inodes) \in Nat
      /\ DOMAIN fs.inodes = 1 .. Len(fs.inodes) /\ DOMAIN fs'.inodes = 1 .. Len(fs'.inodes)
  BY <1>1, FsFacts
<1>3. \A i \in 0 .. Len(fs.inodes) : i \in 0 .. Len(fs'.inodes)
  BY <1>1, <1>2
<1>4. \A i \in DOMAIN fs.inodes : i \in DOMAIN fs'.inodes
  BY <1>1, <1>2
<1>5. Pointers'
  <2>1. drives' \in [Drives -> 0 .. Len(fs'.inodes)]
    BY <1>3 DEF FInv, Pointers
  <2>2. [private : 0 .. Len(fs.inodes), mode : WalkModes]
          \subseteq [private : 0 .. Len(fs'.inodes), mode : WalkModes]
    BY <1>3
  <2>3. resources' \in [0 .. NumResources - 1 -> [private : 0 .. Len(fs'.inodes), mode : WalkModes]]
    BY <2>2 DEF FInv, Pointers
  <2> QED
    BY <2>1, <2>3 DEF Pointers
<1>6. LastHeld'
  <2>1. \A i \in DOMAIN last : i \in DOMAIN fs.inodes /\ Holds(fs.inodes[i], fs.inodes[i].length, last[i])
    BY DEF FInv, LastHeld
  <2>2. \A i \in DOMAIN fs.inodes : /\ fs'.inodes[i].length = fs.inodes[i].length
                                    /\ fs'.inodes[i].bytes = fs.inodes[i].bytes
    BY <1>2 DEF Kept, SameBut
  <2> QED
    BY <1>4, <2>1, <2>2 DEF LastHeld, Holds
<1> QED
  BY <1>1, <1>2, <1>5, <1>6 DEF FInv

LEMMA SameKept == ASSUME FInv, UNCHANGED fs PROVE Kept(fs, fs')
<1>1. FsType(fs) /\ Len(fs.inodes) \in Nat
  BY FsFacts DEF FInv
<1>2. fs' = fs
  OBVIOUS
<1> QED
  BY <1>1, <1>2 DEF Kept, SameBut

-----------------------------------------------------------------------------
(* The walk *)

LEMMA OpensOk ==
  ASSUME FInv, NEW i \in 0 .. Len(fs'.inodes), Len(fs'.inodes) \in Nat, boot' = boot, Opens(i)
  PROVE  WalkOk'
<1>1. walk' = [walk EXCEPT !.at = "opened", !.obj = i, !.rest = <<>>]
  BY DEF Opens
<1>2. walk \in WalkSet /\ (walk.by \in {"device", "unpack", "stream"} => ~Booted /\ Now.op = walk.by)
  BY DEF FInv, WalkOk
<1>3. <<>> \in Seq(Text) /\ i \in Nat
  OBVIOUS
<1>4. walk' \in WalkSet /\ walk'.obj = i /\ walk'.by = walk.by /\ walk'.at = "opened"
  BY <1>1, <1>2, <1>3 DEF WalkSet
<1>5. Booted' = Booted /\ Now' = Now
  BY DEF Booted, Now
<1> QED
  BY <1>2, <1>4, <1>5 DEF WalkOk

LEMMA EntersOk ==
  ASSUME FInv, Walking, walk.rest # <<>>, FsType(fs'), NEW i \in 0 .. Len(fs'.inodes), boot' = boot,
         i # NULL => IsDirectory(fs', i),
         walk' = [walk EXCEPT !.obj = i, !.rest = Tail(@)]
  PROVE  WalkOk'
<1>1. walk \in WalkSet /\ (walk.by \in {"device", "unpack", "stream"} => ~Booted /\ Now.op = walk.by)
  BY DEF FInv, WalkOk
<1>2. walk.rest \in Seq(Text) /\ walk.at = "walking"
  BY <1>1 DEF WalkSet, Walking
<1>3. Tail(walk.rest) \in Seq(Text) /\ i \in Nat
  <2>1. Tail(walk.rest) \in Seq(Text)
    BY <1>2
  <2>2. Len(fs'.inodes) \in Nat
    BY FsFacts
  <2> QED
    BY <2>1, <2>2
<1>4. walk' \in WalkSet /\ walk'.obj = i /\ walk'.by = walk.by /\ walk'.at = "walking"
  BY <1>1, <1>2, <1>3 DEF WalkSet
<1>5. Booted' = Booted /\ Now' = Now
  BY DEF Booted, Now
<1> QED
  BY <1>1, <1>4, <1>5 DEF WalkOk

\* The directory that the walk is at, and the name it looks for.
LEMMA AtOk ==
  ASSUME FInv, AtDir \/ AtFile
  PROVE  /\ Walking /\ walk.rest # <<>>
         /\ FsType(fs) /\ IsDirectory(fs, walk.obj) /\ Name \in Text
         /\ walk.obj \in 1 .. Len(fs.inodes) /\ Finds(fs, walk.obj, Name, Found)
<1>1. Walking /\ walk.rest # <<>> /\ walk.obj # NULL
  BY DEF AtDir, AtFile
<1>2. FsType(fs) /\ walk \in WalkSet /\ IsDirectory(fs, walk.obj)
  BY <1>1 DEF FInv, WalkOk, Walking
<1>3. walk.rest \in Seq(Text)
  BY <1>2 DEF WalkSet
<1>4. Name \in Text
  BY <1>1, <1>3, HeadTailProperties DEF Name
<1>5. Finds(fs, walk.obj, Name, Found)
  BY <1>2, FindFinds DEF Found
<1>6. walk.obj \in 1 .. Len(fs.inodes)
  BY <1>2, FsFacts DEF IsDirectory
<1> QED
  BY <1>1, <1>2, <1>4, <1>5, <1>6

LEMMA FoundIn ==
  ASSUME NEW f, FsType(f), NEW dir, NEW name, NEW i, Finds(f, dir, name, i)
  PROVE  /\ i \in 0 .. Len(f.inodes) /\ (i # NULL => i \in DOMAIN f.inodes)
         /\ i # NULL => /\ tempfs_open_dir(f, i) \in 0 .. Len(f.inodes)
                        /\ tempfs_open_dir(f, i) # NULL => IsDirectory(f, tempfs_open_dir(f, i))
                        /\ tempfs_open_file(f, i) \in 0 .. Len(f.inodes)
<1>1. Len(f.inodes) \in Nat /\ DOMAIN f.inodes = 1 .. Len(f.inodes)
  BY FsFacts
<1>2. i = NULL \/ i \in DOMAIN f.inodes
  BY DEF Finds
<1>3. 0 \in 0 .. Len(f.inodes) /\ \A k \in 1 .. Len(f.inodes) : k \in 0 .. Len(f.inodes)
  BY <1>1
<1> QED
  BY <1>1, <1>2, <1>3 DEF tempfs_open_dir, tempfs_open_file, IsDirectory, NULL

LEMMA KeptDirectory ==
  ASSUME NEW f, FsType(f), NEW g, Kept(f, g), NEW dir, IsDirectory(f, dir)
  PROVE  FsType(g) /\ IsDirectory(g, dir)
<1>1. FsType(g) /\ Len(f.inodes) <= Len(g.inodes)
      /\ \A i \in 1 .. Len(f.inodes) : SameBut(g.inodes[i], f.inodes[i])
  BY DEF Kept
<1>2. /\ Len(f.inodes) \in Nat /\ Len(g.inodes) \in Nat
      /\ DOMAIN f.inodes = 1 .. Len(f.inodes) /\ DOMAIN g.inodes = 1 .. Len(g.inodes)
  BY <1>1, FsFacts
<1>3. dir \in 1 .. Len(f.inodes) /\ f.inodes[dir].is_dir
  BY <1>2 DEF IsDirectory
<1>4. dir \in 1 .. Len(g.inodes)
  BY <1>1, <1>2, <1>3
<1> QED
  BY <1>1, <1>2, <1>3, <1>4 DEF IsDirectory, SameBut

\* What a step of the walk creates, if anything.
WalkMade ==
    \/ UNCHANGED <<fs, dotted>>
    \/ /\ IsDirectory(fs, walk.obj) /\ HasEnd(fs, walk.obj) /\ Name \in Text
       /\ Finds(fs, walk.obj, Name, NULL)
       /\ dotted' = (dotted \/ Dot(walk.obj))
       /\ FileMade(fs, fs', walk.obj, Name) \/ DirMade(fs, fs', walk.obj, Name)

LEMMA WalkMakes ==
  ASSUME FInv, WalkStep
  PROVE  WalkMade /\ Kept(fs, fs')
<1>1. CASE walk_dir_created
  <2>1. AtDir /\ Found = NULL /\ HasEnd(fs, walk.obj) /\ Made(tempfs_mkdir(fs, walk.obj, Name))
    BY <1>1 DEF walk_dir_created
  <2>2. /\ FsType(fs) /\ IsDirectory(fs, walk.obj) /\ Name \in Text
        /\ Finds(fs, walk.obj, Name, NULL)
    BY <2>1, AtOk
  <2>3. fs' = tempfs_mkdir(fs, walk.obj, Name) /\ dotted' = (dotted \/ Dot(walk.obj))
    BY <2>1 DEF Made
  <2>4. DirMade(fs, fs', walk.obj, Name)
    BY <2>1, <2>2, <2>3, MkDir
  <2>5. Kept(fs, fs')
    BY <2>1, <2>2, <2>4, DirKeeps
  <2> QED
    BY <2>1, <2>2, <2>3, <2>4, <2>5 DEF WalkMade
<1>2. CASE walk_file_created
  <2> DEFINE g == IF walk.by = "device" THEN tempfs_create_device(fs, walk.obj, Name)
                                        ELSE tempfs_mkfile(fs, walk.obj, Name)
  <2>1. AtFile /\ Found = NULL /\ HasEnd(fs, walk.obj) /\ Made(g)
    BY <1>2 DEF walk_file_created
  <2>2. /\ FsType(fs) /\ IsDirectory(fs, walk.obj) /\ Name \in Text
        /\ Finds(fs, walk.obj, Name, NULL)
    BY <2>1, AtOk
  <2>3. fs' = g /\ dotted' = (dotted \/ Dot(walk.obj))
    BY <2>1 DEF Made
  <2>4. FileMade(fs, g, walk.obj, Name)
    BY <2>1, <2>2, MkFile, MkDevice
  <2> HIDE DEF g
  <2>5. FileMade(fs, fs', walk.obj, Name)
    BY <2>3, <2>4
  <2>6. Kept(fs, fs')
    BY <2>1, <2>2, <2>5, FileKeeps
  <2> QED
    BY <2>1, <2>2, <2>3, <2>5, <2>6 DEF WalkMade
<1>3. CASE ~walk_dir_created /\ ~walk_file_created
  <2>1. UNCHANGED <<fs, dotted>>
    BY <1>3 DEF WalkStep, walk_ends, walk_dir_found, walk_fails, walk_file_found, walk_astray
  <2> QED
    BY <2>1, SameKept DEF WalkMade
<1> QED
  BY <1>1, <1>2, <1>3

LEMMA WalkKeeps == ASSUME FInv, WalkStep PROVE FInv'
<1>1. Kept(fs, fs')
  BY WalkMakes
<1>2. UNCHANGED <<drives, resources, boot, writes, last>>
  BY DEF WalkStep, walk_ends, walk_dir_found, walk_dir_created, walk_fails, walk_file_found,
         walk_file_created, walk_astray, Rest
<1>3. /\ FsType(fs') /\ Pointers' /\ LastHeld' /\ (boot \in 0 .. Len(Script) /\ writes \in Nat)'
      /\ Len(fs.inodes) \in Nat /\ Len(fs'.inodes) \in Nat
      /\ Len(fs.inodes) <= Len(fs'.inodes)
  BY <1>1, <1>2, KeptOk
<1>4. \A i \in 0 .. Len(fs.inodes) : i \in 0 .. Len(fs'.inodes)
  BY <1>3
<1>5. boot' = boot /\ FsType(fs)
  BY <1>2 DEF FInv
<1>6. WalkOk'
  <2>1. CASE walk_ends
    <3>1. walk.obj \in 0 .. Len(fs'.inodes)
      BY <1>4 DEF FInv, WalkOk
    <3> QED
      BY <1>3, <1>5, <2>1, <3>1, OpensOk DEF walk_ends
  <2>2. CASE walk_dir_found
    <3>1. AtDir /\ Found # NULL /\ fs' = fs
          /\ walk' = [walk EXCEPT !.obj = tempfs_open_dir(fs, Found), !.rest = Tail(@)]
      BY <2>2 DEF walk_dir_found
    <3>2. Finds(fs, walk.obj, Name, Found) /\ Walking /\ walk.rest # <<>>
      BY <3>1, AtOk
    <3>3. /\ tempfs_open_dir(fs, Found) \in 0 .. Len(fs'.inodes)
          /\ tempfs_open_dir(fs, Found) # NULL => IsDirectory(fs', tempfs_open_dir(fs, Found))
      BY <1>5, <3>1, <3>2, FoundIn
    <3> QED
      BY <1>3, <1>5, <3>1, <3>2, <3>3, EntersOk
  <2>3. CASE walk_dir_created
    <3> DEFINE i == tempfs_find(fs', walk.obj, Name)
               o == tempfs_open_dir(fs', i)
    <3>1. AtDir /\ walk' = [walk EXCEPT !.obj = o, !.rest = Tail(@)]
      BY <2>3 DEF walk_dir_created
    <3>2. IsDirectory(fs', walk.obj) /\ Walking /\ walk.rest # <<>>
      BY <1>1, <1>5, <3>1, AtOk, KeptDirectory
    <3>3. Finds(fs', walk.obj, Name, i)
      BY <1>3, <3>2, FindFinds
    <3>4. i # NULL
      <4>1. DirMade(fs, fs', walk.obj, Name) \/ FileMade(fs, fs', walk.obj, Name)
        <5>1. Len(fs'.inodes) # Len(fs.inodes)
          <6>1. HasEnd(fs, walk.obj) /\ fs' = tempfs_mkdir(fs, walk.obj, Name)
            BY <2>3 DEF walk_dir_created, Made
          <6>2. DirMade(fs, fs', walk.obj, Name)
            BY <1>5, <3>1, <6>1, AtOk, MkDir
          <6> QED
            BY <1>3, <6>2 DEF DirMade
        <5> QED
          BY <5>1, WalkMakes DEF WalkMade
      <4>2. Grows(fs, fs', walk.obj)
        BY <4>1 DEF DirMade, FileMade
      <4>3. fs'.inodes[Len(fs.inodes) + 1].filename = Name
        BY <4>1 DEF DirMade, FileMade, NewDirectory
      <4> DEFINE es == Entries(fs', walk.obj)
                 m  == LastNode(fs, walk.obj)
      <4>4. es = fs'.chains[First(fs, walk.obj)]
        BY <4>2 DEF Entries, First, Grows, SameBut
      <4>5. Len(es) = m + 1 /\ es[m + 1] = Len(fs.inodes) + 1
        BY <4>2, <4>4 DEF Grows
      <4>6. DOMAIN es = 1 .. Len(es) /\ m \in Nat
        BY <1>3, <1>5, <3>1, <3>2, AtOk, DirFacts
      <4> HIDE DEF es, m
      <4>7. m + 1 \in DOMAIN es
        BY <4>5, <4>6
      <4>8. \E k \in DOMAIN es : fs'.inodes[es[k]].filename = Name
        BY <4>3, <4>5, <4>7
      <4>9. 0 \notin DOMAIN fs'.inodes
        BY <1>3, FsFacts
      <4> HIDE DEF i
      <4> QED
        BY <3>3, <4>8, <4>9 DEF Finds, es, NULL
    <3> HIDE DEF i
    <3>5. o \in 0 .. Len(fs'.inodes) /\ (o # NULL => IsDirectory(fs', o))
      BY <1>3, <3>3, <3>4, FoundIn
    <3> HIDE DEF o
    <3> QED
      BY <1>3, <1>5, <3>1, <3>2, <3>5, EntersOk
  <2>4. CASE walk_fails
    <3>1. walk' = [walk EXCEPT !.at = "failed"] /\ fs' = fs
      BY <2>4 DEF walk_fails, Fails
    <3>2. WalkOk
      BY DEF FInv
    <3>3. walk' \in WalkSet /\ walk'.obj = walk.obj /\ walk'.by = walk.by /\ walk'.at = "failed"
      BY <3>1, <3>2 DEF WalkOk, WalkSet
    <3>4. Booted' = Booted /\ Now' = Now
      BY <1>5 DEF Booted, Now
    <3> QED
      BY <3>1, <3>2, <3>3, <3>4 DEF WalkOk
  <2>5. CASE walk_file_found
    <3>1. AtFile /\ Found # NULL /\ fs' = fs /\ Opens(tempfs_open_file(fs, Found))
      BY <2>5 DEF walk_file_found
    <3>2. Finds(fs, walk.obj, Name, Found)
      BY <3>1, AtOk
    <3>3. tempfs_open_file(fs, Found) \in 0 .. Len(fs'.inodes)
      BY <1>5, <3>1, <3>2, FoundIn
    <3> QED
      BY <1>3, <1>5, <3>1, <3>3, OpensOk
  <2>6. CASE walk_file_created
    <3> DEFINE i == tempfs_find(fs', walk.obj, Name)
    <3>1. AtFile /\ Opens(i)
      BY <2>6 DEF walk_file_created
    <3>2. IsDirectory(fs', walk.obj)
      BY <1>1, <1>5, <3>1, AtOk, KeptDirectory
    <3>3. Finds(fs', walk.obj, Name, i)
      BY <1>3, <3>2, FindFinds
    <3> HIDE DEF i
    <3>4. i \in 0 .. Len(fs'.inodes)
      BY <1>3, <3>3, FoundIn
    <3> QED
      BY <1>3, <1>5, <3>1, <3>4, OpensOk
  <2>7. CASE walk_astray
    <3>1. walk' = walk /\ fs' = fs /\ Booted' = Booted /\ Now' = Now
      BY <1>5, <2>7 DEF walk_astray, Booted, Now
    <3> QED
      BY <3>1 DEF FInv, WalkOk
  <2> QED
    BY <2>1, <2>2, <2>3, <2>4, <2>5, <2>6, <2>7 DEF WalkStep
<1> QED
  BY <1>3, <1>6 DEF FInv

-----------------------------------------------------------------------------
(* The boot and the system calls *)

LEMMA WriteKeeps ==
  ASSUME FInv, NEW i \in DOMAIN fs.inodes, NEW n \in Nat, NEW stamp \in Nat, WriteTo(i, n, stamp)
  PROVE  /\ FsType(fs') /\ LastHeld' /\ Len(fs'.inodes) = Len(fs.inodes)
         /\ \/ UNCHANGED <<fs, last>>
            \/ Written(fs, fs', i, n, stamp)
<1>1. FsType(fs) /\ DOMAIN fs.inodes = 1 .. Len(fs.inodes) /\ Len(fs.inodes) \in Nat
  BY FsFacts DEF FInv
<1>2. fs.inodes[i] \in InodeType
  BY <1>1, FsFacts
<1>3. StrayOf(i) \subseteq BOOLEAN
  BY <1>2 DEF StrayOf, InodeType
<1>4. PICK stray \in StrayOf(i) :
        \/ stray /\ n > B /\ UNCHANGED <<fs, last>>
        \/ /\ ~(stray /\ n > B)
           /\ fs' = tempfs_write(fs, i, n, stamp, stray)
           /\ last' = [j \in DOMAIN last \union {i} |-> IF j = i THEN stamp ELSE last[j]]
  BY DEF WriteTo
<1>5. CASE UNCHANGED <<fs, last>>
  <2>1. fs' = fs /\ last' = last
    BY <1>5
  <2> QED
    BY <1>1, <1>5, <2>1 DEF FInv, LastHeld
<1>6. CASE /\ ~(stray /\ n > B)
           /\ fs' = tempfs_write(fs, i, n, stamp, stray)
           /\ last' = [j \in DOMAIN last \union {i} |-> IF j = i THEN stamp ELSE last[j]]
  <2>1. FsType(fs') /\ Written(fs, fs', i, n, stamp)
    BY <1>1, <1>3, <1>6, WriteWrites
  <2>2. /\ Len(fs'.inodes) = Len(fs.inodes) /\ Holds(fs'.inodes[i], n, stamp)
        /\ \A j \in 1 .. Len(fs.inodes) : j # i => fs'.inodes[j] = fs.inodes[j]
    BY <2>1 DEF Written
  <2>3. DOMAIN fs'.inodes = DOMAIN fs.inodes
    BY <1>1, <2>1, <2>2, FsFacts
  <2>4. /\ DOMAIN last' = DOMAIN last \union {i} /\ last'[i] = stamp
        /\ \A j \in DOMAIN last : j # i => last'[j] = last[j]
    BY <1>6
  <2>5. ASSUME NEW j \in DOMAIN last'
        PROVE  j \in DOMAIN fs'.inodes /\ Holds(fs'.inodes[j], fs'.inodes[j].length, last'[j])
    <3>1. CASE j = i
      BY <2>2, <2>3, <2>4, <3>1 DEF Holds
    <3>2. CASE j # i
      <4>1. j \in DOMAIN last /\ last'[j] = last[j]
        BY <2>4, <2>5, <3>2
      <4>2. j \in DOMAIN fs.inodes /\ Holds(fs.inodes[j], fs.inodes[j].length, last[j])
        BY <4>1 DEF FInv, LastHeld
      <4>3. fs'.inodes[j] = fs.inodes[j]
        BY <1>1, <2>2, <3>2, <4>2
      <4> QED
        BY <2>3, <4>1, <4>2, <4>3
    <3> QED
      BY <3>1, <3>2
  <2>6. LastHeld'
    BY <2>5 DEF LastHeld
  <2> QED
    BY <2>1, <2>2, <2>6
<1> QED
  BY <1>4, <1>5, <1>6

LEMMA IdleAfter == ASSUME walk' = Idle, FsType(fs') PROVE WalkOk'
<1>1. Len(fs'.inodes) \in Nat
  BY FsFacts
<1>2. 0 \in 0 .. Len(fs'.inodes)
  BY <1>1
<1> QED
  BY <1>2, IdleOk DEF WalkOk, NULL

\* A walk of the boot has its step: the next step is there.
LEMMA BootNext ==
  ASSUME FInv, ~Booted
  PROVE  boot + 1 \in 0 .. Len(Script) /\ StepOk(Now)
  BY NowOk DEF FInv

LEMMA OpenedOk ==
  ASSUME FInv, NEW fd, resources' = [resources EXCEPT ![fd] = Opened], UNCHANGED <<fs, drives>>
  PROVE  Pointers'
<1>1. Len(fs.inodes) \in Nat /\ fs' = fs /\ drives' = drives
  BY FsFacts DEF FInv
<1>2. Opened \in [private : 0 .. Len(fs.inodes), mode : WalkModes]
  <2>1. 0 \in 0 .. Len(fs.inodes) /\ walk.obj \in 0 .. Len(fs.inodes) /\ walk.mode \in WalkModes
    BY <1>1 DEF FInv, WalkOk, WalkSet
  <2> QED
    BY <2>1 DEF Opened, NoFile, NULL, WalkModes
<1>3. resources \in [0 .. NumResources - 1 -> [private : 0 .. Len(fs.inodes), mode : WalkModes]]
  BY DEF FInv, Pointers
<1> QED
  BY <1>1, <1>2, <1>3 DEF FInv, Pointers

LEMMA MountKeeps == ASSUME FInv, mount PROVE FInv' /\ (UNCHANGED fs \/ DriveMade(fs, fs'))
<1>1. ~Booted /\ Now.op = "mount" /\ walk = Idle /\ UNCHANGED <<resources, walk, writes, last>>
  BY DEF mount, BootAt, Ready
<1>2. boot + 1 \in 0 .. Len(Script) /\ Now.drive \in Drives
  BY <1>1, BootNext DEF StepOk
<1>3. CASE UNCHANGED <<fs, drives, boot>>
  <2>1. /\ fs' = fs /\ drives' = drives /\ boot' = boot /\ resources' = resources
        /\ walk' = walk /\ writes' = writes /\ last' = last
    BY <1>1, <1>3
  <2> QED
    BY <2>1 DEF FInv, Pointers, WalkOk, LastHeld, Booted, Now
<1>4. CASE /\ fs' = tempfs_new(fs)
           /\ drives' = [drives EXCEPT ![Now.drive] = Len(fs.inodes) + 1]
           /\ boot' = boot + 1
  <2>1. FsType(fs)
    BY DEF FInv
  <2>2. DriveMade(fs, fs')
    BY <1>4, <2>1, NewDrive
  <2>3. Kept(fs, fs')
    BY <2>1, <2>2, DriveKeeps
  <2>4. FsType(fs') /\ Len(fs.inodes) \in Nat /\ Len(fs'.inodes) = Len(fs.inodes) + 3
    BY <2>1, <2>2, <2>3, FsFacts DEF Kept, DriveMade
  <2>5. \A i \in 0 .. Len(fs.inodes) : i \in 0 .. Len(fs'.inodes)
    BY <2>4
  <2>6. Len(fs.inodes) + 1 \in 0 .. Len(fs'.inodes)
    BY <2>4
  <2>7. drives' \in [Drives -> 0 .. Len(fs'.inodes)]
    BY <1>4, <2>5, <2>6 DEF FInv, Pointers
  <2>8. [private : 0 .. Len(fs.inodes), mode : WalkModes]
          \subseteq [private : 0 .. Len(fs'.inodes), mode : WalkModes]
    BY <2>5
  <2>9. resources' \in [0 .. NumResources - 1 -> [private : 0 .. Len(fs'.inodes), mode : WalkModes]]
    BY <1>1, <2>8 DEF FInv, Pointers
  <2>10. LastHeld'
    <3>1. \A i \in DOMAIN last : i \in DOMAIN fs.inodes /\ Holds(fs.inodes[i], fs.inodes[i].length, last[i])
      BY DEF FInv, LastHeld
    <3>2. \A i \in DOMAIN fs.inodes : fs'.inodes[i] = fs.inodes[i]
      BY <2>1, <2>2, FsFacts DEF DriveMade
    <3>3. \A i \in DOMAIN fs.inodes : i \in DOMAIN fs'.inodes
      BY <2>1, <2>4, FsFacts
    <3>4. last' = last
      BY <1>1
    <3> QED
      BY <3>1, <3>2, <3>3, <3>4 DEF LastHeld
  <2>11. WalkOk'
    BY <1>1, <2>4, IdleAfter
  <2>12. boot' \in 0 .. Len(Script) /\ writes' \in Nat
    BY <1>1, <1>2, <1>4 DEF FInv
  <2> QED
    BY <2>2, <2>4, <2>7, <2>9, <2>10, <2>11, <2>12 DEF FInv, Pointers
<1> QED
  BY <1>3, <1>4 DEF mount

\* Nothing but the walk, the boot's progress and one descriptor.
LEMMA FrameOk ==
  ASSUME FInv, UNCHANGED <<fs, drives, resources, writes, last>>
  PROVE  FsType(fs') /\ Pointers' /\ LastHeld' /\ writes' \in Nat
<1>1. fs' = fs /\ drives' = drives /\ resources' = resources /\ writes' = writes /\ last' = last
  OBVIOUS
<1> QED
  BY <1>1 DEF FInv, Pointers, LastHeld

LEMMA BootWalkOk ==
  ASSUME FInv, NEW op \in {"device", "unpack", "stream"}, BootAt(op),
         NEW flags \in WalkFlags, NEW mode \in WalkModes, NEW fd \in Nat,
         Start(op, Now.path, flags, mode, fd), UNCHANGED <<fs, boot>>
  PROVE  WalkOk'
<1>1. ~Booted /\ Now.op = op
  BY DEF BootAt
<1>2. /\ Now.path.drive # "" /\ Now.path.names \in Seq(Text) /\ Now.path.slash = FALSE
  BY <1>1, BootNext DEF StepOk
<1>3. Absolute(Now.path) = Now.path
  BY <1>2 DEF Absolute
<1> DEFINE p == Now.path
<1>4. /\ p.names \in Seq(Text) /\ p.slash \in BOOLEAN /\ Absolute(p).names = p.names
      /\ Absolute(p).slash = p.slash
  BY <1>2, <1>3
<1> HIDE DEF p
<1>5. Start(op, p, flags, mode, fd)
  BY DEF p
<1> QED
  BY <1>1, <1>4, <1>5, StartOk

\* What a step of the boot does to the memory.
BootMade ==
    \/ UNCHANGED fs
    \/ mount /\ DriveMade(fs, fs')
    \/ \E i \in DOMAIN fs.inodes, n, stamp \in Nat : Written(fs, fs', i, n, stamp)

LEMMA BootKeeps == ASSUME FInv, BootStep PROVE FInv' /\ BootMade
<1>1. CASE mount
  BY <1>1, MountKeeps DEF BootMade
<1>2. CASE create_device
  <2>1. /\ BootAt("device") /\ Start("device", Now.path, "device", "none", 0)
        /\ UNCHANGED <<fs, drives, resources, boot, writes, last>>
    BY <1>2 DEF create_device
  <2>2. "device" \in WalkFlags /\ "none" \in WalkModes
    BY DEF WalkFlags, WalkModes
  <2>3. WalkOk'
    BY <2>1, <2>2, BootWalkOk
  <2> QED
    BY <2>1, <2>3, FrameOk DEF FInv, BootMade
<1>3. CASE create_device_returns
  <2>1. /\ walk.by = "device" /\ walk' = Idle /\ boot' = boot + 1
        /\ UNCHANGED <<fs, drives, resources, writes, last>>
    BY <1>3 DEF create_device_returns
  <2>2. ~Booted
    BY <2>1 DEF FInv, WalkOk
  <2>3. boot' \in 0 .. Len(Script)
    BY <2>1, <2>2, BootNext
  <2>4. FsType(fs') /\ Pointers' /\ LastHeld' /\ writes' \in Nat
    BY <2>1, FrameOk
  <2> QED
    BY <2>1, <2>3, <2>4, IdleAfter DEF FInv, BootMade
<1>4. CASE unpack_skips
  <2>1. /\ walk = Idle /\ ~Booted /\ boot' = boot + 1 /\ walk' = walk
        /\ UNCHANGED <<fs, drives, resources, writes, last>>
    BY <1>4 DEF unpack_skips, BootAt, Ready
  <2>2. boot' \in 0 .. Len(Script)
    BY <2>1, BootNext
  <2>3. FsType(fs') /\ Pointers' /\ LastHeld' /\ writes' \in Nat
    BY <2>1, FrameOk
  <2> QED
    BY <2>1, <2>2, <2>3, IdleAfter DEF FInv, BootMade
<1>5. CASE unpack_opens
  <2>1. /\ BootAt("unpack") /\ Start("unpack", Now.path, "creatall", "writeonly", 0)
        /\ UNCHANGED <<fs, drives, resources, boot, writes, last>>
    BY <1>5 DEF unpack_opens
  <2>2. "creatall" \in WalkFlags /\ "writeonly" \in WalkModes
    BY DEF WalkFlags, WalkModes
  <2>3. WalkOk'
    BY <2>1, <2>2, BootWalkOk
  <2> QED
    BY <2>1, <2>3, FrameOk DEF FInv, BootMade
<1>6. CASE unpack_returns
  <2>1. /\ walk.by = "unpack" /\ walk' = Idle /\ boot' = boot + 1
        /\ UNCHANGED <<drives, resources, writes>>
        /\ \/ UNCHANGED <<fs, last>>
           \/ walk.obj # NULL /\ WriteTo(walk.obj, Now.entry.size, Archived)
    BY <1>6 DEF unpack_returns
  <2>2. ~Booted /\ Now.op = "unpack"
    BY <2>1 DEF FInv, WalkOk
  <2>3. boot' \in 0 .. Len(Script) /\ Now.entry.size \in Nat
    BY <2>1, <2>2, BootNext DEF StepOk
  <2>4. CASE UNCHANGED <<fs, last>>
    <3>1. FsType(fs') /\ Pointers' /\ LastHeld' /\ writes' \in Nat
      BY <2>1, <2>4, FrameOk
    <3> QED
      BY <2>1, <2>3, <2>4, <3>1, IdleAfter DEF FInv, BootMade
  <2>5. CASE walk.obj # NULL /\ WriteTo(walk.obj, Now.entry.size, Archived)
    <3>1. walk.obj \in DOMAIN fs.inodes
      BY <2>5, FsFacts DEF FInv, WalkOk, NULL
    <3>2. Archived \in Nat
      BY DEF Archived
    <3>3. /\ FsType(fs') /\ LastHeld' /\ Len(fs'.inodes) = Len(fs.inodes)
          /\ \/ UNCHANGED <<fs, last>>
             \/ Written(fs, fs', walk.obj, Now.entry.size, Archived)
      BY <2>3, <2>5, <3>1, <3>2, WriteKeeps
    <3>4. Pointers'
      BY <2>1, <3>3 DEF FInv, Pointers
    <3>5. BootMade
      BY <2>3, <3>1, <3>2, <3>3 DEF BootMade
    <3> QED
      BY <2>1, <2>3, <3>3, <3>4, <3>5, IdleAfter DEF FInv
  <2> QED
    BY <2>1, <2>4, <2>5
<1>7. CASE stream_opens
  <2>1. /\ BootAt("stream") /\ Start("stream", Now.path, Now.flags, Now.mode, Now.fd)
        /\ UNCHANGED <<fs, drives, resources, boot, writes, last>>
    BY <1>7 DEF stream_opens
  <2>2. Now.flags \in WalkFlags /\ Now.mode \in WalkModes /\ Now.fd \in Nat
    BY <2>1, BootNext DEF StepOk, BootAt
  <2>3. WalkOk'
    BY <2>1, <2>2, BootWalkOk
  <2> QED
    BY <2>1, <2>3, FrameOk DEF FInv, BootMade
<1>8. CASE stream_returns
  <2>1. /\ walk.by = "stream" /\ walk' = Idle /\ boot' = boot + 1
        /\ resources' = [resources EXCEPT ![walk.fd] = Opened]
        /\ fs' = fs /\ drives' = drives /\ writes' = writes /\ last' = last
    BY <1>8 DEF stream_returns
  <2>2. ~Booted
    BY <2>1 DEF FInv, WalkOk
  <2>3. boot' \in 0 .. Len(Script)
    BY <2>1, <2>2, BootNext
  <2>4. Pointers'
    BY <2>1, OpenedOk
  <2>5. FsType(fs') /\ LastHeld' /\ writes' \in Nat
    BY <2>1 DEF FInv, LastHeld
  <2> QED
    BY <2>1, <2>3, <2>4, <2>5, IdleAfter DEF FInv, BootMade
<1> QED
  BY <1>1, <1>2, <1>3, <1>4, <1>5, <1>6, <1>7, <1>8 DEF BootStep

\* The system calls, besides the steps of a walk.
CallStep ==
    \/ \E path \in Paths, flags \in Flags, mode \in Modes : syscall_open(path, flags, mode)
    \/ syscall_open_returns
    \/ \E fd \in Fds : syscall_close(fd)
    \/ \E fd \in Fds, n \in 0 .. MaxSize : syscall_write(fd, n) \/ syscall_read(fd, n)

CallMade ==
    \/ UNCHANGED fs
    \/ \E i \in DOMAIN fs.inodes, n, stamp \in Nat : Written(fs, fs', i, n, stamp)

LEMMA SameWalk == ASSUME FInv, UNCHANGED <<walk, boot>>, Len(fs'.inodes) = Len(fs.inodes), walk = Idle
                  PROVE  WalkOk' /\ boot' \in 0 .. Len(Script)
<1>1. walk' = Idle /\ boot' = boot
  OBVIOUS
<1>2. walk'.obj \in 0 .. Len(fs'.inodes)
  BY DEF FInv, WalkOk
<1> QED
  BY <1>1, <1>2, IdleOk DEF FInv, WalkOk

LEMMA CallKeeps == ASSUME FInv, CallStep PROVE FInv' /\ CallMade
<1>0. NumResources \in Nat /\ MaxSize \in Nat /\ Fds \subseteq 0 .. NumResources - 1
  BY FilesAssumption
<1>1. ASSUME NEW path \in Paths, NEW flags \in Flags, NEW mode \in Modes,
             syscall_open(path, flags, mode)
      PROVE  FInv' /\ CallMade
  <2>1. /\ UNCHANGED <<fs, drives, resources, boot, writes, last>>
        /\ \E fd \in Free : Start("open", path, flags, mode, fd)
    BY <1>1 DEF syscall_open
  <2>2. PICK fd \in Free : Start("open", path, flags, mode, fd)
    BY <2>1
  <2>3. fd \in Nat
    BY <1>0 DEF Free
  <2>4. flags \in WalkFlags /\ mode \in WalkModes
    BY DEF WalkFlags, WalkModes, Flags, Modes
  <2>5. path \in [drive : STRING, names : Seq(STRING), slash : BOOLEAN]
    BY FilesAssumption
  <2>6. /\ path.names \in Seq(STRING) /\ path.slash \in BOOLEAN
        /\ Absolute(path).names = path.names /\ Absolute(path).slash = path.slash
    BY <2>5 DEF Absolute
  <2>7. STRING \subseteq Text
    BY DEF Text
  <2>8. path.names \in Seq(Text)
    BY <2>6, <2>7, SeqMonotonic
  <2>9. WalkOk'
    BY <2>1, <2>2, <2>3, <2>4, <2>6, <2>8, StartOk
  <2> QED
    BY <2>1, <2>9, FrameOk DEF FInv, CallMade
<1>2. CASE syscall_open_returns
  <2>1. /\ walk' = Idle /\ boot' = boot
        /\ resources' = [resources EXCEPT ![walk.fd] = Opened]
        /\ fs' = fs /\ drives' = drives /\ writes' = writes /\ last' = last
    BY <1>2 DEF syscall_open_returns
  <2>2. Pointers'
    BY <2>1, OpenedOk
  <2>3. FsType(fs') /\ LastHeld' /\ writes' \in Nat
    BY <2>1 DEF FInv, LastHeld
  <2> QED
    BY <2>1, <2>2, <2>3, IdleAfter DEF FInv, CallMade
<1>3. ASSUME NEW fd \in Fds, syscall_close(fd)
      PROVE  FInv' /\ CallMade
  <2>1. /\ walk = Idle /\ walk' = walk /\ boot' = boot
        /\ fs' = fs /\ drives' = drives /\ writes' = writes /\ last' = last
        /\ resources' = resources \/ resources' = [resources EXCEPT ![fd] = NoFile]
    BY <1>3 DEF syscall_close, InProgram, Ready
  <2>2. Len(fs.inodes) \in Nat
    BY FsFacts DEF FInv
  <2>3. NoFile \in [private : 0 .. Len(fs.inodes), mode : WalkModes]
    BY <2>2 DEF NoFile, NULL, WalkModes
  <2>4. Pointers'
    BY <2>1, <2>3 DEF FInv, Pointers
  <2>5. FsType(fs') /\ LastHeld' /\ writes' \in Nat
    BY <2>1 DEF FInv, LastHeld
  <2>6. WalkOk' /\ boot' \in 0 .. Len(Script)
    BY <2>1, SameWalk
  <2> QED
    BY <2>1, <2>4, <2>5, <2>6 DEF FInv, CallMade
<1>4. ASSUME NEW fd \in Fds, NEW n \in 0 .. MaxSize, syscall_write(fd, n)
      PROVE  FInv' /\ CallMade
  <2>1. /\ walk = Idle /\ UNCHANGED <<walk, boot, drives, resources>>
        /\ \/ UNCHANGED <<fs, last, writes>>
           \/ /\ ~Pointless(resources[fd])
              /\ WriteTo(resources[fd].private, n, Archived + writes + 1) /\ writes' = writes + 1
    BY <1>4 DEF syscall_write, InProgram, Ready
  <2>2. CASE UNCHANGED <<fs, last, writes>>
    <3>1. FsType(fs') /\ Pointers' /\ LastHeld' /\ writes' \in Nat
      BY <2>1, <2>2, FrameOk
    <3>2. WalkOk' /\ boot' \in 0 .. Len(Script)
      BY <2>1, <2>2, SameWalk
    <3> QED
      BY <2>2, <3>1, <3>2 DEF FInv, CallMade
  <2>3. CASE /\ ~Pointless(resources[fd])
             /\ WriteTo(resources[fd].private, n, Archived + writes + 1) /\ writes' = writes + 1
    <3> DEFINE i == resources[fd].private
               stamp == Archived + writes + 1
    <3>1. i \in DOMAIN fs.inodes
      <4>1. DOMAIN fs.inodes = 1 .. Len(fs.inodes) /\ Len(fs.inodes) \in Nat
        BY FsFacts DEF FInv
      <4>2. resources[fd] \in [private : 0 .. Len(fs.inodes), mode : WalkModes]
        BY <1>0 DEF FInv, Pointers
      <4>3. i \in 0 .. Len(fs.inodes) /\ i # 0
        BY <2>3, <4>2 DEF Pointless, NULL
      <4> QED
        BY <4>1, <4>3
    <3>2. n \in Nat /\ stamp \in Nat /\ writes' \in Nat
      BY <1>0, <2>3 DEF Archived, FInv
    <3>3. WriteTo(i, n, stamp)
      BY <2>3
    <3> HIDE DEF i, stamp
    <3>4. /\ FsType(fs') /\ LastHeld' /\ Len(fs'.inodes) = Len(fs.inodes)
          /\ \/ UNCHANGED <<fs, last>>
             \/ Written(fs, fs', i, n, stamp)
      BY <3>1, <3>2, <3>3, WriteKeeps
    <3>5. Pointers'
      BY <2>1, <3>4 DEF FInv, Pointers
    <3>6. CallMade
      BY <3>1, <3>2, <3>4 DEF CallMade
    <3>7. WalkOk' /\ boot' \in 0 .. Len(Script)
      BY <2>1, <3>4, SameWalk
    <3> QED
      BY <3>2, <3>4, <3>5, <3>6, <3>7 DEF FInv
  <2> QED
    BY <2>1, <2>2, <2>3
<1>5. ASSUME NEW fd \in Fds, NEW n \in 0 .. MaxSize, syscall_read(fd, n)
      PROVE  FInv' /\ CallMade
  <2>1. walk = Idle /\ UNCHANGED <<fs, drives, resources, walk, boot, writes, last>>
    BY <1>5 DEF syscall_read, InProgram, Ready
  <2>2. FsType(fs') /\ Pointers' /\ LastHeld' /\ writes' \in Nat
    BY <2>1, FrameOk
  <2>3. WalkOk' /\ boot' \in 0 .. Len(Script)
    BY <2>1, SameWalk
  <2> QED
    BY <2>1, <2>2, <2>3 DEF FInv, CallMade
<1> QED
  BY <1>1, <1>2, <1>3, <1>4, <1>5 DEF CallStep

LEMMA NextSplit == Next <=> WalkStep \/ BootStep \/ CallStep
  BY DEF Next, CallStep

LEMMA FStep == ASSUME FInv, [Next]_vars PROVE FInv'
<1>1. CASE Next
  BY <1>1, WalkKeeps, BootKeeps, CallKeeps, NextSplit
<1>2. CASE UNCHANGED vars
  <2>1. /\ UNCHANGED <<fs, drives, resources, writes, last>> /\ walk' = walk /\ boot' = boot /\ fs' = fs
    BY <1>2 DEF vars
  <2>2. FsType(fs') /\ Pointers' /\ LastHeld' /\ writes' \in Nat
    BY <2>1, FrameOk
  <2>3. WalkOk'
    BY <2>1 DEF FInv, WalkOk, Booted, Now
  <2> QED
    BY <2>1, <2>2, <2>3 DEF FInv
<1> QED
  BY <1>1, <1>2

\* The type invariant: every inode, chain and descriptor is a record of its kind, and
\* every index in a chain, a drive, a descriptor or the walk leads to an inode.
THEOREM FilesType == Spec => []FInv
<1>1. FInv /\ [Next]_vars => FInv'
  BY FStep
<1> QED
  BY <1>1, FInit, PTL DEF Spec

LEMMA HeldReadsBack == ASSUME FInv PROVE ReadsBack
<1> SUFFICES ASSUME NEW i \in DOMAIN last
             PROVE  Delivers(fs, i, last[i])
  BY DEF ReadsBack, Delivers
<1>1. /\ FsType(fs) /\ i \in DOMAIN fs.inodes
      /\ Holds(fs.inodes[i], fs.inodes[i].length, last[i])
  BY DEF FInv, LastHeld
<1>2. fs.inodes[i] \in InodeType
  BY <1>1, FsFacts
<1>3. fs.inodes[i].length \in Nat
  BY <1>2 DEF InodeType
<1> QED
  BY <1>1, <1>3, ReadReads

\* A read of a file's length delivers what was written last, for every archive,
\* size of a FileNode, number of descriptors and sequence of opens and writes.
THEOREM FilesReadBack == Spec => []ReadsBack
  BY FilesType, HeldReadsBack, PTL

-----------------------------------------------------------------------------
(* Directories that are whole *)

\* A directory that is not an entry `.` or `..`.
Real(f, i) ==
    i \in DOMAIN f.inodes /\ f.inodes[i].is_dir /\ f.inodes[i].filename \notin {".", ".."}

\* The count leads to the end of the chain, which begins with `.` and `..`; the `..`
\* of a directory in it leads back here, and no name is there twice.
Good(f, i) ==
    LET es == Entries(f, i)
    IN  /\ Len(es) = f.inodes[i].num_entries + 1 /\ 2 <= Len(es)
        /\ f.inodes[es[1]].filename = "." /\ First(f, es[1]) = First(f, i)
        /\ f.inodes[es[2]].filename = ".."
        /\ \A j, k \in DOMAIN es : f.inodes[es[j]].filename = f.inodes[es[k]].filename => j = k
        /\ \A k \in DOMAIN es : Real(f, es[k]) => First(f, Entries(f, es[k])[2]) = First(f, i)

Whole(f) ==
    /\ \A i \in DOMAIN f.inodes : Real(f, i) => Good(f, i)
    /\ \A i, j \in DOMAIN f.inodes :
         Real(f, i) /\ Real(f, j) /\ First(f, i) = First(f, j) => i = j

\* Chains only get longer.
Extends(f, g) ==
    /\ Kept(f, g)
    /\ Len(f.chains) <= Len(g.chains)
    /\ \A c \in 1 .. Len(f.chains) :
         /\ Len(f.chains[c]) <= Len(g.chains[c])
         /\ \A k \in 1 .. Len(f.chains[c]) : g.chains[c][k] = f.chains[c][k]

LEMMA RealFacts ==
  ASSUME NEW f, FsType(f), NEW i, Real(f, i)
  PROVE  IsDirectory(f, i)
  BY DEF Real, IsDirectory

LEMMA ExtendsInode ==
  ASSUME NEW f, FsType(f), NEW g, Extends(f, g), NEW i \in DOMAIN f.inodes
  PROVE  /\ i \in DOMAIN g.inodes /\ g.inodes[i].filename = f.inodes[i].filename
         /\ g.inodes[i].is_dir = f.inodes[i].is_dir
         /\ First(g, i) = First(f, i) /\ (Real(g, i) <=> Real(f, i))
<1>1. /\ FsType(g) /\ Len(f.inodes) <= Len(g.inodes)
      /\ \A k \in 1 .. Len(f.inodes) : SameBut(g.inodes[k], f.inodes[k])
  BY DEF Extends, Kept
<1>2. /\ Len(f.inodes) \in Nat /\ Len(g.inodes) \in Nat
      /\ DOMAIN f.inodes = 1 .. Len(f.inodes) /\ DOMAIN g.inodes = 1 .. Len(g.inodes)
  BY <1>1, FsFacts
<1>3. i \in 1 .. Len(f.inodes)
  BY <1>2
<1>4. i \in DOMAIN g.inodes
  BY <1>1, <1>2, <1>3
<1>5. SameBut(g.inodes[i], f.inodes[i])
  BY <1>1, <1>3
<1> QED
  BY <1>4, <1>5 DEF SameBut, First, Real

LEMMA ExtendsEntries ==
  ASSUME NEW f, FsType(f), NEW g, Extends(f, g), NEW i, Real(f, i)
  PROVE  /\ Real(g, i) /\ IsDirectory(f, i) /\ IsDirectory(g, i) /\ FsType(g)
         /\ Len(Entries(f, i)) \in Nat /\ Len(Entries(g, i)) \in Nat
         /\ DOMAIN Entries(f, i) = 1 .. Len(Entries(f, i))
         /\ DOMAIN Entries(g, i) = 1 .. Len(Entries(g, i))
         /\ Len(Entries(f, i)) <= Len(Entries(g, i))
         /\ \A k \in 1 .. Len(Entries(f, i)) : /\ Entries(g, i)[k] = Entries(f, i)[k]
                                               /\ Entries(f, i)[k] \in DOMAIN f.inodes
<1>1. FsType(g) /\ i \in DOMAIN f.inodes
  BY DEF Extends, Kept, Real
<1>2. Real(g, i) /\ First(g, i) = First(f, i)
  BY <1>1, ExtendsInode
<1>3. IsDirectory(f, i) /\ IsDirectory(g, i)
  BY <1>1, <1>2, RealFacts
<1>4. First(f, i) \in 1 .. Len(f.chains)
  BY <1>3, DirFacts, FsFacts
<1>5. Entries(f, i) = f.chains[First(f, i)] /\ Entries(g, i) = g.chains[First(f, i)]
  BY <1>2 DEF Entries
<1>6. /\ Len(Entries(f, i)) <= Len(Entries(g, i))
      /\ \A k \in 1 .. Len(Entries(f, i)) : Entries(g, i)[k] = Entries(f, i)[k]
  BY <1>4, <1>5 DEF Extends
<1>7. /\ Len(Entries(f, i)) \in Nat /\ Len(Entries(g, i)) \in Nat
      /\ DOMAIN Entries(f, i) = 1 .. Len(Entries(f, i))
      /\ DOMAIN Entries(g, i) = 1 .. Len(Entries(g, i))
      /\ \A k \in 1 .. Len(Entries(f, i)) : Entries(f, i)[k] \in DOMAIN f.inodes
  BY <1>1, <1>3, DirFacts
<1> QED
  BY <1>1, <1>2, <1>3, <1>6, <1>7

\* The `..` of a directory stands for the same chain.
LEMMA ExtendsUp ==
  ASSUME NEW f, FsType(f), NEW g, Extends(f, g), Whole(f), NEW i, Real(f, i)
  PROVE  First(g, Entries(g, i)[2]) = First(f, Entries(f, i)[2])
<1>1. i \in DOMAIN f.inodes
  BY DEF Real
<1>2. 2 <= Len(Entries(f, i))
  BY <1>1 DEF Whole, Good
<1>3. /\ Len(Entries(f, i)) \in Nat
      /\ \A k \in 1 .. Len(Entries(f, i)) : /\ Entries(g, i)[k] = Entries(f, i)[k]
                                            /\ Entries(f, i)[k] \in DOMAIN f.inodes
  BY ExtendsEntries
<1>4. 2 \in 1 .. Len(Entries(f, i))
  BY <1>2, <1>3
<1>5. Entries(g, i)[2] = Entries(f, i)[2] /\ Entries(f, i)[2] \in DOMAIN f.inodes
  BY <1>3, <1>4
<1> QED
  BY <1>5, ExtendsInode

LEMMA GoodKept ==
  ASSUME NEW f, FsType(f), NEW g, Extends(f, g), Whole(f), NEW i, Real(f, i),
         Len(Entries(g, i)) = Len(Entries(f, i)),
         g.inodes[i].num_entries = f.inodes[i].num_entries
  PROVE  Good(g, i)
<1> DEFINE es == Entries(f, i)
           gs == Entries(g, i)
<1>1. i \in DOMAIN f.inodes
  BY DEF Real
<1>2. /\ Len(es) = f.inodes[i].num_entries + 1 /\ 2 <= Len(es)
      /\ f.inodes[es[1]].filename = "." /\ First(f, es[1]) = First(f, i)
      /\ f.inodes[es[2]].filename = ".."
      /\ \A j, k \in DOMAIN es : f.inodes[es[j]].filename = f.inodes[es[k]].filename => j = k
      /\ \A k \in DOMAIN es : Real(f, es[k]) => First(f, Entries(f, es[k])[2]) = First(f, i)
  BY <1>1 DEF Whole, Good
<1>3. /\ Len(es) \in Nat /\ DOMAIN es = 1 .. Len(es) /\ DOMAIN gs = 1 .. Len(gs)
      /\ Len(gs) = Len(es)
      /\ \A k \in 1 .. Len(es) : gs[k] = es[k] /\ es[k] \in DOMAIN f.inodes
  BY ExtendsEntries
<1>4. First(g, i) = First(f, i)
  BY <1>1, ExtendsInode
<1> HIDE DEF es, gs
<1>5. 1 \in 1 .. Len(es) /\ 2 \in 1 .. Len(es)
  BY <1>2, <1>3
<1>6. \A k \in DOMAIN gs : /\ gs[k] = es[k] /\ k \in DOMAIN es
                           /\ g.inodes[es[k]].filename = f.inodes[es[k]].filename
                           /\ First(g, es[k]) = First(f, es[k]) /\ (Real(g, es[k]) <=> Real(f, es[k]))
  BY <1>3, ExtendsInode
<1>7. \A k \in DOMAIN gs : Real(g, gs[k]) => First(g, Entries(g, gs[k])[2]) = First(g, i)
  BY <1>2, <1>4, <1>6, ExtendsUp
<1>8. /\ g.inodes[gs[1]].filename = "." /\ First(g, gs[1]) = First(g, i)
      /\ g.inodes[gs[2]].filename = ".."
  BY <1>2, <1>3, <1>4, <1>5, <1>6
<1>9. \A j, k \in DOMAIN gs : g.inodes[gs[j]].filename = g.inodes[gs[k]].filename => j = k
  BY <1>2, <1>6
<1>10. Len(gs) = g.inodes[i].num_entries + 1 /\ 2 <= Len(gs)
  BY <1>2, <1>3
<1> QED
  BY <1>7, <1>8, <1>9, <1>10 DEF Good, gs

\* A directory that gets an entry with a new name.
LEMMA GoodGrown ==
  ASSUME NEW f, FsType(f), NEW g, Extends(f, g), Whole(f), NEW i, Real(f, i), NEW name, NEW e,
         Len(Entries(g, i)) = Len(Entries(f, i)) + 1,
         g.inodes[i].num_entries = f.inodes[i].num_entries + 1,
         Entries(g, i)[Len(Entries(f, i)) + 1] = e, g.inodes[e].filename = name,
         \A k \in DOMAIN Entries(f, i) : f.inodes[Entries(f, i)[k]].filename # name,
         Real(g, e) => First(g, Entries(g, e)[2]) = First(f, i)
  PROVE  Good(g, i)
<1> DEFINE es == Entries(f, i)
           gs == Entries(g, i)
           m  == Len(es)
<1>1. i \in DOMAIN f.inodes
  BY DEF Real
<1>2. /\ Len(es) = f.inodes[i].num_entries + 1 /\ 2 <= Len(es)
      /\ f.inodes[es[1]].filename = "." /\ First(f, es[1]) = First(f, i)
      /\ f.inodes[es[2]].filename = ".."
      /\ \A j, k \in DOMAIN es : f.inodes[es[j]].filename = f.inodes[es[k]].filename => j = k
      /\ \A k \in DOMAIN es : Real(f, es[k]) => First(f, Entries(f, es[k])[2]) = First(f, i)
  BY <1>1 DEF Whole, Good
<1>3. /\ Len(es) \in Nat /\ DOMAIN es = 1 .. Len(es) /\ DOMAIN gs = 1 .. Len(gs)
      /\ Len(gs) = m + 1
      /\ \A k \in 1 .. Len(es) : gs[k] = es[k] /\ es[k] \in DOMAIN f.inodes
  BY ExtendsEntries
<1>4. First(g, i) = First(f, i)
  BY <1>1, ExtendsInode
<1>5. /\ gs[m + 1] = e /\ g.inodes[e].filename = name
      /\ \A k \in DOMAIN es : f.inodes[es[k]].filename # name
      /\ Real(g, e) => First(g, Entries(g, e)[2]) = First(f, i)
      /\ g.inodes[i].num_entries = f.inodes[i].num_entries + 1
  OBVIOUS
<1>6. f.inodes[i].num_entries \in Nat
  BY RealFacts, DirFacts
<1> HIDE DEF es, gs
<1>7. 1 \in DOMAIN es /\ 2 \in DOMAIN es /\ m = Len(es)
  BY <1>2, <1>3
<1>8. \A k \in DOMAIN es : /\ gs[k] = es[k]
                           /\ g.inodes[es[k]].filename = f.inodes[es[k]].filename
                           /\ First(g, es[k]) = First(f, es[k]) /\ (Real(g, es[k]) <=> Real(f, es[k]))
  BY <1>3, ExtendsInode
<1>9. \A k \in DOMAIN gs : k \in DOMAIN es \/ k = m + 1
  BY <1>3
<1> HIDE DEF m
<1>10. \A k \in DOMAIN gs : Real(g, gs[k]) => First(g, Entries(g, gs[k])[2]) = First(g, i)
  <2> TAKE k \in DOMAIN gs
  <2>1. CASE k \in DOMAIN es
    BY <1>2, <1>4, <1>8, <2>1, ExtendsUp
  <2>2. CASE k = m + 1
    BY <1>4, <1>5, <2>2
  <2> QED
    BY <1>9, <2>1, <2>2
<1>11. /\ g.inodes[gs[1]].filename = "." /\ First(g, gs[1]) = First(g, i)
       /\ g.inodes[gs[2]].filename = ".."
  BY <1>2, <1>4, <1>7, <1>8
<1>12. \A j, k \in DOMAIN gs : g.inodes[gs[j]].filename = g.inodes[gs[k]].filename => j = k
  <2>1. \A k \in DOMAIN es : g.inodes[gs[k]].filename = f.inodes[es[k]].filename
    BY <1>8
  <2>2. g.inodes[gs[m + 1]].filename = name
    BY <1>5
  <2> QED
    BY <1>2, <1>5, <1>9, <2>1, <2>2
<1>13. Len(gs) = g.inodes[i].num_entries + 1 /\ 2 <= Len(gs)
  BY <1>2, <1>3, <1>5, <1>6, <1>7
<1> QED
  BY <1>10, <1>11, <1>12, <1>13 DEF Good, gs

\* A new directory.
LEMMA GoodNew ==
  ASSUME NEW g, FsType(g), NEW i \in DOMAIN g.inodes, NEW c, NEW name, NEW up,
         NewDirectory(g, i, c, name, up)
  PROVE  /\ Good(g, i) /\ ~Real(g, i + 1) /\ ~Real(g, i + 2) /\ g.inodes[i].filename = name
         /\ First(g, i) = c /\ First(g, Entries(g, i)[2]) = up
<1> DEFINE es == Entries(g, i)
<1>1. /\ First(g, i) = c /\ es = g.chains[c] /\ Len(es) = 2
      /\ es[1] = i + 1 /\ es[2] = i + 2 /\ g.inodes[i].num_entries = 1
      /\ g.inodes[i].filename = name
  BY DEF NewDirectory, First, Entries
<1>2. /\ g.inodes[i + 1].filename = "." /\ First(g, i + 1) = c
      /\ g.inodes[i + 2].filename = ".." /\ First(g, i + 2) = up
  BY DEF NewDirectory, First
<1>3. ~Real(g, i + 1) /\ ~Real(g, i + 2)
  BY <1>2 DEF Real
<1>4. DOMAIN es = 1 .. Len(es)
  <2>1. IsDirectory(g, i)
    BY DEF NewDirectory, IsDirectory
  <2> QED
    BY <2>1, DirFacts
<1> HIDE DEF es
<1>5. \A k \in DOMAIN es : k = 1 \/ k = 2
  BY <1>1, <1>4
<1>6. g.inodes[es[1]].filename = "." /\ g.inodes[es[2]].filename = ".." /\ "." # ".."
  BY <1>1, <1>2
<1>7. \A j, k \in DOMAIN es : g.inodes[es[j]].filename = g.inodes[es[k]].filename => j = k
  BY <1>5, <1>6
<1>8. \A k \in DOMAIN es : ~Real(g, es[k])
  BY <1>1, <1>3, <1>5
<1>9. Len(es) = g.inodes[i].num_entries + 1 /\ 2 <= Len(es)
  BY <1>1
<1>10. First(g, es[1]) = First(g, i)
  BY <1>1, <1>2
<1>11. Good(g, i)
  BY <1>6, <1>7, <1>8, <1>9, <1>10 DEF Good, es
<1> QED
  BY <1>1, <1>2, <1>3, <1>11 DEF es

LEMMA GrowsExtends ==
  ASSUME NEW f, FsType(f), Whole(f), NEW dir, Real(f, dir), NEW g, Grows(f, g, dir), Kept(f, g),
         Len(f.chains) <= Len(g.chains)
  PROVE  /\ Extends(f, g)
         /\ Len(Entries(g, dir)) = Len(Entries(f, dir)) + 1
         /\ g.inodes[dir].num_entries = f.inodes[dir].num_entries + 1
         /\ Entries(g, dir)[Len(Entries(f, dir)) + 1] = Len(f.inodes) + 1
         /\ \A i : Real(f, i) /\ i # dir =>
              /\ Len(Entries(g, i)) = Len(Entries(f, i))
              /\ g.inodes[i].num_entries = f.inodes[i].num_entries
<1> DEFINE p == First(f, dir)
           m == LastNode(f, dir)
<1>1. dir \in DOMAIN f.inodes /\ IsDirectory(f, dir) /\ DOMAIN f.inodes = 1 .. Len(f.inodes)
  BY RealFacts, FsFacts DEF Real
<1>2. /\ p \in 1 .. Len(f.chains) /\ Entries(f, dir) = f.chains[p] /\ m \in Nat
      /\ m = f.inodes[dir].num_entries + 1
  BY <1>1, DirFacts, FsFacts
<1>3. m = Len(f.chains[p])
  <2>1. Len(Entries(f, dir)) = f.inodes[dir].num_entries + 1
    BY <1>1 DEF Whole, Good
  <2> HIDE DEF m, p
  <2> QED
    BY <1>2, <2>1
<1>4. /\ \A k \in 1 .. Len(f.chains) : k # p => g.chains[k] = f.chains[k]
      /\ Len(g.chains[p]) = m + 1 /\ g.chains[p][m + 1] = Len(f.inodes) + 1
      /\ \A k \in 1 .. m : g.chains[p][k] = f.chains[p][k]
      /\ SameBut(g.inodes[dir], f.inodes[dir])
      /\ g.inodes[dir].num_entries = f.inodes[dir].num_entries + 1
      /\ \A i \in 1 .. Len(f.inodes) : i # dir => g.inodes[i] = f.inodes[i]
  BY DEF Grows
<1>5. First(g, dir) = p /\ Entries(g, dir) = g.chains[p]
  BY <1>4 DEF First, Entries, SameBut
<1> HIDE DEF m, p
<1>6. \A c \in 1 .. Len(f.chains) : Len(f.chains[c]) \in Nat
  BY FsFacts
<1>7. ASSUME NEW c \in 1 .. Len(f.chains)
      PROVE  /\ Len(f.chains[c]) <= Len(g.chains[c])
             /\ \A k \in 1 .. Len(f.chains[c]) : g.chains[c][k] = f.chains[c][k]
  <2>1. CASE c = p
    <3>1. m <= m + 1
      BY <1>2
    <3> QED
      BY <1>3, <1>4, <2>1, <3>1
  <2>2. CASE c # p
    BY <1>4, <1>6, <2>2
  <2> QED
    BY <2>1, <2>2
<1>8. Extends(f, g)
  BY <1>7 DEF Extends
<1>9. ASSUME NEW i, Real(f, i), i # dir
      PROVE  /\ Len(Entries(g, i)) = Len(Entries(f, i))
             /\ g.inodes[i].num_entries = f.inodes[i].num_entries
  <2>1. i \in 1 .. Len(f.inodes) /\ i \in DOMAIN f.inodes
    BY <1>1, <1>9 DEF Real
  <2>2. First(f, i) # p
    BY <1>1, <1>9, <2>1 DEF Whole, p
  <2>3. First(f, i) \in 1 .. Len(f.chains)
    BY <1>9, RealFacts, DirFacts, FsFacts
  <2>4. g.inodes[i] = f.inodes[i] /\ g.chains[First(f, i)] = f.chains[First(f, i)]
    BY <1>4, <1>9, <2>1, <2>2, <2>3
  <2> QED
    BY <2>4 DEF Entries, First
<1> QED
  BY <1>2, <1>3, <1>4, <1>5, <1>8, <1>9

\* The name that a directory does not have is neither `.` nor `..`.
LEMMA NewName ==
  ASSUME NEW f, FsType(f), Whole(f), NEW dir, Real(f, dir), NEW name, Finds(f, dir, name, NULL)
  PROVE  /\ name \notin {".", ".."}
         /\ \A k \in DOMAIN Entries(f, dir) : f.inodes[Entries(f, dir)[k]].filename # name
<1> DEFINE es == Entries(f, dir)
<1>1. 0 \notin DOMAIN f.inodes
  BY FsFacts
<1>2. \A k \in DOMAIN es : f.inodes[es[k]].filename # name
  BY <1>1 DEF Finds, NULL
<1>3. /\ 2 <= Len(es) /\ f.inodes[es[1]].filename = "." /\ f.inodes[es[2]].filename = ".."
  BY DEF Whole, Good, Real
<1>4. Len(es) \in Nat /\ DOMAIN es = 1 .. Len(es)
  BY RealFacts, DirFacts
<1> HIDE DEF es
<1>5. 1 \in DOMAIN es /\ 2 \in DOMAIN es
  BY <1>3, <1>4
<1>6. name # "." /\ name # ".."
  BY <1>2, <1>3, <1>5
<1> QED
  BY <1>2, <1>6 DEF es

LEMMA FileWhole ==
  ASSUME NEW f, FsType(f), Whole(f), NEW dir, Real(f, dir), HasEnd(f, dir), NEW name,
         Finds(f, dir, name, NULL), NEW g, FileMade(f, g, dir, name)
  PROVE  Whole(g) /\ Extends(f, g)
<1>1. Kept(f, g) /\ FsType(g) /\ IsDirectory(f, dir)
  BY RealFacts, FileKeeps DEF Kept
<1>2. Len(f.chains) \in Nat /\ Len(f.inodes) \in Nat /\ DOMAIN f.inodes = 1 .. Len(f.inodes)
      /\ DOMAIN g.inodes = 1 .. Len(f.inodes) + 1
  BY <1>1, FsFacts DEF FileMade
<1>3. /\ Len(f.chains) <= Len(g.chains) /\ Grows(f, g, dir)
      /\ g.inodes[Len(f.inodes) + 1].filename = name /\ ~g.inodes[Len(f.inodes) + 1].is_dir
  BY <1>2 DEF FileMade
<1>4. /\ Extends(f, g)
      /\ Len(Entries(g, dir)) = Len(Entries(f, dir)) + 1
      /\ g.inodes[dir].num_entries = f.inodes[dir].num_entries + 1
      /\ Entries(g, dir)[Len(Entries(f, dir)) + 1] = Len(f.inodes) + 1
      /\ \A i : Real(f, i) /\ i # dir =>
           /\ Len(Entries(g, i)) = Len(Entries(f, i))
           /\ g.inodes[i].num_entries = f.inodes[i].num_entries
  BY <1>1, <1>3, GrowsExtends
<1>5. \A k \in DOMAIN Entries(f, dir) : f.inodes[Entries(f, dir)[k]].filename # name
  BY NewName
<1>6. ~Real(g, Len(f.inodes) + 1)
  BY <1>3 DEF Real
<1>7. \A i : Real(g, i) => i \in DOMAIN f.inodes /\ Real(f, i)
  <2> TAKE i
  <2> HAVE Real(g, i)
  <2>1. i \in 1 .. Len(f.inodes) + 1 /\ i # Len(f.inodes) + 1
    BY <1>2, <1>6 DEF Real
  <2>2. i \in DOMAIN f.inodes
    BY <1>2, <2>1
  <2> QED
    BY <1>4, <2>2, ExtendsInode
<1>8. Good(g, dir)
  BY <1>3, <1>4, <1>5, <1>6, GoodGrown
<1>9. \A i : Real(g, i) => Good(g, i)
  BY <1>4, <1>7, <1>8, GoodKept
<1>10. \A i, j : Real(g, i) /\ Real(g, j) /\ First(g, i) = First(g, j) => i = j
  BY <1>4, <1>7, ExtendsInode DEF Whole
<1> QED
  BY <1>4, <1>9, <1>10 DEF Whole

\* A new directory at the end of memory that is whole, once the others are.
LEMMA NewWhole ==
  ASSUME NEW f, FsType(f), Whole(f), NEW g, Extends(f, g), NEW name, NEW up,
         Len(g.inodes) = Len(f.inodes) + 3,
         NewDirectory(g, Len(f.inodes) + 1, Len(f.chains) + 1, name, up),
         \A i : Real(f, i) => Good(g, i)
  PROVE  Whole(g)
<1> DEFINE n == Len(f.inodes)
           c == Len(f.chains)
<1>1. FsType(g) /\ n \in Nat /\ c \in Nat /\ DOMAIN f.inodes = 1 .. n
  BY FsFacts DEF Extends, Kept
<1>2. DOMAIN g.inodes = 1 .. n + 3
  BY <1>1, FsFacts
<1>3. n + 1 \in DOMAIN g.inodes
  <2> HIDE DEF n
  <2> QED
    BY <1>1, <1>2
<1>4. Good(g, n + 1) /\ ~Real(g, (n + 1) + 1) /\ ~Real(g, (n + 1) + 2) /\ First(g, n + 1) = c + 1
  BY <1>1, <1>3, GoodNew
<1>5. \A i \in DOMAIN f.inodes : (Real(g, i) <=> Real(f, i)) /\ First(g, i) = First(f, i)
  BY ExtendsInode
<1>6. \A i : Real(f, i) => i \in DOMAIN f.inodes /\ First(f, i) \in 1 .. c
  BY RealFacts, DirFacts, FsFacts DEF Real
<1>7. \A i : Real(g, i) => Real(f, i) \/ i = n + 1
  <2> TAKE i
  <2> HAVE Real(g, i)
  <2>1. i \in 1 .. n + 3
    BY <1>2 DEF Real
  <2> HIDE DEF n
  <2>2. i \in 1 .. n \/ i = n + 1 \/ i = (n + 1) + 1 \/ i = (n + 1) + 2
    BY <1>1, <2>1, Behind
  <2>3. i \in DOMAIN f.inodes \/ i = n + 1
    BY <1>1, <1>4, <2>2
  <2> QED
    BY <1>5, <2>3
<1>8. \A i : Real(g, i) => Good(g, i)
  BY <1>4, <1>7
<1>9. \A i, j : Real(g, i) /\ Real(g, j) /\ First(g, i) = First(g, j) => i = j
  <2> TAKE i, j
  <2> HAVE Real(g, i) /\ Real(g, j) /\ First(g, i) = First(g, j)
  <2>1. c + 1 \notin 1 .. c
    <3> HIDE DEF c
    <3> QED
      BY <1>1
  <2>2. CASE Real(f, i) /\ Real(f, j)
    BY <1>5, <1>6, <2>2 DEF Whole
  <2>3. CASE i = n + 1 /\ j = n + 1
    BY <2>3
  <2>4. CASE Real(f, i) /\ j = n + 1
    BY <1>4, <1>5, <1>6, <2>1, <2>4
  <2>5. CASE i = n + 1 /\ Real(f, j)
    BY <1>4, <1>5, <1>6, <2>1, <2>5
  <2> QED
    BY <1>7, <2>2, <2>3, <2>4, <2>5
<1> QED
  BY <1>8, <1>9 DEF Whole

LEMMA DirWhole ==
  ASSUME NEW f, FsType(f), Whole(f), NEW dir, Real(f, dir), HasEnd(f, dir), NEW name,
         Finds(f, dir, name, NULL), NEW g, DirMade(f, g, dir, name)
  PROVE  Whole(g) /\ Extends(f, g)
<1>1. Kept(f, g) /\ FsType(g) /\ IsDirectory(f, dir)
  BY RealFacts, DirKeeps DEF Kept
<1>2. /\ Len(f.chains) \in Nat /\ Len(f.inodes) \in Nat /\ DOMAIN f.inodes = 1 .. Len(f.inodes)
      /\ Len(g.inodes) = Len(f.inodes) + 3 /\ DOMAIN g.inodes = 1 .. Len(f.inodes) + 3
  BY <1>1, FsFacts DEF DirMade
<1>3. /\ Len(f.chains) <= Len(g.chains) /\ Grows(f, g, dir)
      /\ NewDirectory(g, Len(f.inodes) + 1, Len(f.chains) + 1, name, First(f, dir))
  BY <1>2 DEF DirMade
<1>4. /\ Extends(f, g)
      /\ Len(Entries(g, dir)) = Len(Entries(f, dir)) + 1
      /\ g.inodes[dir].num_entries = f.inodes[dir].num_entries + 1
      /\ Entries(g, dir)[Len(Entries(f, dir)) + 1] = Len(f.inodes) + 1
      /\ \A i : Real(f, i) /\ i # dir =>
           /\ Len(Entries(g, i)) = Len(Entries(f, i))
           /\ g.inodes[i].num_entries = f.inodes[i].num_entries
  BY <1>1, <1>3, GrowsExtends
<1>5. \A k \in DOMAIN Entries(f, dir) : f.inodes[Entries(f, dir)[k]].filename # name
  BY NewName
<1>6. Len(f.inodes) + 1 \in DOMAIN g.inodes
  BY <1>2
<1>7. /\ First(g, Entries(g, Len(f.inodes) + 1)[2]) = First(f, dir)
      /\ g.inodes[Len(f.inodes) + 1].filename = name
  BY <1>1, <1>3, <1>6, GoodNew
<1>8. Good(g, dir)
  BY <1>4, <1>5, <1>7, GoodGrown
<1>9. \A i : Real(f, i) => Good(g, i)
  BY <1>4, <1>8, GoodKept
<1> QED
  BY <1>2, <1>3, <1>4, <1>9, NewWhole

LEMMA DriveWhole ==
  ASSUME NEW f, FsType(f), Whole(f), NEW g, DriveMade(f, g)
  PROVE  /\ Whole(g) /\ Extends(f, g) /\ Real(g, Len(f.inodes) + 1)
         /\ First(g, Entries(g, Len(f.inodes) + 1)[2]) = First(g, Len(f.inodes) + 1)
<1>1. Kept(f, g) /\ FsType(g)
  BY DriveKeeps DEF Kept
<1>2. /\ Len(f.chains) \in Nat /\ Len(f.inodes) \in Nat /\ DOMAIN f.inodes = 1 .. Len(f.inodes)
      /\ Len(g.inodes) = Len(f.inodes) + 3 /\ DOMAIN g.inodes = 1 .. Len(f.inodes) + 3
      /\ \A c \in 1 .. Len(f.chains) : Len(f.chains[c]) \in Nat
  BY <1>1, FsFacts DEF DriveMade
<1>3. /\ Len(f.chains) <= Len(g.chains)
      /\ NewDirectory(g, Len(f.inodes) + 1, Len(f.chains) + 1, "", Len(f.chains) + 1)
      /\ \A i \in 1 .. Len(f.inodes) : g.inodes[i] = f.inodes[i]
      /\ \A k \in 1 .. Len(f.chains) : g.chains[k] = f.chains[k]
  <2>1. /\ Len(g.chains) = Len(f.chains) + 1
        /\ NewDirectory(g, Len(f.inodes) + 1, Len(f.chains) + 1, "", Len(f.chains) + 1)
        /\ \A i \in 1 .. Len(f.inodes) : g.inodes[i] = f.inodes[i]
        /\ \A k \in 1 .. Len(f.chains) : g.chains[k] = f.chains[k]
    BY DEF DriveMade
  <2>2. Len(f.chains) <= Len(f.chains) + 1
    BY <1>2
  <2> QED
    BY <2>1, <2>2
<1>4. Extends(f, g)
  <2>1. \A c \in 1 .. Len(f.chains) : Len(f.chains[c]) <= Len(f.chains[c])
    BY <1>2
  <2>2. \A c \in 1 .. Len(f.chains) :
          /\ Len(f.chains[c]) <= Len(g.chains[c])
          /\ \A k \in 1 .. Len(f.chains[c]) : g.chains[c][k] = f.chains[c][k]
    BY <1>3, <2>1
  <2> QED
    BY <1>1, <1>3, <2>2 DEF Extends
<1>5. ASSUME NEW i, Real(f, i)
      PROVE  /\ Len(Entries(g, i)) = Len(Entries(f, i))
             /\ g.inodes[i].num_entries = f.inodes[i].num_entries
  <2>1. i \in 1 .. Len(f.inodes)
    BY <1>2, <1>5 DEF Real
  <2>2. First(f, i) \in 1 .. Len(f.chains)
    BY <1>5, RealFacts, DirFacts, FsFacts
  <2>3. g.inodes[i] = f.inodes[i] /\ g.chains[First(f, i)] = f.chains[First(f, i)]
    BY <1>3, <2>1, <2>2
  <2> QED
    BY <2>3 DEF Entries, First
<1>6. \A i : Real(f, i) => Good(g, i)
  BY <1>4, <1>5, GoodKept
<1>7. Whole(g)
  BY <1>2, <1>3, <1>4, <1>6, NewWhole
<1>8. Len(f.inodes) + 1 \in DOMAIN g.inodes
  BY <1>2
<1>9. /\ First(g, Len(f.inodes) + 1) = Len(f.chains) + 1
      /\ First(g, Entries(g, Len(f.inodes) + 1)[2]) = Len(f.chains) + 1
  BY <1>1, <1>3, <1>8, GoodNew
<1>10. Real(g, Len(f.inodes) + 1)
  BY <1>3, <1>8 DEF NewDirectory, Real
<1> QED
  BY <1>4, <1>7, <1>9, <1>10

\* A write leaves the directories alone.
LEMMA WrittenWhole ==
  ASSUME NEW f, FsType(f), Whole(f), NEW g, FsType(g), NEW i, NEW n, NEW v, Written(f, g, i, n, v)
  PROVE  /\ Whole(g)
         /\ \A j : Real(f, j) => /\ Real(g, j) /\ First(g, j) = First(f, j)
                                 /\ First(g, Entries(g, j)[2]) = First(f, Entries(f, j)[2])
<1>1. DOMAIN g.inodes = DOMAIN f.inodes /\ g.chains = f.chains
  BY FsFacts DEF Written
<1>2. \A j \in DOMAIN f.inodes : SameDir(g.inodes[j], f.inodes[j])
  BY FsFacts DEF Written, SameDir
<1>3. \A j : Real(g, j) <=> Real(f, j)
  BY <1>1, <1>2 DEF Real, SameDir
<1>4. \A j \in DOMAIN f.inodes : First(g, j) = First(f, j) /\ Entries(g, j) = Entries(f, j)
  BY <1>1, <1>2 DEF First, Entries, SameDir
<1>5. ASSUME NEW j, Real(f, j)
      PROVE  Good(g, j) /\ First(g, Entries(g, j)[2]) = First(f, Entries(f, j)[2])
  <2> DEFINE es == Entries(f, j)
  <2>1. j \in DOMAIN f.inodes /\ Entries(g, j) = es /\ First(g, j) = First(f, j)
    BY <1>4, <1>5 DEF Real
  <2>2. /\ Len(es) = f.inodes[j].num_entries + 1 /\ 2 <= Len(es)
        /\ f.inodes[es[1]].filename = "." /\ First(f, es[1]) = First(f, j)
        /\ f.inodes[es[2]].filename = ".."
        /\ \A a, b \in DOMAIN es : f.inodes[es[a]].filename = f.inodes[es[b]].filename => a = b
        /\ \A k \in DOMAIN es : Real(f, es[k]) => First(f, Entries(f, es[k])[2]) = First(f, j)
    BY <1>5, <2>1 DEF Whole, Good
  <2>3. /\ Len(es) \in Nat /\ DOMAIN es = 1 .. Len(es) /\ \A k \in DOMAIN es : es[k] \in DOMAIN f.inodes
    BY <1>5, RealFacts, DirFacts
  <2> HIDE DEF es
  <2>4. 1 \in DOMAIN es /\ 2 \in DOMAIN es
    BY <2>2, <2>3
  <2>5. \A k \in DOMAIN es : /\ g.inodes[es[k]].filename = f.inodes[es[k]].filename
                             /\ First(g, es[k]) = First(f, es[k])
                             /\ Entries(g, es[k]) = Entries(f, es[k])
    BY <1>2, <1>4, <2>3 DEF SameDir
  <2>6. g.inodes[j].num_entries = f.inodes[j].num_entries
    BY <1>2, <2>1 DEF SameDir
  <2>7. \A k \in DOMAIN es : Real(g, es[k]) => First(g, Entries(g, es[k])[2]) = First(g, j)
    <3> TAKE k \in DOMAIN es
    <3> HAVE Real(g, es[k])
    <3> DEFINE e == es[k]
    <3>1. Real(f, e) /\ e \in DOMAIN f.inodes /\ First(f, Entries(f, e)[2]) = First(f, j)
      BY <1>3, <2>2, <2>3
    <3>2. Entries(g, e) = Entries(f, e)
      BY <2>5
    <3> HIDE DEF e
    <3>3. 2 <= Len(Entries(f, e))
      BY <3>1 DEF Whole, Good
    <3>4. /\ Len(Entries(f, e)) \in Nat /\ DOMAIN Entries(f, e) = 1 .. Len(Entries(f, e))
          /\ \A x \in DOMAIN Entries(f, e) : Entries(f, e)[x] \in DOMAIN f.inodes
      BY <3>1, RealFacts, DirFacts
    <3>5. 2 \in DOMAIN Entries(f, e)
      BY <3>3, <3>4
    <3>6. First(g, Entries(f, e)[2]) = First(f, Entries(f, e)[2])
      BY <1>4, <3>4, <3>5
    <3>7. First(g, Entries(g, e)[2]) = First(g, j)
      BY <2>1, <3>1, <3>2, <3>6
    <3> QED
      BY <3>7 DEF e
  <2>8. Good(g, j)
    BY <2>1, <2>2, <2>4, <2>5, <2>6, <2>7 DEF Good
  <2>9. First(g, Entries(g, j)[2]) = First(f, Entries(f, j)[2])
    BY <2>1, <2>4, <2>5 DEF es
  <2> QED
    BY <2>8, <2>9
<1>6. \A j : Real(f, j) => j \in DOMAIN f.inodes
  BY DEF Real
<1>7. Whole(g)
  BY <1>1, <1>3, <1>4, <1>5, <1>6 DEF Whole
<1> QED
  BY <1>3, <1>4, <1>5, <1>6, <1>7

\* The roots of the drives, which are their own `..`.
RootsOk ==
    \A d \in Drives : drives[d] # NULL =>
        /\ Real(fs, drives[d])
        /\ First(fs, Entries(fs, drives[d])[2]) = First(fs, drives[d])

DInv ==
    /\ FInv
    /\ dotted \in BOOLEAN
    /\ ~dotted => Whole(fs) /\ RootsOk

LEMMA DInit == Init => DInv
<1> SUFFICES ASSUME Init PROVE DInv
  OBVIOUS
<1>1. FInv
  BY FInit
<1>2. DOMAIN fs.inodes = {}
  BY DEF Init, Empty
<1>3. Whole(fs)
  BY <1>2 DEF Whole
<1>4. RootsOk
  BY DEF Init, RootsOk
<1>5. dotted \in BOOLEAN
  BY DEF Init
<1> QED
  BY <1>1, <1>3, <1>4, <1>5 DEF DInv

LEMMA ExtendsRoots ==
  ASSUME FsType(fs), Whole(fs), RootsOk, Extends(fs, fs'), drives' = drives
  PROVE  RootsOk'
<1> SUFFICES ASSUME NEW d \in Drives, drives[d] # NULL
             PROVE  /\ Real(fs', drives[d])
                    /\ First(fs', Entries(fs', drives[d])[2]) = First(fs', drives[d])
  BY DEF RootsOk
<1>1. /\ Real(fs, drives[d])
      /\ First(fs, Entries(fs, drives[d])[2]) = First(fs, drives[d])
  BY DEF RootsOk
<1>2. drives[d] \in DOMAIN fs.inodes
  BY <1>1 DEF Real
<1>3. Real(fs', drives[d]) /\ First(fs', drives[d]) = First(fs, drives[d])
  BY <1>1, <1>2, ExtendsInode
<1>4. First(fs', Entries(fs', drives[d])[2]) = First(fs, Entries(fs, drives[d])[2])
  BY <1>1, ExtendsUp
<1> QED
  BY <1>1, <1>3, <1>4

LEMMA WalkWhole == ASSUME DInv, WalkStep PROVE DInv'
<1>1. FInv /\ FInv' /\ WalkMade
  BY WalkKeeps, WalkMakes DEF DInv
<1>2. drives' = drives
  BY DEF WalkStep, walk_ends, walk_dir_found, walk_dir_created, walk_fails, walk_file_found,
         walk_file_created, walk_astray, Rest
<1>3. CASE UNCHANGED <<fs, dotted>>
  <2>1. fs' = fs /\ dotted' = dotted
    BY <1>3
  <2> QED
    BY <1>1, <1>2, <2>1 DEF DInv, RootsOk
<1>4. CASE /\ IsDirectory(fs, walk.obj) /\ HasEnd(fs, walk.obj) /\ Name \in Text
           /\ Finds(fs, walk.obj, Name, NULL)
           /\ dotted' = (dotted \/ Dot(walk.obj))
           /\ FileMade(fs, fs', walk.obj, Name) \/ DirMade(fs, fs', walk.obj, Name)
  <2>1. dotted' \in BOOLEAN
    BY <1>4
  <2>2. ASSUME ~dotted' PROVE Whole(fs') /\ RootsOk'
    <3>1. ~dotted /\ ~Dot(walk.obj)
      BY <1>4, <2>2
    <3>2. Real(fs, walk.obj)
      BY <1>4, <3>1 DEF IsDirectory, Dot, Real
    <3>3. FsType(fs) /\ Whole(fs) /\ RootsOk
      BY <1>1, <3>1 DEF DInv, FInv
    <3>4. Whole(fs') /\ Extends(fs, fs')
      BY <1>4, <3>2, <3>3, FileWhole, DirWhole
    <3> QED
      BY <1>2, <3>3, <3>4, ExtendsRoots
  <2> QED
    BY <1>1, <2>1, <2>2 DEF DInv
<1> QED
  BY <1>1, <1>3, <1>4 DEF WalkMade

LEMMA WrittenDInv ==
  ASSUME DInv, FInv', NEW i, NEW n, NEW v, Written(fs, fs', i, n, v), UNCHANGED <<drives, dotted>>
  PROVE  DInv'
<1>1. drives' = drives /\ dotted' = dotted /\ FsType(fs) /\ FsType(fs')
  BY DEF DInv, FInv
<1>2. ASSUME ~dotted PROVE Whole(fs') /\ RootsOk'
  <2>1. Whole(fs) /\ RootsOk
    BY <1>2 DEF DInv
  <2>2. /\ Whole(fs')
        /\ \A j : Real(fs, j) => /\ Real(fs', j) /\ First(fs', j) = First(fs, j)
                                 /\ First(fs', Entries(fs', j)[2]) = First(fs, Entries(fs, j)[2])
    BY <1>1, <2>1, WrittenWhole
  <2> QED
    BY <1>1, <2>1, <2>2 DEF RootsOk
<1> QED
  BY <1>1, <1>2 DEF DInv

LEMMA BootWhole == ASSUME DInv, BootStep PROVE DInv'
<1>1. FInv /\ FInv' /\ BootMade
  BY BootKeeps DEF DInv
<1>2. dotted' = dotted /\ dotted \in BOOLEAN
  BY DEF DInv, BootStep, mount, create_device, create_device_returns, unpack_skips, unpack_opens,
         unpack_returns, stream_opens, stream_returns
<1>3. CASE mount
  <2>1. CASE UNCHANGED <<fs, drives>>
    <3>1. fs' = fs /\ drives' = drives
      BY <2>1
    <3> QED
      BY <1>1, <1>2, <3>1 DEF DInv, RootsOk
  <2>2. CASE /\ fs' = tempfs_new(fs)
             /\ drives' = [drives EXCEPT ![Now.drive] = Len(fs.inodes) + 1]
    <3>1. FsType(fs) /\ DriveMade(fs, fs')
      BY <1>1, <2>2, NewDrive DEF FInv
    <3>2. ASSUME ~dotted PROVE Whole(fs') /\ RootsOk'
      <4>1. Whole(fs) /\ RootsOk
        BY <3>2 DEF DInv
      <4>2. /\ Whole(fs') /\ Extends(fs, fs') /\ Real(fs', Len(fs.inodes) + 1)
            /\ First(fs', Entries(fs', Len(fs.inodes) + 1)[2]) = First(fs', Len(fs.inodes) + 1)
        BY <3>1, <4>1, DriveWhole
      <4>3. DOMAIN drives = Drives
        BY <1>1 DEF FInv, Pointers
      <4>4. ASSUME NEW d \in Drives, drives'[d] # NULL
            PROVE  /\ Real(fs', drives'[d])
                   /\ First(fs', Entries(fs', drives'[d])[2]) = First(fs', drives'[d])
        <5>1. CASE d = Now.drive
          <6>1. drives'[d] = Len(fs.inodes) + 1
            BY <2>2, <4>3, <5>1
          <6> QED
            BY <4>2, <6>1
        <5>2. CASE d # Now.drive
          <6>1. drives'[d] = drives[d]
            BY <2>2, <4>3, <5>2
          <6>2. /\ Real(fs, drives[d])
                /\ First(fs, Entries(fs, drives[d])[2]) = First(fs, drives[d])
            BY <4>1, <4>4, <6>1 DEF RootsOk
          <6>3. drives[d] \in DOMAIN fs.inodes
            BY <6>2 DEF Real
          <6>4. Real(fs', drives[d]) /\ First(fs', drives[d]) = First(fs, drives[d])
            BY <3>1, <4>2, <6>2, <6>3, ExtendsInode
          <6>5. First(fs', Entries(fs', drives[d])[2]) = First(fs, Entries(fs, drives[d])[2])
            BY <3>1, <4>1, <4>2, <6>2, ExtendsUp
          <6> QED
            BY <6>1, <6>2, <6>4, <6>5
        <5> QED
          BY <5>1, <5>2
      <4> QED
        BY <4>2, <4>4 DEF RootsOk
    <3> QED
      BY <1>1, <1>2, <3>2 DEF DInv
  <2> QED
    BY <1>3, <2>1, <2>2 DEF mount
<1>4. CASE ~mount
  <2>1. drives' = drives
    BY <1>4 DEF BootStep, create_device, create_device_returns, unpack_skips, unpack_opens,
                unpack_returns, stream_opens, stream_returns
  <2>2. CASE fs' = fs
    BY <1>1, <1>2, <2>1, <2>2 DEF DInv, RootsOk
  <2>3. CASE \E i \in DOMAIN fs.inodes, n, stamp \in Nat : Written(fs, fs', i, n, stamp)
    BY <1>1, <1>2, <2>1, <2>3, WrittenDInv
  <2> QED
    BY <1>1, <1>4, <2>2, <2>3 DEF BootMade
<1> QED
  BY <1>3, <1>4

LEMMA CallWhole == ASSUME DInv, CallStep PROVE DInv'
<1>1. FInv /\ FInv' /\ CallMade
  BY CallKeeps DEF DInv
<1>2. dotted' = dotted /\ drives' = drives
  BY DEF CallStep, syscall_open, syscall_open_returns, syscall_close, syscall_write, syscall_read
<1>3. CASE fs' = fs
  BY <1>1, <1>2, <1>3 DEF DInv, RootsOk
<1>4. CASE \E i \in DOMAIN fs.inodes, n, stamp \in Nat : Written(fs, fs', i, n, stamp)
  BY <1>1, <1>2, <1>4, WrittenDInv
<1> QED
  BY <1>1, <1>3, <1>4 DEF CallMade

LEMMA DStep == ASSUME DInv, [Next]_vars PROVE DInv'
<1>1. CASE Next
  BY <1>1, WalkWhole, BootWhole, CallWhole, NextSplit
<1>2. CASE UNCHANGED vars
  <2>1. FInv'
    BY <1>2, FStep DEF DInv
  <2>2. fs' = fs /\ drives' = drives /\ dotted' = dotted
    BY <1>2 DEF vars
  <2> QED
    BY <2>1, <2>2 DEF DInv, RootsOk
<1> QED
  BY <1>1, <1>2

\* The inductive invariant: as long as nothing was created through `.` or `..`, every
\* directory is whole, and no two share a chain.
THEOREM DirectoriesInvariant == Spec => []DInv
<1>1. DInv /\ [Next]_vars => DInv'
  BY DStep
<1> QED
  BY <1>1, DInit, PTL DEF Spec

-----------------------------------------------------------------------------
(* What is reached from the roots *)

LEMMA Induction ==
  ASSUME NEW T, 0 \in T, \A n \in Nat : n \in T => n + 1 \in T
  PROVE  Nat \subseteq T
<1> SUFFICES ASSUME Nat \ T # {} PROVE FALSE
  OBVIOUS
<1>1. PICK x \in Nat \ T : \A y \in Nat \ T : x <= y
  BY Least
<1>2. x # 0 /\ x - 1 \in Nat /\ (x - 1) + 1 = x
  OBVIOUS
<1>3. x - 1 \in T
  BY <1>1, <1>2
<1> QED
  BY <1>2, <1>3

RootSet == {[path |-> <<d>>, inode |-> drives[d]] : d \in {d \in Drives : drives[d] # NULL}}

\* One name further.
Below(S) ==
    UNION {{[path |-> Append(r.path, fs.inodes[e].filename), inode |-> e] :
                e \in Proper(r.inode)} :
           r \in {r \in S : fs.inodes[r.inode].is_dir}}

\* What is reached with k names, by the equation that Reached is defined with.
Levels == CHOOSE at : at = [k \in 0 .. MaxDepth |-> IF k = 0 THEN RootSet ELSE Below(at[k - 1])]

LEMMA ReachedLevels == Reached = UNION {Levels[k] : k \in DOMAIN Levels}
  BY DEF Reached, Levels, RootSet, Below

\* The levels exist, so they are what their equation says.
LEMMA LevelsEquation ==
  /\ DOMAIN Levels = 0 .. MaxDepth
  /\ Levels[0] = RootSet
  /\ \A k \in 0 .. MaxDepth : k # 0 => Levels[k] = Below(Levels[k - 1])
<1> DEFINE T == {n \in Nat : \E s : s = [k \in 0 .. n |-> IF k = 0 THEN RootSet ELSE Below(s[k - 1])]}
<1>1. 0 \in T
  <2> DEFINE s == [k \in 0 .. 0 |-> RootSet]
  <2>1. s = [k \in 0 .. 0 |-> IF k = 0 THEN RootSet ELSE Below(s[k - 1])]
    OBVIOUS
  <2> QED
    BY <2>1
<1>2. ASSUME NEW n \in Nat, n \in T PROVE n + 1 \in T
  <2>1. PICK s : s = [k \in 0 .. n |-> IF k = 0 THEN RootSet ELSE Below(s[k - 1])]
    BY <1>2
  <2> DEFINE t == [k \in 0 .. n + 1 |-> IF k <= n THEN s[k] ELSE Below(s[n])]
  <2>2. ASSUME NEW k \in 0 .. n + 1
        PROVE  t[k] = IF k = 0 THEN RootSet ELSE Below(t[k - 1])
    <3>1. CASE k = 0
      <4>1. t[0] = s[0] /\ s[0] = RootSet
        BY <2>1
      <4> QED
        BY <3>1, <4>1
    <3>2. CASE k # 0 /\ k <= n
      <4>1. k \in 0 .. n /\ k - 1 \in 0 .. n + 1 /\ k - 1 <= n
        BY <3>2
      <4>2. t[k] = s[k] /\ t[k - 1] = s[k - 1]
        BY <3>2, <4>1
      <4>3. s[k] = Below(s[k - 1])
        BY <2>1, <3>2, <4>1
      <4> HIDE DEF t
      <4> QED
        BY <3>2, <4>2, <4>3
    <3>3. CASE k = n + 1
      <4>1. k # 0 /\ ~(k <= n) /\ k - 1 = n /\ n \in 0 .. n + 1 /\ n <= n
        BY <3>3
      <4>2. t[k] = Below(s[n]) /\ t[k - 1] = s[n]
        BY <4>1
      <4> HIDE DEF t
      <4> QED
        BY <4>1, <4>2
    <3> QED
      BY <3>1, <3>2, <3>3
  <2>3. t = [k \in 0 .. n + 1 |-> IF k = 0 THEN RootSet ELSE Below(t[k - 1])]
    BY <2>2
  <2> HIDE DEF t
  <2> QED
    BY <2>3
<1> HIDE DEF T
<1>3. Nat \subseteq T
  BY <1>1, <1>2, Induction
<1>4. MaxDepth \in T
  BY <1>3, FilesAssumption
<1>5. \E s : s = [k \in 0 .. MaxDepth |-> IF k = 0 THEN RootSet ELSE Below(s[k - 1])]
  BY <1>4 DEF T
<1>6. Levels = [k \in 0 .. MaxDepth |-> IF k = 0 THEN RootSet ELSE Below(Levels[k - 1])]
  BY <1>5 DEF Levels
<1>7. MaxDepth \in Nat
  BY FilesAssumption
<1>8. 0 \in 0 .. MaxDepth
  BY <1>7
<1> HIDE DEF Levels
<1> QED
  BY <1>6, <1>8

\* What is reached with k names is no `.` and no `..`; a directory's `..` stands for
\* what is reached with one name less.
LevelOk(k, r) ==
    /\ r.path \in Seq(Text) /\ Len(r.path) = k + 1
    /\ r.inode \in DOMAIN fs.inodes /\ ~Dot(r.inode)
    /\ fs.inodes[r.inode].is_dir =>
         \E p \in Reached :
            /\ p.path = (IF Len(r.path) = 1 THEN r.path ELSE SubSeq(r.path, 1, Len(r.path) - 1))
            /\ First(fs, Entries(fs, r.inode)[2]) = First(fs, p.inode)

LEMMA LevelsOk ==
  ASSUME DInv, ~dotted
  PROVE  \A k \in 0 .. MaxDepth : \A r \in Levels[k] : LevelOk(k, r)
<1> DEFINE T == {k \in Nat : k \in 0 .. MaxDepth => \A r \in Levels[k] : LevelOk(k, r)}
<1>0. MaxDepth \in Nat /\ Drives \subseteq STRING
  BY FilesAssumption
<1>1. FsType(fs) /\ Whole(fs) /\ RootsOk
  BY DEF DInv, FInv
<1>2. \A k \in 0 .. MaxDepth : Levels[k] \subseteq Reached
  BY ReachedLevels, LevelsEquation
<1>3. 0 \in T
  <2> SUFFICES ASSUME NEW r \in Levels[0] PROVE LevelOk(0, r)
    OBVIOUS
  <2>1. PICK d \in Drives : drives[d] # NULL /\ r = [path |-> <<d>>, inode |-> drives[d]]
    BY LevelsEquation DEF RootSet
  <2>2. /\ Real(fs, drives[d])
        /\ First(fs, Entries(fs, drives[d])[2]) = First(fs, drives[d])
    BY <1>1, <2>1 DEF RootsOk
  <2>3. r \in Reached
    BY <1>0, <1>2
  <2>4. d \in Text
    BY <1>0 DEF Text
  <2>5. <<d>> \in Seq(Text) /\ Len(<<d>>) = 1
    BY <2>4
  <2>6. r.path = <<d>> /\ r.inode = drives[d]
    BY <2>1
  <2>7. r.inode \in DOMAIN fs.inodes /\ ~Dot(r.inode)
    BY <2>2, <2>6 DEF Real, Dot
  <2>8. First(fs, Entries(fs, r.inode)[2]) = First(fs, r.inode)
    BY <2>2, <2>6
  <2>9. Len(r.path) = 0 + 1 /\ Len(r.path) = 1 /\ r.path \in Seq(Text)
    BY <2>5, <2>6
  <2> QED
    BY <2>3, <2>7, <2>8, <2>9 DEF LevelOk
<1>4. ASSUME NEW k \in Nat, k \in T PROVE k + 1 \in T
  <2> SUFFICES ASSUME k + 1 \in 0 .. MaxDepth, NEW r \in Levels[k + 1] PROVE LevelOk(k + 1, r)
    OBVIOUS
  <2>1. k \in 0 .. MaxDepth /\ k + 1 # 0 /\ (k + 1) - 1 = k
    BY <1>0
  <2>2. r \in Below(Levels[k])
    BY <2>1, LevelsEquation
  <2>3. PICK p \in Levels[k] :
          /\ fs.inodes[p.inode].is_dir
          /\ \E e \in Proper(p.inode) :
               r = [path |-> Append(p.path, fs.inodes[e].filename), inode |-> e]
    BY <2>2 DEF Below
  <2>4. PICK e \in Proper(p.inode) : r = [path |-> Append(p.path, fs.inodes[e].filename), inode |-> e]
    BY <2>3
  <2>5. LevelOk(k, p) /\ p \in Reached
    BY <1>2, <1>4, <2>1
  <2>6. /\ p.path \in Seq(Text) /\ Len(p.path) = k + 1
        /\ p.inode \in DOMAIN fs.inodes /\ ~Dot(p.inode)
    BY <2>5 DEF LevelOk
  <2>7. Real(fs, p.inode)
    BY <2>3, <2>6 DEF Real, Dot
  <2>8. PICK j \in DOMAIN Entries(fs, p.inode) : Entries(fs, p.inode)[j] = e
    BY DEF Proper
  <2>9. ~Dot(e)
    BY DEF Proper
  <2>10. e \in DOMAIN fs.inodes
    BY <1>1, <2>7, <2>8, RealFacts, DirFacts
  <2>11. fs.inodes[e].filename \in Text
    <3>1. fs.inodes[e] \in InodeType
      BY <1>1, <2>10, FsFacts
    <3> QED
      BY <3>1 DEF InodeType
  <2> DEFINE x == fs.inodes[e].filename
  <2>12. r.path = Append(p.path, x) /\ r.inode = e
    BY <2>4
  <2> HIDE DEF x
  <2>13. /\ r.path \in Seq(Text) /\ Len(r.path) = (k + 1) + 1
         /\ SubSeq(r.path, 1, k + 1) = p.path
    <3>1. x \in Text
      BY <2>11 DEF x
    <3>2. /\ r.path \in Seq(Text) /\ Len(r.path) = Len(p.path) + 1
          /\ \A i \in 1 .. Len(p.path) : r.path[i] = p.path[i]
      BY <2>6, <2>12, <3>1, AppendProperties
    <3>3. Len(r.path) = (k + 1) + 1 /\ \A i \in 1 .. k + 1 : r.path[i] = p.path[i]
      BY <2>6, <3>2
    <3>4. /\ SubSeq(r.path, 1, k + 1) \in Seq(Text) /\ Len(SubSeq(r.path, 1, k + 1)) = k + 1
          /\ \A i \in 1 .. k + 1 : SubSeq(r.path, 1, k + 1)[i] = r.path[i]
      BY <3>2, <3>3
    <3>5. SubSeq(r.path, 1, k + 1) = p.path
      BY <2>6, <3>3, <3>4, SeqEqual
    <3> QED
      BY <3>2, <3>3, <3>5
  <2>14. Len(r.path) # 1 /\ Len(r.path) - 1 = k + 1
    BY <2>13
  <2>15. ASSUME fs.inodes[e].is_dir
         PROVE  First(fs, Entries(fs, e)[2]) = First(fs, p.inode)
    <3>1. Real(fs, e)
      BY <2>9, <2>10, <2>15 DEF Real, Dot
    <3>2. Good(fs, p.inode)
      BY <1>1, <2>6, <2>7 DEF Whole
    <3> QED
      BY <2>8, <3>1, <3>2 DEF Good
  <2> QED
    BY <2>5, <2>9, <2>10, <2>12, <2>13, <2>14, <2>15 DEF LevelOk
<1> HIDE DEF T
<1>5. Nat \subseteq T
  BY <1>3, <1>4, Induction
<1>6. \A k \in 0 .. MaxDepth : k \in T
  BY <1>0, <1>5
<1> QED
  BY <1>6 DEF T

LEMMA WholeDirectories == ASSUME DInv PROVE DirectoriesWhole
<1> SUFFICES ASSUME ~dotted, NEW r \in Reached, fs.inodes[r.inode].is_dir
             PROVE  LET es == Entries(fs, r.inode)
                        up == IF Len(r.path) = 1 THEN r.path ELSE SubSeq(r.path, 1, Len(r.path) - 1)
                    IN  /\ Len(es) = fs.inodes[r.inode].num_entries + 1
                        /\ fs.inodes[es[1]].filename = "." /\ First(fs, es[1]) = First(fs, r.inode)
                        /\ fs.inodes[es[2]].filename = ".."
                        /\ \E p \in Reached : p.path = up /\ First(fs, es[2]) = First(fs, p.inode)
                        /\ \A j, k \in DOMAIN es :
                             fs.inodes[es[j]].filename = fs.inodes[es[k]].filename => j = k
  BY DEF DirectoriesWhole
<1>1. PICK k \in 0 .. MaxDepth : r \in Levels[k]
  BY ReachedLevels, LevelsEquation
<1>2. LevelOk(k, r)
  BY <1>1, LevelsOk
<1>3. Real(fs, r.inode)
  BY <1>2 DEF LevelOk, Real, Dot
<1>4. Good(fs, r.inode)
  BY <1>2, <1>3 DEF DInv, Whole, LevelOk
<1> QED
  BY <1>2, <1>4 DEF LevelOk, Good

\* Every directory that is reached from a drive has the count and the chain that
\* tempfs_addentry relies on, however it was filled, for every archive, path and depth.
THEOREM WholeTheorem == Spec => []DirectoriesWhole
  BY DirectoriesInvariant, WholeDirectories, PTL

-----------------------------------------------------------------------------
(* The tree of paths *)

\* The record r is a proper entry of the directory that p is the record of.
Child(f, p, r) ==
    /\ f.inodes[p.inode].is_dir
    /\ \E j \in DOMAIN Entries(f, p.inode) :
         LET e == Entries(f, p.inode)[j]
         IN  /\ f.inodes[e].filename \notin {".", ".."}
             /\ r = [path |-> Append(p.path, f.inodes[e].filename), inode |-> e]

\* The levels, element by element.
LevelsFact ==
    /\ \A r : r \in Levels[0] <=>
         \E d \in Drives : drives[d] # NULL /\ r = [path |-> <<d>>, inode |-> drives[d]]
    /\ \A k \in Nat : k + 1 <= MaxDepth =>
         \A r : r \in Levels[k + 1] <=> \E p \in Levels[k] : Child(fs, p, r)
    /\ \A r : r \in Reached <=> \E k \in 0 .. MaxDepth : r \in Levels[k]

LEMMA LevelsFound == LevelsFact
<1>0. MaxDepth \in Nat
  BY FilesAssumption
<1>1. \A r : r \in Levels[0] <=>
         \E d \in Drives : drives[d] # NULL /\ r = [path |-> <<d>>, inode |-> drives[d]]
  BY LevelsEquation DEF RootSet
<1>2. ASSUME NEW k \in Nat, k + 1 <= MaxDepth, NEW r
      PROVE  r \in Levels[k + 1] <=> \E p \in Levels[k] : Child(fs, p, r)
  <2>1. k + 1 \in 0 .. MaxDepth /\ k + 1 # 0 /\ (k + 1) - 1 = k
    BY <1>0, <1>2
  <2>2. Levels[k + 1] = Below(Levels[k])
    BY <2>1, LevelsEquation
  <2>3. ASSUME NEW p
        PROVE  Child(fs, p, r) <=>
                 /\ fs.inodes[p.inode].is_dir
                 /\ \E e \in Proper(p.inode) :
                       r = [path |-> Append(p.path, fs.inodes[e].filename), inode |-> e]
    BY DEF Child, Proper, Dot
  <2>4. r \in Below(Levels[k]) <=>
          \E p \in Levels[k] :
             /\ fs.inodes[p.inode].is_dir
             /\ \E e \in Proper(p.inode) :
                   r = [path |-> Append(p.path, fs.inodes[e].filename), inode |-> e]
    BY DEF Below
  <2> QED
    BY <2>2, <2>3, <2>4
<1>3. ASSUME NEW r PROVE r \in Reached <=> \E k \in 0 .. MaxDepth : r \in Levels[k]
  BY ReachedLevels, LevelsEquation
<1> QED
  BY <1>1, <1>2, <1>3 DEF LevelsFact

\* What a record on a level is.
LEMMA LevelFacts ==
  ASSUME DInv, ~dotted, NEW k \in 0 .. MaxDepth, NEW r \in Levels[k]
  PROVE  /\ r.path \in Seq(Text) /\ Len(r.path) = k + 1
         /\ r.inode \in DOMAIN fs.inodes /\ fs.inodes[r.inode].filename \notin {".", ".."}
         /\ fs.inodes[r.inode].filename \in Text
         /\ fs.inodes[r.inode].is_dir => Real(fs, r.inode)
<1>1. LevelOk(k, r) /\ FsType(fs)
  BY LevelsOk DEF DInv, FInv
<1>2. r.inode \in DOMAIN fs.inodes /\ ~Dot(r.inode)
  BY <1>1 DEF LevelOk
<1>3. fs.inodes[r.inode] \in InodeType
  BY <1>1, <1>2, FsFacts
<1>4. fs.inodes[r.inode].filename \in Text
  BY <1>3 DEF InodeType
<1> QED
  BY <1>1, <1>2, <1>4 DEF LevelOk, Dot, Real

\* An entry of a level, with the place it has in its directory.
LEMMA ChildFacts ==
  ASSUME DInv, ~dotted, NEW k \in 0 .. MaxDepth, NEW p \in Levels[k], NEW r, Child(fs, p, r)
  PROVE  /\ Real(fs, p.inode) /\ Good(fs, p.inode)
         /\ \E j \in DOMAIN Entries(fs, p.inode) :
              /\ r.inode = Entries(fs, p.inode)[j] /\ r.inode \in DOMAIN fs.inodes
              /\ fs.inodes[r.inode].filename \notin {".", ".."}
              /\ fs.inodes[r.inode].filename \in Text
              /\ r = [path |-> Append(p.path, fs.inodes[r.inode].filename), inode |-> r.inode]
<1>1. FsType(fs) /\ Whole(fs)
  BY DEF DInv, FInv
<1>2. Real(fs, p.inode)
  BY LevelFacts DEF Child
<1>3. Good(fs, p.inode)
  BY <1>1, <1>2 DEF Whole, Real
<1>4. PICK j \in DOMAIN Entries(fs, p.inode) :
         /\ fs.inodes[Entries(fs, p.inode)[j]].filename \notin {".", ".."}
         /\ r = [path |-> Append(p.path, fs.inodes[Entries(fs, p.inode)[j]].filename),
                 inode |-> Entries(fs, p.inode)[j]]
  BY DEF Child
<1>5. r.inode = Entries(fs, p.inode)[j]
  BY <1>4
<1>6. r.inode \in DOMAIN fs.inodes
  BY <1>1, <1>2, <1>5, RealFacts, DirFacts
<1>7. fs.inodes[r.inode].filename \in Text
  <2>1. fs.inodes[r.inode] \in InodeType
    BY <1>1, <1>6, FsFacts
  <2> QED
    BY <2>1 DEF InodeType
<1> QED
  BY <1>2, <1>3, <1>4, <1>5, <1>6, <1>7

LEMMA LastNames ==
  ASSUME NEW s \in Seq(Text), NEW t \in Seq(Text), NEW a \in Text, NEW b \in Text,
         Append(s, a) = Append(t, b)
  PROVE  s = t /\ a = b
  BY AppendInjective

\* A path leads to one inode.
LEMMA SamePath ==
  ASSUME DInv, ~dotted
  PROVE  \A k \in 0 .. MaxDepth : \A r, q \in Levels[k] : r.path = q.path => r = q
<1> DEFINE T == {k \in Nat : k \in 0 .. MaxDepth => \A r, q \in Levels[k] : r.path = q.path => r = q}
<1>0. MaxDepth \in Nat
  BY FilesAssumption
<1>1. 0 \in T
  <2> SUFFICES ASSUME NEW r \in Levels[0], NEW q \in Levels[0], r.path = q.path PROVE r = q
    OBVIOUS
  <2>1. PICK d \in Drives : r = [path |-> <<d>>, inode |-> drives[d]]
    BY LevelsFound DEF LevelsFact
  <2>2. PICK e \in Drives : q = [path |-> <<e>>, inode |-> drives[e]]
    BY LevelsFound DEF LevelsFact
  <2>3. <<d>> = <<e>>
    BY <2>1, <2>2
  <2>4. d = e
    BY <2>3
  <2> QED
    BY <2>1, <2>2, <2>4
<1>2. ASSUME NEW k \in Nat, k \in T PROVE k + 1 \in T
  <2> SUFFICES ASSUME k + 1 \in 0 .. MaxDepth,
                      NEW r \in Levels[k + 1], NEW q \in Levels[k + 1], r.path = q.path
               PROVE  r = q
    OBVIOUS
  <2>1. k \in 0 .. MaxDepth /\ k + 1 <= MaxDepth
    BY <1>0
  <2>2. PICK p \in Levels[k] : Child(fs, p, r)
    BY <2>1, LevelsFound DEF LevelsFact
  <2>3. PICK o \in Levels[k] : Child(fs, o, q)
    BY <2>1, LevelsFound DEF LevelsFact
  <2>4. PICK i \in DOMAIN Entries(fs, p.inode) :
              /\ r.inode = Entries(fs, p.inode)[i]
              /\ fs.inodes[r.inode].filename \in Text
              /\ r = [path |-> Append(p.path, fs.inodes[r.inode].filename), inode |-> r.inode]
    BY <2>1, <2>2, ChildFacts
  <2>5. PICK j \in DOMAIN Entries(fs, o.inode) :
              /\ q.inode = Entries(fs, o.inode)[j]
              /\ fs.inodes[q.inode].filename \in Text
              /\ q = [path |-> Append(o.path, fs.inodes[q.inode].filename), inode |-> q.inode]
    BY <2>1, <2>3, ChildFacts
  <2>6. p.path \in Seq(Text) /\ o.path \in Seq(Text)
    BY <2>1, LevelFacts
  <2> DEFINE a == fs.inodes[r.inode].filename
             b == fs.inodes[q.inode].filename
  <2>7. a \in Text /\ b \in Text /\ Append(p.path, a) = Append(o.path, b)
    BY <2>4, <2>5
  <2> HIDE DEF a, b
  <2>8. p.path = o.path /\ a = b
    BY <2>6, <2>7, LastNames
  <2>9. p = o
    BY <1>2, <2>1, <2>8
  <2>10. Good(fs, p.inode)
    BY <2>1, <2>2, ChildFacts
  <2>11. i = j
    <3>1. fs.inodes[Entries(fs, p.inode)[i]].filename = fs.inodes[Entries(fs, p.inode)[j]].filename
      BY <2>4, <2>5, <2>8, <2>9 DEF a, b
    <3> QED
      BY <2>4, <2>5, <2>9, <2>10, <3>1 DEF Good
  <2>12. r.inode = q.inode
    BY <2>4, <2>5, <2>9, <2>11
  <2> QED
    BY <2>4, <2>5, <2>9, <2>12
<1> HIDE DEF T
<1>3. Nat \subseteq T
  BY <1>1, <1>2, Induction
<1>4. \A k \in 0 .. MaxDepth : k \in T
  BY <1>0, <1>3
<1> QED
  BY <1>4 DEF T

\* Entries are younger than the directory they are in.
Later(f) ==
    \A i : Real(f, i) => \A k \in DOMAIN Entries(f, i) : Entries(f, i)[k] > i

RootsApart == \A d, e \in Drives : drives[d] # NULL /\ drives[d] = drives[e] => d = e

\* What a directory's `..` stands for: a root for itself, others for what they are in.
LEMMA RootOnly ==
  ASSUME DInv, ~dotted, Later(fs), NEW d \in Drives, drives[d] # NULL,
         NEW k \in 0 .. MaxDepth, NEW p \in Levels[k], NEW r, Child(fs, p, r)
  PROVE  r.inode # drives[d]
<1> SUFFICES ASSUME r.inode = drives[d] PROVE FALSE
  OBVIOUS
<1>1. FsType(fs) /\ Whole(fs) /\ RootsOk
  BY DEF DInv, FInv
<1>2. Real(fs, drives[d]) /\ First(fs, Entries(fs, drives[d])[2]) = First(fs, drives[d])
  BY <1>1 DEF RootsOk
<1>3. PICK j \in DOMAIN Entries(fs, p.inode) : r.inode = Entries(fs, p.inode)[j]
  BY ChildFacts
<1>4. Real(fs, p.inode) /\ Good(fs, p.inode)
  BY ChildFacts
<1>5. First(fs, Entries(fs, r.inode)[2]) = First(fs, p.inode)
  BY <1>2, <1>3, <1>4 DEF Good
<1>6. p.inode = drives[d]
  BY <1>1, <1>2, <1>4, <1>5 DEF Whole, Real
<1>7. r.inode > p.inode
  BY <1>3, <1>4 DEF Later
<1>8. p.inode \in Nat
  BY <1>1, <1>4, RealFacts, DirFacts
<1> QED
  BY <1>6, <1>7, <1>8

\* A directory is reached in one way only.
LEMMA SameInode ==
  ASSUME DInv, ~dotted, Later(fs), RootsApart
  PROVE  \A k, l \in 0 .. MaxDepth : \A r \in Levels[k], q \in Levels[l] :
            r.inode = q.inode /\ fs.inodes[r.inode].is_dir => r = q /\ k = l
<1> DEFINE One(k, l) == \A r \in Levels[k], q \in Levels[l] :
              r.inode = q.inode /\ fs.inodes[r.inode].is_dir => r = q /\ k = l
           T == {k \in Nat : k \in 0 .. MaxDepth => \A l \in 0 .. MaxDepth : One(k, l)}
<1>0. MaxDepth \in Nat
  BY FilesAssumption
<1>1. ASSUME NEW k \in 0 .. MaxDepth, k # 0, NEW r \in Levels[k]
      PROVE  /\ k - 1 \in 0 .. MaxDepth
             /\ \E p \in Levels[k - 1] : Child(fs, p, r)
  <2>1. k - 1 \in Nat /\ (k - 1) + 1 = k /\ k <= MaxDepth /\ k - 1 \in 0 .. MaxDepth
    BY <1>0, <1>1
  <2>2. r \in Levels[(k - 1) + 1] <=> \E p \in Levels[k - 1] : Child(fs, p, r)
    BY <2>1, LevelsFound DEF LevelsFact
  <2> QED
    BY <2>1, <2>2
<1>2. ASSUME NEW r \in Levels[0]
      PROVE  \E d \in Drives : drives[d] # NULL /\ r = [path |-> <<d>>, inode |-> drives[d]]
  BY LevelsFound DEF LevelsFact
<1>3. ASSUME NEW l \in 0 .. MaxDepth, l # 0, NEW r \in Levels[0], NEW q \in Levels[l] PROVE r.inode # q.inode
  <2>1. PICK d \in Drives : drives[d] # NULL /\ r = [path |-> <<d>>, inode |-> drives[d]]
    BY <1>2
  <2>2. l - 1 \in 0 .. MaxDepth
    BY <1>1, <1>3
  <2>3. PICK p \in Levels[l - 1] : Child(fs, p, q)
    BY <1>1, <1>3
  <2>4. q.inode # drives[d]
    BY <2>1, <2>2, <2>3, RootOnly
  <2> QED
    BY <2>1, <2>4
<1>4. 0 \in T
  <2> SUFFICES ASSUME NEW l \in 0 .. MaxDepth, NEW r \in Levels[0], NEW q \in Levels[l], r.inode = q.inode
               PROVE  r = q /\ 0 = l
    OBVIOUS
  <2>1. l = 0
    BY <1>3
  <2>2. PICK d \in Drives : drives[d] # NULL /\ r = [path |-> <<d>>, inode |-> drives[d]]
    BY <1>2
  <2>3. PICK e \in Drives : drives[e] # NULL /\ q = [path |-> <<e>>, inode |-> drives[e]]
    BY <1>2, <2>1
  <2>4. d = e
    BY <2>2, <2>3 DEF RootsApart
  <2> QED
    BY <2>1, <2>2, <2>3, <2>4
<1>5. ASSUME NEW k \in Nat, k \in T PROVE k + 1 \in T
  <2> SUFFICES ASSUME k + 1 \in 0 .. MaxDepth, NEW l \in 0 .. MaxDepth,
                      NEW r \in Levels[k + 1], NEW q \in Levels[l],
                      r.inode = q.inode, fs.inodes[r.inode].is_dir
               PROVE  r = q /\ k + 1 = l
    OBVIOUS
  <2>1. k \in 0 .. MaxDepth /\ k + 1 # 0 /\ (k + 1) - 1 = k /\ k + 1 <= MaxDepth
    BY <1>0
  <2>2. l # 0
    BY <1>3, <2>1
  <2>3. PICK p \in Levels[k] : Child(fs, p, r)
    BY <1>1, <2>1
  <2>4. l - 1 \in 0 .. MaxDepth
    BY <1>1, <2>2
  <2>5. PICK o \in Levels[l - 1] : Child(fs, o, q)
    BY <1>1, <2>2
  <2>6. Real(fs, r.inode)
    BY LevelFacts
  <2>7. PICK i \in DOMAIN Entries(fs, p.inode) :
           /\ r.inode = Entries(fs, p.inode)[i]
           /\ r = [path |-> Append(p.path, fs.inodes[r.inode].filename), inode |-> r.inode]
    BY <2>1, <2>3, ChildFacts
  <2>8. PICK j \in DOMAIN Entries(fs, o.inode) :
           /\ q.inode = Entries(fs, o.inode)[j]
           /\ q = [path |-> Append(o.path, fs.inodes[q.inode].filename), inode |-> q.inode]
    BY <2>4, <2>5, ChildFacts
  <2>9. Good(fs, p.inode) /\ Real(fs, p.inode) /\ Good(fs, o.inode) /\ Real(fs, o.inode)
    BY <2>1, <2>3, <2>4, <2>5, ChildFacts
  <2>10. First(fs, p.inode) = First(fs, o.inode)
    <3>1. First(fs, Entries(fs, r.inode)[2]) = First(fs, p.inode)
      BY <2>6, <2>7, <2>9 DEF Good
    <3>2. First(fs, Entries(fs, q.inode)[2]) = First(fs, o.inode)
      BY <2>6, <2>8, <2>9 DEF Good
    <3> QED
      BY <3>1, <3>2
  <2>11. p.inode = o.inode
    BY <2>9, <2>10 DEF DInv, Whole, Real
  <2>12. fs.inodes[p.inode].is_dir
    BY <2>9 DEF Real
  <2>13. One(k, l - 1)
    BY <1>5, <2>1, <2>4
  <2>14. p = o /\ k = l - 1
    BY <2>11, <2>12, <2>13
  <2>15. k + 1 = l
    BY <1>0, <2>14
  <2> QED
    BY <2>7, <2>8, <2>14, <2>15
<1> HIDE DEF T
<1>6. Nat \subseteq T
  BY <1>4, <1>5, Induction
<1>7. \A k \in 0 .. MaxDepth : k \in T
  BY <1>0, <1>6
<1> QED
  BY <1>7 DEF T

\* The memory g is f with one entry more in the directory dir, which is `new` and has
\* at most `.` and `..` in it.
GrownBy(f, g, dir, name) ==
    LET new == Len(f.inodes) + 1
    IN  /\ FsType(f) /\ FsType(g) /\ Extends(f, g) /\ Real(f, dir)
        /\ Len(Entries(g, dir)) = Len(Entries(f, dir)) + 1
        /\ Entries(g, dir)[Len(Entries(f, dir)) + 1] = new
        /\ \A i : Real(f, i) /\ i # dir => Len(Entries(g, i)) = Len(Entries(f, i))
        /\ new \in DOMAIN g.inodes
        /\ g.inodes[new].filename = name /\ name \notin {".", ".."} /\ name \in Text
        /\ g.inodes[new].is_dir =>
             \A k \in DOMAIN Entries(g, new) :
                /\ g.inodes[Entries(g, new)[k]].filename \in {".", ".."}
                /\ Entries(g, new)[k] > new
        /\ \A i : Real(g, i) => Real(f, i) \/ i = new

LEMMA FileGrown ==
  ASSUME NEW f, FsType(f), Whole(f), NEW dir, Real(f, dir), HasEnd(f, dir), NEW name \in Text,
         Finds(f, dir, name, NULL), NEW g, FileMade(f, g, dir, name)
  PROVE  GrownBy(f, g, dir, name)
<1> DEFINE n == Len(f.inodes)
<1>1. IsDirectory(f, dir) /\ n \in Nat /\ DOMAIN f.inodes = 1 .. n
  BY RealFacts, FsFacts
<1>2. Kept(f, g) /\ FsType(g) /\ Extends(f, g)
  BY <1>1, FileKeeps, FileWhole DEF Kept
<1>3. /\ Len(g.inodes) = n + 1 /\ Len(g.chains) = Len(f.chains) /\ Grows(f, g, dir)
      /\ g.inodes[n + 1].filename = name /\ ~g.inodes[n + 1].is_dir
  BY DEF FileMade
<1>4. Len(f.chains) <= Len(g.chains)
  BY <1>3, FsFacts
<1>5. /\ Len(Entries(g, dir)) = Len(Entries(f, dir)) + 1
      /\ Entries(g, dir)[Len(Entries(f, dir)) + 1] = n + 1
      /\ \A i : Real(f, i) /\ i # dir => Len(Entries(g, i)) = Len(Entries(f, i))
  BY <1>2, <1>3, <1>4, GrowsExtends
<1>6. name \notin {".", ".."}
  BY NewName
<1>7. n + 1 \in DOMAIN g.inodes /\ DOMAIN g.inodes = 1 .. n + 1
  BY <1>1, <1>2, <1>3, FsFacts
<1>8. ASSUME NEW i, Real(g, i) PROVE Real(f, i) \/ i = n + 1
  <2>1. i \in 1 .. n + 1
    BY <1>7, <1>8 DEF Real
  <2>2. i \in 1 .. n \/ i = n + 1
    BY <1>1, <2>1
  <2> QED
    BY <1>1, <1>2, <1>8, <2>2, ExtendsInode
<1> QED
  BY <1>2, <1>3, <1>5, <1>6, <1>7, <1>8 DEF GrownBy

LEMMA DirGrown ==
  ASSUME NEW f, FsType(f), Whole(f), NEW dir, Real(f, dir), HasEnd(f, dir), NEW name \in Text,
         Finds(f, dir, name, NULL), NEW g, DirMade(f, g, dir, name)
  PROVE  GrownBy(f, g, dir, name) /\ g.inodes[Len(f.inodes) + 1].is_dir
<1> DEFINE n == Len(f.inodes)
           c == Len(f.chains) + 1
<1>1. IsDirectory(f, dir) /\ n \in Nat /\ DOMAIN f.inodes = 1 .. n /\ Len(f.chains) \in Nat
  BY RealFacts, FsFacts
<1>2. Kept(f, g) /\ FsType(g) /\ Extends(f, g)
  BY <1>1, DirKeeps, DirWhole DEF Kept
<1>3. /\ Len(g.inodes) = n + 3 /\ Len(g.chains) = c /\ Grows(f, g, dir)
      /\ NewDirectory(g, n + 1, c, name, First(f, dir))
  BY DEF DirMade
<1>4. Len(f.chains) <= Len(g.chains)
  BY <1>1, <1>3
<1>5. /\ Len(Entries(g, dir)) = Len(Entries(f, dir)) + 1
      /\ Entries(g, dir)[Len(Entries(f, dir)) + 1] = n + 1
      /\ \A i : Real(f, i) /\ i # dir => Len(Entries(g, i)) = Len(Entries(f, i))
  BY <1>2, <1>3, <1>4, GrowsExtends
<1>6. name \notin {".", ".."}
  BY NewName
<1>7. n + 1 \in DOMAIN g.inodes /\ DOMAIN g.inodes = 1 .. n + 3
  BY <1>1, <1>2, <1>3, FsFacts
<1>8. ASSUME NEW i, Real(g, i) PROVE Real(f, i) \/ i = n + 1
  <2>1. i \in 1 .. n + 3 /\ g.inodes[i].filename \notin {".", ".."}
    BY <1>7, <1>8 DEF Real
  <2>2. i \in 1 .. n \/ i = n + 1 \/ i = (n + 1) + 1 \/ i = (n + 1) + 2
    BY <1>1, <2>1
  <2>3. i # (n + 1) + 1 /\ i # (n + 1) + 2
    BY <1>3, <2>1 DEF NewDirectory
  <2> QED
    BY <1>1, <1>2, <1>8, <2>2, <2>3, ExtendsInode
<1>9. /\ g.inodes[n + 1].filename = name /\ g.inodes[n + 1].is_dir
      /\ Entries(g, n + 1) = g.chains[c] /\ Len(g.chains[c]) = 2
      /\ g.chains[c][1] = (n + 1) + 1 /\ g.chains[c][2] = (n + 1) + 2
      /\ g.inodes[(n + 1) + 1].filename = "." /\ g.inodes[(n + 1) + 2].filename = ".."
  BY <1>3 DEF NewDirectory, Entries, First
<1>10. ASSUME NEW k \in DOMAIN Entries(g, n + 1)
       PROVE  /\ g.inodes[Entries(g, n + 1)[k]].filename \in {".", ".."}
              /\ Entries(g, n + 1)[k] > n + 1
  <2>1. IsDirectory(g, n + 1)
    BY <1>7, <1>9 DEF IsDirectory
  <2>2. DOMAIN Entries(g, n + 1) = 1 .. Len(Entries(g, n + 1))
    BY <1>2, <2>1, DirFacts
  <2>3. DOMAIN Entries(g, n + 1) = 1 .. 2
    BY <1>9, <2>2
  <2>4. k = 1 \/ k = 2
    BY <2>3
  <2>5. Entries(g, n + 1)[k] = (n + 1) + 1 \/ Entries(g, n + 1)[k] = (n + 1) + 2
    BY <1>9, <2>4
  <2>6. (n + 1) + 1 > n + 1 /\ (n + 1) + 2 > n + 1
    BY <1>1
  <2> QED
    BY <1>9, <2>5, <2>6
<1> QED
  BY <1>2, <1>5, <1>6, <1>7, <1>8, <1>9, <1>10 DEF GrownBy

\* What is in a directory after another entry was added to some directory.
LEMMA ChildGrown ==
  ASSUME NEW f, NEW g, NEW dir, NEW name, GrownBy(f, g, dir, name),
         NEW p, p.inode \in DOMAIN f.inodes, f.inodes[p.inode].filename \notin {".", ".."}, NEW r
  PROVE  Child(g, p, r) <=>
           \/ Child(f, p, r)
           \/ p.inode = dir /\ r = [path |-> Append(p.path, name), inode |-> Len(f.inodes) + 1]
<1> DEFINE i == p.inode
           new == Len(f.inodes) + 1
<1>1. FsType(f) /\ FsType(g) /\ Extends(f, g) /\ Real(f, dir)
  BY DEF GrownBy
<1>2. g.inodes[i].is_dir = f.inodes[i].is_dir
  BY <1>1, ExtendsInode
<1>3. CASE ~f.inodes[i].is_dir
  BY <1>1, <1>2, <1>3 DEF Child, Real
<1>4. CASE f.inodes[i].is_dir
  <2> DEFINE ef == Entries(f, i)
             eg == Entries(g, i)
             In(h, es, j) == /\ h.inodes[es[j]].filename \notin {".", ".."}
                             /\ r = [path |-> Append(p.path, h.inodes[es[j]].filename), inode |-> es[j]]
  <2>1. Real(f, i)
    BY <1>4 DEF Real
  <2>2. /\ Len(ef) \in Nat /\ Len(eg) \in Nat /\ DOMAIN ef = 1 .. Len(ef) /\ DOMAIN eg = 1 .. Len(eg)
        /\ Len(ef) <= Len(eg)
        /\ \A k \in 1 .. Len(ef) : eg[k] = ef[k] /\ ef[k] \in DOMAIN f.inodes
    BY <1>1, <2>1, ExtendsEntries
  <2>3. /\ Child(g, p, r) <=> \E j \in DOMAIN eg : In(g, eg, j)
        /\ Child(f, p, r) <=> \E j \in DOMAIN ef : In(f, ef, j)
    BY <1>2, <1>4 DEF Child
  <2>4. ASSUME NEW j \in 1 .. Len(ef) PROVE In(g, eg, j) <=> In(f, ef, j)
    <3>1. eg[j] = ef[j] /\ ef[j] \in DOMAIN f.inodes
      BY <2>2
    <3>2. g.inodes[ef[j]].filename = f.inodes[ef[j]].filename
      BY <1>1, <3>1, ExtendsInode
    <3> HIDE DEF ef, eg
    <3> QED
      BY <3>1, <3>2
  <2>5. CASE i # dir
    <3>1. Len(eg) = Len(ef)
      BY <2>1, <2>5 DEF GrownBy
    <3> HIDE DEF ef, eg, In
    <3> QED
      BY <2>2, <2>3, <2>4, <2>5, <3>1
  <2>6. CASE i = dir
    <3>1. Len(eg) = Len(ef) + 1 /\ eg[Len(ef) + 1] = new
      BY <2>6 DEF GrownBy
    <3>2. g.inodes[new].filename = name /\ name \notin {".", ".."}
      BY DEF GrownBy
    <3>3. In(g, eg, Len(ef) + 1) <=> r = [path |-> Append(p.path, name), inode |-> new]
      <4> HIDE DEF ef, eg, new
      <4> QED
        BY <3>1, <3>2
    <3> HIDE DEF ef, eg, In, i
    <3>4. \A j \in 1 .. Len(eg) : j \in 1 .. Len(ef) \/ j = Len(ef) + 1
      BY <2>2, <3>1
    <3>5. \A j \in 1 .. Len(ef) : j \in 1 .. Len(eg)
      BY <2>2, <3>1
    <3>6. Len(ef) + 1 \in 1 .. Len(eg)
      BY <2>2, <3>1
    <3>7. (\E j \in DOMAIN eg : In(g, eg, j)) <=>
             (\E j \in DOMAIN ef : In(f, ef, j)) \/ In(g, eg, Len(ef) + 1)
      BY <2>2, <2>4, <3>4, <3>5, <3>6
    <3> QED
      BY <2>3, <2>6, <3>3, <3>7 DEF i
  <2> QED
    BY <2>5, <2>6
<1>5. f.inodes[i].is_dir \/ ~f.inodes[i].is_dir
  OBVIOUS
<1> QED
  BY <1>3, <1>4, <1>5

\* The new entry has no proper entries.
LEMMA NewChildless ==
  ASSUME NEW f, NEW g, NEW dir, NEW name, GrownBy(f, g, dir, name),
         NEW p, p.inode = Len(f.inodes) + 1, NEW r
  PROVE  ~Child(g, p, r)
  BY DEF GrownBy, Child

\* A new entry is the youngest.
LEMMA LaterGrown ==
  ASSUME NEW f, NEW g, NEW dir, NEW name, GrownBy(f, g, dir, name), Later(f)
  PROVE  Later(g)
<1> DEFINE new == Len(f.inodes) + 1
<1>1. FsType(f) /\ FsType(g) /\ Extends(f, g) /\ Real(f, dir)
  BY DEF GrownBy
<1> SUFFICES ASSUME NEW i, Real(g, i), NEW k \in DOMAIN Entries(g, i) PROVE Entries(g, i)[k] > i
  BY DEF Later
<1>2. CASE i = new
  <2>1. g.inodes[new].is_dir
    BY <1>2 DEF Real
  <2> QED
    BY <1>2, <2>1 DEF GrownBy
<1>3. CASE Real(f, i)
  <2> DEFINE ef == Entries(f, i)
             eg == Entries(g, i)
  <2>2. /\ Len(ef) \in Nat /\ Len(eg) \in Nat /\ DOMAIN ef = 1 .. Len(ef) /\ DOMAIN eg = 1 .. Len(eg)
        /\ \A j \in 1 .. Len(ef) : eg[j] = ef[j]
    BY <1>1, <1>3, ExtendsEntries
  <2>3. \A j \in DOMAIN ef : ef[j] > i
    BY <1>3 DEF Later
  <2>4. i \in 1 .. Len(f.inodes) /\ Len(f.inodes) \in Nat
    BY <1>1, <1>3, FsFacts DEF Real
  <2>5. CASE i # dir
    <3>1. Len(eg) = Len(ef)
      BY <1>3, <2>5 DEF GrownBy
    <3> HIDE DEF ef, eg
    <3>2. eg[k] > i
      BY <2>2, <2>3, <3>1 DEF eg
    <3> QED
      BY <3>2 DEF eg
  <2>6. CASE i = dir
    <3>1. Len(eg) = Len(ef) + 1 /\ eg[Len(ef) + 1] = new
      BY <2>6 DEF GrownBy
    <3>2. k \in 1 .. Len(eg)
      BY <2>2
    <3> HIDE DEF ef, eg
    <3>3. k \in 1 .. Len(ef) \/ k = Len(ef) + 1
      BY <2>2, <3>1, <3>2
    <3>4. new > i
      BY <2>4
    <3> HIDE DEF new
    <3>5. eg[k] > i
      BY <2>2, <2>3, <3>1, <3>3, <3>4
    <3> QED
      BY <3>5 DEF eg
  <2> QED
    BY <2>5, <2>6
<1> QED
  BY <1>2, <1>3 DEF GrownBy

NewRecord(p, name) == [path |-> Append(p.path, name), inode |-> Len(fs.inodes) + 1]

\* The new entry is one record more, on one level.
LEMMA LevelsGrown ==
  ASSUME DInv, ~dotted, Later(fs), RootsApart, drives' = drives,
         NEW dir, NEW name, GrownBy(fs, fs', dir, name),
         NEW m \in Nat, m + 1 <= MaxDepth, NEW o \in Levels[m], o.inode = dir
  PROVE  \A k \in 0 .. MaxDepth : \A r :
            r \in Levels'[k] <=> r \in Levels[k] \/ (k = m + 1 /\ r = NewRecord(o, name))
<1> DEFINE new == NewRecord(o, name)
           Is(k, r) == r \in Levels'[k] <=> r \in Levels[k] \/ (k = m + 1 /\ r = new)
           T == {k \in Nat : k \in 0 .. MaxDepth => \A r : Is(k, r)}
<1>0. MaxDepth \in Nat
  BY FilesAssumption
<1>1. LevelsFact /\ LevelsFact'
  <2>1. LevelsFact'
    BY LevelsFound, PTL
  <2> QED
    BY <2>1, LevelsFound
<1>2. FsType(fs) /\ Real(fs, dir) /\ DOMAIN fs.inodes = 1 .. Len(fs.inodes) /\ Len(fs.inodes) \in Nat
  BY FsFacts DEF GrownBy
<1>3. 0 \in T
  <2> SUFFICES ASSUME NEW r PROVE r \in Levels'[0] <=> r \in Levels[0]
    <3>1. 0 # m + 1
      OBVIOUS
    <3> QED
      BY <3>1
  <2> QED
    BY <1>1 DEF LevelsFact
<1>4. ASSUME NEW k \in Nat, k \in T PROVE k + 1 \in T
  <2> SUFFICES ASSUME k + 1 \in 0 .. MaxDepth, NEW r PROVE Is(k + 1, r)
    OBVIOUS
  <2>1. k \in 0 .. MaxDepth /\ k + 1 <= MaxDepth /\ m \in 0 .. MaxDepth
    BY <1>0
  <2>2. r \in Levels'[k + 1] <=> \E p \in Levels'[k] : Child(fs', p, r)
    BY <1>1, <2>1 DEF LevelsFact
  <2>3. r \in Levels[k + 1] <=> \E p \in Levels[k] : Child(fs, p, r)
    BY <1>1, <2>1 DEF LevelsFact
  <2>4. \A p : p \in Levels'[k] <=> p \in Levels[k] \/ (k = m + 1 /\ p = new)
    BY <1>4, <2>1
  <2>5. ~Child(fs', new, r)
    <3>1. new.inode = Len(fs.inodes) + 1
      BY DEF NewRecord
    <3> QED
      BY <3>1, NewChildless
  <2>6. ASSUME NEW p \in Levels[k]
        PROVE  Child(fs', p, r) <=> Child(fs, p, r) \/ (p.inode = dir /\ r = NewRecord(p, name))
    <3>1. p.inode \in DOMAIN fs.inodes /\ fs.inodes[p.inode].filename \notin {".", ".."}
      BY <2>1, LevelFacts
    <3> QED
      BY <3>1, ChildGrown DEF NewRecord
  <2>7. ASSUME NEW p \in Levels[k], p.inode = dir PROVE p = o /\ k = m
    <3>1. fs.inodes[p.inode].is_dir /\ p.inode = o.inode
      BY <1>2, <2>7 DEF Real
    <3> QED
      BY <2>1, <3>1, SameInode
  <2>8. k = m <=> k + 1 = m + 1
    OBVIOUS
  <2> HIDE DEF new
  <2>9. (\E p \in Levels'[k] : Child(fs', p, r)) <=> (\E p \in Levels[k] : Child(fs', p, r))
    BY <2>4, <2>5
  <2>10. (\E p \in Levels[k] : Child(fs', p, r)) <=>
            (\E p \in Levels[k] : Child(fs, p, r)) \/ (\E p \in Levels[k] : p.inode = dir /\ r = NewRecord(p, name))
    BY <2>6
  <2>11. (\E p \in Levels[k] : p.inode = dir /\ r = NewRecord(p, name)) <=> k = m /\ r = new
    BY <2>7 DEF new
  <2> QED
    BY <2>2, <2>3, <2>8, <2>9, <2>10, <2>11
<1> HIDE DEF T
<1>5. Nat \subseteq T
  BY <1>3, <1>4, Induction
<1>6. \A k \in 0 .. MaxDepth : k \in T
  BY <1>0, <1>5
<1> QED
  BY <1>6 DEF T

\* The tree, element by element.
KindOf(f, i) ==
    IF f.inodes[i].is_dir THEN "dir" ELSE IF f.inodes[i].type = "device" THEN "device" ELSE "file"

Leaf(f, r) == [path |-> r.path, kind |-> KindOf(f, r.inode)]

TreeFact == \A t : t \in Tree <=> \E r \in Reached : t = Leaf(fs, r)

LEMMA TreeFound == TreeFact
<1>1. \A i : Kind(i) = KindOf(fs, i)
  BY DEF Kind, KindOf
<1> QED
  BY <1>1 DEF TreeFact, Tree, Leaf

\* What an inode is does not change.
LEMMA ExtendsKind ==
  ASSUME FsType(fs), Extends(fs, fs'), NEW i \in DOMAIN fs.inodes
  PROVE  KindOf(fs', i) = KindOf(fs, i)
<1>1. DOMAIN fs.inodes = 1 .. Len(fs.inodes)
  BY FsFacts
<1>2. SameBut(fs'.inodes[i], fs.inodes[i])
  BY <1>1 DEF Extends, Kept
<1> QED
  BY <1>2 DEF SameBut, KindOf

\* So the tree has one path more, under a directory that was in it.
LEMMA TreeGrown ==
  ASSUME DInv, ~dotted, ~dotted', Later(fs), RootsApart, drives' = drives,
         NEW dir, NEW name, GrownBy(fs, fs', dir, name), Finds(fs, dir, name, NULL),
         NEW m \in Nat, m + 1 <= MaxDepth, NEW o \in Levels[m], o.inode = dir
  PROVE  Promise!Create
<1> DEFINE new == NewRecord(o, name)
           e == Leaf(fs', new)
<1>0. MaxDepth \in Nat /\ m \in 0 .. MaxDepth /\ m + 1 \in 0 .. MaxDepth
  BY FilesAssumption
<1>1. LevelsFact /\ LevelsFact' /\ TreeFact /\ TreeFact'
  <2>1. LevelsFact' /\ TreeFact'
    BY LevelsFound, TreeFound, PTL
  <2> QED
    BY <2>1, LevelsFound, TreeFound
<1>2. \A r : r \in Reached' <=> r \in Reached \/ r = new
  <2>1. \A k \in 0 .. MaxDepth : \A r : r \in Levels'[k] <=> r \in Levels[k] \/ (k = m + 1 /\ r = new)
    BY LevelsGrown
  <2>2. \A r : r \in Reached' <=> \E k \in 0 .. MaxDepth : r \in Levels'[k]
    BY <1>1 DEF LevelsFact
  <2>3. \A r : r \in Reached <=> \E k \in 0 .. MaxDepth : r \in Levels[k]
    BY <1>1 DEF LevelsFact
  <2> HIDE DEF new
  <2> QED
    BY <1>0, <2>1, <2>2, <2>3
<1>3. \A r \in Reached : Leaf(fs', r) = Leaf(fs, r)
  <2> SUFFICES ASSUME NEW r \in Reached PROVE Leaf(fs', r) = Leaf(fs, r)
    OBVIOUS
  <2>1. PICK k \in 0 .. MaxDepth : r \in Levels[k]
    BY <1>1 DEF LevelsFact
  <2>2. r.inode \in DOMAIN fs.inodes
    BY <2>1, LevelFacts
  <2> QED
    BY <2>2, ExtendsKind DEF GrownBy, Leaf
<1>4. \A t : t \in Tree' <=> \E r \in Reached' : t = Leaf(fs', r)
  BY <1>1 DEF TreeFact
<1>5. \A t : t \in Tree <=> \E r \in Reached : t = Leaf(fs, r)
  BY <1>1 DEF TreeFact
<1>6. \A t : t \in Tree' <=> t \in Tree \/ t = e
  <2> HIDE DEF new
  <2> QED
    BY <1>2, <1>3, <1>4, <1>5
<1>7. o.path \in Seq(Text) /\ Len(o.path) = m + 1 /\ name \in Text
  BY <1>0, LevelFacts DEF GrownBy
<1>8. e.path = Append(o.path, name)
  BY DEF NewRecord, Leaf
<1>9. e.kind \in {"dir", "file", "device"}
  BY DEF KindOf, Leaf
<1>10. ASSUME NEW t \in Tree PROVE t.path # e.path
  <2>1. PICK r \in Reached : t = Leaf(fs, r)
    BY <1>5
  <2>2. PICK k \in 0 .. MaxDepth : r \in Levels[k]
    BY <1>1 DEF LevelsFact
  <2> SUFFICES ASSUME r.path = Append(o.path, name) PROVE FALSE
    BY <1>8, <2>1 DEF Leaf
  <2>3. Len(r.path) = k + 1 /\ Len(r.path) = (m + 1) + 1
    BY <1>7, <2>2, LevelFacts, AppendProperties
  <2>4. k = m + 1
    BY <2>3
  <2>5. PICK p \in Levels[m] : Child(fs, p, r)
    BY <1>1, <2>2, <2>4 DEF LevelsFact
  <2>6. PICK j \in DOMAIN Entries(fs, p.inode) :
              /\ r.inode = Entries(fs, p.inode)[j]
              /\ fs.inodes[r.inode].filename \in Text
              /\ r = [path |-> Append(p.path, fs.inodes[r.inode].filename), inode |-> r.inode]
    BY <1>0, <2>5, ChildFacts
  <2> DEFINE x == fs.inodes[r.inode].filename
  <2>7. Append(p.path, x) = Append(o.path, name) /\ x \in Text /\ p.path \in Seq(Text)
    BY <1>0, <2>6, LevelFacts
  <2> HIDE DEF x
  <2>8. p.path = o.path /\ x = name
    <3> DEFINE s == p.path
               y == o.path
    <3>1. s \in Seq(Text) /\ y \in Seq(Text) /\ x \in Text /\ name \in Text
          /\ Append(s, x) = Append(y, name)
      BY <1>7, <2>7
    <3> HIDE DEF s, y
    <3>2. s = y /\ x = name
      BY <3>1, LastNames
    <3> QED
      BY <3>2 DEF s, y
  <2>9. p = o
    BY <1>0, <2>8, SamePath
  <2>10. \A i \in DOMAIN Entries(fs, dir) : fs.inodes[Entries(fs, dir)[i]].filename # name
    BY NewName DEF DInv, GrownBy
  <2> QED
    BY <2>6, <2>8, <2>9, <2>10 DEF x
<1>11. Promise!Front(e.path) = o.path /\ Len(e.path) > 1
  <2>1. /\ Append(o.path, name) \in Seq(Text) /\ Len(Append(o.path, name)) = Len(o.path) + 1
        /\ \A i \in 1 .. Len(o.path) : Append(o.path, name)[i] = o.path[i]
    BY <1>7, AppendProperties
  <2> DEFINE s == Append(o.path, name)
  <2>2. s \in Seq(Text) /\ Len(s) = (m + 1) + 1 /\ \A i \in 1 .. m + 1 : s[i] = o.path[i]
    BY <1>7, <2>1
  <2> HIDE DEF s
  <2>3. SubSeq(s, 1, Len(s) - 1) = SubSeq(s, 1, m + 1)
    BY <2>2
  <2>4. /\ SubSeq(s, 1, m + 1) \in Seq(Text) /\ Len(SubSeq(s, 1, m + 1)) = m + 1
        /\ \A i \in 1 .. m + 1 : SubSeq(s, 1, m + 1)[i] = s[i]
    BY <2>2
  <2>5. SubSeq(s, 1, m + 1) = o.path
    BY <1>7, <2>2, <2>4, SeqEqual
  <2>6. Promise!Front(s) = SubSeq(s, 1, Len(s) - 1)
    BY DEF Promise!Front
  <2>7. Len(s) > 1
    BY <2>2
  <2> QED
    BY <1>8, <2>3, <2>5, <2>6, <2>7 DEF s
<1>12. [path |-> o.path, kind |-> "dir"] \in Tree
  <2>1. o \in Reached
    BY <1>0, <1>1 DEF LevelsFact
  <2>2. KindOf(fs, o.inode) = "dir"
    BY DEF KindOf, GrownBy, Real
  <2> QED
    BY <1>5, <2>1, <2>2 DEF Leaf
<1> HIDE DEF e
<1>13. e \in Tree' \ Tree /\ Tree' = Tree \union {e}
  BY <1>6, <1>10
<1>14. e.path \notin Promise!Known
  BY <1>10 DEF Promise!Known
<1> QED
  BY <1>9, <1>11, <1>12, <1>13, <1>14 DEF Promise!Create, Promise!Kinds

\* What was there is as it was: names, kinds and entries.
Unmoved(f, g) ==
    \A i \in DOMAIN f.inodes :
        /\ i \in DOMAIN g.inodes
        /\ g.inodes[i].filename = f.inodes[i].filename /\ g.inodes[i].is_dir = f.inodes[i].is_dir
        /\ g.inodes[i].type = f.inodes[i].type /\ First(g, i) = First(f, i)
        /\ f.inodes[i].is_dir => Entries(g, i) = Entries(f, i)

LEMMA WrittenUnmoved ==
  ASSUME NEW f, FsType(f), NEW g, FsType(g), NEW i, NEW n, NEW v, Written(f, g, i, n, v)
  PROVE  Unmoved(f, g) /\ \A j : Real(g, j) => Real(f, j)
<1>1. DOMAIN g.inodes = DOMAIN f.inodes /\ g.chains = f.chains
  BY FsFacts DEF Written
<1>2. \A j \in DOMAIN f.inodes : SameDir(g.inodes[j], f.inodes[j])
  BY FsFacts DEF Written, SameDir
<1>3. \A j \in DOMAIN f.inodes : First(g, j) = First(f, j) /\ Entries(g, j) = Entries(f, j)
  BY <1>1, <1>2 DEF First, Entries, SameDir
<1>4. \A j : Real(g, j) => Real(f, j)
  BY <1>1, <1>2 DEF Real, SameDir
<1> QED
  BY <1>1, <1>2, <1>3, <1>4 DEF Unmoved, SameDir

LEMMA DriveUnmoved ==
  ASSUME NEW f, FsType(f), NEW g, DriveMade(f, g)
  PROVE  Unmoved(f, g)
<1>1. Kept(f, g) /\ FsType(g)
  BY DriveKeeps DEF Kept
<1>2. /\ Len(f.inodes) \in Nat /\ DOMAIN f.inodes = 1 .. Len(f.inodes)
      /\ DOMAIN g.inodes = 1 .. Len(f.inodes) + 3
  BY <1>1, FsFacts DEF DriveMade
<1>3. /\ \A i \in 1 .. Len(f.inodes) : g.inodes[i] = f.inodes[i]
      /\ \A k \in 1 .. Len(f.chains) : g.chains[k] = f.chains[k]
  BY DEF DriveMade
<1> SUFFICES ASSUME NEW i \in DOMAIN f.inodes
             PROVE  /\ i \in DOMAIN g.inodes /\ g.inodes[i] = f.inodes[i]
                    /\ f.inodes[i].is_dir => Entries(g, i) = Entries(f, i)
  BY DEF Unmoved, First
<1>4. i \in DOMAIN g.inodes /\ g.inodes[i] = f.inodes[i]
  BY <1>2, <1>3
<1>5. ASSUME f.inodes[i].is_dir PROVE Entries(g, i) = Entries(f, i)
  <2>1. IsDirectory(f, i)
    BY <1>5 DEF IsDirectory
  <2>2. First(f, i) \in 1 .. Len(f.chains)
    BY <2>1, DirFacts, FsFacts
  <2> QED
    BY <1>3, <1>4, <2>2 DEF Entries, First
<1> QED
  BY <1>4, <1>5

\* So its entries are the ones it had.
LEMMA ChildUnmoved ==
  ASSUME NEW f, FsType(f), NEW g, Unmoved(f, g), NEW p, p.inode \in DOMAIN f.inodes, NEW r
  PROVE  Child(g, p, r) <=> Child(f, p, r)
<1> DEFINE i == p.inode
<1>1. g.inodes[i].is_dir = f.inodes[i].is_dir /\ (f.inodes[i].is_dir => Entries(g, i) = Entries(f, i))
  BY DEF Unmoved
<1>2. CASE ~f.inodes[i].is_dir
  BY <1>1, <1>2 DEF Child
<1>3. CASE f.inodes[i].is_dir
  <2>1. IsDirectory(f, i)
    BY <1>3 DEF IsDirectory
  <2>2. \A j \in DOMAIN Entries(f, i) : Entries(f, i)[j] \in DOMAIN f.inodes
    BY <2>1, DirFacts
  <2>3. \A j \in DOMAIN Entries(f, i) :
           g.inodes[Entries(f, i)[j]].filename = f.inodes[Entries(f, i)[j]].filename
    BY <2>2 DEF Unmoved
  <2> QED
    BY <1>1, <1>3, <2>3 DEF Child
<1>4. f.inodes[i].is_dir \/ ~f.inodes[i].is_dir
  OBVIOUS
<1> QED
  BY <1>2, <1>3, <1>4

\* The levels with new roots, which have no entries yet.
LEMMA LevelsRooted ==
  ASSUME DInv, ~dotted, Unmoved(fs, fs'), NEW N,
         \A r : r \in Levels'[0] <=> r \in Levels[0] \/ r \in N,
         \A p \in N : \A r : ~Child(fs', p, r)
  PROVE  \A k \in 0 .. MaxDepth : \A r : r \in Levels'[k] <=> r \in Levels[k] \/ (k = 0 /\ r \in N)
<1> DEFINE Is(k, r) == r \in Levels'[k] <=> r \in Levels[k] \/ (k = 0 /\ r \in N)
           T == {k \in Nat : k \in 0 .. MaxDepth => \A r : Is(k, r)}
<1>0. MaxDepth \in Nat
  BY FilesAssumption
<1>1. LevelsFact /\ LevelsFact'
  <2>1. LevelsFact'
    BY LevelsFound, PTL
  <2> QED
    BY <2>1, LevelsFound
<1>2. FsType(fs)
  BY DEF DInv, FInv
<1>3. 0 \in T
  OBVIOUS
<1>4. ASSUME NEW k \in Nat, k \in T PROVE k + 1 \in T
  <2> SUFFICES ASSUME k + 1 \in 0 .. MaxDepth, NEW r PROVE Is(k + 1, r)
    OBVIOUS
  <2>1. k \in 0 .. MaxDepth /\ k + 1 <= MaxDepth /\ k + 1 # 0
    BY <1>0
  <2>2. r \in Levels'[k + 1] <=> \E p \in Levels'[k] : Child(fs', p, r)
    BY <1>1, <2>1 DEF LevelsFact
  <2>3. r \in Levels[k + 1] <=> \E p \in Levels[k] : Child(fs, p, r)
    BY <1>1, <2>1 DEF LevelsFact
  <2>4. \A p : p \in Levels'[k] <=> p \in Levels[k] \/ (k = 0 /\ p \in N)
    BY <1>4, <2>1
  <2>5. ASSUME NEW p \in Levels[k] PROVE Child(fs', p, r) <=> Child(fs, p, r)
    <3>1. p.inode \in DOMAIN fs.inodes
      BY <2>1, LevelFacts
    <3> QED
      BY <1>2, <3>1, ChildUnmoved
  <2>6. (\E p \in Levels'[k] : Child(fs', p, r)) <=> (\E p \in Levels[k] : Child(fs, p, r))
    BY <2>4, <2>5
  <2> QED
    BY <2>1, <2>2, <2>3, <2>6
<1> HIDE DEF T
<1>5. Nat \subseteq T
  BY <1>3, <1>4, Induction
<1>6. \A k \in 0 .. MaxDepth : k \in T
  BY <1>0, <1>5
<1> QED
  BY <1>6 DEF T

LEMMA LevelsSame ==
  ASSUME DInv, ~dotted, Unmoved(fs, fs'), drives' = drives
  PROVE  \A k \in 0 .. MaxDepth : \A r : r \in Levels'[k] <=> r \in Levels[k]
<1>1. LevelsFact /\ LevelsFact'
  <2>1. LevelsFact'
    BY LevelsFound, PTL
  <2> QED
    BY <2>1, LevelsFound
<1>2. \A r : r \in Levels'[0] <=> r \in Levels[0]
  BY <1>1 DEF LevelsFact
<1> DEFINE N == {}
<1>3. \A r : r \in Levels'[0] <=> r \in Levels[0] \/ r \in N
  BY <1>2
<1>4. \A p \in N : \A r : ~Child(fs', p, r)
  OBVIOUS
<1> HIDE DEF N
<1>5. \A k \in 0 .. MaxDepth : \A r : r \in Levels'[k] <=> r \in Levels[k] \/ (k = 0 /\ r \in N)
  BY <1>3, <1>4, LevelsRooted
<1> QED
  BY <1>5 DEF N

\* What the records of the old levels stand for in the new memory.
LEMMA LeavesSame ==
  ASSUME DInv, ~dotted, Unmoved(fs, fs')
  PROVE  \A r \in Reached : Leaf(fs', r) = Leaf(fs, r)
<1> SUFFICES ASSUME NEW r \in Reached PROVE Leaf(fs', r) = Leaf(fs, r)
  OBVIOUS
<1>1. PICK k \in 0 .. MaxDepth : r \in Levels[k]
  BY LevelsFound DEF LevelsFact
<1>2. r.inode \in DOMAIN fs.inodes
  BY <1>1, LevelFacts
<1> QED
  BY <1>2 DEF Unmoved, Leaf, KindOf

\* The tree is the same if nothing was moved and no drive was added.
LEMMA TreeSame ==
  ASSUME DInv, ~dotted, Unmoved(fs, fs'), drives' = drives
  PROVE  Tree' = Tree
<1>1. LevelsFact /\ LevelsFact' /\ TreeFact /\ TreeFact'
  <2>1. LevelsFact' /\ TreeFact'
    BY LevelsFound, TreeFound, PTL
  <2> QED
    BY <2>1, LevelsFound, TreeFound
<1>2. \A k \in 0 .. MaxDepth : \A r : r \in Levels'[k] <=> r \in Levels[k]
  BY LevelsSame
<1>3. \A r : r \in Reached' <=> r \in Reached
  BY <1>1, <1>2 DEF LevelsFact
<1>4. \A r \in Reached : Leaf(fs', r) = Leaf(fs, r)
  BY LeavesSame
<1>5. \A t : t \in Tree' <=> t \in Tree
  BY <1>1, <1>3, <1>4 DEF TreeFact
<1> QED
  BY <1>5

\* A new drive is one path more, of one name.
LEMMA TreeMounted ==
  ASSUME DInv, ~dotted, ~dotted', DriveMade(fs, fs'), NEW d \in Drives, drives[d] = NULL,
         drives' = [drives EXCEPT ![d] = Len(fs.inodes) + 1]
  PROVE  Promise!Mount
<1> DEFINE i == Len(fs.inodes) + 1
           new == [path |-> <<d>>, inode |-> i]
           e == [path |-> <<d>>, kind |-> "dir"]
<1>0. /\ MaxDepth \in Nat /\ 0 \in 0 .. MaxDepth /\ FsType(fs) /\ DOMAIN drives = Drives
      /\ i \in Nat \ {0}
  <2>1. FsType(fs) /\ DOMAIN drives = Drives
    BY DEF DInv, FInv, Pointers
  <2>2. MaxDepth \in Nat /\ Len(fs.inodes) \in Nat
    BY <2>1, FsFacts, FilesAssumption
  <2> QED
    BY <2>1, <2>2
<1>1. LevelsFact /\ LevelsFact' /\ TreeFact /\ TreeFact'
  <2>1. LevelsFact' /\ TreeFact'
    BY LevelsFound, TreeFound, PTL
  <2> QED
    BY <2>1, LevelsFound, TreeFound
<1>2. Unmoved(fs, fs')
  BY <1>0, DriveUnmoved
<1>3. /\ fs'.inodes[i].is_dir /\ First(fs', i) = Len(fs.chains) + 1
      /\ Len(Entries(fs', i)) = 2
      /\ fs'.inodes[Entries(fs', i)[1]].filename = "." /\ fs'.inodes[Entries(fs', i)[2]].filename = ".."
  BY DEF DriveMade, NewDirectory, Entries, First
<1>4. ASSUME NEW r PROVE ~Child(fs', new, r)
  <2>1. FsType(fs') /\ i \in DOMAIN fs'.inodes
    <3>1. Kept(fs, fs') /\ FsType(fs')
      BY <1>0, DriveKeeps DEF Kept
    <3>2. DOMAIN fs'.inodes = 1 .. Len(fs.inodes) + 3 /\ Len(fs.inodes) \in Nat
      BY <1>0, <3>1, FsFacts DEF DriveMade
    <3> QED
      BY <3>1, <3>2
  <2>2. IsDirectory(fs', i)
    BY <1>3, <2>1 DEF IsDirectory
  <2>3. DOMAIN Entries(fs', i) = 1 .. 2
    BY <1>3, <2>1, <2>2, DirFacts
  <2>4. \A j \in DOMAIN Entries(fs', i) : fs'.inodes[Entries(fs', i)[j]].filename \in {".", ".."}
    <3> TAKE j \in DOMAIN Entries(fs', i)
    <3>1. j = 1 \/ j = 2
      BY <2>3
    <3> QED
      BY <1>3, <3>1
  <2>5. new.inode = i
    OBVIOUS
  <2> QED
    BY <2>4, <2>5 DEF Child
<1>5. \A r : r \in Levels'[0] <=> r \in Levels[0] \/ r \in {new}
  <2>1. \A r : r \in Levels'[0] <=>
          \E x \in Drives : drives'[x] # NULL /\ r = [path |-> <<x>>, inode |-> drives'[x]]
    BY <1>1 DEF LevelsFact
  <2>2. \A r : r \in Levels[0] <=>
          \E x \in Drives : drives[x] # NULL /\ r = [path |-> <<x>>, inode |-> drives[x]]
    BY <1>1 DEF LevelsFact
  <2>3. drives'[d] = i /\ \A x \in Drives : x # d => drives'[x] = drives[x]
    BY <1>0
  <2>4. i # NULL
    BY <1>0 DEF NULL
  <2> HIDE DEF i
  <2> QED
    BY <2>1, <2>2, <2>3, <2>4
<1>6. \A p \in {new} : \A r : ~Child(fs', p, r)
  BY <1>4
<1> HIDE DEF new
<1>7. \A k \in 0 .. MaxDepth : \A r : r \in Levels'[k] <=> r \in Levels[k] \/ (k = 0 /\ r \in {new})
  BY <1>2, <1>5, <1>6, LevelsRooted
<1>8. \A r : r \in Reached' <=> r \in Reached \/ r = new
  <2>1. \A r : r \in Reached' <=> \E k \in 0 .. MaxDepth : r \in Levels'[k]
    BY <1>1 DEF LevelsFact
  <2>2. \A r : r \in Reached <=> \E k \in 0 .. MaxDepth : r \in Levels[k]
    BY <1>1 DEF LevelsFact
  <2> QED
    BY <1>0, <1>7, <2>1, <2>2
<1>9. \A r \in Reached : Leaf(fs', r) = Leaf(fs, r)
  BY <1>2, LeavesSame
<1>10. Leaf(fs', new) = e
  BY <1>3 DEF Leaf, KindOf, new
<1>11. \A t : t \in Tree' <=> t \in Tree \/ t = e
  <2>1. \A t : t \in Tree' <=> \E r \in Reached' : t = Leaf(fs', r)
    BY <1>1 DEF TreeFact
  <2>2. \A t : t \in Tree <=> \E r \in Reached : t = Leaf(fs, r)
    BY <1>1 DEF TreeFact
  <2> HIDE DEF e
  <2> QED
    BY <1>8, <1>9, <1>10, <2>1, <2>2
<1>12. ASSUME NEW t \in Tree PROVE t.path # <<d>>
  <2>1. PICK r \in Reached : t = Leaf(fs, r)
    BY <1>1 DEF TreeFact
  <2>2. PICK k \in 0 .. MaxDepth : r \in Levels[k]
    BY <1>1 DEF LevelsFact
  <2> SUFFICES ASSUME r.path = <<d>> PROVE FALSE
    BY <2>1 DEF Leaf
  <2>3. Len(r.path) = k + 1 /\ Len(r.path) = 1
    BY <2>2, LevelFacts
  <2>4. r \in Levels[0]
    BY <2>2, <2>3
  <2>5. PICK x \in Drives : drives[x] # NULL /\ r = [path |-> <<x>>, inode |-> drives[x]]
    BY <1>1, <2>4 DEF LevelsFact
  <2>6. <<x>> = <<d>>
    BY <2>5
  <2>7. x = d
    BY <2>6
  <2> QED
    BY <2>5, <2>7
<1>13. e.path = <<d>> /\ e.kind = "dir" /\ Len(e.path) = 1
  OBVIOUS
<1> HIDE DEF e
<1>14. e \in Tree' \ Tree /\ Tree' = Tree \union {e} /\ e.path \notin Promise!Known
  BY <1>11, <1>12, <1>13 DEF Promise!Known
<1> QED
  BY <1>13, <1>14 DEF Promise!Mount

\* A drive is mounted once: D first, R with the third step.
Mounted ==
    \A d \in Drives : drives[d] # NULL => (d = "D" /\ boot >= 1) \/ (d = "R" /\ boot >= 3)

\* Which steps of the boot mount a drive.
LEMMA ScriptMounts ==
  ASSUME NEW k \in 1 .. Len(Script), Script[k].op = "mount"
  PROVE  (k = 1 /\ Script[k].drive = "D") \/ (k = 3 /\ Script[k].drive = "R")
<1> DEFINE a == <<Mount("D"), Device("devzero"), Mount("R")>>
           b == [j \in DOMAIN Archive |-> Unpack(Archive[j])]
           c == <<Device("stdin"), Device("fb0"), Device("fbinfo0"),
                  Stream("stdin", 0, "none", "readonly"),
                  Stream("stdout", 1, "creatall", "readwrite"),
                  Stream("stderr", 2, "creatall", "readwrite")>>
           NotMounts == {s \in Steps : s.op # "mount"}
<1>1. /\ \A name : Device(name).op # "mount"
      /\ \A name, fd, flags, mode : Stream(name, fd, flags, mode).op # "mount"
      /\ \A e : Unpack(e).op # "mount"
      /\ \A d : Mount(d).op = "mount" /\ Mount(d).drive = d
  BY DEF Device, Stream, Unpack, Mount
<1>2. a \in Seq(Steps) /\ Len(a) = 3 /\ a[1] = Mount("D") /\ a[2] = Device("devzero") /\ a[3] = Mount("R")
  <2>1. {Mount("D"), Device("devzero"), Mount("R")} \subseteq Steps
    BY DEF Steps
  <2> QED
    BY <2>1
<1>3. b \in Seq(NotMounts)
  <2>1. Archive \in Seq([names : Seq(STRING), size : Nat, type : STRING])
    BY FilesAssumption
  <2>2. DOMAIN Archive = 1 .. Len(Archive) /\ Len(Archive) \in Nat
    BY <2>1, LenProperties
  <2>3. \A j \in DOMAIN Archive : Unpack(Archive[j]) \in NotMounts
    BY <1>1 DEF Steps
  <2>4. b \in [1 .. Len(Archive) -> NotMounts]
    BY <2>2, <2>3
  <2> HIDE DEF b, NotMounts
  <2> QED
    BY <2>2, <2>4, SeqDef
<1>4. c \in Seq(NotMounts)
  <2>1. {Device("stdin"), Device("fb0"), Device("fbinfo0"),
         Stream("stdin", 0, "none", "readonly"),
         Stream("stdout", 1, "creatall", "readwrite"),
         Stream("stderr", 2, "creatall", "readwrite")} \subseteq NotMounts
    BY <1>1 DEF Steps
  <2> HIDE DEF NotMounts
  <2> QED
    BY <2>1
<1>5. Script = (a \o b) \o c
  BY DEF Script
<1>6. NotMounts \subseteq Steps
  OBVIOUS
<1> HIDE DEF a, b, c, NotMounts
<1>7. b \in Seq(Steps) /\ c \in Seq(Steps)
  BY <1>3, <1>4, <1>6
<1>8. /\ a \o b \in Seq(Steps) /\ Len(a \o b) = 3 + Len(b)
      /\ \A j \in 1 .. 3 + Len(b) : (a \o b)[j] = IF j <= 3 THEN a[j] ELSE b[j - 3]
  <2>1. /\ a \o b \in Seq(Steps) /\ Len(a \o b) = Len(a) + Len(b)
        /\ \A j \in 1 .. Len(a) + Len(b) :
             (a \o b)[j] = IF j <= Len(a) THEN a[j] ELSE b[j - Len(a)]
    BY <1>2, <1>7, ConcatProperties
  <2> QED
    BY <1>2, <2>1
<1>9. /\ Len(Script) = (3 + Len(b)) + Len(c)
      /\ \A j \in 1 .. (3 + Len(b)) + Len(c) :
           Script[j] = IF j <= 3 + Len(b) THEN (a \o b)[j] ELSE c[j - (3 + Len(b))]
  <2> DEFINE ab == a \o b
  <2>1. ab \in Seq(Steps) /\ Len(ab) = 3 + Len(b)
    BY <1>8
  <2>2. Script = ab \o c
    BY <1>5
  <2> HIDE DEF ab
  <2>3. /\ Len(ab \o c) = Len(ab) + Len(c)
        /\ \A j \in 1 .. Len(ab) + Len(c) :
             (ab \o c)[j] = IF j <= Len(ab) THEN ab[j] ELSE c[j - Len(ab)]
    <3>1. ab \in Seq(Steps) /\ c \in Seq(Steps)
      BY <1>7, <2>1
    <3> QED
      BY ONLY <3>1, ConcatProperties
  <2>4. /\ Len(Script) = Len(ab) + Len(c)
        /\ \A j \in 1 .. Len(ab) + Len(c) :
             Script[j] = IF j <= Len(ab) THEN ab[j] ELSE c[j - Len(ab)]
    BY <2>2, <2>3, Zenon
  <2> QED
    BY <2>1, <2>4 DEF ab
<1>10. Len(b) \in Nat /\ Len(c) \in Nat
  BY <1>7, LenProperties
<1>11. CASE k > 3 + Len(b)
  <2>1. Script[k] = c[k - (3 + Len(b))] /\ k - (3 + Len(b)) \in 1 .. Len(c)
    BY <1>9, <1>10, <1>11
  <2>2. c[k - (3 + Len(b))] \in NotMounts
    BY <1>4, <2>1, ElementOfSeq
  <2> QED
    BY <2>1, <2>2 DEF NotMounts
<1>12. CASE k > 3 /\ k <= 3 + Len(b)
  <2>1. Script[k] = b[k - 3] /\ k - 3 \in 1 .. Len(b)
    BY <1>8, <1>9, <1>10, <1>12
  <2>2. b[k - 3] \in NotMounts
    BY <1>3, <2>1, ElementOfSeq
  <2> QED
    BY <2>1, <2>2 DEF NotMounts
<1>13. CASE k <= 3
  <2>1. k \in 1 .. 3 /\ Script[k] = a[k]
    BY <1>8, <1>9, <1>10, <1>13
  <2>2. k # 2
    BY <1>1, <1>2, <2>1
  <2>3. k = 1 \/ k = 3
    BY <2>1, <2>2
  <2> QED
    BY <1>1, <1>2, <2>1, <2>3
<1>14. k > 3 + Len(b) \/ (k > 3 /\ k <= 3 + Len(b)) \/ k <= 3
  BY <1>9, <1>10
<1> QED
  BY <1>11, <1>12, <1>13, <1>14

LEMMA NextMount ==
  ASSUME FInv, ~Booted, Now.op = "mount"
  PROVE  (boot = 0 /\ Now.drive = "D") \/ (boot = 2 /\ Now.drive = "R")
<1>1. boot \in 0 .. Len(Script) /\ boot # Len(Script) /\ Len(Script) \in Nat
  BY ScriptSteps DEF FInv, Booted
<1>2. boot + 1 \in 1 .. Len(Script)
  BY <1>1
<1>3. (boot + 1 = 1 /\ Script[boot + 1].drive = "D") \/ (boot + 1 = 3 /\ Script[boot + 1].drive = "R")
  BY <1>2, ScriptMounts DEF Now
<1> QED
  BY <1>1, <1>3 DEF Now

\* The paths of the boot are no deeper than the bound.
LEMMA NowDepth ==
  ASSUME FInv, ~Booted, Now.op # "mount"
  PROVE  Len(Now.path.names) <= MaxDepth
<1>0. MaxDepth \in Nat /\ MaxDepth > 0
  BY FilesAssumption
<1>1. Script \in Seq(Steps) /\ Len(Script) \in Nat
  BY ScriptSteps
<1>2. boot + 1 \in 1 .. Len(Script)
  BY <1>1 DEF FInv, Booted
<1>3. Script[boot + 1] \in Steps
  BY <1>1, <1>2, ElementOfSeq
<1> DEFINE Deep(s) == s.op # "mount" => Len(s.path.names) <= MaxDepth
<1>4. \A d : Deep(Mount(d))
  BY DEF Mount
<1>5. \A name : Deep(Device(name))
  <2> TAKE name
  <2>1. Device(name).path.names = <<name>>
    BY DEF Device
  <2> QED
    BY <1>0, <2>1
<1>6. \A name, fd, flags, mode : Deep(Stream(name, fd, flags, mode))
  <2> TAKE name, fd, flags, mode
  <2>1. Stream(name, fd, flags, mode).path.names = <<name>>
    BY DEF Stream
  <2> QED
    BY <1>0, <2>1
<1>7. \A k \in DOMAIN Archive : Deep(Unpack(Archive[k]))
  <2> TAKE k \in DOMAIN Archive
  <2>1. Unpack(Archive[k]).path.names = Archive[k].names
    BY DEF Unpack
  <2> QED
    BY <2>1, FilesAssumption
<1> HIDE DEF Deep
<1>8. Deep(Script[boot + 1])
  BY <1>3, <1>4, <1>5, <1>6, <1>7 DEF Steps
<1> QED
  BY <1>8 DEF Deep, Now

\* The boot never goes back.
LEMMA BootForward == ASSUME FInv, [Next]_vars PROVE boot' = boot \/ boot' = boot + 1
  BY NextSplit DEF WalkStep, walk_ends, walk_dir_found, walk_dir_created, walk_fails, walk_file_found,
       walk_file_created, walk_astray, Rest, BootStep, mount, create_device, create_device_returns,
       unpack_skips, unpack_opens, unpack_returns, stream_opens, stream_returns,
       CallStep, syscall_open, syscall_open_returns, syscall_close, syscall_write, syscall_read, vars

\* Mounting is all that changes the drives.
LEMMA DrivesStep ==
  ASSUME FInv, [Next]_vars
  PROVE  \/ drives' = drives
         \/ /\ mount /\ ~Booted /\ Now.op = "mount" /\ fs' = tempfs_new(fs) /\ boot' = boot + 1
            /\ drives' = [drives EXCEPT ![Now.drive] = Len(fs.inodes) + 1] /\ dotted' = dotted
            /\ walk' = Idle
<1>1. CASE mount
  BY <1>1 DEF mount, BootAt, Ready
<1>2. CASE ~mount
  BY <1>2, NextSplit DEF WalkStep, walk_ends, walk_dir_found, walk_dir_created, walk_fails, walk_file_found,
       walk_file_created, walk_astray, Rest, BootStep, create_device, create_device_returns,
       unpack_skips, unpack_opens, unpack_returns, stream_opens, stream_returns,
       CallStep, syscall_open, syscall_open_returns, syscall_close, syscall_write, syscall_read, vars
<1> QED
  BY <1>1, <1>2

\* So the drive to be mounted is not there, and drives do not share a root.
LEMMA MountedStep ==
  ASSUME FInv, Mounted, RootsApart, [Next]_vars
  PROVE  /\ Mounted' /\ RootsApart'
         /\ drives' # drives => Now.drive \in Drives /\ drives[Now.drive] = NULL
<1>1. boot \in Nat
  BY ScriptSteps DEF FInv
<1>2. boot' = boot \/ boot' = boot + 1
  BY BootForward
<1>3. CASE drives' = drives
  BY <1>1, <1>2, <1>3 DEF Mounted, RootsApart
<1>4. CASE /\ ~Booted /\ Now.op = "mount" /\ boot' = boot + 1
           /\ drives' = [drives EXCEPT ![Now.drive] = Len(fs.inodes) + 1]
  <2>1. (boot = 0 /\ Now.drive = "D") \/ (boot = 2 /\ Now.drive = "R")
    BY <1>4, NextMount
  <2> DEFINE x == Now.drive
             n == Len(fs.inodes)
  <2>2. x \in Drives
    BY <1>4, BootNext DEF StepOk
  <2>3. n \in Nat /\ drives \in [Drives -> 0 .. n]
    BY FsFacts DEF FInv, Pointers
  <2>4. drives'[x] = n + 1 /\ \A d \in Drives : d # x => drives'[d] = drives[d]
    BY <1>4, <2>2, <2>3
  <2>5. \A d \in Drives : drives[d] # n + 1
    BY <2>3
  <2> HIDE DEF n
  <2>6. RootsApart'
    BY <2>4, <2>5 DEF RootsApart
  <2>7. drives[x] = NULL
    BY <2>1, <2>2 DEF Mounted
  <2>8. Mounted'
    BY <1>1, <1>4, <2>1, <2>4 DEF Mounted
  <2> QED
    BY <2>2, <2>6, <2>7, <2>8
<1> QED
  BY <1>3, <1>4, DrivesStep

\* A directory's chain is that of something reached, with room for n names more.
Place(f, levels, dir, n) ==
    \E k \in Nat : \E r \in levels[k] :
        k + n <= MaxDepth /\ Real(f, r.inode) /\ First(f, dir) = First(f, r.inode)

\* The walk stands at something reached, however it came there.
WalkPlace == walk.at = "walking" /\ walk.obj # NULL => Place(fs, Levels, walk.obj, Len(walk.rest))

\* The same place, with the same memory.
LEMMA PlaceSame ==
  ASSUME DInv, ~dotted, fs' = fs, drives' = drives, NEW dir, NEW n \in Nat, Place(fs, Levels, dir, n)
  PROVE  Place(fs', Levels', dir, n)
<1>0. MaxDepth \in Nat
  BY FilesAssumption
<1>1. PICK k \in Nat : \E r \in Levels[k] :
         k + n <= MaxDepth /\ Real(fs, r.inode) /\ First(fs, dir) = First(fs, r.inode)
  BY DEF Place
<1>2. k \in 0 .. MaxDepth
  BY <1>0, <1>1
<1>3. Unmoved(fs, fs')
  BY DEF Unmoved
<1>4. \A r : r \in Levels'[k] <=> r \in Levels[k]
  BY <1>2, <1>3, LevelsSame
<1>5. \E r \in Levels'[k] :
         k + n <= MaxDepth /\ Real(fs, r.inode) /\ First(fs, dir) = First(fs, r.inode)
  BY <1>1, <1>4
<1>6. Place(fs, Levels', dir, n)
  BY <1>5 DEF Place
<1> QED
  BY <1>6

\* The entry that is found leads to a place, be it `.`, `..` or a proper one.
LEMMA PlaceFound ==
  ASSUME DInv, ~dotted, NEW n \in Nat, n >= 1, NEW dir, Place(fs, Levels, dir, n),
         NEW name, NEW i, i # NULL, Finds(fs, dir, name, i), fs.inodes[i].is_dir
  PROVE  Place(fs, Levels, i, n - 1)
<1>0. MaxDepth \in Nat /\ FsType(fs) /\ Whole(fs) /\ RootsOk
  BY FilesAssumption DEF DInv, FInv
<1>1. PICK k \in Nat : \E r \in Levels[k] :
         k + n <= MaxDepth /\ Real(fs, r.inode) /\ First(fs, dir) = First(fs, r.inode)
  BY DEF Place
<1>2. PICK r \in Levels[k] :
         k + n <= MaxDepth /\ Real(fs, r.inode) /\ First(fs, dir) = First(fs, r.inode)
  BY <1>1
<1>3. k \in 0 .. MaxDepth /\ k + 1 <= MaxDepth /\ n - 1 \in Nat /\ k + (n - 1) <= MaxDepth
      /\ (k + 1) + (n - 1) <= MaxDepth
  BY <1>0, <1>2
<1> DEFINE es == Entries(fs, r.inode)
<1>4. es = Entries(fs, dir)
  BY <1>2 DEF Entries
<1>5. /\ Len(es) \in Nat /\ DOMAIN es = 1 .. Len(es) /\ \A j \in DOMAIN es : es[j] \in DOMAIN fs.inodes
  BY <1>0, <1>2, RealFacts, DirFacts
<1>6. Good(fs, r.inode)
  BY <1>0, <1>2 DEF Whole, Real
<1>7. /\ 2 <= Len(es) /\ fs.inodes[es[1]].filename = "." /\ First(fs, es[1]) = First(fs, r.inode)
      /\ fs.inodes[es[2]].filename = ".."
      /\ \A j, l \in DOMAIN es : fs.inodes[es[j]].filename = fs.inodes[es[l]].filename => j = l
  BY <1>6 DEF Good
<1>8. PICK j \in DOMAIN es : es[j] = i
  BY <1>4 DEF Finds
<1>9. 1 \in DOMAIN es /\ 2 \in DOMAIN es
  <2> HIDE DEF es
  <2> QED
    BY <1>5, <1>7
<1>10. i \in DOMAIN fs.inodes
  BY <1>5, <1>8
<1>11. CASE fs.inodes[i].filename = "."
  <2>1. i = es[1]
    BY <1>7, <1>8, <1>9, <1>11
  <2>2. First(fs, i) = First(fs, r.inode)
    BY <1>7, <2>1
  <2> QED
    BY <1>2, <1>3, <2>2 DEF Place
<1>12. CASE fs.inodes[i].filename = ".."
  <2>1. i = es[2]
    BY <1>7, <1>8, <1>9, <1>12
  <2>2. CASE k = 0
    <3>1. PICK d \in Drives : drives[d] # NULL /\ r = [path |-> <<d>>, inode |-> drives[d]]
      BY <2>2, LevelsFound DEF LevelsFact
    <3>2. r.inode = drives[d]
      BY <3>1
    <3>3. First(fs, i) = First(fs, r.inode)
      BY <1>0, <2>1, <3>1, <3>2 DEF RootsOk
    <3> QED
      BY <1>2, <1>3, <3>3 DEF Place
  <2>3. CASE k # 0
    <3>1. k - 1 \in Nat /\ (k - 1) + 1 = k /\ k - 1 \in 0 .. MaxDepth /\ k <= MaxDepth
          /\ (k - 1) + (n - 1) <= MaxDepth
      BY <1>0, <1>3, <2>3
    <3>2. r \in Levels[(k - 1) + 1]
      BY <3>1
    <3>3. PICK p \in Levels[k - 1] : Child(fs, p, r)
      BY <3>1, <3>2, LevelsFound DEF LevelsFact
    <3>4. Real(fs, p.inode) /\ Good(fs, p.inode)
      BY <3>1, <3>3, ChildFacts
    <3>5. PICK l \in DOMAIN Entries(fs, p.inode) : r.inode = Entries(fs, p.inode)[l]
      BY <3>1, <3>3, ChildFacts
    <3>6. First(fs, Entries(fs, r.inode)[2]) = First(fs, p.inode)
      BY <1>2, <3>4, <3>5 DEF Good
    <3>7. First(fs, i) = First(fs, p.inode)
      BY <2>1, <3>6
    <3> QED
      BY <3>1, <3>4, <3>7 DEF Place
  <2> QED
    BY <2>2, <2>3
<1>13. CASE fs.inodes[i].filename \notin {".", ".."}
  <2> DEFINE q == [path |-> Append(r.path, fs.inodes[i].filename), inode |-> i]
  <2>1. Real(fs, i)
    BY <1>10, <1>13 DEF Real
  <2>2. fs.inodes[r.inode].is_dir
    BY <1>2 DEF Real
  <2>3. Child(fs, r, q)
    BY <1>8, <1>13, <2>2 DEF Child
  <2>4. q.inode = i
    OBVIOUS
  <2> HIDE DEF q
  <2>5. q \in Levels[k + 1]
    BY <1>3, <2>3, LevelsFound DEF LevelsFact
  <2>6. k + 1 \in Nat
    OBVIOUS
  <2> QED
    BY <1>3, <2>1, <2>4, <2>5, <2>6 DEF Place
<1> QED
  BY <1>11, <1>12, <1>13

\* A walk begins at a root, with as many names as its path has.
LEMMA PlaceStart ==
  ASSUME DInv, ~dotted, NEW by, NEW p, NEW flags, NEW mode, NEW fd,
         Start(by, p, flags, mode, fd), fs' = fs, drives' = drives,
         Len(Absolute(p).names) \in Nat, Len(Absolute(p).names) <= MaxDepth
  PROVE  WalkPlace'
<1> DEFINE path == Absolute(p)
           w == Walker(by, path, flags, mode, fd)
           there == path.drive \in Drives /\ drives[path.drive] # NULL
<1>1. walk' = IF there THEN [w EXCEPT !.obj = tempfs_open_dir(fs, drives[path.drive])]
                       ELSE [w EXCEPT !.at = "failed"]
  BY DEF Start
<1>2. CASE ~there
  <2>1. walk'.at = "failed"
    BY <1>1, <1>2 DEF Walker
  <2> QED
    BY <2>1 DEF WalkPlace
<1>3. CASE there
  <2> DEFINE d == path.drive
             n == Len(path.names)
  <2>1. Real(fs, drives[d])
    BY <1>3 DEF DInv, RootsOk
  <2>2. walk'.obj = drives[d] /\ walk'.rest = path.names
    BY <1>1, <1>3, <2>1 DEF Walker, tempfs_open_dir, Real
  <2> DEFINE r == [path |-> <<d>>, inode |-> drives[d]]
  <2>3. LevelsFact'
    BY LevelsFound, PTL
  <2>4. r \in Levels'[0]
    BY <1>3, <2>3 DEF LevelsFact
  <2>5. 0 + n <= MaxDepth /\ 0 \in Nat
    OBVIOUS
  <2>6. r.inode = drives[d]
    OBVIOUS
  <2> HIDE DEF r, n, d
  <2>7. Place(fs, Levels', drives[d], n)
    BY <2>1, <2>4, <2>5, <2>6 DEF Place
  <2>8. Place(fs', Levels', walk'.obj, Len(walk'.rest))
    BY <2>2, <2>7 DEF n
  <2> QED
    BY <2>8 DEF WalkPlace
<1> QED
  BY <1>2, <1>3

\* The entries of a new root are younger than it.
LEMMA LaterMounted ==
  ASSUME NEW f, FsType(f), NEW g, DriveMade(f, g), Later(f)
  PROVE  Later(g)
<1> DEFINE n == Len(f.inodes)
<1>1. Kept(f, g) /\ FsType(g) /\ Unmoved(f, g)
  BY DriveKeeps, DriveUnmoved DEF Kept
<1>2. /\ n \in Nat /\ DOMAIN f.inodes = 1 .. n /\ DOMAIN g.inodes = 1 .. n + 3
      /\ NewDirectory(g, n + 1, Len(f.chains) + 1, "", Len(f.chains) + 1)
  BY <1>1, FsFacts DEF DriveMade
<1> SUFFICES ASSUME NEW i, Real(g, i), NEW k \in DOMAIN Entries(g, i) PROVE Entries(g, i)[k] > i
  BY DEF Later
<1>3. i \in 1 .. n \/ i = n + 1
  <2>1. i \in 1 .. n \/ i = n + 1 \/ i = (n + 1) + 1 \/ i = (n + 1) + 2
    BY <1>2, Behind DEF Real
  <2>2. i # (n + 1) + 1 /\ i # (n + 1) + 2
    BY <1>2 DEF NewDirectory, Real
  <2> QED
    BY <2>1, <2>2
<1>4. CASE i \in 1 .. n
  BY <1>1, <1>2, <1>4 DEF Later, Unmoved, Real
<1>5. CASE i = n + 1
  <2>1. DOMAIN Entries(g, i) = 1 .. Len(Entries(g, i))
    BY <1>1, RealFacts, DirFacts
  <2>2. Len(Entries(g, i)) = 2 /\ Entries(g, i)[1] = i + 1 /\ Entries(g, i)[2] = i + 2
    BY <1>2, <1>5 DEF NewDirectory, Entries, First
  <2>3. k = 1 \/ k = 2
    BY <2>1, <2>2
  <2>4. i \in Nat
    BY <1>1, RealFacts, DirFacts
  <2>5. i + 1 > i /\ i + 2 > i
    BY <2>4
  <2> QED
    BY <2>2, <2>3, <2>5
<1> QED
  BY <1>3, <1>4, <1>5

\* A step of the walk that creates: the directory is a record's own, so the memory
\* grows by one entry there.
LEMMA CreatesAt ==
  ASSUME DInv, ~dotted, WalkPlace, Walking, walk.obj # NULL, walk.rest # <<>>,
         Real(fs, walk.obj)
  PROVE  \E k \in Nat : k + Len(walk.rest) <= MaxDepth /\ k + 1 <= MaxDepth
           /\ \E r \in Levels[k] : r.inode = walk.obj
<1>1. Place(fs, Levels, walk.obj, Len(walk.rest))
  BY DEF WalkPlace, Walking
<1>2. PICK k \in Nat : \E r \in Levels[k] :
         /\ k + Len(walk.rest) <= MaxDepth /\ Real(fs, r.inode)
         /\ First(fs, walk.obj) = First(fs, r.inode)
  BY <1>1 DEF Place
<1>3. PICK r \in Levels[k] :
         /\ k + Len(walk.rest) <= MaxDepth /\ Real(fs, r.inode)
         /\ First(fs, walk.obj) = First(fs, r.inode)
  BY <1>2
<1>4. r.inode = walk.obj
  BY <1>3 DEF DInv, Whole, Real
<1>5. walk.rest \in Seq(Text)
  BY DEF DInv, FInv, WalkOk, WalkSet
<1>6. Len(walk.rest) \in Nat /\ Len(walk.rest) >= 1
  BY <1>5, EmptySeq
<1>7. k + 1 <= MaxDepth
  BY <1>3, <1>6, FilesAssumption
<1> QED
  BY <1>3, <1>4, <1>7

\* The directory that was made is found, and is where the walk goes.
LEMMA PlaceMade ==
  ASSUME DInv, DInv', ~dotted, ~dotted', Later(fs), RootsApart, drives' = drives,
         NEW dir, NEW name \in Text, HasEnd(fs, dir), Real(fs, dir), Finds(fs, dir, name, NULL),
         DirMade(fs, fs', dir, name),
         NEW k \in Nat, NEW n \in Nat, n >= 1, k + n <= MaxDepth, NEW r \in Levels[k], r.inode = dir
  PROVE  Place(fs', Levels', tempfs_open_dir(fs', tempfs_find(fs', dir, name)), n - 1)
<1> DEFINE new == Len(fs.inodes) + 1
           i == tempfs_find(fs', dir, name)
           q == NewRecord(r, name)
<1>0. MaxDepth \in Nat /\ FsType(fs) /\ Whole(fs) /\ FsType(fs') /\ Whole(fs') /\ Len(fs.inodes) \in Nat
  <2>1. FsType(fs) /\ Whole(fs) /\ FsType(fs') /\ Whole(fs')
    BY DEF DInv, FInv
  <2> QED
    BY <2>1, FilesAssumption, FsFacts
<1>1. GrownBy(fs, fs', dir, name) /\ fs'.inodes[new].is_dir
  BY <1>0, DirGrown
<1>2. /\ Extends(fs, fs') /\ new \in DOMAIN fs'.inodes
      /\ fs'.inodes[new].filename = name /\ name \notin {".", ".."}
      /\ Len(Entries(fs', dir)) = Len(Entries(fs, dir)) + 1
      /\ Entries(fs', dir)[Len(Entries(fs, dir)) + 1] = new
  BY <1>1 DEF GrownBy
<1> DEFINE es == Entries(fs', dir)
           l == Len(Entries(fs, dir)) + 1
<1>3. Real(fs', dir) /\ IsDirectory(fs', dir) /\ l \in DOMAIN es
  BY <1>0, <1>2, ExtendsEntries
<1>4. Finds(fs', dir, name, i)
  BY <1>0, <1>3, FindFinds
<1>5. Good(fs', dir)
  BY <1>0, <1>3 DEF Whole, Real
<1>6. \A a, b \in DOMAIN es : fs'.inodes[es[a]].filename = fs'.inodes[es[b]].filename => a = b
  BY <1>5 DEF Good
<1>7. es[l] = new
  BY <1>2
<1> HIDE DEF i, l
<1>8. i = new
  <2>1. PICK j \in DOMAIN es : es[j] = i /\ fs'.inodes[i].filename = name
    BY <1>2, <1>3, <1>4, <1>7 DEF Finds
  <2>2. j = l
    BY <1>2, <1>3, <1>6, <1>7, <2>1
  <2> QED
    BY <1>7, <2>1, <2>2
<1>9. tempfs_open_dir(fs', i) = new
  BY <1>1, <1>8 DEF tempfs_open_dir
<1>10. Real(fs', new)
  BY <1>1, <1>2 DEF Real
<1>11. k + 1 \in Nat /\ k + 1 <= MaxDepth /\ k + 1 \in 0 .. MaxDepth /\ (k + 1) + (n - 1) <= MaxDepth
  BY <1>0
<1>12. q \in Levels'[k + 1]
  BY <1>1, <1>11, LevelsGrown
<1>13. q.inode = new
  BY DEF NewRecord
<1> HIDE DEF q, new
<1>14. Place(fs', Levels', new, n - 1)
  BY <1>10, <1>11, <1>12, <1>13 DEF Place
<1> QED
  BY <1>9, <1>14 DEF i

\* The inductive invariant: entries are younger than their directory, drives have roots
\* of their own, and the walk is somewhere that its names have led it to.
TInv ==
    /\ DInv /\ Mounted /\ RootsApart
    /\ ~dotted => Later(fs) /\ WalkPlace

\* What a step means for the tree.
TreeStep == [Promise!Next]_<<Tree, ~dotted>>

LEMMA PromiseOff == ASSUME dotted' = TRUE PROVE TreeStep
  BY DEF TreeStep, Promise!Next, Promise!Unpromised

LEMMA TreeStays == ASSUME Tree' = Tree, dotted' = dotted PROVE TreeStep
  BY DEF TreeStep

\* A step that moves nothing.
LEMMA Stays ==
  ASSUME DInv, ~dotted, ~dotted', dotted' \in BOOLEAN, drives' = drives, FsType(fs'),
         \/ fs' = fs
         \/ \E i \in DOMAIN fs.inodes, n, v \in Nat : Written(fs, fs', i, n, v)
  PROVE  TreeStep /\ (Later(fs) => Later(fs'))
<1>1. FsType(fs) /\ dotted' = dotted
  BY DEF DInv, FInv
<1>2. Unmoved(fs, fs') /\ \A j : Real(fs', j) => Real(fs, j)
  <2>1. CASE fs' = fs
    BY <2>1 DEF Unmoved
  <2>2. CASE \E i \in DOMAIN fs.inodes, n, v \in Nat : Written(fs, fs', i, n, v)
    BY <1>1, <2>2, WrittenUnmoved
  <2> QED
    BY <2>1, <2>2
<1>3. Tree' = Tree
  BY <1>2, TreeSame
<1>4. Later(fs) => Later(fs')
  BY <1>2 DEF Later, Unmoved, Real
<1> QED
  BY <1>1, <1>3, <1>4, TreeStays

LEMMA WalkTree ==
  ASSUME TInv, WalkStep, DInv', ~dotted'
  PROVE  TreeStep /\ Later(fs') /\ WalkPlace'
<1>1. DInv /\ FInv /\ FsType(fs') /\ dotted \in BOOLEAN /\ dotted' \in BOOLEAN /\ RootsApart
  BY DEF TInv, DInv, FInv
<1>2. drives' = drives
  BY DEF WalkStep, walk_ends, walk_dir_found, walk_dir_created, walk_fails, walk_file_found,
         walk_file_created, walk_astray, Rest
<1>3. WalkMade
  BY <1>1, WalkMakes
<1>4. ~dotted
  BY <1>1, <1>3 DEF WalkMade
<1>5. Later(fs) /\ WalkPlace /\ Whole(fs) /\ FsType(fs)
  BY <1>1, <1>4 DEF TInv, DInv, FInv
<1>6. walk.rest \in Seq(Text)
  BY <1>1 DEF FInv, WalkOk, WalkSet
<1>7. CASE walk_dir_created \/ walk_file_created
  <2>1. /\ AtDir \/ AtFile
        /\ Found = NULL /\ HasEnd(fs, walk.obj) /\ dotted' = (dotted \/ Dot(walk.obj))
    BY <1>7 DEF walk_dir_created, walk_file_created, Made
  <2>2. /\ Walking /\ walk.rest # <<>> /\ IsDirectory(fs, walk.obj) /\ Name \in Text
        /\ walk.obj \in 1 .. Len(fs.inodes) /\ Finds(fs, walk.obj, Name, NULL)
    BY <1>1, <2>1, AtOk
  <2>3. Real(fs, walk.obj) /\ walk.obj # NULL
    <3>1. ~Dot(walk.obj)
      BY <2>1
    <3>2. Real(fs, walk.obj)
      BY <2>2, <3>1 DEF IsDirectory, Dot, Real
    <3>3. walk.obj # NULL
      BY <1>5, <2>2, DirFacts DEF NULL
    <3> QED
      BY <3>2, <3>3
  <2>4. PICK k \in Nat : k + Len(walk.rest) <= MaxDepth /\ k + 1 <= MaxDepth
           /\ \E r \in Levels[k] : r.inode = walk.obj
    BY <1>1, <1>4, <1>5, <2>2, <2>3, CreatesAt
  <2>5. PICK r \in Levels[k] : r.inode = walk.obj
    BY <2>4
  <2>6. FileMade(fs, fs', walk.obj, Name) \/ DirMade(fs, fs', walk.obj, Name)
    <3>1. CASE UNCHANGED <<fs, dotted>>
      <4>1. \/ fs' = tempfs_mkdir(fs, walk.obj, Name)
            \/ fs' = tempfs_mkfile(fs, walk.obj, Name)
            \/ fs' = tempfs_create_device(fs, walk.obj, Name)
        BY <1>7 DEF walk_dir_created, walk_file_created, Made
      <4> QED
        BY <1>5, <2>1, <2>2, <4>1, MkDir, MkFile, MkDevice
    <3>2. CASE ~UNCHANGED <<fs, dotted>>
      BY <1>3, <3>2 DEF WalkMade
    <3> QED
      BY <3>1, <3>2
  <2>7. GrownBy(fs, fs', walk.obj, Name)
    BY <1>5, <2>1, <2>2, <2>3, <2>6, FileGrown, DirGrown
  <2>8. Later(fs')
    BY <1>5, <2>7, LaterGrown
  <2>9. Promise!Create
    BY <1>1, <1>2, <1>4, <1>5, <2>2, <2>4, <2>5, <2>7, TreeGrown
  <2>10. TreeStep
    BY <2>9 DEF TreeStep, Promise!Next
  <2>11. CASE walk_file_created
    <3>1. walk'.at = "opened"
      BY <1>1, <2>11 DEF walk_file_created, Opens, FInv, WalkOk, WalkSet
    <3> QED
      BY <2>8, <2>10, <3>1 DEF WalkPlace
  <2>12. CASE walk_dir_created
    <3> DEFINE i == tempfs_open_dir(fs', tempfs_find(fs', walk.obj, Name))
    <3>1. /\ fs' = tempfs_mkdir(fs, walk.obj, Name)
          /\ walk' = [walk EXCEPT !.obj = i, !.rest = Tail(@)]
      BY <2>12 DEF walk_dir_created, Made
    <3>2. DirMade(fs, fs', walk.obj, Name)
      BY <1>5, <2>1, <2>2, <3>1, MkDir
    <3>3. Len(walk.rest) \in Nat /\ Len(walk.rest) >= 1 /\ Len(Tail(walk.rest)) = Len(walk.rest) - 1
      BY <1>6, <2>2, HeadTailProperties, EmptySeq
    <3>4. Place(fs', Levels', i, Len(walk.rest) - 1)
      BY <1>1, <1>2, <1>4, <1>5, <2>1, <2>2, <2>3, <2>4, <2>5, <3>2, <3>3, PlaceMade
    <3> HIDE DEF i
    <3>5. walk'.obj = i /\ walk'.rest = Tail(walk.rest)
      BY <1>1, <3>1 DEF FInv, WalkOk, WalkSet
    <3>6. WalkPlace'
      BY <3>3, <3>4, <3>5 DEF WalkPlace
    <3> QED
      BY <2>8, <2>10, <3>6
  <2> QED
    BY <1>7, <2>11, <2>12
<1>8. CASE ~(walk_dir_created \/ walk_file_created)
  <2>1. fs' = fs
    BY <1>8 DEF WalkStep, walk_ends, walk_dir_found, walk_fails, walk_file_found, walk_astray
  <2>2. TreeStep /\ Later(fs')
    BY <1>1, <1>2, <1>4, <1>5, <2>1, Stays
  <2>3. CASE walk_dir_found
    <3>1. /\ AtDir /\ Found # NULL
          /\ walk' = [walk EXCEPT !.obj = tempfs_open_dir(fs, Found), !.rest = Tail(@)]
      BY <2>3 DEF walk_dir_found
    <3>2. Walking /\ walk.rest # <<>> /\ Finds(fs, walk.obj, Name, Found) /\ walk.obj # NULL
      BY <1>1, <3>1, AtOk DEF AtDir
    <3> DEFINE i == tempfs_open_dir(fs, Found)
               n == Len(walk.rest)
    <3>3. n \in Nat /\ n >= 1 /\ Len(Tail(walk.rest)) = n - 1 /\ n - 1 \in Nat
      BY <1>6, <3>2, HeadTailProperties, EmptySeq
    <3>4. Place(fs, Levels, walk.obj, n)
      BY <1>5, <3>2 DEF WalkPlace, Walking
    <3>5. ASSUME i # NULL PROVE Place(fs', Levels', i, n - 1)
      <4>1. i = Found /\ fs.inodes[i].is_dir
        BY <3>5 DEF tempfs_open_dir
      <4>2. Finds(fs, walk.obj, Name, i)
        BY <3>2, <4>1
      <4> HIDE DEF i, n
      <4>3. Place(fs, Levels, i, n - 1)
        BY <1>1, <1>4, <3>3, <3>4, <3>5, <4>1, <4>2, PlaceFound
      <4> QED
        BY <1>1, <1>2, <1>4, <2>1, <3>3, <4>3, PlaceSame
    <3> HIDE DEF i
    <3>6. walk'.obj = i /\ walk'.rest = Tail(walk.rest)
      BY <1>1, <3>1 DEF FInv, WalkOk, WalkSet, i
    <3>7. WalkPlace'
      BY <3>3, <3>5, <3>6 DEF WalkPlace
    <3> QED
      BY <2>2, <3>7
  <2>4. CASE walk' = walk
    <3>1. ASSUME walk.at = "walking", walk.obj # NULL PROVE Place(fs', Levels', walk.obj, Len(walk.rest))
      <4>1. Place(fs, Levels, walk.obj, Len(walk.rest)) /\ Len(walk.rest) \in Nat
        BY <1>5, <1>6, <3>1 DEF WalkPlace
      <4> QED
        BY <1>1, <1>2, <1>4, <2>1, <4>1, PlaceSame
    <3> QED
      BY <2>2, <2>4, <3>1 DEF WalkPlace
  <2>5. CASE walk_ends \/ walk_fails \/ walk_file_found
    <3>1. walk'.at # "walking"
      BY <1>1, <2>5 DEF walk_ends, walk_fails, walk_file_found, Opens, Fails, FInv, WalkOk, WalkSet
    <3> QED
      BY <2>2, <3>1 DEF WalkPlace
  <2>6. CASE walk_astray
    BY <2>4, <2>6 DEF walk_astray
  <2> QED
    BY <1>8, <2>3, <2>5, <2>6 DEF WalkStep
<1> QED
  BY <1>7, <1>8

LEMMA BootTree ==
  ASSUME TInv, BootStep, DInv', ~dotted'
  PROVE  TreeStep /\ Later(fs') /\ WalkPlace'
<1>1. /\ DInv /\ FInv /\ FsType(fs) /\ FsType(fs') /\ dotted \in BOOLEAN /\ dotted' \in BOOLEAN
      /\ RootsApart /\ Mounted
  BY DEF TInv, DInv, FInv
<1>2. dotted' = dotted
  BY DEF BootStep, mount, create_device, create_device_returns, unpack_skips, unpack_opens,
         unpack_returns, stream_opens, stream_returns
<1>3. ~dotted /\ Later(fs) /\ WalkPlace /\ BootMade
  BY <1>1, <1>2, BootKeeps DEF TInv
<1>4. ASSUME walk' = Idle PROVE WalkPlace'
  BY <1>4, IdleOk DEF WalkPlace
<1>5. CASE mount /\ drives' # drives
  <2>1. /\ fs' = tempfs_new(fs) /\ walk' = Idle
        /\ drives' = [drives EXCEPT ![Now.drive] = Len(fs.inodes) + 1]
    BY <1>5 DEF mount, BootAt, Ready
  <2>2. Now.drive \in Drives /\ drives[Now.drive] = NULL
    BY <1>1, <1>5, MountedStep, NextSplit
  <2>3. DriveMade(fs, fs')
    BY <1>1, <2>1, NewDrive
  <2>4. Promise!Mount
    BY <1>1, <1>3, <2>1, <2>2, <2>3, TreeMounted
  <2>5. TreeStep
    BY <2>4 DEF TreeStep, Promise!Next
  <2>6. Later(fs')
    BY <1>1, <1>3, <2>3, LaterMounted
  <2> QED
    BY <1>4, <2>1, <2>5, <2>6
<1>6. CASE ~(mount /\ drives' # drives)
  <2>1. drives' = drives
    BY <1>1, <1>6, DrivesStep, NextSplit
  <2>2. fs' = fs \/ \E i \in DOMAIN fs.inodes, n, v \in Nat : Written(fs, fs', i, n, v)
    <3>1. CASE mount /\ fs' # fs
      <4>1. Now.drive \in Drives /\ drives' = [drives EXCEPT ![Now.drive] = Len(fs.inodes) + 1]
        BY <1>1, <3>1, BootNext DEF mount, BootAt, StepOk
      <4>2. drives \in [Drives -> 0 .. Len(fs.inodes)] /\ Len(fs.inodes) \in Nat
        BY <1>1, FsFacts DEF FInv, Pointers
      <4>3. drives'[Now.drive] = Len(fs.inodes) + 1 /\ drives[Now.drive] # Len(fs.inodes) + 1
        BY <4>1, <4>2
      <4> QED
        BY <2>1, <4>3
    <3> QED
      BY <1>3, <3>1 DEF BootMade
  <2>3. TreeStep /\ Later(fs')
    BY <1>1, <1>2, <1>3, <2>1, <2>2, Stays
  <2>4. ASSUME NEW op \in {"device", "unpack", "stream"}, BootAt(op), fs' = fs,
               NEW flags, NEW mode, NEW fd, Start(op, Now.path, flags, mode, fd)
        PROVE  WalkPlace'
    <3>1. ~Booted /\ Now.op = op /\ Now.op # "mount"
      BY <2>4 DEF BootAt
    <3>2. Now.path.drive # "" /\ Now.path.names \in Seq(Text) /\ Len(Now.path.names) <= MaxDepth
      BY <1>1, <3>1, BootNext, NowDepth DEF StepOk
    <3>3. Absolute(Now.path) = Now.path
      BY <3>2 DEF Absolute
    <3> DEFINE p == Now.path
    <3>4. /\ Len(Absolute(p).names) \in Nat /\ Len(Absolute(p).names) <= MaxDepth
          /\ Start(op, p, flags, mode, fd)
      BY <2>4, <3>2, <3>3, LenProperties
    <3> HIDE DEF p
    <3> QED
      BY <1>1, <1>3, <2>1, <2>4, <3>4, PlaceStart
  <2>5. WalkPlace'
    <3>1. CASE create_device
      BY <2>4, <3>1 DEF create_device
    <3>2. CASE unpack_opens
      BY <2>4, <3>2 DEF unpack_opens
    <3>3. CASE stream_opens
      BY <2>4, <3>3 DEF stream_opens
    <3>4. CASE mount \/ unpack_skips \/ create_device_returns \/ unpack_returns \/ stream_returns
      <4>1. walk' = Idle
        BY <3>4 DEF mount, unpack_skips, BootAt, Ready, create_device_returns, unpack_returns,
                    stream_returns
      <4> QED
        BY <1>4, <4>1
    <3> QED
      BY <3>1, <3>2, <3>3, <3>4 DEF BootStep
  <2> QED
    BY <2>3, <2>5
<1> QED
  BY <1>5, <1>6

LEMMA CallTree ==
  ASSUME TInv, CallStep, DInv', ~dotted'
  PROVE  TreeStep /\ Later(fs') /\ WalkPlace'
<1>1. DInv /\ FInv /\ FsType(fs) /\ FsType(fs') /\ dotted \in BOOLEAN /\ dotted' \in BOOLEAN
  BY DEF TInv, DInv, FInv
<1>2. dotted' = dotted /\ drives' = drives
  BY DEF CallStep, syscall_open, syscall_open_returns, syscall_close, syscall_write, syscall_read
<1>3. ~dotted /\ Later(fs) /\ CallMade
  BY <1>1, <1>2, CallKeeps DEF TInv
<1>4. TreeStep /\ Later(fs')
  BY <1>1, <1>2, <1>3, Stays DEF CallMade
<1>5. ASSUME NEW path \in Paths, NEW flags \in Flags, NEW mode \in Modes,
             syscall_open(path, flags, mode)
      PROVE  WalkPlace'
  <2>1. fs' = fs /\ \E fd \in Free : Start("open", path, flags, mode, fd)
    BY <1>5 DEF syscall_open
  <2>2. PICK fd \in Free : Start("open", path, flags, mode, fd)
    BY <2>1
  <2>3. path \in [drive : STRING, names : Seq(STRING), slash : BOOLEAN] /\ Len(path.names) <= MaxDepth
    BY FilesAssumption
  <2>4. Absolute(path).names = path.names /\ path.names \in Seq(STRING)
    BY <2>3 DEF Absolute
  <2>5. Len(Absolute(path).names) \in Nat /\ Len(Absolute(path).names) <= MaxDepth
    BY <2>3, <2>4, LenProperties
  <2> QED
    BY <1>1, <1>2, <1>3, <2>1, <2>2, <2>5, PlaceStart
<1>6. ASSUME walk' = Idle PROVE WalkPlace'
  BY <1>6, IdleOk DEF WalkPlace
<1>7. \/ \E path \in Paths, flags \in Flags, mode \in Modes : syscall_open(path, flags, mode)
      \/ walk' = Idle
  BY DEF CallStep, syscall_open_returns, syscall_close, syscall_write, syscall_read, InProgram, Ready
<1> QED
  BY <1>4, <1>5, <1>6, <1>7

LEMMA TStep == ASSUME TInv, [Next]_vars PROVE TInv' /\ TreeStep
<1>1. DInv' /\ FInv /\ Mounted' /\ RootsApart'
  BY DStep, MountedStep DEF TInv, DInv
<1>2. CASE dotted'
  <2>1. dotted' = TRUE
    BY <1>1, <1>2 DEF DInv
  <2> QED
    BY <1>1, <1>2, <2>1, PromiseOff DEF TInv
<1>3. CASE ~dotted' /\ Next
  <2>1. TreeStep /\ Later(fs') /\ WalkPlace'
    BY <1>1, <1>3, NextSplit, WalkTree, BootTree, CallTree
  <2> QED
    BY <1>1, <2>1 DEF TInv
<1>4. CASE ~dotted' /\ UNCHANGED vars
  <2>1. fs' = fs /\ drives' = drives /\ dotted' = dotted /\ walk' = walk
    BY <1>4 DEF vars
  <2>2. DInv /\ ~dotted /\ Later(fs) /\ WalkPlace /\ FsType(fs')
    BY <1>1, <1>4, <2>1 DEF TInv, DInv, FInv
  <2>3. TreeStep /\ Later(fs')
    BY <1>4, <2>1, <2>2, Stays DEF DInv
  <2>4. ASSUME walk.at = "walking", walk.obj # NULL PROVE Place(fs', Levels', walk.obj, Len(walk.rest))
    <3>1. walk.rest \in Seq(Text)
      BY <1>1 DEF FInv, WalkOk, WalkSet
    <3>2. Place(fs, Levels, walk.obj, Len(walk.rest)) /\ Len(walk.rest) \in Nat
      BY <2>2, <2>4, <3>1 DEF WalkPlace
    <3> QED
      BY <2>1, <2>2, <3>2, PlaceSame
  <2>5. WalkPlace'
    BY <2>1, <2>4 DEF WalkPlace
  <2> QED
    BY <1>1, <2>3, <2>5 DEF TInv
<1> QED
  BY <1>2, <1>3, <1>4

LEMMA TInit == ASSUME Init PROVE TInv /\ Promise!Init
<1>1. DInv
  BY DInit
<1>2. /\ DOMAIN fs.inodes = {} /\ \A d \in Drives : drives[d] = NULL
      /\ walk.at = "idle" /\ dotted = FALSE
  BY IdleOk DEF Init, Empty
<1>3. TInv
  BY <1>1, <1>2 DEF TInv, Mounted, RootsApart, Later, Real, WalkPlace
<1>4. \A r : r \notin Reached
  <2> SUFFICES ASSUME NEW r \in Reached PROVE FALSE
    OBVIOUS
  <2>1. PICK k \in 0 .. MaxDepth : r \in Levels[k]
    BY LevelsFound DEF LevelsFact
  <2>2. r.inode \in DOMAIN fs.inodes
    BY <1>1, <1>2, <2>1, LevelFacts
  <2> QED
    BY <1>2, <2>2
<1>5. Tree = {}
  BY <1>4, TreeFound DEF TreeFact
<1> QED
  BY <1>2, <1>3, <1>5 DEF Promise!Init

\* The chains of inodes implement the tree of paths, for every archive and every
\* sequence of opens and writes: a step of the kernel adds one path in a directory that
\* exists, mounts a drive, or leaves the tree alone, until something is created
\* through `.` or `..`.
THEOREM TreeKept == Spec => TreePromise
<1>1. TInv /\ [Next]_vars => TInv' /\ [Promise!Next]_<<Tree, ~dotted>>
  BY TStep DEF TreeStep
<1>2. Init => TInv /\ Promise!Init
  BY TInit
<1> QED
  BY <1>1, <1>2, PTL DEF Spec, TreePromise, Promise!Spec
=============================================================================
