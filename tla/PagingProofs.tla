---------------------------- MODULE PagingProofs ----------------------------
(***************************************************************************)
(* kmalloc implements PageAllocator, for every memory map of disjoint       *)
(* sections and all requests, also those of the page trees; the tables of   *)
(* the trees are pages that kmalloc has handed out, each with one place in  *)
(* one tree, for any number of levels and entries; the trees implement      *)
(* AddressSpaces; and the tasks see the bytes of their programs.            *)
(***************************************************************************)
EXTENDS Paging, SequenceTheorems, WellFoundedInduction, TLAPS

LEMMA SectionTypes ==
  ASSUME NEW e \in Entries
  PROVE  /\ Sections[e].base \in Nat /\ Sections[e].pages \in Nat /\ Sections[e].pages > 0
         /\ Sections[e].usable \in BOOLEAN
<1> DEFINE S == [base : Nat, pages : Nat \ {0}, usable : BOOLEAN]
<1>1. Sections \in Seq(S)
  BY PMMAssumption
<1> HIDE DEF S
<1>2. Sections[e] \in S
  BY <1>1 DEF Entries
<1> QED
  BY <1>2 DEF S

LEMMA Multiple ==
  ASSUME NEW a \in Nat, NEW b \in Nat, b > 0
  PROVE  (a \div b) * b <= a /\ (a \div b) * b \in Nat
<1>1. a \in Int /\ b \in Int
  OBVIOUS
<1>2. (a \div b) * b <= a
  BY <1>1
<1>3. a \div b \in Nat
  OBVIOUS
<1>4. (a \div b) * b \in Nat
  BY <1>3
<1> QED
  BY <1>2, <1>4

\* The frames in use fit in the section, after the bitmap.
LEMMA FramesFit ==
  ASSUME NEW e \in Entries
  PROVE  PagesInSection(e) \in Nat /\ PagesInSection(e) <= Sections[e].pages - 1
<1> DEFINE p == Sections[e].pages - 1
<1>1. p \in Nat /\ ByteBits \in Nat /\ ByteBits > 0
  BY SectionTypes, PMMAssumption
<1>2. PagesInSection(e) = (p \div ByteBits) * ByteBits
  BY DEF PagesInSection, get_bitmap_reserved
<1> HIDE DEF p
<1>3. PagesInSection(e) \in Nat /\ PagesInSection(e) <= p
  BY <1>1, <1>2, Multiple
<1> QED
  BY <1>3 DEF p

\* Two frames are the same page only if they are the same frame.
LEMMA PageOfInjective ==
  ASSUME NEW d \in Entries, NEW e \in Entries,
         NEW f \in 0 .. PagesInSection(d) - 1, NEW g \in 0 .. PagesInSection(e) - 1,
         PageOf(d, f) = PageOf(e, g)
  PROVE  d = e /\ f = g
<1>1. /\ PageOf(d, f) = Sections[d].base + f + 1
      /\ PageOf(e, g) = Sections[e].base + g + 1
  BY DEF PageOf, get_bitmap_reserved
<1>2. f \in Nat /\ f < Sections[d].pages /\ g \in Nat /\ g < Sections[e].pages
  BY FramesFit, SectionTypes
<1>3. /\ Sections[d].base \in Nat /\ Sections[d].pages \in Nat
      /\ Sections[e].base \in Nat /\ Sections[e].pages \in Nat
  BY SectionTypes
<1>4. d # e => \/ Sections[d].base + Sections[d].pages <= Sections[e].base
               \/ Sections[e].base + Sections[e].pages <= Sections[d].base
  BY PMMAssumption DEF Entries
<1>5. d = e
  <2>1. Sections[d].base + f + 1 = Sections[e].base + g + 1
    BY <1>1
  <2>2. ~(Sections[d].base + Sections[d].pages <= Sections[e].base)
    BY <1>2, <1>3, <2>1
  <2>3. ~(Sections[e].base + Sections[e].pages <= Sections[d].base)
    BY <1>2, <1>3, <2>1
  <2> QED
    BY <1>4, <2>2, <2>3
<1>6. Sections[d].base + f + 1 = Sections[d].base + g + 1
  BY <1>1, <1>5
<1> QED
  BY <1>2, <1>3, <1>5, <1>6

LEMMA TypeInit == Init => TypeOK
  BY DEF Init, TypeOK

\* A call that returns: the frames are new, and last is their run.
LEMMA Returns ==
  ASSUME TypeOK, NEW n \in Nat, kmalloc_returns(n), status = "running"
  PROVE  TypeOK' /\ A!Give
<1>0. PICK e \in Entries : \E f \in 0 .. PagesInSection(e) :
        /\ FirstFit(e, f, n)
        /\ bitmap' = allocate_pages(e, f, n)
        /\ last' = [lo |-> PageOf(e, f), n |-> n]
  BY DEF kmalloc_returns
<1>1. PICK f \in 0 .. PagesInSection(e) :
        /\ check_pages_avaliable(e, f, n)
        /\ bitmap' = allocate_pages(e, f, n)
        /\ last' = [lo |-> PageOf(e, f), n |-> n]
        /\ total' = total + n /\ status' = status /\ n >= 1
  BY <1>0 DEF kmalloc_returns, FirstFit
<1> DEFINE New == f .. f + n - 1
<1>2. /\ Sections[e].base \in Nat /\ Sections[e].pages \in Nat
      /\ PagesInSection(e) \in Nat /\ PagesInSection(e) <= Sections[e].pages - 1
      /\ f \in Nat
  BY SectionTypes, FramesFit
<1>3. /\ f + n <= PagesInSection(e) /\ Sections[e].usable
      /\ \A g \in New : g \notin bitmap[e]
  BY <1>1 DEF check_pages_avaliable
<1>4. \A g \in New : g \in Nat /\ g < PagesInSection(e) /\ g \in 0 .. PagesInSection(e) - 1
  BY <1>1, <1>2, <1>3
<1>5. /\ DOMAIN bitmap' = Entries
      /\ bitmap'[e] = bitmap[e] \union New
      /\ \A d \in Entries : d # e => bitmap'[d] = bitmap[d]
  BY <1>1 DEF allocate_pages, TypeOK
<1>6. PageOf(e, f) \in Nat /\ \A g \in New : PageOf(e, g) = Sections[e].base + g + 1
  BY <1>2 DEF PageOf, get_bitmap_reserved
<1>7. TypeOK'
  <2>1. \A d \in Entries : bitmap'[d] \subseteq 0 .. PagesInSection(d) - 1
    BY <1>4, <1>5 DEF TypeOK
  <2> QED
    BY <1>1, <1>5, <1>6, <2>1 DEF TypeOK, PagesInSection, get_bitmap_reserved
<1>8. A!Run(last') = {PageOf(e, g) : g \in New}
  <2>1. A!Run(last') = PageOf(e, f) .. PageOf(e, f) + n - 1
    BY <1>1 DEF A!Run
  <2>2. PageOf(e, f) = Sections[e].base + f + 1
    BY DEF PageOf, get_bitmap_reserved
  <2>3. ASSUME NEW x \in PageOf(e, f) .. PageOf(e, f) + n - 1
        PROVE  \E g \in New : x = PageOf(e, g)
    <3> DEFINE g == x - (Sections[e].base + 1)
    <3>1. g \in New
      BY <1>1, <1>2, <2>2
    <3>2. x = Sections[e].base + g + 1
      BY <1>1, <1>2, <1>6
    <3> QED
      BY <1>6, <3>1, <3>2
  <2>4. ASSUME NEW g \in New
        PROVE  PageOf(e, g) \in PageOf(e, f) .. PageOf(e, f) + n - 1
    BY <1>1, <1>2, <1>4, <1>6, <2>2
  <2> QED
    BY <2>1, <2>3, <2>4
<1>9. A!Run(last') \subseteq UsablePages
  <2> SUFFICES ASSUME NEW g \in New PROVE PageOf(e, g) \in UsablePages
    BY <1>8
  <2>1. g + 1 \in 1 .. Sections[e].pages - 1 /\ PageOf(e, g) = Sections[e].base + (g + 1)
    BY <1>2, <1>4, <1>6
  <2> QED
    BY <1>3, <2>1 DEF UsablePages
<1>10. \A x \in A!Run(last') : x \notin Owned
  <2> SUFFICES ASSUME NEW g \in New, PageOf(e, g) \in Owned PROVE FALSE
    BY <1>8
  <2>0. PICK d \in Entries : \E h \in bitmap[d] : PageOf(e, g) = PageOf(d, h)
    BY DEF Owned
  <2>1. PICK h \in bitmap[d] : PageOf(e, g) = PageOf(d, h)
    BY <2>0
  <2>2. h \in 0 .. PagesInSection(d) - 1
    BY DEF TypeOK
  <2>3. d = e /\ g = h
    BY <1>4, <2>1, <2>2, PageOfInjective
  <2> QED
    BY <1>3, <2>1, <2>3
<1>11. Owned' = Owned \union A!Run(last')
  <2>1. Owned' = UNION {{PageOf(d, g) : g \in bitmap'[d]} : d \in Entries}
    BY DEF Owned, PageOf, get_bitmap_reserved
  <2>2. \A x : x \in Owned' <=> \E d \in Entries : \E g \in bitmap'[d] : x = PageOf(d, g)
    BY <2>1
  <2>3. \A x : x \in Owned <=> \E d \in Entries : \E g \in bitmap[d] : x = PageOf(d, g)
    BY DEF Owned
  <2>4. \A x : x \in A!Run(last') <=> \E g \in New : x = PageOf(e, g)
    BY <1>8
  <2>5. \A x : x \in Owned' <=> x \in Owned \/ x \in A!Run(last')
    BY <1>5, <2>2, <2>3, <2>4
  <2> QED
    BY <2>5
<1>12. last' \in [lo : Nat, n : Nat \ {0}]
  BY <1>1, <1>6
<1> QED
  BY <1>1, <1>7, <1>9, <1>10, <1>11, <1>12 DEF A!Give

LEMMA StepPromise ==
  ASSUME TypeOK, [Next]_vars
  PROVE  TypeOK' /\ [A!ANext]_(A!avars)
<1>1. ASSUME NEW n \in Requests, status = "running", kmalloc_returns(n)
      PROVE  TypeOK' /\ A!ANext
  BY <1>1, Returns, PMMAssumption DEF A!ANext
<1>2. ASSUME status = "running", status' \in {"halted", "looping"},
             UNCHANGED <<bitmap, last, total>>
      PROVE  TypeOK' /\ A!ANext
  <2>1. Owned' = Owned
    BY <1>2 DEF Owned, PageOf, get_bitmap_reserved
  <2>2. A!Stop
    BY <1>2, <2>1 DEF A!Stop
  <2>3. TypeOK'
    BY <1>2 DEF TypeOK, PagesInSection, get_bitmap_reserved
  <2> QED
    BY <2>2, <2>3 DEF A!ANext
<1>3. CASE UNCHANGED vars
  BY <1>3 DEF vars, TypeOK, PagesInSection, A!avars, Owned, PageOf, get_bitmap_reserved
<1>4. CASE Next
  <2>1. PICK n \in Requests : kmalloc(n)
    BY <1>4 DEF Next
  <2>2. CASE kmalloc_returns(n)
    BY <1>1, <2>1, <2>2 DEF kmalloc
  <2>3. CASE kmalloc_refuses(n) \/ kmalloc_fails(n)
    BY <1>2, <2>1, <2>3 DEF kmalloc, kmalloc_refuses, kmalloc_fails
  <2> QED
    BY <2>1, <2>2, <2>3 DEF kmalloc
<1> QED
  BY <1>3, <1>4

\* The bitmap marks frames of its own section only.
THEOREM PMMTypes == Spec => []TypeOK
<1>1. TypeOK /\ [Next]_vars => TypeOK'
  BY StepPromise
<1> QED
  BY <1>1, TypeInit, PTL DEF Spec

\* kmalloc implements the abstract allocator: no page is handed out twice, none
\* outside usable memory, and none that holds a bitmap.
THEOREM PromiseKept == Spec => AllocatorPromise
<1>1. Init => A!AInit
  BY DEF Init, A!AInit, Owned
<1>2. TypeOK /\ [Next]_vars => [A!ANext]_(A!avars)
  BY StepPromise
<1> QED
  BY <1>1, <1>2, PMMTypes, PTL DEF Spec, AllocatorPromise, A!ASpec

-----------------------------------------------------------------------------
(* Induction: the library's well-foundedness of < on the naturals, for sets *)

LEMMA Least ==
  ASSUME NEW T, T \subseteq Nat, T # {}
  PROVE  \E x \in T : \A y \in T : x <= y
<1> DEFINE R == OpToRel(<, Nat)
<1>1. IsWellFoundedOn(R, Nat)
  BY NatLessThanWellFounded
<1>2. \A x, y \in Nat : x < y => <<x, y>> \in R
  BY DEF OpToRel
<1> HIDE DEF R
<1>3. \E x \in T : \A y \in T : ~ (<<y, x>> \in R)
  BY <1>1, WFMin
<1>4. PICK x \in T : \A y \in T : ~ (<<y, x>> \in R)
  BY <1>3
<1>5. \A y \in T : ~(y < x) /\ x \in Nat /\ y \in Nat
  BY <1>2, <1>4
<1>6. \A y \in T : x <= y
  BY <1>5
<1> QED
  BY <1>6

LEMMA Induction ==
  ASSUME NEW T, 0 \in T, \A n \in Nat : n \in T => n + 1 \in T
  PROVE  Nat \subseteq T
<1> SUFFICES ASSUME Nat \ T # {} PROVE FALSE
  OBVIOUS
<1>1. PICK x \in Nat \ T : \A y \in Nat \ T : x <= y
  BY Least
<1>2. x # 0 /\ x - 1 \in Nat /\ (x - 1) + 1 = x
  OBVIOUS
<1>3. x - 1 \in T
  BY <1>1, <1>2
<1> QED
  BY <1>2, <1>3

-----------------------------------------------------------------------------
(* Arithmetic *)

LEMMA Product == ASSUME NEW a \in Nat \ {0}, NEW b \in Nat \ {0} PROVE a * b \in Nat \ {0}
  OBVIOUS

LEMMA Quotient == ASSUME NEW a \in Int, NEW b \in Nat \ {0} PROVE a \div b \in Int
  OBVIOUS

LEMMA NatQuotient == ASSUME NEW a \in Nat, NEW b \in Nat \ {0} PROVE a \div b \in Nat
  OBVIOUS

LEMMA Remainder == ASSUME NEW a \in Int, NEW b \in Nat \ {0} PROVE a % b \in 0 .. b - 1
  OBVIOUS

LEMMA Divided ==
  ASSUME NEW a \in Nat, NEW b \in Nat \ {0}
  PROVE  b * (a \div b) <= a /\ a < b * (a \div b) + b
  OBVIOUS

LEMMA QuotientIs ==
  ASSUME NEW a \in Nat, NEW b \in Nat \ {0}, NEW x \in Nat, b * x <= a, a < b * x + b
  PROVE  a \div b = x
  OBVIOUS

LEMMA Scaled ==
  ASSUME NEW a \in Nat, NEW b \in Nat, NEW c \in Nat, a <= b
  PROVE  c * a <= c * b
  OBVIOUS

LEMMA QuotientSplit ==
  ASSUME NEW a \in Nat, NEW b \in Nat \ {0}
  PROVE  (a \div b) * b + (a % b) = a
<1> DEFINE x == a \div b
<1>1. a % b = a - b * x /\ x \in Nat
  BY Divided
<1>2. x * b = b * x /\ b * x \in Nat
  BY <1>1
<1> HIDE DEF x
<1>3. x * b + (a % b) = a
  BY <1>1, <1>2
<1> QED
  BY <1>3 DEF x

LEMMA SplitUnique ==
  ASSUME NEW b \in Nat \ {0}, NEW x \in Nat, NEW y \in Nat,
         NEW i \in 0 .. b - 1, NEW j \in 0 .. b - 1, x * b + i = y * b + j
  PROVE  x = y /\ i = j
<1> DEFINE a == x * b + i
<1>0. x * b = b * x /\ b * x \in Nat /\ y * b = b * y /\ b * y \in Nat /\ a \in Nat
  OBVIOUS
<1>1. b * x <= a /\ a < b * x + b
  BY <1>0
<1>2. a = y * b + j
  OBVIOUS
<1> HIDE DEF a
<1>3. b * y <= a /\ a < b * y + b
  BY <1>0, <1>2
<1>4. x = y
  BY <1>0, <1>1, <1>3, QuotientIs
<1> QED
  BY <1>4, <1>0

LEMMA TwiceDivided ==
  ASSUME NEW a \in Nat, NEW b \in Nat \ {0}, NEW c \in Nat \ {0}
  PROVE  a \div (c * b) = (a \div b) \div c
<1> DEFINE y == a \div b
           x == y \div c
<1>1. y \in Nat /\ b * y <= a /\ a < b * y + b
  BY Divided
<1> HIDE DEF y
<1>2. x \in Nat /\ c * x <= y /\ y + 1 <= c * x + c /\ c * x \in Nat
  BY <1>1, Divided
<1> HIDE DEF x
<1>3. b * (c * x) <= b * y /\ b * (y + 1) <= b * (c * x + c)
  BY <1>1, <1>2, Scaled
<1>4. b * (c * x) = (c * b) * x /\ b * (y + 1) = b * y + b /\ b * (c * x + c) = (c * b) * x + c * b
  BY <1>1, <1>2
<1>5. (c * b) * x <= a /\ a < (c * b) * x + c * b
  BY <1>1, <1>2, <1>3, <1>4
<1>6. c * b \in Nat \ {0}
  OBVIOUS
<1>7. a \div (c * b) = x
  BY <1>2, <1>5, <1>6, QuotientIs
<1> QED
  BY <1>7 DEF x, y
\* What spans are: the equation of the recursive function, and that none is zero.
LEMMA SpanEquation ==
  Span = [k \in 0 .. Levels |-> IF k = 0 THEN 1 ELSE Fan * Span[k - 1]]
<1> DEFINE T == {n \in Nat : \E s : s = [k \in 0 .. n |-> IF k = 0 THEN 1 ELSE Fan * s[k - 1]]}
<1>1. 0 \in T
  <2> DEFINE s == [k \in 0 .. 0 |-> 1]
  <2>1. s = [k \in 0 .. 0 |-> IF k = 0 THEN 1 ELSE Fan * s[k - 1]]
    OBVIOUS
  <2> QED
    BY <2>1
<1>2. ASSUME NEW n \in Nat, n \in T PROVE n + 1 \in T
  <2>1. PICK s : s = [k \in 0 .. n |-> IF k = 0 THEN 1 ELSE Fan * s[k - 1]]
    BY <1>2
  <2> DEFINE t == [k \in 0 .. n + 1 |-> IF k <= n THEN s[k] ELSE Fan * s[n]]
  <2>2. ASSUME NEW k \in 0 .. n + 1 PROVE t[k] = IF k = 0 THEN 1 ELSE Fan * t[k - 1]
    <3>1. CASE k = 0
      BY <2>1, <3>1
    <3>2. CASE k # 0 /\ k <= n
      <4>1. k - 1 \in 0 .. n /\ k \in 0 .. n
        BY <3>2
      <4>2. t[k] = s[k] /\ t[k - 1] = s[k - 1]
        BY <4>1, <3>2
      <4>3. s[k] = Fan * s[k - 1]
        BY <2>1, <3>2, <4>1
      <4> QED
        BY <3>2, <4>2, <4>3
    <3>3. CASE k = n + 1
      <4>1. t[k] = Fan * s[n] /\ t[n] = s[n] /\ k - 1 = n /\ k # 0
        BY <3>3
      <4> QED
        BY <4>1
    <3> QED
      BY <3>1, <3>2, <3>3
  <2>3. t = [k \in 0 .. n + 1 |-> IF k = 0 THEN 1 ELSE Fan * t[k - 1]]
    BY <2>2
  <2> HIDE DEF t
  <2> QED
    BY <2>3
<1> HIDE DEF T
<1>3. Levels \in T
  BY <1>1, <1>2, Induction, PagingAssumption
<1> QED
  BY <1>3 DEF T, Span

LEMMA SpanType == \A k \in 0 .. Levels : Span[k] \in Nat \ {0}
<1> DEFINE T == {n \in Nat : n <= Levels => Span[n] \in Nat \ {0}}
<1>0. Levels \in Nat /\ Fan \in Nat \ {0}
  BY PagingAssumption
<1>1. 0 \in T
  BY <1>0, SpanEquation
<1>2. ASSUME NEW n \in Nat, n \in T PROVE n + 1 \in T
  <2> SUFFICES ASSUME n + 1 <= Levels PROVE Span[n + 1] \in Nat \ {0}
    OBVIOUS
  <2>1. n <= Levels /\ n + 1 \in 0 .. Levels /\ n + 1 # 0 /\ (n + 1) - 1 = n
    BY <1>0
  <2>2. Span[n] \in Nat \ {0}
    BY <1>2, <2>1
  <2>3. Span[n + 1] = Fan * Span[n]
    BY <2>1, SpanEquation
  <2> QED
    BY <1>0, <2>2, <2>3, Product
<1> HIDE DEF T
<1>3. Nat \subseteq T
  BY <1>1, <1>2, Induction
<1>4. ASSUME NEW k \in 0 .. Levels PROVE k \in Nat /\ k <= Levels
  BY <1>0
<1> QED
  BY <1>3, <1>4 DEF T

\* An index is one of a table.
LEMMA IndexType ==
  ASSUME NEW v \in Nat, NEW k \in 1 .. Levels
  PROVE  Index(v, k) \in 0 .. Fan - 1
<1>1. Levels - k \in 0 .. Levels
  BY PagingAssumption
<1>2. Span[Levels - k] \in Nat \ {0}
  BY <1>1, SpanType
<1>3. v \div Span[Levels - k] \in Nat
  BY <1>2, NatQuotient
<1>4. v \div Span[Levels - k] \in Int /\ Fan \in Nat \ {0}
  BY <1>3, PagingAssumption
<1>5. (v \div Span[Levels - k]) % Fan \in 0 .. Fan - 1
  BY <1>4, Remainder
<1> QED
  BY <1>5 DEF Index

\* What lies below a table on level k is divided among its entries by the index: the
\* place of the table and the index are the place of what is below.
LEMMA IndexSplits ==
  ASSUME NEW v \in Nat, NEW k \in 1 .. Levels
  PROVE  (v \div Span[Levels - k + 1]) * Fan + Index(v, k) = v \div Span[Levels - k]
<1> DEFINE b == Span[Levels - k]
           c == Span[Levels - k + 1]
           a == v \div b
<1>1. /\ Levels - k \in 0 .. Levels /\ Levels - k + 1 \in 0 .. Levels /\ Levels - k + 1 # 0
      /\ (Levels - k + 1) - 1 = Levels - k /\ Fan \in Nat \ {0}
  BY PagingAssumption
<1>2. b \in Nat \ {0} /\ c = Fan * b
  BY <1>1, SpanType, SpanEquation
<1> HIDE DEF b, c
<1>3. a \in Nat
  BY <1>2, NatQuotient
<1>4. v \div c = a \div Fan
  BY <1>1, <1>2, TwiceDivided
<1> HIDE DEF a
<1>5. (a \div Fan) * Fan + (a % Fan) = a
  BY <1>1, <1>3, QuotientSplit
<1>6. Index(v, k) = a % Fan
  BY DEF Index, a, b
<1>7. (v \div c) * Fan + Index(v, k) = a
  BY <1>4, <1>5, <1>6
<1> QED
  BY <1>7 DEF a, b, c

LEMMA SpanEnds ==
  /\ \A v \in Nat : v \div Span[Levels - Levels] = v
  /\ \A v \in Nat : v < Span[Levels] => v \div Span[Levels - 1 + 1] = 0
<1>1. 0 \in 0 .. Levels /\ Levels \in 0 .. Levels /\ Levels - Levels = 0 /\ Levels - 1 + 1 = Levels
  BY PagingAssumption
<1>2. Span[0] = 1 /\ Span[Levels] \in Nat \ {0}
  BY <1>1, SpanEquation, SpanType
<1>3. ASSUME NEW v \in Nat PROVE v \div 1 = v
  OBVIOUS
<1>4. ASSUME NEW v \in Nat, v < Span[Levels] PROVE v \div Span[Levels] = 0
  <2>1. Span[Levels] * 0 <= v /\ v < Span[Levels] * 0 + Span[Levels]
    BY <1>2, <1>4
  <2> QED
    BY <1>2, <2>1, QuotientIs
<1> QED
  BY <1>1, <1>2, <1>3, <1>4

-----------------------------------------------------------------------------
(* The segments of a program *)

LEMMA HeaderTypes ==
  ASSUME NEW h \in Seq(ProgramHeader), NEW k \in DOMAIN h
  PROVE  h[k].v \in Nat /\ h[k].mem \in Nat /\ k \in Nat
<1>1. k \in 1 .. Len(h) /\ Len(h) \in Nat
  BY LenProperties
<1>2. h[k] \in ProgramHeader
  BY <1>1, ElementOfSeq
<1> QED
  BY <1>1, <1>2 DEF ProgramHeader

LEMMA LowestExists ==
  ASSUME NEW h \in Seq(ProgramHeader), NEW S, S \subseteq DOMAIN h, S # {}
  PROVE  \E k \in S : \A j \in S : h[k].v < h[j].v \/ (h[k].v = h[j].v /\ k <= j)
<1> DEFINE V == {h[k].v : k \in S}
<1>1. V \subseteq Nat /\ V # {}
  BY HeaderTypes
<1>2. PICK x \in V : \A y \in V : x <= y
  BY <1>1, Least
<1> DEFINE K == {k \in S : h[k].v = x}
<1>3. K \subseteq Nat /\ K # {}
  BY HeaderTypes
<1>4. PICK k \in K : \A j \in K : k <= j
  BY <1>3, Least
<1>5. ASSUME NEW j \in S PROVE h[k].v < h[j].v \/ (h[k].v = h[j].v /\ k <= j)
  <2>1. h[j].v \in V /\ h[j].v \in Nat /\ x \in Nat /\ h[k].v = x
    BY <1>1, HeaderTypes
  <2>2. x <= h[j].v
    BY <1>2, <2>1
  <2>3. h[j].v = x => k <= j
    BY <1>4
  <2> QED
    BY <2>1, <2>2, <2>3
<1> QED
  BY <1>5

LEMMA AddressesBounded ==
  ASSUME NEW h \in Seq(ProgramHeader)
  PROVE  \E b \in Nat : \A k \in DOMAIN h : h[k].v <= b
<1> DEFINE T == {n \in Nat : \E b \in Nat : \A k \in DOMAIN h : k <= n => h[k].v <= b}
<1>0. DOMAIN h = 1 .. Len(h) /\ Len(h) \in Nat
  BY LenProperties
<1>1. 0 \in T
  BY <1>0
<1>2. ASSUME NEW n \in Nat, n \in T PROVE n + 1 \in T
  <2>1. PICK b \in Nat : \A k \in DOMAIN h : k <= n => h[k].v <= b
    BY <1>2
  <2>2. CASE n + 1 \in DOMAIN h
    <3> DEFINE c == b + h[n + 1].v
    <3>1. h[n + 1].v \in Nat
      BY <2>2, HeaderTypes
    <3>2. c \in Nat
      BY <3>1
    <3>3. ASSUME NEW k \in DOMAIN h, k <= n + 1 PROVE h[k].v <= c
      <4>1. h[k].v \in Nat /\ k \in Nat
        BY HeaderTypes
      <4>2. k <= n \/ k = n + 1
        BY <3>3, <4>1
      <4>3. CASE k <= n
        BY <2>1, <3>1, <4>1, <4>3
      <4>4. CASE k = n + 1
        BY <3>1, <4>4
      <4> QED
        BY <4>2, <4>3, <4>4
    <3> HIDE DEF c
    <3>4. n + 1 \in Nat
      OBVIOUS
    <3> QED
      BY <3>2, <3>3, <3>4
  <2>3. CASE n + 1 \notin DOMAIN h
    <3>1. ASSUME NEW k \in DOMAIN h, k <= n + 1 PROVE k <= n
      BY <1>0, <2>3, <3>1
    <3> QED
      BY <2>1, <3>1
  <2> QED
    BY <2>2, <2>3
<1> HIDE DEF T
<1>3. Len(h) \in T
  BY <1>0, <1>1, <1>2, Induction
<1>4. PICK b \in Nat : \A k \in DOMAIN h : k <= Len(h) => h[k].v <= b
  BY <1>3 DEF T
<1> QED
  BY <1>0, <1>4

LEMMA HighestExists ==
  ASSUME NEW h \in Seq(ProgramHeader), NEW S, S \subseteq DOMAIN h, S # {}
  PROVE  \E k \in S : \A j \in S : h[k].v > h[j].v \/ (h[k].v = h[j].v /\ k <= j)
<1> DEFINE B == {b \in Nat : \A k \in S : h[k].v <= b}
<1>1. B \subseteq Nat /\ B # {}
  <2>1. PICK b \in Nat : \A k \in DOMAIN h : h[k].v <= b
    BY AddressesBounded
  <2>2. b \in B
    BY <2>1
  <2> QED
    BY <2>2
<1>2. PICK x \in B : \A y \in B : x <= y
  BY <1>1, Least
<1>3. x \in Nat /\ \A k \in S : h[k].v \in Nat /\ h[k].v <= x
  BY HeaderTypes
<1>4. \E k \in S : h[k].v = x
  <2> SUFFICES ASSUME \A k \in S : h[k].v # x PROVE FALSE
    OBVIOUS
  <2>1. \A k \in S : h[k].v < x
    BY <1>3
  <2>2. x - 1 \in Nat /\ \A k \in S : h[k].v <= x - 1
    BY <1>3, <2>1
  <2>3. x - 1 \in B
    BY <2>2
  <2>4. x <= x - 1
    BY <1>2, <2>3
  <2> QED
    BY <1>3, <2>4
<1> DEFINE K == {k \in S : h[k].v = x}
<1>5. K \subseteq Nat /\ K # {}
  BY <1>4, HeaderTypes
<1>6. PICK k \in K : \A j \in K : k <= j
  BY <1>5, Least
<1>7. ASSUME NEW j \in S PROVE h[k].v > h[j].v \/ (h[k].v = h[j].v /\ k <= j)
  <2>1. h[j].v \in Nat /\ h[j].v <= x /\ h[k].v = x /\ x \in Nat
    BY <1>3
  <2>2. h[j].v = x => k <= j
    BY <1>6
  <2> QED
    BY <2>1, <2>2
<1> QED
  BY <1>7

LEMMA ImageTypes ==
  ASSUME NEW h \in Seq(ProgramHeader), h # <<>>
  PROVE  ImageStart(h) \in Nat /\ ImageEnd(h) \in Nat
<1>1. 1 \in DOMAIN h
  BY EmptySeq, LenProperties
<1>2. first_loadable_segment(h) \in DOMAIN h
  <2>1. CASE Loadable(h) = {}
    BY <1>1, <2>1 DEF first_loadable_segment
  <2>2. CASE Loadable(h) # {}
    <3>1. Loadable(h) \subseteq DOMAIN h
      BY DEF Loadable
    <3>2. \E k \in Loadable(h) : \A j \in Loadable(h) :
              h[k].v < h[j].v \/ (h[k].v = h[j].v /\ k <= j)
      BY <2>2, <3>1, LowestExists
    <3>3. first_loadable_segment(h) \in Loadable(h)
      BY <2>2, <3>2 DEF first_loadable_segment
    <3> QED
      BY <3>1, <3>3
  <2> QED
    BY <2>1, <2>2
<1>3. last_loadable_segment(h) \in DOMAIN h
  <2> DEFINE above == {k \in Loadable(h) : h[k].v > 0}
  <2>1. CASE above = {}
    BY <1>1, <2>1 DEF last_loadable_segment
  <2>2. CASE above # {}
    <3>1. above \subseteq DOMAIN h
      BY DEF Loadable
    <3>2. \E k \in above : \A j \in above :
              h[k].v > h[j].v \/ (h[k].v = h[j].v /\ k <= j)
      BY <2>2, <3>1, HighestExists
    <3>3. last_loadable_segment(h) \in above
      BY <2>2, <3>2 DEF last_loadable_segment
    <3> QED
      BY <3>1, <3>3
  <2> QED
    BY <2>1, <2>2
<1>4. ImageStart(h) \in Nat
  BY <1>2, HeaderTypes DEF ImageStart
<1>5. h[last_loadable_segment(h)].v \in Nat /\ h[last_loadable_segment(h)].mem \in Nat
  BY <1>3, HeaderTypes
<1>6. ImageEnd(h) \in Nat
  BY <1>5 DEF ImageEnd
<1> QED
  BY <1>4, <1>6

LEMMA AlignedUp == ASSUME NEW x \in Int PROVE PAGE_ALIGN_UP(x) \in Int
<1>1. x + PageSize - 1 \in Int /\ PageSize \in Nat \ {0}
  BY PagingAssumption
<1> QED
  BY <1>1, Quotient DEF PAGE_ALIGN_UP

LEMMA AlignedUpNat == ASSUME NEW x \in Nat PROVE PAGE_ALIGN_UP(x) \in Nat
<1>1. x + PageSize - 1 \in Nat /\ PageSize \in Nat \ {0}
  BY PagingAssumption
<1> QED
  BY <1>1, NatQuotient DEF PAGE_ALIGN_UP

\* What spawn computes from the headers of a program.
LEMMA ProgramTypes ==
  ASSUME NEW p \in DOMAIN Programs
  PROVE  LET h == Programs[p].headers
         IN  /\ ImageStart(h) \in Nat /\ ImageEnd(h) \in Nat /\ pages_to_map(h) \in Int
             /\ ImageStart(h) \div PageSize \in Nat /\ PAGE_ALIGN_UP(ImageEnd(h)) \in Nat
<1> DEFINE h == Programs[p].headers
           R == [id : Identification, headers : Seq(ProgramHeader)]
<1>1. Programs \in Seq(R) /\ h # <<>>
  BY PagingAssumption
<1> HIDE DEF R
<1>2. Programs[p] \in R
  BY <1>1, LenProperties, ElementOfSeq
<1>3. h \in Seq(ProgramHeader)
  BY <1>2 DEF R
<1> HIDE DEF h
<1>4. ImageStart(h) \in Nat /\ ImageEnd(h) \in Nat
  BY <1>1, <1>3, ImageTypes
<1>5. pages_to_map(h) \in Int
  <2>1. ImageEnd(h) - ImageStart(h) \in Int
    BY <1>4
  <2> QED
    BY <2>1, AlignedUp DEF pages_to_map
<1>6. ImageStart(h) \div PageSize \in Nat
  BY <1>4, NatQuotient, PagingAssumption
<1>7. PAGE_ALIGN_UP(ImageEnd(h)) \in Nat
  BY <1>4, AlignedUpNat
<1> QED
  BY <1>4, <1>5, <1>6, <1>7 DEF h

-----------------------------------------------------------------------------
(* What a call has still to do *)

PartType ==
    [op : {"copy", "take", "tree", "map", "alloc"}, space : Nat, v : Nat, n : Int,
     from : {"zero", "taken"}, page : Nat, user : BOOLEAN]

\* No tree is made, and the trees 1 to r are written to.
Plain(q, r) ==
    /\ q \in Seq(PartType)
    /\ \A k \in 1 .. Len(q) :
         q[k].op # "tree" /\ (q[k].op \in {"map", "alloc"} => q[k].space \in 1 .. r)

\* The tree r is made in the m-th part, and written to only behind it.
Making(q, m, r) ==
    /\ q \in Seq(PartType) /\ m \in 1 .. Len(q) /\ q[m].op = "tree"
    /\ \A k \in 1 .. Len(q) :
         /\ k < m => q[k].op \in {"take", "copy"}
         /\ k > m => q[k].op # "tree" /\ (q[k].op \in {"map", "alloc"} => q[k].space \in 1 .. r)

\* Every range that is to be mapped has a page.
Lasting(q) == \A k \in 1 .. Len(q) : q[k].op \in {"map", "alloc"} => q[k].n > 0

LEMMA PlainOne ==
  ASSUME NEW part \in PartType, NEW r \in Nat, part.op # "tree",
         part.op \in {"map", "alloc"} => part.space \in 1 .. r
  PROVE  Plain(<<part>>, r)
<1>1. <<part>> \in Seq(PartType) /\ Len(<<part>>) = 1 /\ <<part>>[1] = part
  OBVIOUS
<1>2. \A k \in 1 .. 1 : k = 1
  OBVIOUS
<1> QED
  BY <1>1, <1>2 DEF Plain

LEMMA LastingOne ==
  ASSUME NEW part, part.op \in {"map", "alloc"} => part.n > 0
  PROVE  Lasting(<<part>>)
<1>1. Len(<<part>>) = 1 /\ <<part>>[1] = part
  OBVIOUS
<1>2. \A k \in 1 .. 1 : k = 1
  OBVIOUS
<1> QED
  BY <1>1, <1>2 DEF Lasting

\* The parts of two calls in a row are those of the one and of the other.
LEMMA PartsConcat ==
  ASSUME NEW a \in Seq(PartType), NEW b \in Seq(PartType), NEW k \in 1 .. Len(a \o b)
  PROVE  (\E j \in 1 .. Len(a) : (a \o b)[k] = a[j]) \/ (\E j \in 1 .. Len(b) : (a \o b)[k] = b[j])
<1>1. Len(a) \in Nat /\ Len(b) \in Nat
  BY LenProperties
<1>2. /\ a \o b \in Seq(PartType) /\ Len(a \o b) = Len(a) + Len(b)
      /\ \A i \in 1 .. Len(a) + Len(b) : (a \o b)[i] =
             IF i <= Len(a) THEN a[i] ELSE b[i - Len(a)]
  BY <1>1, ConcatProperties
<1>3. CASE k <= Len(a)
  BY <1>1, <1>2, <1>3
<1>4. CASE ~(k <= Len(a))
  <2>1. k - Len(a) \in 1 .. Len(b) /\ k \in 1 .. Len(a) + Len(b)
    BY <1>1, <1>2, <1>4
  <2> QED
    BY <1>2, <1>4, <2>1
<1> QED
  BY <1>3, <1>4

LEMMA LastingConcat ==
  ASSUME NEW a \in Seq(PartType), NEW b \in Seq(PartType), Lasting(a), Lasting(b)
  PROVE  Lasting(a \o b) /\ a \o b \in Seq(PartType)
<1>1. a \o b \in Seq(PartType)
  BY ConcatProperties
<1>2. ASSUME NEW k \in 1 .. Len(a \o b), (a \o b)[k].op \in {"map", "alloc"}
      PROVE  (a \o b)[k].n > 0
  <2>1. (\E j \in 1 .. Len(a) : (a \o b)[k] = a[j]) \/ (\E j \in 1 .. Len(b) : (a \o b)[k] = b[j])
    BY PartsConcat
  <2> QED
    BY <1>2, <2>1 DEF Lasting
<1> QED
  BY <1>1, <1>2 DEF Lasting

LEMMA PlainConcat ==
  ASSUME NEW r \in Nat, NEW a, NEW b, Plain(a, r), Plain(b, r)
  PROVE  Plain(a \o b, r)
<1>1. a \in Seq(PartType) /\ b \in Seq(PartType)
  BY DEF Plain
<1>2. a \o b \in Seq(PartType)
  BY <1>1, ConcatProperties
<1>3. ASSUME NEW k \in 1 .. Len(a \o b)
      PROVE  (\E j \in 1 .. Len(a) : (a \o b)[k] = a[j]) \/ (\E j \in 1 .. Len(b) : (a \o b)[k] = b[j])
  BY <1>1, PartsConcat
<1> QED
  BY <1>2, <1>3 DEF Plain

LEMMA MakingConcat ==
  ASSUME NEW r \in Nat, NEW m, NEW a, NEW b, Making(a, m, r), Plain(b, r)
  PROVE  Making(a \o b, m, r)
<1>1. /\ a \in Seq(PartType) /\ b \in Seq(PartType) /\ Len(a) \in Nat /\ Len(b) \in Nat
      /\ m \in 1 .. Len(a)
  BY LenProperties DEF Plain, Making
<1>2. /\ a \o b \in Seq(PartType) /\ Len(a \o b) = Len(a) + Len(b)
      /\ \A i \in 1 .. Len(a) + Len(b) : (a \o b)[i] =
             IF i <= Len(a) THEN a[i] ELSE b[i - Len(a)]
  BY <1>1, ConcatProperties
<1>3. m \in 1 .. Len(a \o b) /\ (a \o b)[m] = a[m]
  BY <1>1, <1>2
<1>4. ASSUME NEW k \in 1 .. Len(a \o b)
      PROVE  \/ k \in 1 .. Len(a) /\ (a \o b)[k] = a[k]
             \/ ~(k < m) /\ \E j \in 1 .. Len(b) : (a \o b)[k] = b[j]
  <2>1. CASE k <= Len(a)
    BY <1>1, <1>2, <2>1
  <2>2. CASE ~(k <= Len(a))
    <3>1. k - Len(a) \in 1 .. Len(b) /\ k \in 1 .. Len(a) + Len(b) /\ ~(k < m)
      BY <1>1, <1>2, <2>2
    <3> QED
      BY <1>2, <2>2, <3>1
  <2> QED
    BY <2>1, <2>2
<1>5. ASSUME NEW k \in 1 .. Len(a \o b)
      PROVE  /\ k < m => (a \o b)[k].op \in {"take", "copy"}
             /\ k > m => /\ (a \o b)[k].op # "tree"
                         /\ (a \o b)[k].op \in {"map", "alloc"} => (a \o b)[k].space \in 1 .. r
  BY <1>4 DEF Plain, Making
<1> QED
  BY <1>2, <1>3, <1>5 DEF Making

\* A part that is done leaves the rest.
LEMMA PlainTail ==
  ASSUME NEW r \in Nat, NEW q, Plain(q, r), q # <<>>
  PROVE  Plain(Tail(q), r)
<1>1. q \in Seq(PartType) /\ Len(q) \in Nat
  BY LenProperties DEF Plain
<1>2. /\ Tail(q) \in Seq(PartType) /\ Len(Tail(q)) = Len(q) - 1
      /\ \A i \in 1 .. Len(Tail(q)) : Tail(q)[i] = q[i + 1]
  BY <1>1, HeadTailProperties
<1>3. \A i \in 1 .. Len(Tail(q)) : i + 1 \in 1 .. Len(q)
  BY <1>1, <1>2
<1> QED
  BY <1>2, <1>3 DEF Plain

LEMMA MakingTail ==
  ASSUME NEW r \in Nat, NEW m, NEW q, Making(q, m, r)
  PROVE  /\ q # <<>> /\ Head(q) \in PartType /\ Head(q) = q[1]
         /\ m = 1 => Plain(Tail(q), r) /\ Head(q).op = "tree"
         /\ m # 1 => Making(Tail(q), m - 1, r) /\ Head(q).op \in {"take", "copy"}
<1>1. q \in Seq(PartType) /\ Len(q) \in Nat /\ m \in 1 .. Len(q) /\ q # <<>> /\ 1 \in 1 .. Len(q)
  <2>1. q \in Seq(PartType) /\ Len(q) \in Nat /\ m \in 1 .. Len(q)
    BY LenProperties DEF Making
  <2> QED
    BY <2>1, EmptySeq
<1>2. /\ Tail(q) \in Seq(PartType) /\ Len(Tail(q)) = Len(q) - 1 /\ Head(q) \in PartType
      /\ \A i \in 1 .. Len(Tail(q)) : Tail(q)[i] = q[i + 1]
  BY <1>1, HeadTailProperties
<1>3. Head(q) = q[1]
  BY <1>1
<1>4. CASE m = 1
  <2>1. \A i \in 1 .. Len(Tail(q)) : i + 1 \in 1 .. Len(q) /\ i + 1 > m
    BY <1>1, <1>2, <1>4
  <2>2. Plain(Tail(q), r)
    BY <1>2, <2>1 DEF Plain, Making
  <2>3. Head(q).op = "tree"
    BY <1>3, <1>4 DEF Making
  <2> QED
    BY <1>1, <1>2, <1>3, <1>4, <2>2, <2>3
<1>5. CASE m # 1
  <2>1. m - 1 \in 1 .. Len(Tail(q)) /\ (m - 1) + 1 = m
    BY <1>1, <1>2, <1>5
  <2>2. \A i \in 1 .. Len(Tail(q)) :
          i + 1 \in 1 .. Len(q) /\ (i < m - 1 => i + 1 < m) /\ (i > m - 1 => i + 1 > m)
    BY <1>1, <1>2
  <2>3. Tail(q)[m - 1].op = "tree"
    BY <1>2, <2>1 DEF Making
  <2>4. Making(Tail(q), m - 1, r)
    BY <1>2, <2>1, <2>2, <2>3 DEF Making
  <2>5. 1 < m
    BY <1>1, <1>5
  <2>6. Head(q).op \in {"take", "copy"}
    BY <1>1, <1>3, <2>5 DEF Making
  <2> QED
    BY <1>1, <1>2, <1>3, <1>5, <2>4, <2>6
<1> QED
  BY <1>4, <1>5

-----------------------------------------------------------------------------
(* What the callers ask for *)

\* The parts of the first e sections, by the equation of map_sections.
SectionParts(s) ==
    CHOOSE parts : parts = [e \in 0 .. Len(Sections) |->
        IF e = 0 THEN <<>>
        ELSE IF Sections[e].usable
             THEN Append(parts[e - 1],
                         MapKernel(s, Hhdm + Sections[e].base, Sections[e].pages, Sections[e].base))
             ELSE parts[e - 1]]

LEMMA SectionsAreParts ==
  ASSUME NEW s PROVE map_sections(s) = SectionParts(s)[Len(Sections)]
  BY DEF map_sections, SectionParts

\* One section more.
Grown(s, e, before) ==
    IF Sections[e].usable
    THEN Append(before, MapKernel(s, Hhdm + Sections[e].base, Sections[e].pages, Sections[e].base))
    ELSE before

LEMMA SectionPartsEquation ==
  ASSUME NEW s
  PROVE  SectionParts(s) = [e \in 0 .. Len(Sections) |->
                              IF e = 0 THEN <<>> ELSE Grown(s, e, SectionParts(s)[e - 1])]
<1> DEFINE T == {n \in Nat : \E f : f = [e \in 0 .. n |-> IF e = 0 THEN <<>> ELSE Grown(s, e, f[e - 1])]}
<1>1. 0 \in T
  <2> DEFINE f == [e \in 0 .. 0 |-> <<>>]
  <2>1. f = [e \in 0 .. 0 |-> IF e = 0 THEN <<>> ELSE Grown(s, e, f[e - 1])]
    OBVIOUS
  <2> QED
    BY <2>1
<1>2. ASSUME NEW n \in Nat, n \in T PROVE n + 1 \in T
  <2>1. PICK f : f = [e \in 0 .. n |-> IF e = 0 THEN <<>> ELSE Grown(s, e, f[e - 1])]
    BY <1>2
  <2> DEFINE g == [e \in 0 .. n + 1 |-> IF e <= n THEN f[e] ELSE Grown(s, e, f[n])]
  <2>2. ASSUME NEW e \in 0 .. n + 1 PROVE g[e] = IF e = 0 THEN <<>> ELSE Grown(s, e, g[e - 1])
    <3>1. CASE e = 0
      BY <2>1, <3>1
    <3>2. CASE e # 0 /\ e <= n
      <4>1. e - 1 \in 0 .. n /\ e \in 0 .. n
        BY <3>2
      <4>2. g[e] = f[e] /\ g[e - 1] = f[e - 1]
        BY <4>1, <3>2
      <4>3. f[e] = Grown(s, e, f[e - 1])
        BY <2>1, <3>2, <4>1
      <4> QED
        BY <3>2, <4>2, <4>3
    <3>3. CASE e = n + 1
      <4>1. g[e] = Grown(s, e, f[n]) /\ g[n] = f[n] /\ e - 1 = n /\ e # 0
        BY <3>3
      <4> QED
        BY <4>1
    <3> QED
      BY <3>1, <3>2, <3>3
  <2>3. g = [e \in 0 .. n + 1 |-> IF e = 0 THEN <<>> ELSE Grown(s, e, g[e - 1])]
    BY <2>2
  <2> HIDE DEF g
  <2> QED
    BY <2>3
<1> HIDE DEF T
<1>3. Len(Sections) \in Nat
  BY PMMAssumption, LenProperties
<1>4. Len(Sections) \in T
  BY <1>1, <1>2, <1>3, Induction
<1>5. SectionParts(s) = CHOOSE f : f = [e \in 0 .. Len(Sections) |->
                                          IF e = 0 THEN <<>> ELSE Grown(s, e, f[e - 1])]
  BY DEF SectionParts, Grown
<1> QED
  BY <1>4, <1>5 DEF T

LEMMA KernelPart ==
  ASSUME NEW r \in Nat, NEW s \in 1 .. r, NEW v \in Nat, NEW n \in Nat, NEW page \in Nat
  PROVE  /\ MapKernel(s, v, n, page) \in PartType
         /\ MapKernel(s, v, n, page).op = "map" /\ MapKernel(s, v, n, page).space = s
         /\ MapKernel(s, v, n, page).n = n
  BY DEF MapKernel, Part, PartType

LEMMA SectionsPlain ==
  ASSUME NEW r \in Nat, NEW s \in 1 .. r
  PROVE  Plain(map_sections(s), r) /\ Lasting(map_sections(s))
<1> DEFINE f == SectionParts(s)
           T == {n \in Nat : n <= Len(Sections) => Plain(f[n], r) /\ Lasting(f[n])}
<1>0. Len(Sections) \in Nat /\ Entries = 1 .. Len(Sections)
  BY PMMAssumption, LenProperties DEF Entries
<1>1. 0 \in T
  <2>1. f[0] = <<>>
    BY <1>0, SectionPartsEquation
  <2>2. Plain(<<>>, r) /\ Lasting(<<>>)
    BY EmptySeq DEF Plain, Lasting
  <2> QED
    BY <2>1, <2>2
<1>2. ASSUME NEW n \in Nat, n \in T PROVE n + 1 \in T
  <2> SUFFICES ASSUME n + 1 <= Len(Sections) PROVE Plain(f[n + 1], r) /\ Lasting(f[n + 1])
    OBVIOUS
  <2>1. /\ n <= Len(Sections) /\ n + 1 \in 0 .. Len(Sections) /\ n + 1 # 0
        /\ (n + 1) - 1 = n /\ n + 1 \in Entries
    BY <1>0
  <2>2. Plain(f[n], r) /\ Lasting(f[n])
    BY <1>2, <2>1
  <2>3. f[n + 1] = Grown(s, n + 1, f[n])
    BY <2>1, SectionPartsEquation
  <2> HIDE DEF f
  <2>4. CASE ~Sections[n + 1].usable
    BY <2>2, <2>3, <2>4 DEF Grown
  <2>5. CASE Sections[n + 1].usable
    <3> DEFINE part == MapKernel(s, Hhdm + Sections[n + 1].base, Sections[n + 1].pages,
                                 Sections[n + 1].base)
    <3>1. /\ Sections[n + 1].base \in Nat /\ Sections[n + 1].pages \in Nat
          /\ Hhdm + Sections[n + 1].base \in Nat /\ Sections[n + 1].pages > 0
      <4>1. Sections[n + 1].base \in Nat /\ Sections[n + 1].pages \in Nat /\ Sections[n + 1].pages > 0
        BY <2>1, SectionTypes
      <4>2. Hhdm \in Nat
        BY PagingAssumption
      <4> QED
        BY <4>1, <4>2
    <3>2. part \in PartType /\ part.op = "map" /\ part.space = s /\ part.n > 0
      <4>1. part \in PartType /\ part.op = "map" /\ part.space = s /\ part.n = Sections[n + 1].pages
        BY <3>1, KernelPart
      <4> HIDE DEF part
      <4> QED
        BY <3>1, <4>1
    <3>3. f[n + 1] = Append(f[n], part)
      BY <2>3, <2>5 DEF Grown
    <3> HIDE DEF part
    <3>4. f[n] \in Seq(PartType) /\ Len(f[n]) \in Nat
      BY <2>2, LenProperties DEF Plain
    <3>5. /\ f[n + 1] \in Seq(PartType) /\ Len(f[n + 1]) = Len(f[n]) + 1
          /\ \A i \in 1 .. Len(f[n]) : f[n + 1][i] = f[n][i]
          /\ f[n + 1][Len(f[n]) + 1] = part
      BY <3>2, <3>3, <3>4, AppendProperties
    <3>6. \A k \in 1 .. Len(f[n + 1]) : k \in 1 .. Len(f[n]) \/ k = Len(f[n]) + 1
      BY <3>4, <3>5
    <3>7. Plain(f[n + 1], r)
      BY <2>2, <3>2, <3>5, <3>6 DEF Plain
    <3>8. Lasting(f[n + 1])
      BY <2>2, <3>2, <3>5, <3>6 DEF Lasting
    <3> QED
      BY <3>7, <3>8
  <2> QED
    BY <2>4, <2>5
<1> HIDE DEF T
<1>3. Len(Sections) \in T
  BY <1>0, <1>1, <1>2, Induction
<1> QED
  BY <1>0, <1>3, SectionsAreParts DEF T

LEMMA FunctionIsSeq ==
  ASSUME NEW S, NEW n \in Nat, NEW f \in [1 .. n -> S]
  PROVE  f \in Seq(S) /\ Len(f) = n
<1>1. f \in Seq(S)
  BY SeqDef
<1>2. DOMAIN f = 1 .. n
  OBVIOUS
<1> QED
  BY <1>1, <1>2, LenProperties

\* Parts that all map something into trees there are.
LEMMA EachPlain ==
  ASSUME NEW r \in Nat, NEW f \in Seq(PartType),
         \A k \in 1 .. Len(f) : f[k].op = "map" /\ f[k].space \in 1 .. r /\ f[k].n > 0
  PROVE  Plain(f, r) /\ Lasting(f)
<1>1. Plain(f, r)
  BY DEF Plain
<1>2. Lasting(f)
  BY DEF Lasting
<1> QED
  BY <1>1, <1>2

LEMMA AllocPlain ==
  ASSUME NEW r \in Nat, NEW s \in 1 .. r, NEW v \in Nat, NEW user \in BOOLEAN
  PROVE  Plain(Alloc(s, v, user), r) /\ Lasting(Alloc(s, v, user))
<1> DEFINE part == Part("alloc", s, v, StackPages, "zero", 0, user)
<1>0. s \in Nat /\ StackPages \in Int /\ StackPages > 0
  BY PagingAssumption
<1>1. part \in PartType /\ part.op = "alloc" /\ part.space = s /\ part.n > 0
  BY <1>0 DEF Part, PartType
<1> HIDE DEF part
<1>2. Plain(<<part>>, r) /\ Lasting(<<part>>)
  BY <1>1, PlainOne, LastingOne
<1> QED
  BY <1>2 DEF Alloc, part

LEMMA MapTakenPlain ==
  ASSUME NEW r \in Nat, NEW s \in 1 .. r, NEW v \in Nat, NEW n \in Int
  PROVE  Plain(MapTaken(s, v, n), r) /\ (n > 0 => Lasting(MapTaken(s, v, n)))
<1> DEFINE part == Part("map", s, v, n, "taken", 0, TRUE)
<1>0. s \in Nat
  OBVIOUS
<1>1. part \in PartType /\ part.op = "map" /\ part.space = s /\ part.n = n
  BY <1>0 DEF Part, PartType
<1> HIDE DEF part
<1>2. Plain(<<part>>, r) /\ (n > 0 => Lasting(<<part>>))
  BY <1>1, PlainOne, LastingOne
<1> QED
  BY <1>2 DEF MapTaken, part

LEMMA TakePlain ==
  ASSUME NEW r \in Nat, NEW n \in Int
  PROVE  Plain(Take(n), r) /\ Lasting(Take(n))
<1> DEFINE part == Part("take", 0, 0, n, "zero", 0, FALSE)
<1>1. part \in PartType /\ part.op = "take"
  BY DEF Part, PartType
<1> HIDE DEF part
<1>2. Plain(<<part>>, r) /\ Lasting(<<part>>)
  BY <1>1, PlainOne, LastingOne
<1> QED
  BY <1>2 DEF Take, part

LEMMA MapAllPlain ==
  ASSUME NEW r \in Nat, NEW s \in 1 .. r
  PROVE  Plain(map_all(s), r) /\ Lasting(map_all(s))
<1> DEFINE I == [v : Nat, page : Nat, n : Nat \ {0}]
           f == [k \in DOMAIN KernelImage |->
                   MapKernel(s, KernelImage[k].v, KernelImage[k].n, KernelImage[k].page)]
<1>1. KernelImage \in Seq(I)
  BY PagingAssumption
<1>2. DOMAIN KernelImage = 1 .. Len(KernelImage) /\ Len(KernelImage) \in Nat
  BY <1>1, LenProperties
<1>3. ASSUME NEW k \in DOMAIN KernelImage
      PROVE  f[k] \in PartType /\ f[k].op = "map" /\ f[k].space = s /\ f[k].n > 0
  <2>1. KernelImage[k] \in I
    BY <1>1, <1>2, ElementOfSeq
  <2>2. /\ KernelImage[k].v \in Nat /\ KernelImage[k].page \in Nat /\ KernelImage[k].n \in Nat
        /\ KernelImage[k].n > 0
    BY <2>1
  <2>3. f[k] = MapKernel(s, KernelImage[k].v, KernelImage[k].n, KernelImage[k].page)
    OBVIOUS
  <2> QED
    BY <2>2, <2>3, KernelPart
<1>4. f \in [1 .. Len(KernelImage) -> PartType]
  BY <1>2, <1>3
<1>5. f \in Seq(PartType) /\ Len(f) = Len(KernelImage)
  BY <1>2, <1>4, FunctionIsSeq
<1> HIDE DEF f
<1>6. Plain(f, r) /\ Lasting(f)
  <2>1. \A k \in 1 .. Len(f) : f[k].op = "map" /\ f[k].space \in 1 .. r /\ f[k].n > 0
    BY <1>2, <1>3, <1>5
  <2> QED
    BY <1>5, <2>1, EachPlain
<1>7. KernelStack \in Nat
  BY PagingAssumption
<1>8. Plain(Alloc(s, KernelStack, FALSE), r) /\ Lasting(Alloc(s, KernelStack, FALSE))
  BY <1>7, AllocPlain
<1>9. Plain(map_kernel(s), r)
  BY <1>6, <1>8, PlainConcat DEF map_kernel, f
<1>10. f \in Seq(PartType) /\ Alloc(s, KernelStack, FALSE) \in Seq(PartType)
  BY <1>6, <1>8 DEF Plain
<1>11. Lasting(map_kernel(s))
  BY <1>6, <1>8, <1>10, LastingConcat DEF map_kernel, f
<1>12. map_kernel(s) \in Seq(PartType) /\ map_sections(s) \in Seq(PartType)
  BY <1>9, SectionsPlain DEF Plain
<1>13. Lasting(map_all(s))
  BY <1>11, <1>12, SectionsPlain, LastingConcat DEF map_all
<1> QED
  BY <1>9, <1>13, SectionsPlain, PlainConcat DEF map_all

LEMMA ApicsPlain ==
  ASSUME NEW r \in Nat, NEW s \in 1 .. r
  PROVE  Plain(map_apic_into_task(s), r) /\ Lasting(map_apic_into_task(s))
<1> DEFINE f == map_apic_into_task(s)
<1>1. Apics \in Seq(Nat) /\ DOMAIN Apics = 1 .. Len(Apics) /\ Len(Apics) \in Nat
  BY PagingAssumption, LenProperties
<1>2. ASSUME NEW k \in DOMAIN Apics
      PROVE  f[k] \in PartType /\ f[k].op = "map" /\ f[k].space = s /\ f[k].n = 1
  <2>1. Apics[k] \in Nat /\ Hhdm + Apics[k] \in Nat
    BY <1>1, ElementOfSeq, PagingAssumption
  <2>2. f[k] = MapKernel(s, Hhdm + Apics[k], 1, Apics[k])
    BY DEF map_apic_into_task
  <2> QED
    BY <2>1, <2>2, KernelPart
<1>3. f \in [1 .. Len(Apics) -> PartType]
  BY <1>1, <1>2 DEF map_apic_into_task
<1>4. f \in Seq(PartType) /\ Len(f) = Len(Apics)
  BY <1>1, <1>3, FunctionIsSeq
<1> HIDE DEF f
<1>5. Plain(f, r) /\ Lasting(f)
  <2>1. \A k \in 1 .. Len(f) : f[k].op = "map" /\ f[k].space \in 1 .. r /\ f[k].n > 0
    BY <1>1, <1>2, <1>4
  <2> QED
    BY <1>4, <2>1, EachPlain
<1> QED
  BY <1>5 DEF f

LEMMA NewTreeMaking == ASSUME NEW r \in Nat PROVE Making(NewTree(r), 1, r)
<1> DEFINE part == Part("tree", r, 0, 1, "zero", 0, FALSE)
<1>1. part \in PartType /\ part.op = "tree"
  BY DEF Part, PartType
<1> HIDE DEF part
<1>2. <<part>> \in Seq(PartType) /\ Len(<<part>>) = 1 /\ <<part>>[1] = part
  BY <1>1
<1>3. \A k \in 1 .. 1 : k = 1 /\ ~(k < 1) /\ ~(k > 1)
  OBVIOUS
<1>4. Making(<<part>>, 1, r)
  BY <1>1, <1>2, <1>3 DEF Making
<1> QED
  BY <1>4 DEF NewTree, part

LEMMA KernelMaking == Making(NewTree(1) \o map_all(1), 1, 1)
<1>1. 1 \in Nat /\ 1 \in 1 .. 1
  OBVIOUS
<1> QED
  BY <1>1, NewTreeMaking, MapAllPlain, MakingConcat

LEMMA KernelLasting == Lasting(NewTree(1) \o map_all(1))
<1>1. 1 \in Nat /\ 1 \in 1 .. 1
  OBVIOUS
<1>2. NewTree(1) \in Seq(PartType) /\ map_all(1) \in Seq(PartType) /\ Lasting(map_all(1))
  BY <1>1, NewTreeMaking, MapAllPlain DEF Making, Plain
<1>3. Lasting(NewTree(1))
  BY LastingOne DEF NewTree, Part
<1> QED
  BY <1>2, <1>3, LastingConcat

LEMMA SpawnLasting ==
  ASSUME NEW s \in Nat \ {0}, NEW n \in Int, NEW v \in Nat, n > 0
  PROVE  Lasting(Take(n) \o Copy(s) \o NewTree(s) \o map_all(s) \o MapTaken(s, v, n)
                 \o Alloc(s, UserStack, TRUE) \o Take(1) \o MapTaken(s, Argv, 2)
                 \o map_apic_into_task(s))
<1> DEFINE Good(q) == q \in Seq(PartType) /\ Lasting(q)
<1>0. s \in Nat /\ s \in 1 .. s /\ UserStack \in Nat /\ Argv \in Nat /\ 1 \in Int /\ 2 \in Int /\ 2 > 0
  BY PagingAssumption
<1>1. Good(Take(n)) /\ Good(Take(1))
  BY <1>0, TakePlain DEF Plain
<1>2. Good(Copy(s))
  <2> DEFINE part == Part("copy", s, 0, 1, "taken", 0, FALSE)
  <2>1. part \in PartType /\ part.op = "copy"
    BY <1>0 DEF Part, PartType
  <2> HIDE DEF part
  <2>2. Good(<<part>>)
    BY <2>1, LastingOne
  <2> QED
    BY <2>2 DEF Copy, part
<1>3. Good(NewTree(s))
  <2>1. NewTree(s) \in Seq(PartType)
    BY <1>0, NewTreeMaking DEF Making
  <2> QED
    BY <2>1, LastingOne DEF NewTree, Part
<1>4. Good(map_all(s))
  BY <1>0, MapAllPlain DEF Plain
<1>5. Good(MapTaken(s, v, n)) /\ Good(MapTaken(s, Argv, 2))
  BY <1>0, MapTakenPlain DEF Plain
<1>6. Good(Alloc(s, UserStack, TRUE))
  BY <1>0, AllocPlain DEF Plain
<1>7. Good(map_apic_into_task(s))
  BY <1>0, ApicsPlain DEF Plain
<1>8. \A a, b : Good(a) /\ Good(b) => Good(a \o b)
  BY LastingConcat
<1> HIDE DEF Good
<1>9. Good(Take(n) \o Copy(s) \o NewTree(s) \o map_all(s))
  BY <1>1, <1>2, <1>3, <1>4, <1>8
<1>10. Good(Take(n) \o Copy(s) \o NewTree(s) \o map_all(s) \o MapTaken(s, v, n)
            \o Alloc(s, UserStack, TRUE))
  BY <1>5, <1>6, <1>8, <1>9
<1>11. Good(Take(n) \o Copy(s) \o NewTree(s) \o map_all(s) \o MapTaken(s, v, n)
            \o Alloc(s, UserStack, TRUE) \o Take(1) \o MapTaken(s, Argv, 2)
            \o map_apic_into_task(s))
  BY <1>1, <1>5, <1>7, <1>8, <1>10
<1> QED
  BY <1>11 DEF Good

LEMMA SpawnMaking ==
  ASSUME NEW s \in Nat \ {0}, NEW n \in Int, NEW v \in Nat
  PROVE  Making(Take(n) \o Copy(s) \o NewTree(s) \o map_all(s) \o MapTaken(s, v, n)
                \o Alloc(s, UserStack, TRUE) \o Take(1) \o MapTaken(s, Argv, 2)
                \o map_apic_into_task(s), 3, s)
<1>0. s \in Nat /\ s \in 1 .. s /\ UserStack \in Nat /\ Argv \in Nat /\ 1 \in Int /\ 2 \in Int
  BY PagingAssumption
<1>1. Making(Take(n) \o Copy(s) \o NewTree(s), 3, s)
  <2> DEFINE a == Part("take", 0, 0, n, "zero", 0, FALSE)
             b == Part("copy", s, 0, 1, "taken", 0, FALSE)
             c == Part("tree", s, 0, 1, "zero", 0, FALSE)
  <2>1. a \in PartType /\ b \in PartType /\ c \in PartType
    BY <1>0 DEF Part, PartType
  <2>2. a.op = "take" /\ b.op = "copy" /\ c.op = "tree"
    BY DEF Part
  <2>3. Take(n) = <<a>> /\ Copy(s) = <<b>> /\ NewTree(s) = <<c>>
    BY DEF Take, Copy, NewTree
  <2> HIDE DEF a, b, c
  <2> DEFINE d == <<a>> \o <<b>>
             q == d \o <<c>>
  <2>4. d \in Seq(PartType) /\ Len(d) = 2 /\ d[1] = a /\ d[2] = b
    BY <2>1
  <2> HIDE DEF d
  <2>5. q \in Seq(PartType) /\ Len(q) = 3 /\ q[1] = a /\ q[2] = b /\ q[3] = c
    <3>1. <<c>> \in Seq(PartType) /\ Len(<<c>>) = 1 /\ <<c>>[1] = c
      BY <2>1
    <3>2. /\ q \in Seq(PartType) /\ Len(q) = 2 + 1
          /\ \A i \in 1 .. 2 + 1 : q[i] = IF i <= 2 THEN d[i] ELSE <<c>>[i - 2]
      BY <2>4, <3>1, ConcatProperties
    <3> HIDE DEF q
    <3>3. q[1] = d[1] /\ q[2] = d[2] /\ q[3] = <<c>>[1]
      BY <3>2
    <3> QED
      BY <2>4, <3>1, <3>2, <3>3
  <2> HIDE DEF q
  <2>6. \A k \in 1 .. 3 : (k < 3 => k = 1 \/ k = 2) /\ ~(k > 3)
    OBVIOUS
  <2>7. Making(q, 3, s)
    BY <2>2, <2>5, <2>6 DEF Making
  <2> QED
    BY <2>3, <2>7 DEF q, d
<1>2. /\ Plain(map_all(s), s) /\ Plain(MapTaken(s, v, n), s) /\ Plain(Alloc(s, UserStack, TRUE), s)
      /\ Plain(Take(1), s) /\ Plain(MapTaken(s, Argv, 2), s) /\ Plain(map_apic_into_task(s), s)
  BY <1>0, MapAllPlain, MapTakenPlain, AllocPlain, TakePlain, ApicsPlain
<1>3. Making(Take(n) \o Copy(s) \o NewTree(s) \o map_all(s), 3, s)
  BY <1>0, <1>1, <1>2, MakingConcat
<1>4. Making(Take(n) \o Copy(s) \o NewTree(s) \o map_all(s) \o MapTaken(s, v, n), 3, s)
  BY <1>0, <1>2, <1>3, MakingConcat
<1>5. Making(Take(n) \o Copy(s) \o NewTree(s) \o map_all(s) \o MapTaken(s, v, n)
             \o Alloc(s, UserStack, TRUE), 3, s)
  BY <1>0, <1>2, <1>4, MakingConcat
<1>6. Making(Take(n) \o Copy(s) \o NewTree(s) \o map_all(s) \o MapTaken(s, v, n)
             \o Alloc(s, UserStack, TRUE) \o Take(1), 3, s)
  BY <1>0, <1>2, <1>5, MakingConcat
<1>7. Making(Take(n) \o Copy(s) \o NewTree(s) \o map_all(s) \o MapTaken(s, v, n)
             \o Alloc(s, UserStack, TRUE) \o Take(1) \o MapTaken(s, Argv, 2), 3, s)
  BY <1>0, <1>2, <1>6, MakingConcat
<1> QED
  BY <1>0, <1>2, <1>7, MakingConcat

-----------------------------------------------------------------------------
(* The types of the page trees' state, and the rest of the call *)

\* The call under way writes only to trees there are, or makes the next one first.
\* spawn enters the new tree's mmap_upto before the tree is made.
CallOk ==
    \/ Plain(todo, Len(roots)) /\ Len(upto) = Len(roots)
    \/ /\ \E m \in Nat : Making(todo, m, Len(roots) + 1)
       /\ Len(upto) = IF roots = <<>> THEN 0 ELSE Len(roots) + 1

QInv ==
    /\ TypeOK
    /\ roots \in Seq(Nat) /\ upto \in Seq(Nat) /\ taken \in Nat
    /\ CallOk

LEMMA QLengths ==
  ASSUME QInv
  PROVE  /\ Len(roots) \in Nat /\ Len(upto) \in Nat
         /\ DOMAIN roots = 1 .. Len(roots) /\ DOMAIN upto = 1 .. Len(upto)
  BY LenProperties DEF QInv

\* The part in progress.
LEMMA NowType ==
  ASSUME QInv, todo # <<>>
  PROVE  /\ todo \in Seq(PartType) /\ Now \in PartType /\ Tail(todo) \in Seq(PartType)
         /\ Now = todo[1] /\ 1 \in 1 .. Len(todo)
<1>1. todo \in Seq(PartType)
  BY DEF QInv, CallOk, Plain, Making
<1>2. 1 \in 1 .. Len(todo) /\ Head(todo) = todo[1]
  BY <1>1, EmptySeq
<1> QED
  BY <1>1, <1>2, HeadTailProperties DEF Now

\* Entries are written only when no tree is waiting to be made, and to a tree there is.
LEMMA NowSpace ==
  ASSUME QInv, todo # <<>>, Now.op \in {"map", "alloc"}
  PROVE  /\ Plain(todo, Len(roots)) /\ Len(upto) = Len(roots)
         /\ Now.space \in 1 .. Len(roots)
<1>0. Len(roots) \in Nat /\ Len(roots) + 1 \in Nat
  BY QLengths
<1>1. ASSUME NEW m \in Nat, Making(todo, m, Len(roots) + 1) PROVE FALSE
  <2>1. Head(todo).op \in {"tree", "take", "copy"}
    BY <1>0, <1>1, MakingTail
  <2> QED
    BY <2>1 DEF Now
<1>2. Plain(todo, Len(roots)) /\ Len(upto) = Len(roots)
  BY <1>1 DEF QInv, CallOk
<1> QED
  BY <1>2, NowType DEF Plain

LEMMA CallTail ==
  ASSUME QInv, todo # <<>>, Now.op # "tree", todo' = Tail(todo), UNCHANGED <<roots, upto>>
  PROVE  CallOk'
<1>0. Len(roots) \in Nat /\ Len(roots) + 1 \in Nat
  BY QLengths
<1>1. CASE Plain(todo, Len(roots)) /\ Len(upto) = Len(roots)
  <2>1. Plain(todo', Len(roots))
    BY <1>0, <1>1, PlainTail
  <2>2. Plain(todo', Len(roots'))
    BY <2>1
  <2> QED
    BY <1>1, <2>2 DEF CallOk, Plain
<1>2. ASSUME NEW m \in Nat, Making(todo, m, Len(roots) + 1),
             Len(upto) = IF roots = <<>> THEN 0 ELSE Len(roots) + 1
      PROVE  CallOk'
  <2>1. m # 1
    BY <1>0, <1>2, MakingTail DEF Now
  <2>2. Making(todo', m - 1, Len(roots) + 1)
    BY <1>0, <1>2, <2>1, MakingTail
  <2>3. m - 1 \in Nat
    BY <1>2, <2>1 DEF Making
  <2>4. Making(todo', m - 1, Len(roots') + 1)
    BY <2>2
  <2> QED
    BY <1>2, <2>3, <2>4 DEF CallOk, Making
<1> QED
  BY <1>1, <1>2 DEF QInv, CallOk

LEMMA NextPart ==
  ASSUME NEW x \in PartType
  PROVE  LET next == [x EXCEPT !.v = @ + 1, !.page = @ + 1, !.n = @ - 1]
         IN  /\ next \in PartType /\ next.op = x.op /\ next.space = x.space
             /\ next.v = x.v + 1 /\ next.page = x.page + 1 /\ next.n = x.n - 1
             /\ next.from = x.from /\ next.user = x.user
<1> DEFINE next == [x EXCEPT !.v = @ + 1, !.page = @ + 1, !.n = @ - 1]
           a == [x EXCEPT !.v = x.v + 1]
           b == [a EXCEPT !.page = x.page + 1]
           c == [b EXCEPT !.n = x.n - 1]
<1>1. x.v + 1 \in Nat /\ x.page + 1 \in Nat /\ x.n - 1 \in Int
  BY DEF PartType
<1>2. /\ a \in PartType /\ a.op = x.op /\ a.space = x.space /\ a.page = x.page /\ a.n = x.n
      /\ a.v = x.v + 1 /\ a.from = x.from /\ a.user = x.user
  BY <1>1 DEF PartType
<1> HIDE DEF a
<1>3. /\ b \in PartType /\ b.op = x.op /\ b.space = x.space /\ b.n = x.n
      /\ b.v = x.v + 1 /\ b.page = x.page + 1 /\ b.from = x.from /\ b.user = x.user
  BY <1>1, <1>2 DEF PartType
<1> HIDE DEF b
<1>4. /\ c \in PartType /\ c.op = x.op /\ c.space = x.space /\ c.n = x.n - 1
      /\ c.v = x.v + 1 /\ c.page = x.page + 1 /\ c.from = x.from /\ c.user = x.user
  BY <1>1, <1>3 DEF PartType
<1>5. next = c
  BY DEF a, b, PartType
<1> QED
  BY <1>4, <1>5

LEMMA CallAdvances ==
  ASSUME QInv, todo # <<>>, Now.op \in {"map", "alloc"}, Advance, UNCHANGED <<roots, upto>>
  PROVE  CallOk'
<1>0. Len(roots) \in Nat
  BY QLengths
<1>1. CASE Now.n = 1
  BY <1>1, CallTail DEF Advance
<1>2. CASE Now.n # 1
  <2> DEFINE next == [Now EXCEPT !.v = @ + 1, !.page = @ + 1, !.n = @ - 1]
  <2>1. todo' = <<next>> \o Tail(todo)
    BY <1>2 DEF Advance
  <2>2. next \in PartType /\ next.op = Now.op /\ next.space = Now.space
    BY NowType, NextPart
  <2> HIDE DEF next
  <2>3. Plain(<<next>>, Len(roots))
    BY <1>0, <2>2, NowSpace, PlainOne
  <2>4. Plain(Tail(todo), Len(roots))
    BY <1>0, NowSpace, PlainTail
  <2>5. Plain(todo', Len(roots))
    BY <1>0, <2>1, <2>3, <2>4, PlainConcat
  <2>6. Plain(todo', Len(roots')) /\ Len(upto') = Len(roots')
    BY <2>5, NowSpace
  <2> QED
    BY <2>6 DEF CallOk, Plain
<1> QED
  BY <1>1, <1>2

LEMMA CallSame ==
  ASSUME CallOk, UNCHANGED <<todo, roots, upto>>
  PROVE  CallOk'
  BY DEF CallOk, Plain, Making

-----------------------------------------------------------------------------
(* Every step of the page trees is a call of kmalloc that returns, one that does *)
(* not, or none                                                                  *)

LEMMA Untouched ==
  ASSUME TypeOK, UNCHANGED vars
  PROVE  TypeOK' /\ UNCHANGED A!avars /\ Owned' = Owned
  BY DEF vars, TypeOK, PagesInSection, A!avars, Owned, PageOf, get_bitmap_reserved

LEMMA Halts ==
  ASSUME TypeOK, status = "running", status' \in {"halted", "looping"},
         UNCHANGED <<bitmap, last, total>>
  PROVE  TypeOK' /\ A!ANext /\ Owned' = Owned
<1>1. Owned' = Owned
  BY DEF Owned, PageOf, get_bitmap_reserved
<1>2. A!Stop
  BY <1>1 DEF A!Stop
<1>3. TypeOK'
  BY DEF TypeOK, PagesInSection, get_bitmap_reserved
<1> QED
  BY <1>1, <1>2, <1>3 DEF A!ANext

LEMMA Refused ==
  ASSUME TypeOK, status = "running", NEW n \in Int, kmalloc_refuses(n) \/ kmalloc_fails(n)
  PROVE  TypeOK' /\ A!ANext /\ Owned' = Owned
<1>1. status' \in {"halted", "looping"} /\ UNCHANGED <<bitmap, last, total>>
  BY DEF kmalloc_refuses, kmalloc_fails
<1> QED
  BY <1>1, Halts

\* The pages that kmalloc returns are new.
LEMMA Fresh ==
  ASSUME TypeOK, status = "running", NEW n \in Int, kmalloc_returns(n)
  PROVE  /\ TypeOK' /\ A!ANext
         /\ last'.lo \in Nat \ {0} /\ last'.lo \notin Owned /\ last'.lo \in Owned'
         /\ Owned \subseteq Owned'
<1>1. n \in Nat
  BY DEF kmalloc_returns
<1>2. TypeOK' /\ A!Give
  BY <1>1, Returns
<1>3. /\ last' \in [lo : Nat, n : Nat \ {0}]
      /\ A!Run(last') \subseteq UsablePages \ Owned
      /\ Owned' = Owned \union A!Run(last')
  BY <1>2 DEF A!Give
<1>4. last'.lo \in A!Run(last') /\ last'.lo \in Nat
  BY <1>3 DEF A!Run
<1>5. \A x \in UsablePages : x # 0
  <2> SUFFICES ASSUME NEW x \in UsablePages PROVE x # 0
    OBVIOUS
  <2>1. PICK e \in Entries : \E i \in 1 .. Sections[e].pages - 1 : x = Sections[e].base + i
    BY DEF UsablePages
  <2> QED
    BY <2>1, SectionTypes
<1> QED
  BY <1>2, <1>3, <1>4, <1>5 DEF A!ANext

LEMMA QInit == PInit => QInv
<1> SUFFICES ASSUME PInit PROVE QInv
  OBVIOUS
<1>1. TypeOK
  BY TypeInit DEF PInit
<1>2. Plain(<<>>, 0)
  BY EmptySeq DEF Plain
<1>3. Len(<<>>) = 0 /\ <<>> \in Seq(Nat)
  OBVIOUS
<1> QED
  BY <1>1, <1>2, <1>3 DEF PInit, QInv, CallOk

\* Between calls every tree has its mmap_upto.
LEMMA IdleLengths ==
  ASSUME QInv, todo = <<>>
  PROVE  Len(upto) = Len(roots)
<1>0. Len(roots) \in Nat
  BY QLengths
<1>1. ASSUME NEW m \in Nat, Making(todo, m, Len(roots) + 1) PROVE FALSE
  <2>1. Len(roots) + 1 \in Nat
    BY <1>0
  <2> QED
    BY <1>1, <2>1, MakingTail
<1> QED
  BY <1>1 DEF QInv, CallOk

\* Callers ask for what the types allow.
LEMMA QCallers ==
  ASSUME QInv,
         \/ init_paging
         \/ \E p \in DOMAIN Programs : spawn(p)
         \/ \E s \in 2 .. Len(roots), addr \in Fixed \union {0}, length \in Lengths :
               syscall_mmap(s, addr, length)
  PROVE  QInv' /\ UNCHANGED <<vars, tables, roots>>
<1>0. Len(roots) \in Nat /\ Len(upto) \in Nat
  BY QLengths
<1>1. ASSUME todo = <<>> PROVE Len(upto) = Len(roots)
  BY <1>1, IdleLengths
<1>2. CASE init_paging
  <2>1. /\ todo = <<>> /\ roots = <<>> /\ todo' = NewTree(1) \o map_all(1)
        /\ UNCHANGED <<vars, tables, roots, taken, upto>>
    BY <1>2 DEF init_paging, Calling
  <2>2. Len(roots') = 0 /\ Len(upto') = 0
    BY <1>1, <2>1
  <2>3. Making(todo', 1, Len(roots') + 1)
    BY <2>1, <2>2, KernelMaking
  <2>4. CallOk'
    BY <2>1, <2>2, <2>3 DEF CallOk, Making
  <2> QED
    BY <2>1, <2>4, Untouched DEF QInv
<1>3. ASSUME NEW p \in DOMAIN Programs, spawn(p) PROVE QInv' /\ UNCHANGED <<vars, tables, roots>>
  <2> DEFINE s == Len(roots) + 1
             h == Programs[p].headers
             n == pages_to_map(h)
             v == ImageStart(h) \div PageSize
             end == PAGE_ALIGN_UP(ImageEnd(h))
  <2>1. /\ todo = <<>> /\ roots # <<>>
        /\ todo' = Take(n) \o Copy(s) \o NewTree(s) \o map_all(s) \o MapTaken(s, v, n)
                   \o Alloc(s, UserStack, TRUE) \o Take(1) \o MapTaken(s, Argv, 2)
                   \o map_apic_into_task(s)
        /\ upto' = Append(upto, end)
        /\ UNCHANGED <<vars, tables, roots, taken>>
    BY <1>3 DEF spawn, Calling
  <2>2. n \in Int /\ v \in Nat /\ end \in Nat
    BY ProgramTypes
  <2>3. s \in Nat \ {0}
    BY <1>0
  <2> HIDE DEF n, v, end, h
  <2>4. Making(todo', 3, s)
    <3> HIDE DEF s
    <3> QED
      BY <2>1, <2>2, <2>3, SpawnMaking
  <2>5. Making(todo', 3, Len(roots') + 1)
    BY <2>1, <2>4
  <2>6. upto' \in Seq(Nat) /\ Len(upto') = Len(upto) + 1
    BY <2>1, <2>2, AppendProperties DEF QInv
  <2>7. Len(upto') = IF roots' = <<>> THEN 0 ELSE Len(roots') + 1
    BY <1>1, <2>1, <2>6
  <2>8. CallOk'
    BY <2>5, <2>7 DEF CallOk, Making
  <2> QED
    BY <2>1, <2>6, <2>8, Untouched DEF QInv
<1>4. ASSUME NEW s \in 2 .. Len(roots), NEW addr \in Fixed \union {0}, NEW length \in Lengths,
             syscall_mmap(s, addr, length)
      PROVE  QInv' /\ UNCHANGED <<vars, tables, roots>>
  <2> DEFINE n == PAGE_ALIGN_UP(length)
             v == IF addr = 0 THEN upto[s] ELSE addr
  <2>1. /\ todo = <<>> /\ todo' = Take(n) \o MapTaken(s, v, length)
        /\ upto' = IF addr = 0 THEN [upto EXCEPT ![s] = @ + n] ELSE upto
        /\ UNCHANGED <<vars, tables, roots, taken>>
    BY <1>4 DEF syscall_mmap, Calling
  <2>2. length \in Nat /\ addr \in Nat /\ s \in 1 .. Len(roots)
    BY PagingAssumption, <1>0
  <2>3. n \in Nat
    BY <2>2, AlignedUpNat
  <2>4. s \in 1 .. Len(upto) /\ upto[s] \in Nat
    BY <1>1, <2>1, <2>2, ElementOfSeq DEF QInv
  <2>5. v \in Nat
    BY <2>2, <2>4
  <2> HIDE DEF n, v
  <2>6. Plain(Take(n), Len(roots)) /\ Plain(MapTaken(s, v, length), Len(roots))
    <3>1. n \in Int /\ length \in Int
      BY <2>2, <2>3
    <3> QED
      BY <1>0, <2>2, <2>5, <3>1, TakePlain, MapTakenPlain
  <2>7. Plain(todo', Len(roots))
    BY <1>0, <2>1, <2>6, PlainConcat
  <2>8. upto' \in Seq(Nat) /\ Len(upto') = Len(upto)
    <3>1. upto[s] + n \in Nat
      BY <2>3, <2>4
    <3>2. [upto EXCEPT ![s] = upto[s] + n] \in Seq(Nat) /\ Len([upto EXCEPT ![s] = upto[s] + n]) = Len(upto)
      BY <2>4, <3>1, ExceptSeq DEF QInv
    <3> QED
      BY <2>1, <3>2 DEF QInv
  <2>9. Plain(todo', Len(roots')) /\ Len(upto') = Len(roots')
    BY <1>1, <2>1, <2>7, <2>8
  <2>10. CallOk'
    BY <2>9 DEF CallOk, Plain
  <2> QED
    BY <2>1, <2>8, <2>10, Untouched DEF QInv
<1> QED
  BY <1>2, <1>3, <1>4

\* The steps of a call.
LEMMA QStep ==
  ASSUME QInv, Step
  PROVE  QInv' /\ [A!ANext]_(A!avars)
<1>0. status = "running" /\ todo # <<>> /\ TypeOK /\ taken \in Nat
      /\ roots \in Seq(Nat) /\ upto \in Seq(Nat) /\ CallOk
  BY DEF Step, take_pages, copy_segments, init_paging_task, add_table, map_page, alloc_page,
         runs_off, out_of_memory, Doing, Runs, QInv
<1>1. Now \in PartType /\ Now.n \in Int /\ 1 \in Int /\ Needs \in Int
  BY <1>0, NowType DEF PartType, Needs
<1>2. CASE take_pages
  <2>1. kmalloc_returns(Now.n) /\ taken' = last'.lo /\ todo' = Tail(todo) /\ Now.op = "take"
        /\ UNCHANGED <<roots, upto>>
    BY <1>2 DEF take_pages, Doing
  <2>2. TypeOK' /\ A!ANext /\ last'.lo \in Nat
    BY <1>0, <1>1, <2>1, Fresh
  <2>3. CallOk'
    BY <1>0, <2>1, CallTail
  <2> QED
    BY <1>0, <2>1, <2>2, <2>3 DEF QInv
<1>3. CASE copy_segments
  <2>1. todo' = Tail(todo) /\ Now.op = "copy" /\ UNCHANGED <<vars, roots, upto, taken>>
    BY <1>3 DEF copy_segments, Doing
  <2>2. CallOk'
    BY <1>0, <2>1, CallTail
  <2> QED
    BY <1>0, <2>1, <2>2, Untouched DEF QInv
<1>4. CASE init_paging_task
  <2>1. /\ kmalloc_returns(1) /\ roots' = Append(roots, last'.lo) /\ todo' = Tail(todo)
        /\ upto' = (IF upto = <<>> THEN <<0>> ELSE upto)
        /\ Now.op = "tree" /\ taken' = taken
    BY <1>4 DEF init_paging_task, Doing
  <2>2. TypeOK' /\ A!ANext /\ last'.lo \in Nat
    BY <1>0, <1>1, <2>1, Fresh
  <2>3. roots' \in Seq(Nat) /\ Len(roots') = Len(roots) + 1
    BY <1>0, <2>1, <2>2, AppendProperties
  <2>4. Len(roots) \in Nat /\ Len(roots) + 1 \in Nat
    BY QLengths
  <2>5. ~Plain(todo, Len(roots))
    BY <1>0, <2>1, NowType DEF Plain
  <2>6. PICK m \in Nat : /\ Making(todo, m, Len(roots) + 1)
                         /\ Len(upto) = IF roots = <<>> THEN 0 ELSE Len(roots) + 1
    BY <1>0, <2>5 DEF CallOk
  <2>7. Plain(Tail(todo), Len(roots) + 1)
    BY <2>1, <2>4, <2>6, MakingTail DEF Now
  <2>8. upto' \in Seq(Nat) /\ Len(upto') = Len(roots) + 1
    <3>1. CASE roots = <<>>
      <4>1. Len(roots) = 0 /\ Len(upto) = 0
        BY <2>6, <3>1
      <4>2. upto = <<>>
        BY <1>0, <4>1, EmptySeq
      <4> QED
        BY <2>1, <4>1, <4>2
    <3>2. CASE roots # <<>>
      <4>1. Len(upto) = Len(roots) + 1
        BY <2>6, <3>2
      <4>2. upto # <<>>
        BY <2>4, <4>1, EmptySeq
      <4> QED
        BY <1>0, <2>1, <4>1, <4>2
    <3> QED
      BY <3>1, <3>2
  <2>9. Plain(todo', Len(roots')) /\ Len(upto') = Len(roots')
    BY <2>1, <2>3, <2>7, <2>8
  <2>10. CallOk'
    BY <2>9 DEF CallOk, Plain
  <2> QED
    BY <1>0, <2>1, <2>2, <2>3, <2>8, <2>10 DEF QInv
<1>5. CASE add_table
  <2>1. kmalloc_returns(1) /\ UNCHANGED <<roots, todo, taken, upto>>
    BY <1>5 DEF add_table
  <2> QED
    BY <1>0, <1>1, <2>1, Fresh, CallSame DEF QInv
<1>6. CASE map_page
  <2>1. Now.op = "map" /\ Advance /\ UNCHANGED <<vars, roots, taken, upto>>
    BY <1>6 DEF map_page
  <2>2. CallOk'
    BY <1>0, <2>1, CallAdvances
  <2> QED
    BY <1>0, <2>1, <2>2, Untouched DEF QInv
<1>7. CASE alloc_page
  <2>1. Now.op = "alloc" /\ kmalloc_returns(1) /\ Advance /\ UNCHANGED <<roots, taken, upto>>
    BY <1>7 DEF alloc_page
  <2>2. CallOk'
    BY <1>0, <2>1, CallAdvances
  <2> QED
    BY <1>0, <1>1, <2>1, <2>2, Fresh DEF QInv
<1>8. CASE runs_off
  <2>1. status' = "halted" /\ UNCHANGED <<bitmap, last, total>> /\ UNCHANGED <<roots, todo, taken, upto>>
    BY <1>8 DEF runs_off, pvars
  <2> QED
    BY <1>0, <2>1, Halts, CallSame DEF QInv
<1>9. CASE out_of_memory
  <2>1. /\ kmalloc_refuses(Needs) \/ kmalloc_fails(Needs)
        /\ UNCHANGED <<roots, todo, taken, upto>>
    BY <1>9 DEF out_of_memory, pvars
  <2> QED
    BY <1>0, <1>1, <2>1, Refused, CallSame DEF QInv
<1> QED
  BY <1>2, <1>3, <1>4, <1>5, <1>6, <1>7, <1>8, <1>9 DEF Step

LEMMA QNext ==
  ASSUME QInv, [PNext]_allVars
  PROVE  QInv' /\ [A!ANext]_(A!avars)
<1>1. CASE Step
  BY <1>1, QStep
<1>2. ASSUME NEW n \in Requests, kmalloc_elsewhere(n) PROVE QInv' /\ A!ANext
  <2>1. /\ status = "running" /\ UNCHANGED <<roots, todo, taken, upto>>
        /\ kmalloc_returns(n) \/ kmalloc_refuses(n) \/ kmalloc_fails(n)
    BY <1>2 DEF kmalloc_elsewhere, kmalloc, Calling, pvars
  <2>2. n \in Int
    BY PMMAssumption
  <2>3. CASE kmalloc_returns(n)
    BY <2>1, <2>2, <2>3, Fresh, CallSame DEF QInv
  <2>4. CASE kmalloc_refuses(n) \/ kmalloc_fails(n)
    BY <2>1, <2>2, <2>4, Refused, CallSame DEF QInv
  <2> QED
    BY <2>1, <2>3, <2>4
<1>3. CASE UNCHANGED allVars
  <2>1. UNCHANGED vars /\ UNCHANGED <<roots, todo, taken, upto>>
    BY <1>3 DEF allVars, pvars
  <2> QED
    BY <2>1, Untouched, CallSame DEF QInv
<1>4. CASE \/ init_paging
           \/ \E p \in DOMAIN Programs : spawn(p)
           \/ \E s \in 2 .. Len(roots), addr \in Fixed \union {0}, length \in Lengths :
                 syscall_mmap(s, addr, length)
  <2>1. QInv' /\ UNCHANGED vars
    BY <1>4, QCallers
  <2> QED
    BY <2>1, Untouched DEF QInv
<1> QED
  BY <1>1, <1>2, <1>3, <1>4 DEF PNext

\* Whatever the page trees are asked for, the state keeps its types, and an entry is
\* written only to a tree there is.
THEOREM PagingTypes == PSpec => []QInv
<1>1. QInv /\ [PNext]_allVars => QInv'
  BY QNext
<1> QED
  BY <1>1, QInit, PTL DEF PSpec

\* kmalloc implements the abstract allocator with the page trees, spawn and mmap as
\* its callers, one call of theirs being many calls of it: no table, stack or image
\* is given a page that anybody else has.
THEOREM PagesPromised == PSpec => AllocatorPromise
<1>1. PInit => A!AInit
  BY DEF PInit, Init, A!AInit, Owned
<1>2. QInv /\ [PNext]_allVars => [A!ANext]_(A!avars)
  BY QNext
<1> QED
  BY <1>1, <1>2, PagingTypes, PTL DEF PSpec, AllocatorPromise, A!ASpec

-----------------------------------------------------------------------------
(* The places of tables *)

EntrySet == [present : BOOLEAN, page : Nat, user : BOOLEAN]

TableSet == [0 .. Fan - 1 -> EntrySet]

\* The place below entry i of a table at place a.
Under(a, i) == [space |-> a.space, level |-> a.level + 1, v |-> a.v * Fan + i]

\* Tables t and roots r are trees in which place tells where a table is: roots are on
\* level 1, any other table is below an entry of one that is not on the last level,
\* and what these entries lead to are tables with the place that is below the entry.
Placing(t, r, place) ==
    /\ \A p \in DOMAIN t : place[p].space \in 1 .. Len(r) /\ place[p].level \in 1 .. Levels
    /\ \A s \in 1 .. Len(r) :
         r[s] \in DOMAIN t /\ place[r[s]] = [space |-> s, level |-> 1, v |-> 0]
    /\ \A p \in DOMAIN t : place[p].level = 1 => p = r[place[p].space]
    /\ \A p \in DOMAIN t : place[p].level # 1 =>
         \E q \in DOMAIN t : \E i \in 0 .. Fan - 1 :
             place[q].level < Levels /\ t[q][i].present /\ t[q][i].page = p
    /\ \A q \in DOMAIN t : place[q].level < Levels => \A i \in 0 .. Fan - 1 :
         t[q][i].present => t[q][i].page \in DOMAIN t /\ place[t[q][i].page] = Under(place[q], i)

TreeInv ==
    /\ tables \in [DOMAIN tables -> TableSet]
    /\ DOMAIN tables \subseteq Owned /\ 0 \notin DOMAIN tables
    /\ \E place : Placing(tables, roots, place)

LEMMA LevelsPositive == Levels \in Nat /\ Levels >= 1 /\ 1 \in 1 .. Levels /\ Fan \in Nat \ {0}
  BY PagingAssumption

LEMMA EmptyTable ==
  /\ NoEntry \in EntrySet /\ [i \in 0 .. Fan - 1 |-> NoEntry] \in TableSet
  /\ \A i \in 0 .. Fan - 1 : ~[j \in 0 .. Fan - 1 |-> NoEntry][i].present
<1>1. NoEntry \in EntrySet /\ ~NoEntry.present
  BY DEF NoEntry, EntrySet
<1> QED
  BY <1>1 DEF TableSet

LEMMA TreeInit == PInit => TreeInv
<1> SUFFICES ASSUME PInit PROVE TreeInv
  OBVIOUS
<1>1. DOMAIN tables = {} /\ Len(roots) = 0 /\ tables = <<>>
  BY DEF PInit
<1>2. Placing(tables, roots, <<>>)
  BY <1>1 DEF Placing
<1> QED
  BY <1>1, <1>2 DEF TreeInv

\* A table with nothing in it.
Added(t, u, new) ==
    /\ new \notin DOMAIN t
    /\ DOMAIN u = DOMAIN t \union {new} /\ u \in [DOMAIN u -> TableSet]
    /\ \A i \in 0 .. Fan - 1 : ~u[new][i].present

LEMMA NewRoot ==
  ASSUME NEW t, NEW u, NEW new \in Nat, NEW r \in Seq(Nat), NEW place,
         Added(t, u, new), Placing(t, r, place), \A p \in DOMAIN t : u[p] = t[p]
  PROVE  \E next : Placing(u, Append(r, new), next) /\ \A p \in DOMAIN t : next[p] = place[p]
<1> DEFINE here == [space |-> Len(r) + 1, level |-> 1, v |-> 0]
           w == Append(r, new)
           next == [p \in DOMAIN u |-> IF p = new THEN here ELSE place[p]]
<1>1. /\ Len(r) \in Nat /\ Len(w) = Len(r) + 1 /\ w[Len(r) + 1] = new
      /\ \A s \in 1 .. Len(r) : w[s] = r[s]
  BY AppendProperties, LenProperties
<1>2. /\ DOMAIN u = DOMAIN t \union {new} /\ next[new] = here
      /\ \A p \in DOMAIN t : next[p] = place[p] /\ u[p] = t[p] /\ p # new
  BY DEF Added
<1>3. here.space = Len(r) + 1 /\ here.level = 1
  OBVIOUS
<1>4. \A s \in 1 .. Len(w) : s \in 1 .. Len(r) \/ s = Len(r) + 1
  BY <1>1
<1>5. \A s \in 1 .. Len(r) : s \in 1 .. Len(w) /\ s # Len(r) + 1
  BY <1>1
<1>6. Len(r) + 1 \in 1 .. Len(w)
  BY <1>1
<1>7. \A s \in 1 .. Len(w) : w[s] \in DOMAIN u /\ next[w[s]] = [space |-> s, level |-> 1, v |-> 0]
  <2>1. ASSUME NEW s \in 1 .. Len(r)
        PROVE  w[s] \in DOMAIN u /\ next[w[s]] = [space |-> s, level |-> 1, v |-> 0]
    <3>1. w[s] = r[s] /\ r[s] \in DOMAIN t /\ place[r[s]] = [space |-> s, level |-> 1, v |-> 0]
      BY <1>1 DEF Placing
    <3> HIDE DEF w, next
    <3> QED
      BY <1>2, <3>1
  <2>2. w[Len(r) + 1] \in DOMAIN u /\ next[w[Len(r) + 1]] = here
    <3> HIDE DEF w, next, here
    <3> QED
      BY <1>1, <1>2
  <2> HIDE DEF w, next
  <2> QED
    BY <1>4, <2>1, <2>2
<1> HIDE DEF w, next, here
<1>8. \A p \in DOMAIN u : next[p].space \in 1 .. Len(w) /\ next[p].level \in 1 .. Levels
  BY <1>2, <1>3, <1>5, <1>6, LevelsPositive DEF Placing
<1>9. \A p \in DOMAIN u : next[p].level = 1 => p = w[next[p].space]
  BY <1>1, <1>2, <1>3 DEF Placing
<1>10. ASSUME NEW p \in DOMAIN u, next[p].level # 1
       PROVE  \E q \in DOMAIN u : \E i \in 0 .. Fan - 1 :
                next[q].level < Levels /\ u[q][i].present /\ u[q][i].page = p
  <2>1. p \in DOMAIN t /\ next[p] = place[p]
    BY <1>2, <1>3, <1>10
  <2>2. PICK q \in DOMAIN t : \E i \in 0 .. Fan - 1 :
          place[q].level < Levels /\ t[q][i].present /\ t[q][i].page = p
    BY <1>10, <2>1 DEF Placing
  <2>3. q \in DOMAIN u /\ u[q] = t[q] /\ next[q] = place[q]
    BY <1>2
  <2> QED
    BY <2>2, <2>3
<1>11. ASSUME NEW q \in DOMAIN u, next[q].level < Levels, NEW i \in 0 .. Fan - 1, u[q][i].present
       PROVE  u[q][i].page \in DOMAIN u /\ next[u[q][i].page] = Under(next[q], i)
  <2>1. q # new /\ q \in DOMAIN t
    BY <1>2, <1>11 DEF Added
  <2>2. u[q] = t[q] /\ next[q] = place[q]
    BY <1>2, <2>1
  <2>3. t[q][i].page \in DOMAIN t /\ place[t[q][i].page] = Under(place[q], i)
    BY <1>11, <2>1, <2>2 DEF Placing
  <2> QED
    BY <1>2, <2>2, <2>3
<1>12. Placing(u, w, next)
  BY <1>7, <1>8, <1>9, <1>10, <1>11 DEF Placing
<1> QED
  BY <1>2, <1>12 DEF w

LEMMA NewTable ==
  ASSUME NEW t, NEW u, NEW new \in Nat, NEW r \in Seq(Nat), NEW place, NEW q \in DOMAIN t,
         NEW i \in 0 .. Fan - 1,
         Added(t, u, new), Placing(t, r, place), place[q].level < Levels, ~t[q][i].present,
         u[q][i].present, u[q][i].page = new,
         \A p \in DOMAIN t : \A j \in 0 .. Fan - 1 : p # q \/ j # i => u[p][j] = t[p][j]
  PROVE  \E next : Placing(u, r, next) /\ \A p \in DOMAIN t : next[p] = place[p]
<1> DEFINE here == Under(place[q], i)
           next == [p \in DOMAIN u |-> IF p = new THEN here ELSE place[p]]
<1>1. Len(r) \in Nat
  BY LenProperties
<1>2. /\ DOMAIN u = DOMAIN t \union {new} /\ next[new] = here
      /\ \A p \in DOMAIN t : next[p] = place[p] /\ p # new
  BY DEF Added
<1>3. here.space = place[q].space /\ here.level = place[q].level + 1
  BY DEF Under
<1>4. place[q].space \in 1 .. Len(r) /\ place[q].level \in 1 .. Levels
  BY DEF Placing
<1> HIDE DEF next, here
<1>5. here.space \in 1 .. Len(r) /\ here.level \in 1 .. Levels /\ here.level # 1
  <2>1. ASSUME NEW k \in 1 .. Levels, k < Levels PROVE k + 1 \in 1 .. Levels /\ k + 1 # 1
    BY <2>1, LevelsPositive
  <2>2. here.space \in 1 .. Len(r)
    BY <1>3, <1>4
  <2>3. place[q].level + 1 \in 1 .. Levels /\ place[q].level + 1 # 1
    BY <1>4, <2>1
  <2> QED
    BY <1>3, <2>2, <2>3
<1>6. \A s \in 1 .. Len(r) : r[s] \in DOMAIN u /\ next[r[s]] = [space |-> s, level |-> 1, v |-> 0]
  BY <1>2 DEF Placing
<1>7. \A p \in DOMAIN u : next[p].space \in 1 .. Len(r) /\ next[p].level \in 1 .. Levels
  BY <1>2, <1>5 DEF Placing
<1>8. \A p \in DOMAIN u : next[p].level = 1 => p = r[next[p].space]
  BY <1>2, <1>5 DEF Placing
<1>9. ASSUME NEW p \in DOMAIN u, next[p].level # 1
      PROVE  \E x \in DOMAIN u : \E j \in 0 .. Fan - 1 :
               next[x].level < Levels /\ u[x][j].present /\ u[x][j].page = p
  <2>1. CASE p = new
    BY <1>2, <2>1
  <2>2. CASE p # new
    <3>1. p \in DOMAIN t /\ next[p] = place[p]
      BY <1>2, <2>2
    <3>2. PICK x \in DOMAIN t : \E j \in 0 .. Fan - 1 :
            place[x].level < Levels /\ t[x][j].present /\ t[x][j].page = p
      BY <1>9, <3>1 DEF Placing
    <3>3. PICK j \in 0 .. Fan - 1 :
            place[x].level < Levels /\ t[x][j].present /\ t[x][j].page = p
      BY <3>2
    <3>4. u[x][j] = t[x][j]
      BY <3>3
    <3> QED
      BY <1>2, <3>3, <3>4
  <2> QED
    BY <2>1, <2>2
<1>10. ASSUME NEW x \in DOMAIN u, next[x].level < Levels, NEW j \in 0 .. Fan - 1, u[x][j].present
       PROVE  u[x][j].page \in DOMAIN u /\ next[u[x][j].page] = Under(next[x], j)
  <2>1. x # new /\ x \in DOMAIN t /\ next[x] = place[x]
    BY <1>2, <1>10 DEF Added
  <2>2. CASE x = q /\ j = i
    BY <1>2, <2>1, <2>2 DEF here
  <2>3. CASE x # q \/ j # i
    <3>1. u[x][j] = t[x][j]
      BY <2>1, <2>3
    <3>2. t[x][j].page \in DOMAIN t /\ place[t[x][j].page] = Under(place[x], j)
      BY <1>10, <2>1, <3>1 DEF Placing
    <3> QED
      BY <1>2, <2>1, <3>1, <3>2
  <2> QED
    BY <2>2, <2>3
<1>11. Placing(u, r, next)
  BY <1>6, <1>7, <1>8, <1>9, <1>10 DEF Placing
<1> QED
  BY <1>2, <1>11

\* An entry on the last level changes no table's place.
LEMMA LeafEntry ==
  ASSUME NEW t, NEW u, NEW r, NEW place, NEW q, Placing(t, r, place),
         DOMAIN u = DOMAIN t, place[q].level = Levels, \A p \in DOMAIN t : p # q => u[p] = t[p]
  PROVE  Placing(u, r, place)
<1>1. \A p \in DOMAIN t : place[p].level < Levels => u[p] = t[p]
  BY LevelsPositive
<1> QED
  BY <1>1 DEF Placing

\* No two tables have the same place, and the place is a number on every level.
LEMMA PlaceNumbers ==
  ASSUME NEW t, NEW r, NEW place, Placing(t, r, place)
  PROVE  \A p \in DOMAIN t : place[p].v \in Nat
<1> DEFINE T == {n \in Nat : \A p \in DOMAIN t : place[p].level = n + 1 => place[p].v \in Nat}
<1>1. 0 \in T
  <2>1. ASSUME NEW p \in DOMAIN t, place[p].level = 1 PROVE place[p].v \in Nat
    <3>1. place[p] = [space |-> place[p].space, level |-> 1, v |-> 0]
      BY <2>1 DEF Placing
    <3> QED
      BY <3>1
  <2> QED
    BY <2>1
<1>2. ASSUME NEW n \in Nat, n \in T PROVE n + 1 \in T
  <2>1. ASSUME NEW p \in DOMAIN t, place[p].level = (n + 1) + 1 PROVE place[p].v \in Nat
    <3>1. place[p].level # 1
      BY <2>1
    <3>2. PICK q \in DOMAIN t : \E i \in 0 .. Fan - 1 :
            place[q].level < Levels /\ t[q][i].present /\ t[q][i].page = p
      BY <3>1 DEF Placing
    <3>3. PICK i \in 0 .. Fan - 1 :
            place[q].level < Levels /\ t[q][i].present /\ t[q][i].page = p
      BY <3>2
    <3>4. place[p] = Under(place[q], i) /\ place[q].level \in 1 .. Levels
      BY <3>3 DEF Placing
    <3>5. place[p].level = place[q].level + 1 /\ place[p].v = place[q].v * Fan + i
      BY <3>4 DEF Under
    <3>6. place[q].level = n + 1
      BY <2>1, <3>4, <3>5, LevelsPositive
    <3>7. place[q].v \in Nat
      BY <1>2, <3>6
    <3>8. Fan \in Nat /\ i \in Nat
      BY LevelsPositive
    <3>9. place[q].v * Fan \in Nat
      BY <3>7, <3>8
    <3> QED
      BY <3>5, <3>8, <3>9
  <2> QED
    BY <2>1
<1> HIDE DEF T
<1>3. Nat \subseteq T
  BY <1>1, <1>2, Induction
<1>4. ASSUME NEW p \in DOMAIN t PROVE place[p].v \in Nat
  <2>1. place[p].level \in 1 .. Levels
    BY DEF Placing
  <2>2. place[p].level - 1 \in Nat /\ (place[p].level - 1) + 1 = place[p].level
    BY <2>1, LevelsPositive
  <2> QED
    BY <1>3, <2>2 DEF T
<1> QED
  BY <1>4

LEMMA PlaceUnique ==
  ASSUME NEW t, NEW r, NEW place, Placing(t, r, place)
  PROVE  \A p, q \in DOMAIN t :
           /\ place[p].space = place[q].space
           /\ place[p].level = place[q].level
           /\ place[p].v = place[q].v
           => p = q
<1> DEFINE Same(p, q) == /\ place[p].space = place[q].space
                         /\ place[p].level = place[q].level
                         /\ place[p].v = place[q].v
           T == {n \in Nat : \A p, q \in DOMAIN t : place[p].level = n + 1 /\ Same(p, q) => p = q}
<1>1. 0 \in T
  <2>1. ASSUME NEW p \in DOMAIN t, NEW q \in DOMAIN t, place[p].level = 1, Same(p, q) PROVE p = q
    BY <2>1 DEF Placing
  <2> QED
    BY <2>1
<1>2. ASSUME NEW n \in Nat, n \in T PROVE n + 1 \in T
  <2>0. ASSUME NEW p \in DOMAIN t, place[p].level = (n + 1) + 1
        PROVE  \E x \in DOMAIN t : \E i \in 0 .. Fan - 1 :
                  /\ place[x].level = n + 1 /\ place[x].space = place[p].space
                  /\ place[x].v \in Nat /\ place[p].v = place[x].v * Fan + i
                  /\ p = t[x][i].page
    <3>1. place[p].level # 1
      BY <2>0
    <3>2. PICK x \in DOMAIN t : \E i \in 0 .. Fan - 1 :
            place[x].level < Levels /\ t[x][i].present /\ t[x][i].page = p
      BY <3>1 DEF Placing
    <3>3. PICK i \in 0 .. Fan - 1 :
            place[x].level < Levels /\ t[x][i].present /\ t[x][i].page = p
      BY <3>2
    <3>4. place[p] = Under(place[x], i) /\ place[x].level \in 1 .. Levels
      BY <3>3 DEF Placing
    <3>5. /\ place[p].space = place[x].space /\ place[p].level = place[x].level + 1
          /\ place[p].v = place[x].v * Fan + i
      BY <3>4 DEF Under
    <3>6. place[x].level = n + 1
      BY <2>0, <3>4, <3>5, LevelsPositive
    <3>7. place[x].v \in Nat
      BY PlaceNumbers
    <3> QED
      BY <3>3, <3>5, <3>6, <3>7
  <2>1. ASSUME NEW p \in DOMAIN t, NEW q \in DOMAIN t, place[p].level = (n + 1) + 1, Same(p, q)
        PROVE  p = q
    <3>1. PICK x \in DOMAIN t : \E i \in 0 .. Fan - 1 :
                  /\ place[x].level = n + 1 /\ place[x].space = place[p].space
                  /\ place[x].v \in Nat /\ place[p].v = place[x].v * Fan + i
                  /\ p = t[x][i].page
      BY <2>0, <2>1
    <3>2. PICK i \in 0 .. Fan - 1 :
                  /\ place[x].level = n + 1 /\ place[x].space = place[p].space
                  /\ place[x].v \in Nat /\ place[p].v = place[x].v * Fan + i
                  /\ p = t[x][i].page
      BY <3>1
    <3>3. place[q].level = (n + 1) + 1
      BY <2>1
    <3>4. PICK y \in DOMAIN t : \E j \in 0 .. Fan - 1 :
                  /\ place[y].level = n + 1 /\ place[y].space = place[q].space
                  /\ place[y].v \in Nat /\ place[q].v = place[y].v * Fan + j
                  /\ q = t[y][j].page
      BY <2>0, <3>3
    <3>5. PICK j \in 0 .. Fan - 1 :
                  /\ place[y].level = n + 1 /\ place[y].space = place[q].space
                  /\ place[y].v \in Nat /\ place[q].v = place[y].v * Fan + j
                  /\ q = t[y][j].page
      BY <3>4
    <3>6. place[x].v * Fan + i = place[y].v * Fan + j /\ Fan \in Nat \ {0}
      BY <2>1, <3>2, <3>5, LevelsPositive
    <3>7. place[x].v = place[y].v /\ i = j
      <4> DEFINE a == place[x].v
                 b == place[y].v
      <4>1. a \in Nat /\ b \in Nat /\ a * Fan + i = b * Fan + j
        BY <3>2, <3>5, <3>6
      <4> HIDE DEF a, b
      <4>2. a = b /\ i = j
        BY <3>6, <4>1, SplitUnique
      <4> QED
        BY <4>2 DEF a, b
    <3>8. Same(x, y)
      BY <2>1, <3>2, <3>5, <3>7
    <3>9. x = y
      BY <1>2, <3>2, <3>8
    <3> QED
      BY <3>2, <3>5, <3>7, <3>9
  <2> QED
    BY <2>1
<1> HIDE DEF T
<1>3. Nat \subseteq T
  BY <1>1, <1>2, Induction
<1>4. ASSUME NEW p \in DOMAIN t, NEW q \in DOMAIN t, Same(p, q) PROVE p = q
  <2>1. place[p].level \in 1 .. Levels
    BY DEF Placing
  <2>2. place[p].level - 1 \in Nat /\ (place[p].level - 1) + 1 = place[p].level
    BY <2>1, LevelsPositive
  <2>3. place[p].level - 1 \in T
    BY <1>3, <2>2
  <2>4. \A x, y \in DOMAIN t : place[x].level = (place[p].level - 1) + 1 /\ Same(x, y) => x = y
    BY <2>3 DEF T
  <2>5. place[p].level = (place[p].level - 1) + 1
    BY <2>2
  <2> QED
    BY <1>4, <2>4, <2>5
<1> QED
  BY <1>4

-----------------------------------------------------------------------------
(* The walk *)

\* What the entry leads to.
Down(page, i) == IF page = 0 \/ ~tables[page][i].present THEN 0 ELSE tables[page][i].page

IsWalk(f, root, v) ==
    f = [k \in 1 .. Levels |-> IF k = 1 THEN root ELSE Down(f[k - 1], Index(v, k - 1))]

LEMMA WalkEquation ==
  ASSUME NEW root, NEW v
  PROVE  IsWalk(TableAt(root, v), root, v)
<1> DEFINE T == {n \in Nat : \E f : f = [k \in 1 .. n |->
                                IF k = 1 THEN root ELSE Down(f[k - 1], Index(v, k - 1))]}
<1>1. 0 \in T
  <2> DEFINE f == [k \in 1 .. 0 |-> root]
  <2>1. f = [k \in 1 .. 0 |-> IF k = 1 THEN root ELSE Down(f[k - 1], Index(v, k - 1))]
    OBVIOUS
  <2> QED
    BY <2>1
<1>2. ASSUME NEW n \in Nat, n \in T PROVE n + 1 \in T
  <2>1. PICK f : f = [k \in 1 .. n |-> IF k = 1 THEN root ELSE Down(f[k - 1], Index(v, k - 1))]
    BY <1>2
  <2> DEFINE g == [k \in 1 .. n + 1 |->
                     IF k <= n THEN f[k] ELSE IF k = 1 THEN root ELSE Down(f[n], Index(v, n))]
  <2>2. ASSUME NEW k \in 1 .. n + 1
        PROVE  g[k] = IF k = 1 THEN root ELSE Down(g[k - 1], Index(v, k - 1))
    <3>1. CASE k <= n
      <4>1. k \in 1 .. n /\ (k # 1 => k - 1 \in 1 .. n /\ k - 1 \in 1 .. n + 1 /\ k - 1 <= n)
        BY <3>1
      <4>2. g[k] = f[k] /\ (k # 1 => g[k - 1] = f[k - 1])
        BY <3>1, <4>1
      <4>3. f[k] = IF k = 1 THEN root ELSE Down(f[k - 1], Index(v, k - 1))
        BY <2>1, <4>1
      <4> HIDE DEF g
      <4> QED
        BY <4>2, <4>3
    <3>2. CASE k = n + 1
      <4>1. ~(k <= n) /\ k - 1 = n /\ (k # 1 => n \in 1 .. n + 1 /\ n <= n)
        BY <3>2
      <4>2. g[k] = IF k = 1 THEN root ELSE Down(f[n], Index(v, n))
        BY <4>1
      <4>3. k # 1 => g[n] = f[n]
        BY <4>1
      <4> HIDE DEF g
      <4> QED
        BY <4>1, <4>2, <4>3
    <3> QED
      BY <3>1, <3>2
  <2>3. g = [k \in 1 .. n + 1 |-> IF k = 1 THEN root ELSE Down(g[k - 1], Index(v, k - 1))]
    BY <2>2
  <2> HIDE DEF g
  <2> QED
    BY <2>3
<1> HIDE DEF T
<1>3. Levels \in T
  BY <1>1, <1>2, Induction, LevelsPositive
<1>4. TableAt(root, v) = CHOOSE f : f = [k \in 1 .. Levels |->
                            IF k = 1 THEN root ELSE Down(f[k - 1], Index(v, k - 1))]
  BY DEF TableAt, Down
<1> QED
  BY <1>3, <1>4 DEF T, IsWalk

\* Page p, if it is not 0, is the table on level k of tree s below which v lies.
OnWay(place, p, s, k, v) ==
    \/ p = 0
    \/ /\ p \in DOMAIN tables
       /\ place[p].space = s /\ place[p].level = k /\ place[p].v = v \div Span[Levels - k + 1]

\* The tables on a way are those below which the page lies, each on its level.
LEMMA WalkPlaces ==
  ASSUME NEW place, Placing(tables, roots, place), NEW s \in 1 .. Len(roots), NEW v \in Nat,
         v < Span[Levels], 0 \notin DOMAIN tables
  PROVE  \A k \in 1 .. Levels : OnWay(place, TableAt(roots[s], v)[k], s, k, v)
<1> DEFINE f == TableAt(roots[s], v)
           T == {n \in Nat : n + 1 <= Levels => OnWay(place, f[n + 1], s, n + 1, v)}
<1>0. f = [k \in 1 .. Levels |-> IF k = 1 THEN roots[s] ELSE Down(f[k - 1], Index(v, k - 1))]
  <2>1. IsWalk(f, roots[s], v)
    BY WalkEquation
  <2> QED
    BY <2>1 DEF IsWalk
<1> HIDE DEF f
<1>1. 0 \in T
  <2>1. f[1] = roots[s] /\ 0 + 1 = 1
    BY <1>0, LevelsPositive
  <2>2. roots[s] \in DOMAIN tables /\ place[roots[s]] = [space |-> s, level |-> 1, v |-> 0]
    BY DEF Placing
  <2>3. place[roots[s]].space = s /\ place[roots[s]].level = 1 /\ place[roots[s]].v = 0
    BY <2>2
  <2>4. v \div Span[Levels - 1 + 1] = 0
    BY SpanEnds
  <2>5. OnWay(place, f[1], s, 1, v)
    BY <2>1, <2>2, <2>3, <2>4 DEF OnWay
  <2> QED
    BY <2>1, <2>5
<1>2. ASSUME NEW n \in Nat, n \in T PROVE n + 1 \in T
  <2> SUFFICES ASSUME (n + 1) + 1 <= Levels
               PROVE  OnWay(place, f[(n + 1) + 1], s, (n + 1) + 1, v)
    OBVIOUS
  <2> DEFINE j == n + 1
             k == j + 1
             q == f[j]
             i == Index(v, j)
  <2>1. /\ k \in 1 .. Levels /\ k # 1 /\ k - 1 = j /\ j <= Levels
        /\ j \in 1 .. Levels /\ j < Levels /\ Levels - k + 1 = Levels - j
    BY LevelsPositive
  <2>2. OnWay(place, q, s, j, v)
    BY <1>2, <2>1
  <2> HIDE DEF j, k
  <2>3. f[k] = Down(q, i)
    BY <1>0, <2>1
  <2>4. i \in 0 .. Fan - 1
    BY <2>1, IndexType
  <2>5. (v \div Span[Levels - j + 1]) * Fan + i = v \div Span[Levels - j]
    BY <2>1, IndexSplits
  <2> HIDE DEF q, i
  <2>6. ASSUME f[k] # 0 PROVE OnWay(place, f[k], s, k, v)
    <3>1. q # 0 /\ tables[q][i].present /\ f[k] = tables[q][i].page
      BY <2>3, <2>6 DEF Down
    <3>2. /\ q \in DOMAIN tables /\ place[q].space = s /\ place[q].level = j
          /\ place[q].v = v \div Span[Levels - j + 1]
      BY <2>2, <3>1 DEF OnWay
    <3>3. f[k] \in DOMAIN tables /\ place[f[k]] = Under(place[q], i)
      BY <2>1, <2>4, <3>1, <3>2 DEF Placing
    <3>4. /\ place[f[k]].space = s /\ place[f[k]].level = k
          /\ place[f[k]].v = place[q].v * Fan + i
      BY <3>2, <3>3 DEF Under, k
    <3>5. place[f[k]].v = v \div Span[Levels - k + 1]
      BY <2>1, <2>5, <3>2, <3>4
    <3> QED
      BY <3>3, <3>4, <3>5 DEF OnWay
  <2>7. OnWay(place, f[k], s, k, v)
    BY <2>6 DEF OnWay
  <2> QED
    BY <2>7 DEF k, j
<1> HIDE DEF T
<1>3. Nat \subseteq T
  BY <1>1, <1>2, Induction
<1>4. ASSUME NEW k \in 1 .. Levels PROVE OnWay(place, f[k], s, k, v)
  <2>1. k - 1 \in Nat /\ (k - 1) + 1 = k /\ k <= Levels
    BY LevelsPositive
  <2>2. k - 1 \in T
    BY <1>3, <2>1
  <2> QED
    BY <2>1, <2>2 DEF T
<1> QED
  BY <1>4 DEF f

-----------------------------------------------------------------------------
(* Every step keeps the trees *)

LEMMA OwnedGrows ==
  ASSUME [A!ANext]_(A!avars)
  PROVE  Owned \subseteq Owned'
  BY DEF A!ANext, A!avars, A!Give, A!Stop

LEMMA TreeFrom ==
  ASSUME NEW place, Placing(tables', roots', place), tables' \in [DOMAIN tables' -> TableSet],
         DOMAIN tables' \subseteq Owned', 0 \notin DOMAIN tables'
  PROVE  TreeInv'
  BY DEF TreeInv

LEMMA TreeSame ==
  ASSUME TreeInv, UNCHANGED <<tables, roots>>, Owned \subseteq Owned'
  PROVE  TreeInv'
<1>1. PICK place : Placing(tables, roots, place)
  BY DEF TreeInv
<1>2. Placing(tables', roots', place)
  BY <1>1
<1>3. tables' \in [DOMAIN tables' -> TableSet] /\ DOMAIN tables' \subseteq Owned' /\ 0 \notin DOMAIN tables'
  BY DEF TreeInv
<1> QED
  BY <1>2, <1>3, TreeFrom

LEMMA WithTableAdds ==
  ASSUME tables \in [DOMAIN tables -> TableSet], NEW new, new \notin DOMAIN tables
  PROVE  /\ Added(tables, WithTable(new), new)
         /\ \A p \in DOMAIN tables : WithTable(new)[p] = tables[p]
<1> DEFINE none == [i \in 0 .. Fan - 1 |-> NoEntry]
           u == WithTable(new)
<1>1. none \in TableSet /\ \A i \in 0 .. Fan - 1 : ~none[i].present
  BY EmptyTable
<1>2. u = [p \in DOMAIN tables \union {new} |-> IF p = new THEN none ELSE tables[p]]
  BY DEF WithTable
<1> HIDE DEF u, none
<1>3. DOMAIN u = DOMAIN tables \union {new} /\ u[new] = none /\ \A p \in DOMAIN tables : u[p] = tables[p]
  BY <1>2
<1>4. u \in [DOMAIN u -> TableSet]
  BY <1>1, <1>2
<1> QED
  BY <1>1, <1>3, <1>4 DEF Added, u

\* Every table keeps its place, those on the last level their entries, and new ones
\* are empty.
LeavesKept ==
    \E place, next :
       /\ Placing(tables, roots, place) /\ Placing(tables', roots', next)
       /\ \A p \in DOMAIN tables : p \in DOMAIN tables' /\ next[p] = place[p]
       /\ \A p \in DOMAIN tables : place[p].level = Levels => tables'[p] = tables[p]
       /\ \A p \in DOMAIN tables' : p \in DOMAIN tables \/ \A i \in 0 .. Fan - 1 : ~tables'[p][i].present

LEMMA TreeMade ==
  ASSUME QInv, TreeInv, init_paging_task
  PROVE  TreeInv' /\ LeavesKept
<1> DEFINE new == last'.lo
<1>1. /\ kmalloc_returns(1) /\ roots' = Append(roots, new) /\ tables' = WithTable(new)
      /\ status = "running" /\ TypeOK /\ roots \in Seq(Nat) /\ 1 \in Int
  BY DEF init_paging_task, Doing, QInv
<1>2. new \in Nat \ {0} /\ new \notin Owned /\ new \in Owned' /\ Owned \subseteq Owned'
  BY <1>1, Fresh
<1> HIDE DEF new
<1>3. new \notin DOMAIN tables
  BY <1>2 DEF TreeInv
<1>4. Added(tables, tables', new) /\ \A p \in DOMAIN tables : tables'[p] = tables[p]
  BY <1>1, <1>3, WithTableAdds DEF TreeInv
<1>5. PICK place : Placing(tables, roots, place)
  BY DEF TreeInv
<1>6. new \in Nat
  BY <1>2
<1>7. \E next : Placing(tables', Append(roots, new), next) /\ \A p \in DOMAIN tables : next[p] = place[p]
  BY <1>1, <1>4, <1>5, <1>6, NewRoot
<1>8. PICK next : Placing(tables', roots', next) /\ \A p \in DOMAIN tables : next[p] = place[p]
  BY <1>1, <1>7
<1>9. /\ tables' \in [DOMAIN tables' -> TableSet]
      /\ DOMAIN tables' \subseteq Owned' /\ 0 \notin DOMAIN tables'
  BY <1>2, <1>4 DEF Added, TreeInv
<1>10. /\ \A p \in DOMAIN tables : p \in DOMAIN tables'
       /\ \A p \in DOMAIN tables' : p \in DOMAIN tables \/ \A i \in 0 .. Fan - 1 : ~tables'[p][i].present
  BY <1>4 DEF Added
<1>11. LeavesKept
  BY <1>4, <1>5, <1>8, <1>10 DEF LeavesKept
<1> QED
  BY <1>8, <1>9, <1>11, TreeFrom

\* The way of the call under way is one in its tree.
LEMMA WayPlaces ==
  ASSUME QInv, TreeInv, Runs, NEW place, Placing(tables, roots, place)
  PROVE  /\ Now.v \in Nat /\ IsWalk(Way, Root, Now.v)
         /\ \A k \in 1 .. Levels : OnWay(place, Way[k], Now.space, k, Now.v)
<1>1. todo # <<>> /\ Now.op \in {"map", "alloc"} /\ Now.v < Span[Levels]
  BY DEF Runs, Doing
<1>2. Now.space \in 1 .. Len(roots) /\ Now.v \in Nat
  BY <1>1, NowSpace, NowType DEF PartType
<1>3. 0 \notin DOMAIN tables
  BY DEF TreeInv
<1>4. \A k \in 1 .. Levels : OnWay(place, TableAt(roots[Now.space], Now.v)[k], Now.space, k, Now.v)
  BY <1>1, <1>2, <1>3, WalkPlaces
<1>5. IsWalk(TableAt(Root, Now.v), Root, Now.v)
  BY WalkEquation
<1> QED
  BY <1>2, <1>4, <1>5 DEF Way, Root

LEMMA TableMade ==
  ASSUME QInv, TreeInv, add_table
  PROVE  TreeInv' /\ LeavesKept
<1> DEFINE new == last'.lo
<1>1. /\ Runs /\ status = "running" /\ TypeOK /\ roots \in Seq(Nat) /\ 1 \in Int
      /\ roots' = roots
  BY DEF add_table, Runs, Doing, QInv
<1>2. PICK k \in 2 .. Levels :
        /\ Way[k] = 0 /\ Way[k - 1] # 0 /\ kmalloc_returns(1)
        /\ tables' = [WithTable(new) EXCEPT ![Way[k - 1]][Index(Now.v, k - 1)] = EntryOf(new, TRUE)]
  BY DEF add_table
<1> DEFINE q == Way[k - 1]
           i == Index(Now.v, k - 1)
           u == WithTable(new)
<1>3. new \in Nat \ {0} /\ new \notin Owned /\ new \in Owned' /\ Owned \subseteq Owned'
  BY <1>1, <1>2, Fresh
<1>4. PICK place : Placing(tables, roots, place)
  BY DEF TreeInv
<1>5. k \in 1 .. Levels /\ k - 1 \in 1 .. Levels /\ k - 1 < Levels /\ k # 1
  BY LevelsPositive
<1>6. Now.v \in Nat /\ IsWalk(Way, Root, Now.v)
  BY <1>1, <1>4, WayPlaces
<1>7. i \in 0 .. Fan - 1
  BY <1>5, <1>6, IndexType
<1>8. q \in DOMAIN tables /\ place[q].level < Levels
  <2>1. OnWay(place, q, Now.space, k - 1, Now.v)
    BY <1>1, <1>4, <1>5, WayPlaces
  <2> QED
    BY <1>2, <1>5, <2>1 DEF OnWay
<1>9. Way[k] = Down(q, i)
  BY <1>5, <1>6 DEF IsWalk
<1>10. tables' = [u EXCEPT ![q][i] = EntryOf(new, TRUE)] /\ Way[k] = 0 /\ q # 0
  BY <1>2
<1> HIDE DEF new, q, i, u
<1>11. ~tables[q][i].present
  <2> SUFFICES ASSUME tables[q][i].present PROVE FALSE
    OBVIOUS
  <2>1. tables[q][i].page \in DOMAIN tables
    BY <1>4, <1>7, <1>8 DEF Placing
  <2>2. tables[q][i].page = 0
    BY <1>9, <1>10 DEF Down
  <2> QED
    BY <2>1, <2>2 DEF TreeInv
<1>12. new \notin DOMAIN tables /\ new \in Nat
  BY <1>3 DEF TreeInv
<1>13. Added(tables, u, new) /\ \A p \in DOMAIN tables : u[p] = tables[p]
  BY <1>12, WithTableAdds DEF TreeInv, u
<1>14. EntryOf(new, TRUE) \in EntrySet /\ EntryOf(new, TRUE).present /\ EntryOf(new, TRUE).page = new
  BY <1>12 DEF EntryOf, EntrySet
<1>15. /\ DOMAIN tables' = DOMAIN u /\ tables'[q] = [u[q] EXCEPT ![i] = EntryOf(new, TRUE)]
       /\ \A p \in DOMAIN u : p # q => tables'[p] = u[p]
       /\ q \in DOMAIN u /\ q # new /\ u[q] \in TableSet /\ u[q] = tables[q]
  BY <1>8, <1>10, <1>12, <1>13 DEF Added
<1>16. /\ tables'[q] \in TableSet /\ tables'[q][i] = EntryOf(new, TRUE)
       /\ \A j \in 0 .. Fan - 1 : j # i => tables'[q][j] = tables[q][j]
  BY <1>7, <1>14, <1>15 DEF TableSet
<1>17. tables' \in [DOMAIN tables' -> TableSet]
  <2>1. \A p \in DOMAIN tables' : tables'[p] \in TableSet
    BY <1>13, <1>15, <1>16 DEF Added
  <2>2. tables' = [p \in DOMAIN tables' |-> tables'[p]]
    BY <1>10, <1>13 DEF Added
  <2> QED
    BY <2>1, <2>2
<1>18. Added(tables, tables', new)
  BY <1>12, <1>13, <1>15, <1>17 DEF Added
<1>19. \A p \in DOMAIN tables : \A j \in 0 .. Fan - 1 : p # q \/ j # i => tables'[p][j] = tables[p][j]
  BY <1>13, <1>15, <1>16 DEF Added
<1>20. tables'[q][i].present /\ tables'[q][i].page = new
  BY <1>14, <1>16
<1>21. PICK next : Placing(tables', roots, next) /\ \A p \in DOMAIN tables : next[p] = place[p]
  BY <1>1, <1>4, <1>7, <1>8, <1>11, <1>12, <1>18, <1>19, <1>20, NewTable
<1>22. DOMAIN tables' \subseteq Owned' /\ 0 \notin DOMAIN tables'
  BY <1>3, <1>18 DEF Added, TreeInv
<1>23. /\ \A p \in DOMAIN tables : p \in DOMAIN tables' /\ next[p] = place[p]
       /\ \A p \in DOMAIN tables : place[p].level = Levels => tables'[p] = tables[p]
  <2>1. ~(Levels < Levels)
    BY LevelsPositive
  <2>2. \A p \in DOMAIN tables : place[p].level = Levels => p # q
    BY <1>8, <2>1
  <2> QED
    BY <1>13, <1>15, <1>18, <1>21, <2>2 DEF Added
<1>24. \A p \in DOMAIN tables' : p \in DOMAIN tables \/ \A j \in 0 .. Fan - 1 : ~tables'[p][j].present
  BY <1>13, <1>15, <1>18 DEF Added
<1>25. Placing(tables', roots', next)
  BY <1>1, <1>21
<1>26. LeavesKept
  BY <1>4, <1>23, <1>24, <1>25 DEF LeavesKept
<1> QED
  BY <1>17, <1>22, <1>25, <1>26, TreeFrom

LEMMA PageEntered ==
  ASSUME QInv, TreeInv, Runs, Leaf # 0, NEW entry \in EntrySet, Enter(entry), roots' = roots,
         Owned \subseteq Owned'
  PROVE  TreeInv'
<1> DEFINE q == Leaf
           i == Index(Now.v, Levels)
<1>1. tables' = [tables EXCEPT ![q][i] = entry]
  BY DEF Enter
<1>2. PICK place : Placing(tables, roots, place)
  BY DEF TreeInv
<1>3. Levels \in 1 .. Levels
  BY LevelsPositive
<1>4. q \in DOMAIN tables /\ place[q].level = Levels
  BY <1>2, <1>3, WayPlaces DEF Leaf, OnWay
<1> HIDE DEF q, i
<1>5. /\ DOMAIN tables' = DOMAIN tables /\ tables'[q] = [tables[q] EXCEPT ![i] = entry]
      /\ \A p \in DOMAIN tables : p # q => tables'[p] = tables[p]
      /\ tables[q] \in TableSet
  BY <1>1, <1>4 DEF TreeInv
<1>6. tables'[q] \in TableSet
  BY <1>5 DEF TableSet
<1>7. tables' \in [DOMAIN tables' -> TableSet]
  <2>1. \A p \in DOMAIN tables' : tables'[p] \in TableSet
    BY <1>5, <1>6 DEF TreeInv
  <2>2. tables' = [p \in DOMAIN tables' |-> tables'[p]]
    BY <1>1 DEF TreeInv
  <2> QED
    BY <2>1, <2>2
<1>8. Placing(tables', roots, place)
  BY <1>2, <1>4, <1>5, LeafEntry
<1>9. Placing(tables', roots', place)
  BY <1>8
<1>10. DOMAIN tables' \subseteq Owned' /\ 0 \notin DOMAIN tables'
  BY <1>5 DEF TreeInv
<1> QED
  BY <1>7, <1>9, <1>10, TreeFrom

LEMMA TreeStep ==
  ASSUME QInv, TreeInv, [PNext]_allVars
  PROVE  TreeInv'
<1>0. Owned \subseteq Owned'
  BY QNext, OwnedGrows
<1>1. ASSUME UNCHANGED <<tables, roots>> PROVE TreeInv'
  BY <1>0, <1>1, TreeSame
<1>2. CASE map_page
  <2>1. Runs /\ Leaf # 0 /\ Enter(EntryOf(PhysAddr, Now.user)) /\ roots' = roots /\ todo # <<>>
    BY <1>2 DEF map_page, Runs, Doing
  <2>2. Now.page \in Nat /\ Now.user \in BOOLEAN /\ taken \in Nat
    BY <2>1, NowType DEF PartType, QInv
  <2>3. PhysAddr \in Nat
    BY <2>2 DEF PhysAddr
  <2>4. EntryOf(PhysAddr, Now.user) \in EntrySet
    BY <2>2, <2>3 DEF EntryOf, EntrySet
  <2> QED
    BY <1>0, <2>1, <2>4, PageEntered
<1>3. CASE alloc_page
  <2>1. /\ Runs /\ Leaf # 0 /\ Enter(EntryOf(last'.lo, Now.user)) /\ roots' = roots /\ todo # <<>>
        /\ kmalloc_returns(1) /\ status = "running" /\ TypeOK /\ 1 \in Int
    BY <1>3 DEF alloc_page, Runs, Doing, QInv
  <2>2. Now.user \in BOOLEAN /\ last'.lo \in Nat
    BY <2>1, NowType, Fresh DEF PartType
  <2>3. EntryOf(last'.lo, Now.user) \in EntrySet
    BY <2>2 DEF EntryOf, EntrySet
  <2> QED
    BY <1>0, <2>1, <2>3, PageEntered
<1>4. CASE init_paging_task
  BY <1>4, TreeMade
<1>5. CASE add_table
  BY <1>5, TableMade
<1>6. CASE take_pages \/ copy_segments \/ runs_off \/ out_of_memory
  BY <1>1, <1>6 DEF take_pages, copy_segments, runs_off, out_of_memory, pvars
<1>7. CASE \/ init_paging
           \/ \E p \in DOMAIN Programs : spawn(p)
           \/ \E s \in 2 .. Len(roots), addr \in Fixed \union {0}, length \in Lengths :
                 syscall_mmap(s, addr, length)
  BY <1>1, <1>7, QCallers
<1>8. ASSUME NEW n \in Requests, kmalloc_elsewhere(n) PROVE TreeInv'
  BY <1>1, <1>8 DEF kmalloc_elsewhere, pvars
<1>9. CASE UNCHANGED allVars
  BY <1>1, <1>9 DEF allVars, pvars
<1> QED
  BY <1>2, <1>3, <1>4, <1>5, <1>6, <1>7, <1>8, <1>9 DEF PNext, Step

-----------------------------------------------------------------------------
(* The trees that the walks of Placed find are the tables with their places *)

Top(s) == {[space |-> s, level |-> 1, v |-> 0, page |-> roots[s]]}

Lower(s, k, S) ==
    UNION {{[space |-> s, level |-> k, v |-> t.v * Fan + i, page |-> tables[t.page][i].page] :
                i \in {i \in 0 .. Fan - 1 : tables[t.page][i].present}} : t \in S}

IsLevels(at, s) == at = [k \in 1 .. Levels |-> IF k = 1 THEN Top(s) ELSE Lower(s, k, at[k - 1])]

LevelsOf(s) == CHOOSE at : IsLevels(at, s)

LEMMA PlacedIsLevels ==
  ASSUME NEW s
  PROVE  Placed(s) = UNION {LevelsOf(s)[k] : k \in 1 .. Levels}
  BY DEF Placed, LevelsOf, IsLevels, Top, Lower

LEMMA LevelsEquation == ASSUME NEW s PROVE IsLevels(LevelsOf(s), s)
<1> DEFINE T == {n \in Nat : \E f : f = [k \in 1 .. n |-> IF k = 1 THEN Top(s) ELSE Lower(s, k, f[k - 1])]}
<1>1. 0 \in T
  <2> DEFINE f == [k \in 1 .. 0 |-> {}]
  <2>1. f = [k \in 1 .. 0 |-> IF k = 1 THEN Top(s) ELSE Lower(s, k, f[k - 1])]
    OBVIOUS
  <2> QED
    BY <2>1
<1>2. ASSUME NEW n \in Nat, n \in T PROVE n + 1 \in T
  <2>1. PICK f : f = [k \in 1 .. n |-> IF k = 1 THEN Top(s) ELSE Lower(s, k, f[k - 1])]
    BY <1>2
  <2> DEFINE g == [k \in 1 .. n + 1 |->
                     IF k <= n THEN f[k] ELSE IF k = 1 THEN Top(s) ELSE Lower(s, k, f[n])]
  <2>2. ASSUME NEW k \in 1 .. n + 1
        PROVE  g[k] = IF k = 1 THEN Top(s) ELSE Lower(s, k, g[k - 1])
    <3>1. CASE k <= n
      <4>1. k \in 1 .. n /\ (k # 1 => k - 1 \in 1 .. n /\ k - 1 \in 1 .. n + 1 /\ k - 1 <= n)
        BY <3>1
      <4>2. g[k] = f[k] /\ (k # 1 => g[k - 1] = f[k - 1])
        BY <3>1, <4>1
      <4>3. f[k] = IF k = 1 THEN Top(s) ELSE Lower(s, k, f[k - 1])
        BY <2>1, <4>1
      <4> HIDE DEF g
      <4> QED
        BY <4>2, <4>3
    <3>2. CASE k = n + 1
      <4>1. ~(k <= n) /\ k - 1 = n /\ (k # 1 => n \in 1 .. n + 1 /\ n <= n)
        BY <3>2
      <4>2. g[k] = IF k = 1 THEN Top(s) ELSE Lower(s, k, f[n])
        BY <4>1
      <4>3. k # 1 => g[n] = f[n]
        BY <4>1
      <4> HIDE DEF g
      <4> QED
        BY <4>1, <4>2, <4>3
    <3> QED
      BY <3>1, <3>2
  <2>3. g = [k \in 1 .. n + 1 |-> IF k = 1 THEN Top(s) ELSE Lower(s, k, g[k - 1])]
    BY <2>2
  <2> HIDE DEF g
  <2> QED
    BY <2>3
<1> HIDE DEF T
<1>3. Levels \in T
  BY <1>1, <1>2, Induction, LevelsPositive
<1>4. \E f : IsLevels(f, s)
  BY <1>3 DEF T, IsLevels
<1> QED
  BY <1>4 DEF LevelsOf

\* A table with its place, as Placed records it.
Spot(place, p) ==
    [space |-> place[p].space, level |-> place[p].level, v |-> place[p].v, page |-> p]

OnLevel(place, s, k) ==
    {Spot(place, p) : p \in {p \in DOMAIN tables : place[p].space = s /\ place[p].level = k}}

LEMMA FirstLevel ==
  ASSUME NEW place, Placing(tables, roots, place), NEW s \in 1 .. Len(roots)
  PROVE  Top(s) = OnLevel(place, s, 1)
<1>1. roots[s] \in DOMAIN tables /\ place[roots[s]] = [space |-> s, level |-> 1, v |-> 0]
  BY DEF Placing
<1>2. place[roots[s]].space = s /\ place[roots[s]].level = 1 /\ place[roots[s]].v = 0
  BY <1>1
<1>3. Spot(place, roots[s]) = [space |-> s, level |-> 1, v |-> 0, page |-> roots[s]]
  BY <1>2 DEF Spot
<1>4. \A p \in DOMAIN tables : place[p].space = s /\ place[p].level = 1 => p = roots[s]
  BY DEF Placing
<1> QED
  BY <1>1, <1>2, <1>3, <1>4 DEF Top, OnLevel

LEMMA NextLevel ==
  ASSUME NEW place, Placing(tables, roots, place), NEW s \in 1 .. Len(roots),
         NEW k \in 2 .. Levels
  PROVE  Lower(s, k, OnLevel(place, s, k - 1)) = OnLevel(place, s, k)
<1>0. k - 1 < Levels /\ (k - 1) + 1 = k /\ k # 1 /\ k \in Nat
  BY LevelsPositive
<1>1. ASSUME NEW q \in DOMAIN tables, place[q].space = s, place[q].level = k - 1,
             NEW i \in 0 .. Fan - 1, tables[q][i].present
      PROVE  /\ tables[q][i].page \in DOMAIN tables
             /\ place[tables[q][i].page].space = s /\ place[tables[q][i].page].level = k
             /\ Spot(place, tables[q][i].page) =
                  [space |-> s, level |-> k, v |-> Spot(place, q).v * Fan + i,
                   page |-> tables[Spot(place, q).page][i].page]
  <2>1. tables[q][i].page \in DOMAIN tables /\ place[tables[q][i].page] = Under(place[q], i)
    BY <1>0, <1>1 DEF Placing
  <2>2. Under(place[q], i) = [space |-> s, level |-> k, v |-> place[q].v * Fan + i]
    BY <1>0, <1>1 DEF Under
  <2>3. Spot(place, q).v = place[q].v /\ Spot(place, q).page = q
    BY DEF Spot
  <2> QED
    BY <2>1, <2>2, <2>3 DEF Spot
<1>2. ASSUME NEW x \in Lower(s, k, OnLevel(place, s, k - 1)) PROVE x \in OnLevel(place, s, k)
  <2>1. PICK t \in OnLevel(place, s, k - 1) : \E i \in 0 .. Fan - 1 :
          /\ tables[t.page][i].present
          /\ x = [space |-> s, level |-> k, v |-> t.v * Fan + i, page |-> tables[t.page][i].page]
    BY <1>2 DEF Lower
  <2>2. PICK q \in DOMAIN tables : place[q].space = s /\ place[q].level = k - 1 /\ t = Spot(place, q)
    BY DEF OnLevel
  <2>3. PICK i \in 0 .. Fan - 1 :
          /\ tables[t.page][i].present
          /\ x = [space |-> s, level |-> k, v |-> t.v * Fan + i, page |-> tables[t.page][i].page]
    BY <2>1
  <2>4. t.page = q
    BY <2>2 DEF Spot
  <2>5. tables[q][i].present
    BY <2>3, <2>4
  <2>6. /\ tables[q][i].page \in DOMAIN tables
        /\ place[tables[q][i].page].space = s /\ place[tables[q][i].page].level = k
        /\ x = Spot(place, tables[q][i].page)
    BY <1>1, <2>2, <2>3, <2>5
  <2> QED
    BY <2>6 DEF OnLevel
<1>3. ASSUME NEW x \in OnLevel(place, s, k) PROVE x \in Lower(s, k, OnLevel(place, s, k - 1))
  <2>1. PICK p \in DOMAIN tables : place[p].space = s /\ place[p].level = k /\ x = Spot(place, p)
    BY <1>3 DEF OnLevel
  <2>2. PICK q \in DOMAIN tables : \E i \in 0 .. Fan - 1 :
          place[q].level < Levels /\ tables[q][i].present /\ tables[q][i].page = p
    BY <1>0, <2>1 DEF Placing
  <2>3. PICK i \in 0 .. Fan - 1 :
          place[q].level < Levels /\ tables[q][i].present /\ tables[q][i].page = p
    BY <2>2
  <2>4. place[p] = Under(place[q], i) /\ place[q].level \in 1 .. Levels
    BY <2>3 DEF Placing
  <2>5. place[q].space = s /\ place[q].level = k - 1
    <3>1. place[p].space = place[q].space /\ place[p].level = place[q].level + 1
      BY <2>4 DEF Under
    <3> QED
      BY <1>0, <2>1, <2>4, <3>1
  <2>6. x = [space |-> s, level |-> k, v |-> Spot(place, q).v * Fan + i,
             page |-> tables[Spot(place, q).page][i].page]
    BY <1>1, <2>1, <2>3, <2>5
  <2>7. Spot(place, q) \in OnLevel(place, s, k - 1)
    BY <2>5 DEF OnLevel
  <2>8. tables[Spot(place, q).page][i].present
    BY <2>3 DEF Spot
  <2> QED
    BY <2>6, <2>7, <2>8 DEF Lower
<1> QED
  BY <1>2, <1>3

LEMMA LevelsAreTables ==
  ASSUME NEW place, Placing(tables, roots, place), NEW s \in 1 .. Len(roots), NEW k \in 1 .. Levels
  PROVE  LevelsOf(s)[k] = OnLevel(place, s, k)
<1> DEFINE f == LevelsOf(s)
           T == {n \in Nat : n + 1 <= Levels => f[n + 1] = OnLevel(place, s, n + 1)}
<1>0. f = [j \in 1 .. Levels |-> IF j = 1 THEN Top(s) ELSE Lower(s, j, f[j - 1])]
  <2>1. IsLevels(f, s)
    BY LevelsEquation
  <2> QED
    BY <2>1 DEF IsLevels
<1> HIDE DEF f
<1>1. 0 \in T
  BY <1>0, FirstLevel, LevelsPositive
<1>2. ASSUME NEW n \in Nat, n \in T PROVE n + 1 \in T
  <2> SUFFICES ASSUME (n + 1) + 1 <= Levels
               PROVE  f[(n + 1) + 1] = OnLevel(place, s, (n + 1) + 1)
    OBVIOUS
  <2> DEFINE j == (n + 1) + 1
  <2>1. j \in 2 .. Levels /\ j \in 1 .. Levels /\ j # 1 /\ j - 1 = n + 1 /\ n + 1 <= Levels
    BY LevelsPositive
  <2> HIDE DEF j
  <2>2. f[j] = Lower(s, j, f[j - 1])
    BY <1>0, <2>1
  <2>3. f[j - 1] = OnLevel(place, s, j - 1)
    BY <1>2, <2>1
  <2>4. f[j] = OnLevel(place, s, j)
    BY <2>1, <2>2, <2>3, NextLevel
  <2> QED
    BY <2>4 DEF j
<1> HIDE DEF T
<1>3. k - 1 \in Nat /\ (k - 1) + 1 = k /\ k <= Levels
  BY LevelsPositive
<1>4. k - 1 \in T
  BY <1>1, <1>2, <1>3, Induction
<1> QED
  BY <1>3, <1>4 DEF T, f

LEMMA TreesAreTables ==
  ASSUME QInv, NEW place, Placing(tables, roots, place)
  PROVE  Trees = {Spot(place, p) : p \in DOMAIN tables}
<1>0. DOMAIN roots = 1 .. Len(roots)
  BY QLengths
<1>1. ASSUME NEW x \in Trees PROVE \E p \in DOMAIN tables : x = Spot(place, p)
  <2>1. PICK s \in 1 .. Len(roots) : x \in Placed(s)
    BY <1>0, <1>1 DEF Trees
  <2>2. PICK k \in 1 .. Levels : x \in LevelsOf(s)[k]
    BY <2>1, PlacedIsLevels
  <2>3. x \in OnLevel(place, s, k)
    BY <2>2, LevelsAreTables
  <2> QED
    BY <2>3 DEF OnLevel
<1>2. ASSUME NEW p \in DOMAIN tables PROVE Spot(place, p) \in Trees
  <2> DEFINE s == place[p].space
             k == place[p].level
  <2>1. s \in 1 .. Len(roots) /\ k \in 1 .. Levels
    BY DEF Placing
  <2>2. Spot(place, p) \in OnLevel(place, s, k)
    BY DEF OnLevel
  <2> HIDE DEF s, k
  <2>3. Spot(place, p) \in LevelsOf(s)[k]
    BY <2>1, <2>2, LevelsAreTables
  <2>4. Spot(place, p) \in Placed(s)
    BY <2>1, <2>3, PlacedIsLevels
  <2> QED
    BY <1>0, <2>1, <2>4 DEF Trees
<1> QED
  BY <1>1, <1>2

\* The inductive invariant behind the next theorem: the tables form trees.
THEOREM TreesKept == PSpec => [](QInv /\ TreeInv)
<1>1. QInv /\ TreeInv /\ [PNext]_allVars => TreeInv'
  BY TreeStep
<1> QED
  BY <1>1, TreeInit, PagingTypes, PTL DEF PSpec

\* Every table has its place in one tree and was handed out by kmalloc: no two trees
\* or two places share one and none is lost, for any number of levels, entries and
\* trees, wherever memory runs out.
THEOREM TablesApart == PSpec => []TablesPrivate
<1>1. QInv /\ TreeInv => TablesPrivate
  <2> SUFFICES ASSUME QInv, TreeInv PROVE TablesPrivate
    OBVIOUS
  <2>1. PICK place : Placing(tables, roots, place)
    BY DEF TreeInv
  <2>2. Trees = {Spot(place, p) : p \in DOMAIN tables}
    BY <2>1, TreesAreTables
  <2>3. \A p : Spot(place, p).page = p
    BY DEF Spot
  <2>4. \A t, u \in Trees : t.page = u.page => t = u
    BY <2>2, <2>3
  <2>5. {t.page : t \in Trees} = DOMAIN tables
    BY <2>2, <2>3
  <2> QED
    BY <2>4, <2>5 DEF TablesPrivate, TreeInv
<1> QED
  BY <1>1, TreesKept, PTL

-----------------------------------------------------------------------------
(* The pages a call has left *)

\* Every range of the call under way has a page, unless kmalloc is to be asked first
\* for as many pages as there are not: it will halt the machine.
CountInv ==
    \/ Lasting(todo)
    \/ todo # <<>> /\ Now.op = "take" /\ Now.n < 1

LEMMA LastingTail ==
  ASSUME NEW q \in Seq(PartType), q # <<>>, Lasting(q)
  PROVE  Lasting(Tail(q))
<1>1. Len(q) \in Nat
  BY LenProperties
<1>2. /\ Len(Tail(q)) = Len(q) - 1
      /\ \A i \in 1 .. Len(Tail(q)) : Tail(q)[i] = q[i + 1]
  BY HeadTailProperties
<1>3. \A i \in 1 .. Len(Tail(q)) : i + 1 \in 1 .. Len(q)
  BY <1>1, <1>2
<1> QED
  BY <1>2, <1>3 DEF Lasting

\* A page of the range is there to be mapped.
LEMMA PageLeft ==
  ASSUME QInv, CountInv, todo # <<>>, Now.op \in {"map", "alloc"}
  PROVE  Lasting(todo) /\ Now.n > 0
<1>1. todo \in Seq(PartType) /\ Now = todo[1] /\ 1 \in 1 .. Len(todo)
  <2>1. todo \in Seq(PartType)
    BY NowType
  <2>2. Len(todo) \in Nat /\ Len(todo) # 0
    BY <2>1, LenProperties, EmptySeq
  <2> QED
    BY <2>1, <2>2 DEF Now
<1> QED
  BY <1>1 DEF CountInv, Lasting

LEMMA CountAdvances ==
  ASSUME QInv, CountInv, todo # <<>>, Now.op \in {"map", "alloc"}, Advance
  PROVE  CountInv'
<1>1. todo \in Seq(PartType) /\ Tail(todo) \in Seq(PartType) /\ Now \in PartType
  BY NowType
<1>2. Lasting(todo) /\ Now.n > 0 /\ Lasting(Tail(todo))
  BY <1>1, PageLeft, LastingTail
<1>3. CASE Now.n = 1
  <2>1. Lasting(todo')
    BY <1>2, <1>3 DEF Advance
  <2> QED
    BY <2>1 DEF CountInv, Lasting
<1>4. CASE Now.n # 1
  <2> DEFINE next == [Now EXCEPT !.v = @ + 1, !.page = @ + 1, !.n = @ - 1]
  <2>1. todo' = <<next>> \o Tail(todo)
    BY <1>4 DEF Advance
  <2>2. next \in PartType /\ next.n = Now.n - 1
    BY <1>1, NextPart
  <2>3. Now.n \in Int
    BY <1>1 DEF PartType
  <2> HIDE DEF next
  <2>4. next.n > 0
    BY <1>2, <1>4, <2>2, <2>3
  <2>5. <<next>> \in Seq(PartType) /\ Lasting(<<next>>)
    BY <2>2, <2>4, LastingOne
  <2>6. Lasting(todo')
    BY <1>1, <1>2, <2>1, <2>5, LastingConcat
  <2> QED
    BY <2>6 DEF CountInv, Lasting
<1> QED
  BY <1>3, <1>4

\* If no page is asked for, spawn begins by asking kmalloc for none.
LEMMA SpawnDoomed ==
  ASSUME NEW s \in Nat \ {0}, NEW n \in Int, NEW v \in Nat
  PROVE  LET q == Take(n) \o Copy(s) \o NewTree(s) \o map_all(s) \o MapTaken(s, v, n)
                  \o Alloc(s, UserStack, TRUE) \o Take(1) \o MapTaken(s, Argv, 2)
                  \o map_apic_into_task(s)
         IN  q # <<>> /\ Head(q).op = "take" /\ Head(q).n = n
<1> DEFINE q == Take(n) \o Copy(s) \o NewTree(s) \o map_all(s) \o MapTaken(s, v, n)
                \o Alloc(s, UserStack, TRUE) \o Take(1) \o MapTaken(s, Argv, 2)
                \o map_apic_into_task(s)
           part == Part("take", 0, 0, n, "zero", 0, FALSE)
           Good(a) == a \in Seq(PartType)
           Starts(a) == Good(a) /\ a # <<>> /\ Head(a) = part
<1>0. s \in Nat /\ s \in 1 .. s /\ UserStack \in Nat /\ Argv \in Nat /\ 1 \in Int /\ 2 \in Int
  BY PagingAssumption
<1>1. part \in PartType /\ part.op = "take" /\ part.n = n /\ Take(n) = <<part>>
  BY DEF Part, PartType, Take
<1> HIDE DEF part
<1>2. Starts(Take(n))
  BY <1>1
<1>3. ASSUME NEW a, NEW b, Starts(a), Good(b) PROVE Starts(a \o b)
  <2>1. Len(a) \in Nat /\ Len(b) \in Nat /\ Len(a) # 0 /\ a[1] = part
    BY <1>3, LenProperties, EmptySeq
  <2>2. /\ a \o b \in Seq(PartType) /\ Len(a \o b) = Len(a) + Len(b)
        /\ \A i \in 1 .. Len(a) + Len(b) : (a \o b)[i] =
               IF i <= Len(a) THEN a[i] ELSE b[i - Len(a)]
    BY <1>3, ConcatProperties
  <2>3. (a \o b)[1] = part /\ Len(a \o b) # 0
    BY <2>1, <2>2
  <2> QED
    BY <2>2, <2>3, EmptySeq
<1>4. Good(Copy(s))
  BY <1>0 DEF Copy, Part, PartType
<1>5. Good(NewTree(s))
  BY <1>0, NewTreeMaking DEF Making
<1>6. /\ Good(map_all(s)) /\ Good(MapTaken(s, v, n)) /\ Good(Alloc(s, UserStack, TRUE))
      /\ Good(Take(1)) /\ Good(MapTaken(s, Argv, 2)) /\ Good(map_apic_into_task(s))
  BY <1>0, MapAllPlain, MapTakenPlain, AllocPlain, TakePlain, ApicsPlain DEF Plain
<1> HIDE DEF Good, Starts
<1>7. Starts(Take(n) \o Copy(s) \o NewTree(s) \o map_all(s))
  BY <1>2, <1>3, <1>4, <1>5, <1>6
<1>8. Starts(Take(n) \o Copy(s) \o NewTree(s) \o map_all(s) \o MapTaken(s, v, n)
             \o Alloc(s, UserStack, TRUE))
  BY <1>3, <1>6, <1>7
<1>9. Starts(q)
  BY <1>3, <1>6, <1>8
<1> HIDE DEF q
<1>10. q # <<>> /\ Head(q).op = "take" /\ Head(q).n = n
  BY <1>1, <1>9 DEF Starts
<1> QED
  BY <1>10 DEF q

LEMMA CountStep ==
  ASSUME QInv, CountInv, [PNext]_allVars
  PROVE  CountInv'
<1>0. Len(roots) \in Nat
  BY QLengths
<1>1. ASSUME todo' = todo PROVE CountInv'
  BY <1>1 DEF CountInv, Lasting, Now
<1>2. ASSUME todo # <<>>, Lasting(todo), todo' = Tail(todo) PROVE CountInv'
  <2>1. Lasting(todo')
    BY <1>2, NowType, LastingTail
  <2> QED
    BY <2>1 DEF CountInv, Lasting
<1>3. CASE take_pages
  <2>1. todo # <<>> /\ Now.op = "take" /\ Now.n >= 1 /\ todo' = Tail(todo)
    BY <1>3 DEF take_pages, Doing, kmalloc_returns
  <2>2. Now.n \in Int
    BY <2>1, NowType DEF PartType
  <2>3. Lasting(todo)
    BY <2>1, <2>2 DEF CountInv
  <2> QED
    BY <1>2, <2>1, <2>3
<1>4. CASE copy_segments \/ init_paging_task
  <2>1. todo # <<>> /\ Now.op # "take" /\ todo' = Tail(todo)
    BY <1>4 DEF copy_segments, init_paging_task, Doing
  <2>2. Lasting(todo)
    BY <2>1 DEF CountInv
  <2> QED
    BY <1>2, <2>1, <2>2
<1>5. CASE map_page \/ alloc_page
  <2>1. todo # <<>> /\ Now.op \in {"map", "alloc"} /\ Advance
    BY <1>5 DEF map_page, alloc_page, Runs, Doing
  <2> QED
    BY <2>1, CountAdvances
<1>6. CASE add_table \/ runs_off \/ out_of_memory
  BY <1>1, <1>6 DEF add_table, runs_off, out_of_memory, pvars
<1>7. CASE init_paging
  <2>1. Lasting(todo')
    BY <1>7, KernelLasting DEF init_paging
  <2> QED
    BY <2>1 DEF CountInv, Lasting
<1>8. ASSUME NEW p \in DOMAIN Programs, spawn(p) PROVE CountInv'
  <2> DEFINE s == Len(roots) + 1
             h == Programs[p].headers
             n == pages_to_map(h)
             v == ImageStart(h) \div PageSize
  <2>1. todo' = Take(n) \o Copy(s) \o NewTree(s) \o map_all(s) \o MapTaken(s, v, n)
                \o Alloc(s, UserStack, TRUE) \o Take(1) \o MapTaken(s, Argv, 2)
                \o map_apic_into_task(s)
    BY <1>8 DEF spawn
  <2>2. n \in Int /\ v \in Nat
    BY ProgramTypes
  <2>3. s \in Nat \ {0}
    BY <1>0
  <2> HIDE DEF n, v, h, s
  <2>4. CASE n > 0
    <3>1. Lasting(todo')
      BY <2>1, <2>2, <2>3, <2>4, SpawnLasting
    <3> QED
      BY <3>1 DEF CountInv, Lasting
  <2>5. CASE ~(n > 0)
    <3>1. n < 1
      BY <2>2, <2>5
    <3>2. todo' # <<>> /\ Head(todo').op = "take" /\ Head(todo').n = n
      BY <2>1, <2>2, <2>3, SpawnDoomed
    <3> QED
      BY <3>1, <3>2 DEF CountInv, Now
  <2> QED
    BY <2>4, <2>5
<1>9. ASSUME NEW s \in 2 .. Len(roots), NEW addr \in Fixed \union {0}, NEW length \in Lengths,
             syscall_mmap(s, addr, length)
      PROVE  CountInv'
  <2> DEFINE n == PAGE_ALIGN_UP(length)
             v == IF addr = 0 THEN upto[s] ELSE addr
             part == Part("map", s, v, length, "taken", 0, TRUE)
  <2>1. todo = <<>> /\ todo' = Take(n) \o MapTaken(s, v, length) /\ length > 0
    BY <1>9 DEF syscall_mmap, Calling
  <2>2. length \in Nat /\ n \in Int
    <3>1. length \in Nat
      BY PagingAssumption
    <3> QED
      BY <3>1, AlignedUpNat
  <2>3. QInv'
    BY <1>9, QCallers
  <2> HIDE DEF n, v
  <2>4. Take(n) \in Seq(PartType) /\ Lasting(Take(n))
    BY <1>0, <2>2, TakePlain DEF Plain
  <2>5. v \in Nat
    <3>1. addr \in Nat
      BY PagingAssumption
    <3>2. s \in 1 .. Len(upto) /\ upto[s] \in Nat
      <4>1. Len(upto) = Len(roots)
        BY <1>0, <2>1, IdleLengths
      <4> QED
        BY <1>0, <4>1, ElementOfSeq DEF QInv
    <3> QED
      BY <3>1, <3>2 DEF v
  <2>6. MapTaken(s, v, length) \in Seq(PartType) /\ Lasting(MapTaken(s, v, length))
    <3>1. s \in 1 .. Len(roots) /\ length \in Int
      BY <1>0, <2>2
    <3> QED
      BY <1>0, <2>1, <2>5, <3>1, MapTakenPlain DEF Plain
  <2>7. Lasting(todo')
    BY <2>1, <2>4, <2>6, LastingConcat
  <2> QED
    BY <2>7 DEF CountInv, Lasting
<1>10. ASSUME NEW n \in Requests, kmalloc_elsewhere(n) PROVE CountInv'
  BY <1>1, <1>10 DEF kmalloc_elsewhere, pvars
<1>11. CASE UNCHANGED allVars
  BY <1>1, <1>11 DEF allVars, pvars
<1> QED
  BY <1>3, <1>4, <1>5, <1>6, <1>7, <1>8, <1>9, <1>10, <1>11 DEF PNext, Step

-----------------------------------------------------------------------------
(* The mappings are the entries of the tables on the last level *)

\* What entry e, at index i of a table at place a, maps.
Mapping(a, e, i) == [space |-> a.space, v |-> a.v * Fan + i, page |-> e.page, user |-> e.user]

InLeaf(t, place, m) ==
    \E p \in DOMAIN t : \E i \in 0 .. Fan - 1 :
       place[p].level = Levels /\ t[p][i].present /\ m = Mapping(place[p], t[p][i], i)

MapsFact ==
    QInv /\ TreeInv => \A place : Placing(tables, roots, place) =>
        \A m : m \in Maps <=> InLeaf(tables, place, m)

LEMMA MapsFound == MapsFact
<1> SUFFICES ASSUME QInv, TreeInv, NEW place, Placing(tables, roots, place)
             PROVE  \A m : m \in Maps <=> InLeaf(tables, place, m)
  BY DEF MapsFact
<1>1. Trees = {Spot(place, p) : p \in DOMAIN tables}
  BY TreesAreTables
<1>2. \A p : /\ Spot(place, p).space = place[p].space /\ Spot(place, p).level = place[p].level
             /\ Spot(place, p).v = place[p].v /\ Spot(place, p).page = p
  BY DEF Spot
<1>3. ASSUME NEW m \in Maps PROVE InLeaf(tables, place, m)
  <2>1. PICK t \in Trees : /\ t.level = Levels
                           /\ \E i \in 0 .. Fan - 1 :
                                 /\ tables[t.page][i].present
                                 /\ m = [space |-> t.space, v |-> t.v * Fan + i,
                                         page |-> tables[t.page][i].page,
                                         user |-> tables[t.page][i].user]
    BY <1>3 DEF Maps
  <2>2. PICK i \in 0 .. Fan - 1 : /\ tables[t.page][i].present
                                  /\ m = [space |-> t.space, v |-> t.v * Fan + i,
                                          page |-> tables[t.page][i].page,
                                          user |-> tables[t.page][i].user]
    BY <2>1
  <2>3. PICK p \in DOMAIN tables : t = Spot(place, p)
    BY <1>1
  <2>4. m = Mapping(place[p], tables[p][i], i)
    BY <1>2, <2>2, <2>3 DEF Mapping
  <2>5. place[p].level = Levels /\ tables[p][i].present
    BY <1>2, <2>1, <2>2, <2>3
  <2> QED
    BY <2>4, <2>5 DEF InLeaf
<1>4. ASSUME NEW m, InLeaf(tables, place, m) PROVE m \in Maps
  <2>1. PICK p \in DOMAIN tables : \E i \in 0 .. Fan - 1 :
          place[p].level = Levels /\ tables[p][i].present /\ m = Mapping(place[p], tables[p][i], i)
    BY <1>4 DEF InLeaf
  <2>2. PICK i \in 0 .. Fan - 1 :
          place[p].level = Levels /\ tables[p][i].present /\ m = Mapping(place[p], tables[p][i], i)
    BY <2>1
  <2> DEFINE t == Spot(place, p)
  <2>3. /\ t \in Trees /\ t.level = Levels /\ tables[t.page][i].present
        /\ m = [space |-> t.space, v |-> t.v * Fan + i,
                page |-> tables[t.page][i].page, user |-> tables[t.page][i].user]
    BY <1>1, <1>2, <2>2 DEF Mapping
  <2> HIDE DEF t
  <2> QED
    BY <2>3 DEF Maps
<1> QED
  BY <1>3, <1>4

\* A new table maps nothing.
LEMMA MapsKept ==
  ASSUME QInv, TreeInv, QInv', TreeInv', LeavesKept
  PROVE  Maps' = Maps
<1>1. MapsFact'
  BY MapsFound, PTL
<1>2. PICK place, next :
       /\ Placing(tables, roots, place) /\ Placing(tables', roots', next)
       /\ \A p \in DOMAIN tables : p \in DOMAIN tables' /\ next[p] = place[p]
       /\ \A p \in DOMAIN tables : place[p].level = Levels => tables'[p] = tables[p]
       /\ \A p \in DOMAIN tables' : p \in DOMAIN tables \/ \A i \in 0 .. Fan - 1 : ~tables'[p][i].present
  BY DEF LeavesKept
<1>3. \A m : m \in Maps <=> InLeaf(tables, place, m)
  BY <1>2, MapsFound DEF MapsFact
<1>4. \A m : m \in Maps' <=> InLeaf(tables', next, m)
  BY <1>1, <1>2 DEF MapsFact
<1>5. \A m : InLeaf(tables, place, m) => InLeaf(tables', next, m)
  BY <1>2 DEF InLeaf
<1>6. \A m : InLeaf(tables', next, m) => InLeaf(tables, place, m)
  BY <1>2 DEF InLeaf
<1> QED
  BY <1>3, <1>4, <1>5, <1>6

\* An entry of the call maps the page that the call is at, and is the only one that does.
LEMMA MapsEntered ==
  ASSUME QInv, TreeInv, QInv', TreeInv', Runs, Leaf # 0, NEW entry \in EntrySet, entry.present,
         Enter(entry), roots' = roots
  PROVE  Maps' = {k \in Maps : ~(k.space = Now.space /\ k.v = Now.v)}
                 \union {[space |-> Now.space, v |-> Now.v, page |-> entry.page, user |-> entry.user]}
<1> DEFINE q == Leaf
           i == Index(Now.v, Levels)
           m == [space |-> Now.space, v |-> Now.v, page |-> entry.page, user |-> entry.user]
<1>1. MapsFact'
  BY MapsFound, PTL
<1>2. PICK place : Placing(tables, roots, place)
  BY DEF TreeInv
<1>3. Levels \in 1 .. Levels /\ Fan \in Nat \ {0}
  BY LevelsPositive
<1>4. Now.v \in Nat /\ OnWay(place, q, Now.space, Levels, Now.v)
  BY <1>2, <1>3, WayPlaces DEF Leaf
<1>5. q \in DOMAIN tables /\ place[q].level = Levels /\ place[q].space = Now.space
  BY <1>4 DEF OnWay
<1>6. i \in 0 .. Fan - 1
  BY <1>3, <1>4, IndexType
<1>7. place[q].v * Fan + i = Now.v
  <2>1. place[q].v = Now.v \div Span[Levels - Levels + 1]
    BY <1>4 DEF OnWay
  <2>2. (Now.v \div Span[Levels - Levels + 1]) * Fan + Index(Now.v, Levels) = Now.v \div Span[Levels - Levels]
    BY <1>3, <1>4, IndexSplits
  <2>3. Now.v \div Span[Levels - Levels] = Now.v
    BY <1>4, SpanEnds
  <2> QED
    BY <2>1, <2>2, <2>3
<1>8. tables' = [tables EXCEPT ![q][i] = entry]
  BY DEF Enter
<1> HIDE DEF q, i
<1>9. /\ DOMAIN tables' = DOMAIN tables /\ tables'[q] = [tables[q] EXCEPT ![i] = entry]
      /\ \A p \in DOMAIN tables : p # q => tables'[p] = tables[p]
      /\ tables[q] \in TableSet
  BY <1>5, <1>8 DEF TreeInv
<1>10. /\ tables'[q][i] = entry
       /\ \A p \in DOMAIN tables : \A j \in 0 .. Fan - 1 : p # q \/ j # i => tables'[p][j] = tables[p][j]
  BY <1>6, <1>9 DEF TableSet
<1>11. Placing(tables', roots', place)
  <2>1. Placing(tables', roots, place)
    BY <1>2, <1>5, <1>9, LeafEntry
  <2> QED
    BY <2>1
<1>12. \A k : k \in Maps <=> InLeaf(tables, place, k)
  BY <1>2, MapsFound DEF MapsFact
<1>13. \A k : k \in Maps' <=> InLeaf(tables', place, k)
  BY <1>1, <1>11 DEF MapsFact
<1>14. m = Mapping(place[q], entry, i) /\ m.space = Now.space /\ m.v = Now.v
  BY <1>5, <1>7 DEF Mapping
<1>15. ASSUME NEW p \in DOMAIN tables, NEW j \in 0 .. Fan - 1, place[p].level = Levels, NEW e,
              Mapping(place[p], e, j).space = Now.space, Mapping(place[p], e, j).v = Now.v
       PROVE  p = q /\ j = i
  <2>1. place[p].space = Now.space /\ place[p].v * Fan + j = Now.v
    BY <1>15 DEF Mapping
  <2>2. place[p].v \in Nat /\ place[q].v \in Nat
    BY <1>2, <1>5, PlaceNumbers
  <2>3. place[p].v = place[q].v /\ i = j
    <3> DEFINE a == place[p].v
               b == place[q].v
    <3>1. a \in Nat /\ b \in Nat /\ a * Fan + j = b * Fan + i
      BY <1>7, <2>1, <2>2
    <3> HIDE DEF a, b
    <3>2. a = b /\ j = i
      BY <1>3, <1>6, <3>1, SplitUnique
    <3> QED
      BY <3>2 DEF a, b
  <2>4. p = q
    BY <1>2, <1>5, <1>15, <2>1, <2>3, PlaceUnique
  <2> QED
    BY <2>3, <2>4
<1>16. \A e, j : Mapping(place[q], e, j).space = Now.space /\ Mapping(place[q], e, i).v = Now.v
  BY <1>5, <1>7 DEF Mapping
<1> HIDE DEF m
<1>17. ASSUME NEW k \in Maps' PROVE k = m \/ (k \in Maps /\ ~(k.space = Now.space /\ k.v = Now.v))
  <2>1. PICK p \in DOMAIN tables, j \in 0 .. Fan - 1 :
          place[p].level = Levels /\ tables'[p][j].present /\ k = Mapping(place[p], tables'[p][j], j)
    BY <1>9, <1>13 DEF InLeaf
  <2>2. CASE p = q /\ j = i
    BY <1>10, <1>14, <2>1, <2>2
  <2>3. CASE p # q \/ j # i
    <3>1. tables'[p][j] = tables[p][j]
      BY <1>10, <2>3
    <3>2. k \in Maps
      BY <1>12, <2>1, <3>1 DEF InLeaf
    <3>3. ~(k.space = Now.space /\ k.v = Now.v)
      BY <1>15, <2>1, <2>3
    <3> QED
      BY <3>2, <3>3
  <2> QED
    BY <2>2, <2>3
<1>18. m \in Maps'
  <2>1. tables'[q][i].present /\ m = Mapping(place[q], tables'[q][i], i)
    BY <1>10, <1>14
  <2>2. InLeaf(tables', place, m)
    BY <1>5, <1>6, <1>9, <2>1 DEF InLeaf
  <2> QED
    BY <1>13, <2>2
<1>19. ASSUME NEW k \in Maps, ~(k.space = Now.space /\ k.v = Now.v) PROVE k \in Maps'
  <2>1. PICK p \in DOMAIN tables, j \in 0 .. Fan - 1 :
          place[p].level = Levels /\ tables[p][j].present /\ k = Mapping(place[p], tables[p][j], j)
    BY <1>12 DEF InLeaf
  <2>2. p # q \/ j # i
    BY <1>16, <1>19, <2>1
  <2>3. tables'[p][j] = tables[p][j]
    BY <1>10, <2>2
  <2>4. InLeaf(tables', place, k)
    BY <1>9, <2>1, <2>3 DEF InLeaf
  <2> QED
    BY <1>13, <2>4
<1>20. Maps' = {k \in Maps : ~(k.space = Now.space /\ k.v = Now.v)} \union {m}
  BY <1>17, <1>18, <1>19
<1> QED
  BY <1>20 DEF m

\* The call under way, as AddressSpaces sees it.
AtFact ==
    QInv /\ todo # <<>> =>
       /\ At.op = Now.op /\ At.space = Now.space /\ At.v = Now.v /\ At.n = Now.n
       /\ At.user = Now.user /\ At.page = PhysAddr

LEMMA AtFound == AtFact
<1> SUFFICES ASSUME QInv, todo # <<>>
             PROVE  /\ At.op = Now.op /\ At.space = Now.space /\ At.v = Now.v /\ At.n = Now.n
                    /\ At.user = Now.user /\ At.page = PhysAddr
  BY DEF AtFact
<1>1. Now \in PartType
  BY NowType
<1>2. At = [Now EXCEPT !.page = PhysAddr]
  BY DEF At
<1> QED
  BY <1>1, <1>2 DEF PartType

\* The call goes on with the page behind the one it was at.
LEMMA AtAdvances ==
  ASSUME QInv, QInv', todo # <<>>, Advance, Now.n > 1, taken' = taken
  PROVE  /\ At'.op = Now.op /\ At'.space = Now.space /\ At'.user = Now.user
         /\ At'.v = Now.v + 1 /\ At'.n = Now.n - 1 /\ At'.page = PhysAddr + 1
<1> DEFINE next == [Now EXCEPT !.v = @ + 1, !.page = @ + 1, !.n = @ - 1]
<1>1. AtFact'
  BY AtFound, PTL
<1>2. Now \in PartType /\ Tail(todo) \in Seq(PartType) /\ Now.n \in Int /\ Now.page \in Nat /\ taken \in Nat
  BY NowType DEF PartType, QInv
<1>3. todo' = <<next>> \o Tail(todo)
  BY <1>2 DEF Advance
<1>4. /\ next \in PartType /\ next.op = Now.op /\ next.space = Now.space
      /\ next.v = Now.v + 1 /\ next.page = Now.page + 1 /\ next.n = Now.n - 1
      /\ next.from = Now.from /\ next.user = Now.user
  BY <1>2, NextPart
<1> HIDE DEF next
<1>5. todo' # <<>> /\ Now' = next
  <2>1. /\ todo' \in Seq(PartType) /\ Len(todo') = 1 + Len(Tail(todo))
        /\ todo'[1] = next /\ Len(Tail(todo)) \in Nat
    BY <1>2, <1>3, <1>4, ConcatProperties, LenProperties
  <2>2. todo' # <<>>
    BY <2>1, EmptySeq
  <2> QED
    BY <2>1, <2>2 DEF Now
<1>6. PhysAddr' = PhysAddr + 1
  BY <1>2, <1>4, <1>5 DEF PhysAddr
<1> QED
  BY <1>1, <1>4, <1>5, <1>6 DEF AtFact

LEMMA SpaceEntered ==
  ASSUME QInv, TreeInv, CountInv, QInv', TreeInv', Runs, Leaf # 0, NEW page \in Nat,
         Now.op = "map" => page = PhysAddr,
         Enter(EntryOf(page, Now.user)), Advance, UNCHANGED <<roots, taken>>
  PROVE  Space!MapNext
<1> DEFINE m == [space |-> Now.space, v |-> Now.v, page |-> page, user |-> Now.user]
<1>1. todo # <<>> /\ Now.op \in {"map", "alloc"} /\ Now \in PartType
  BY NowType DEF Runs, Doing
<1>2. Now.n > 0
  BY <1>1, PageLeft
<1>3. /\ At.op = Now.op /\ At.space = Now.space /\ At.v = Now.v /\ At.n = Now.n
      /\ At.user = Now.user /\ At.page = PhysAddr
  BY <1>1, AtFound DEF AtFact
<1>4. /\ EntryOf(page, Now.user) \in EntrySet /\ EntryOf(page, Now.user).present
      /\ EntryOf(page, Now.user).page = page /\ EntryOf(page, Now.user).user = Now.user
  BY <1>1 DEF EntryOf, EntrySet, PartType
<1>5. Maps' = {k \in Maps : ~(k.space = Now.space /\ k.v = Now.v)} \union {m}
  BY <1>4, MapsEntered
<1>6. m.space = Now.space /\ m.v = Now.v /\ m.user = Now.user /\ m.page = page
  OBVIOUS
<1> HIDE DEF m
<1>7. Maps' = {k \in Maps : ~Space!Before(k)} \union {m} /\ m \in Maps'
  BY <1>3, <1>5 DEF Space!Before
<1>8. At.n > 1 => /\ At'.op = At.op /\ At'.space = At.space /\ At'.user = At.user
                  /\ At'.v = At.v + 1 /\ At'.n = At.n - 1
                  /\ At.op = "map" => At'.page = At.page + 1
  BY <1>1, <1>3, AtAdvances
<1>9. At.op \in {"map", "alloc"} /\ At.n > 0
  BY <1>1, <1>2, <1>3
<1>10. /\ m.space = At.space /\ m.v = At.v /\ m.user = At.user
       /\ At.op = "map" => m.page = At.page
  BY <1>3, <1>6
<1> QED
  BY <1>7, <1>8, <1>9, <1>10 DEF Space!MapNext

\* Every step of the page trees is a step of the address spaces, or none.
LEMMA SpaceStep ==
  ASSUME QInv, TreeInv, CountInv, [PNext]_allVars
  PROVE  [Space!MapNext]_Maps
<1>0. QInv' /\ TreeInv'
  BY QNext, TreeStep
<1>1. ASSUME UNCHANGED <<tables, roots>> PROVE Maps' = Maps
  BY <1>1 DEF Maps, Trees, Placed
<1>2. CASE map_page
  <2>1. /\ Runs /\ Leaf # 0 /\ Enter(EntryOf(PhysAddr, Now.user)) /\ Advance /\ todo # <<>>
        /\ UNCHANGED <<roots, taken>>
    BY <1>2 DEF map_page, Runs, Doing
  <2>2. Now.page \in Nat /\ taken \in Nat
    BY <2>1, NowType DEF PartType, QInv
  <2>3. PhysAddr \in Nat
    BY <2>2 DEF PhysAddr
  <2> QED
    BY <1>0, <2>1, <2>3, SpaceEntered
<1>3. CASE alloc_page
  <2>1. /\ Runs /\ Leaf # 0 /\ Enter(EntryOf(last'.lo, Now.user)) /\ Advance /\ todo # <<>>
        /\ UNCHANGED <<roots, taken>>
        /\ Now.op # "map" /\ kmalloc_returns(1) /\ status = "running" /\ TypeOK /\ 1 \in Int
    BY <1>3 DEF alloc_page, Runs, Doing, QInv
  <2>2. last'.lo \in Nat
    BY <2>1, Fresh
  <2> QED
    BY <1>0, <2>1, <2>2, SpaceEntered
<1>4. CASE init_paging_task
  BY <1>0, <1>4, TreeMade, MapsKept
<1>5. CASE add_table
  BY <1>0, <1>5, TableMade, MapsKept
<1>6. CASE take_pages \/ copy_segments \/ runs_off \/ out_of_memory
  BY <1>1, <1>6 DEF take_pages, copy_segments, runs_off, out_of_memory, pvars
<1>7. CASE \/ init_paging
           \/ \E p \in DOMAIN Programs : spawn(p)
           \/ \E s \in 2 .. Len(roots), addr \in Fixed \union {0}, length \in Lengths :
                 syscall_mmap(s, addr, length)
  BY <1>1, <1>7, QCallers
<1>8. ASSUME NEW n \in Requests, kmalloc_elsewhere(n) PROVE Maps' = Maps
  BY <1>1, <1>8 DEF kmalloc_elsewhere, pvars
<1>9. CASE UNCHANGED allVars
  BY <1>1, <1>9 DEF allVars, pvars
<1> QED
  BY <1>2, <1>3, <1>4, <1>5, <1>6, <1>7, <1>8, <1>9 DEF PNext, Step

\* The page trees implement address spaces: map_pages and alloc_pages map the pages of
\* their range one after the other, each to the page it is given, and no entry they
\* write disturbs another mapping of this tree or another; making tables maps nothing.
THEOREM SpacesKept == PSpec => SpacePromise
<1>1. PInit => Maps = {} /\ CountInv
  <2> SUFFICES ASSUME PInit PROVE Maps = {} /\ CountInv
    OBVIOUS
  <2>1. DOMAIN roots = {} /\ todo = <<>> /\ Len(todo) = 0
    BY DEF PInit
  <2>2. Trees = {}
    BY <2>1 DEF Trees
  <2>3. Maps = {}
    BY <2>2 DEF Maps
  <2>4. Lasting(todo)
    BY <2>1 DEF Lasting
  <2> QED
    BY <2>3, <2>4 DEF CountInv
<1>2. QInv /\ CountInv /\ [PNext]_allVars => CountInv'
  BY CountStep
<1>3. QInv /\ TreeInv /\ CountInv /\ [PNext]_allVars => [Space!MapNext]_Maps
  BY SpaceStep
<1> QED
  BY <1>1, <1>2, <1>3, TreesKept, PTL DEF PSpec, SpacePromise, Space!Spec

-----------------------------------------------------------------------------
(* The bytes of the programs *)

LEMMA ProgramHeaders ==
  ASSUME NEW p \in DOMAIN Programs
  PROVE  /\ Programs[p].headers \in Seq(ProgramHeader) /\ Programs[p].headers # <<>>
         /\ \A k \in DOMAIN Programs[p].headers :
              LET e == Programs[p].headers[k]
              IN  e.v \in Nat /\ e.mem \in Nat /\ e.file \in Nat /\ e.offset \in Nat /\ k \in Nat
<1> DEFINE R == [id : Identification, headers : Seq(ProgramHeader)]
           h == Programs[p].headers
<1>1. Programs \in Seq(R) /\ h # <<>>
  BY PagingAssumption
<1> HIDE DEF R
<1>2. Programs[p] \in R
  BY <1>1, LenProperties, ElementOfSeq
<1>3. h \in Seq(ProgramHeader)
  BY <1>2 DEF R
<1> HIDE DEF h
<1>4. ASSUME NEW k \in DOMAIN h
      PROVE  h[k].v \in Nat /\ h[k].mem \in Nat /\ h[k].file \in Nat /\ h[k].offset \in Nat /\ k \in Nat
  <2>1. k \in 1 .. Len(h) /\ Len(h) \in Nat
    BY <1>3, LenProperties
  <2>2. h[k] \in ProgramHeader
    BY <1>3, <2>1, ElementOfSeq
  <2> QED
    BY <2>1, <2>2 DEF ProgramHeader
<1> QED
  BY <1>1, <1>3, <1>4 DEF h

\* What the code computes for a regular program: the pages it maps are those from the
\* first byte of its lowest segment to the last byte of its highest one.
LEMMA RegularImage ==
  ASSUME NEW p \in DOMAIN Programs, NEW h, h = Programs[p].headers, Regular(h)
  PROVE  /\ ImageStart(h) \in Nat /\ ImageEnd(h) \in Nat /\ ImageStart(h) < ImageEnd(h)
         /\ \A k \in Loadable(h) : ImageStart(h) <= h[k].v /\ h[k].v + h[k].mem <= ImageEnd(h)
<1> DEFINE a == first_loadable_segment(h)
           z == last_loadable_segment(h)
           above == {k \in Loadable(h) : h[k].v > 0}
<1>1. /\ h \in Seq(ProgramHeader) /\ Loadable(h) \subseteq DOMAIN h /\ above \subseteq DOMAIN h
      /\ Loadable(h) # {} /\ above # {}
  BY ProgramHeaders DEF Loadable, Regular
<1>2. \A k \in Loadable(h) : h[k].v \in Nat /\ h[k].mem \in Nat /\ h[k].mem > 0
  BY <1>1, ProgramHeaders DEF Regular
<1>3. a \in Loadable(h) /\ \A j \in Loadable(h) : h[a].v < h[j].v \/ (h[a].v = h[j].v /\ a <= j)
  <2>1. \E k \in Loadable(h) : \A j \in Loadable(h) :
              h[k].v < h[j].v \/ (h[k].v = h[j].v /\ k <= j)
    BY <1>1, LowestExists
  <2> QED
    BY <1>1, <2>1 DEF first_loadable_segment
<1>4. z \in above /\ \A j \in above : h[z].v > h[j].v \/ (h[z].v = h[j].v /\ z <= j)
  <2>1. \E k \in above : \A j \in above : h[k].v > h[j].v \/ (h[k].v = h[j].v /\ k <= j)
    BY <1>1, HighestExists
  <2> QED
    BY <1>1, <2>1 DEF last_loadable_segment
<1>5. ImageStart(h) = h[a].v /\ ImageEnd(h) = h[z].v + h[z].mem
  BY DEF ImageStart, ImageEnd
<1> HIDE DEF a, z
<1>6. z \in Loadable(h) /\ h[z].v > 0
  BY <1>4
<1>7. ASSUME NEW k \in Loadable(h) PROVE ImageStart(h) <= h[k].v /\ h[k].v + h[k].mem <= ImageEnd(h)
  <2>1. ImageStart(h) <= h[k].v
    BY <1>2, <1>3, <1>5
  <2>2. CASE k = z
    BY <1>2, <1>5, <1>6, <2>1, <2>2
  <2>3. CASE k # z
    <3>1. h[k].v + h[k].mem <= h[z].v \/ h[z].v + h[z].mem <= h[k].v
      BY <1>6, <2>3 DEF Regular
    <3>2. k \in above => h[k].v <= h[z].v
      BY <1>2, <1>4, <1>6
    <3>3. h[k].v > 0 => k \in above
      OBVIOUS
    <3>4. ~(h[z].v + h[z].mem <= h[k].v)
      BY <1>2, <1>6, <3>2, <3>3
    <3> QED
      BY <1>2, <1>5, <1>6, <2>1, <3>1, <3>4
  <2> QED
    BY <2>2, <2>3
<1> QED
  BY <1>2, <1>3, <1>5, <1>6, <1>7

\* Rounded up, the end is as many pages behind the first page as are mapped.
LEMMA RegularPages ==
  ASSUME NEW p \in DOMAIN Programs, NEW h, h = Programs[p].headers, Regular(h)
  PROVE  LET v == ImageStart(h) \div PageSize
             n == pages_to_map(h)
         IN  /\ v \in Nat /\ n \in Nat \ {0} /\ ImageStart(h) = v * PageSize
             /\ ImageEnd(h) <= ImageStart(h) + n * PageSize
             /\ PAGE_ALIGN_UP(ImageEnd(h)) = v + n
<1> DEFINE S == ImageStart(h)
           E == ImageEnd(h)
           P == PageSize
           v == S \div P
           n == pages_to_map(h)
           x == E - S + P - 1
<1>1. S \in Nat /\ E \in Nat /\ S < E /\ P \in Nat \ {0} /\ S % P = 0
  BY RegularImage, PagingAssumption DEF Regular
<1>2. n = x \div P /\ PAGE_ALIGN_UP(E) = (E + P - 1) \div P
  BY DEF pages_to_map, PAGE_ALIGN_UP
<1> HIDE DEF S, E, P, n
<1>3. v \in Nat /\ v * P + (S % P) = S
  BY <1>1, NatQuotient, QuotientSplit
<1> HIDE DEF v
<1>4. v * P \in Nat /\ P * v = v * P
  BY <1>1, <1>3
<1>5. S = v * P
  BY <1>1, <1>3, <1>4
<1>6. x \in Nat /\ x >= P /\ x = E - S + P - 1
  BY <1>1
<1> HIDE DEF x
<1>7. n \in Nat /\ P * n <= x /\ x < P * n + P /\ n * P = P * n /\ P * n \in Nat
  <2>1. x \div P \in Nat /\ P * (x \div P) <= x /\ x < P * (x \div P) + P
    BY <1>1, <1>6, Divided
  <2>2. n \in Nat
    BY <1>2, <2>1
  <2>3. n * P = P * n /\ P * n \in Nat
    BY <1>1, <2>2
  <2> QED
    BY <1>2, <2>1, <2>2, <2>3
<1>8. n # 0
  <2> SUFFICES ASSUME n = 0 PROVE FALSE
    OBVIOUS
  <2>1. P * n = 0
    BY <1>1
  <2> QED
    BY <1>1, <1>6, <1>7, <2>1
<1>9. E <= S + n * P
  BY <1>1, <1>6, <1>7
<1>10. (E + P - 1) \div P = v + n
  <2>1. v + n \in Nat /\ E + P - 1 \in Nat /\ P * (v + n) = P * v + P * n
    BY <1>1, <1>3, <1>7
  <2>2. P * (v + n) <= E + P - 1 /\ E + P - 1 < P * (v + n) + P
    BY <1>1, <1>4, <1>5, <1>6, <1>7, <2>1
  <2> QED
    BY <1>1, <2>1, <2>2, QuotientIs
<1> QED
  BY <1>2, <1>3, <1>5, <1>7, <1>8, <1>9, <1>10 DEF S, E, P, v, n

LEMMA QuotientAndRest ==
  ASSUME NEW b \in Nat \ {0}, NEW x \in Nat, NEW r \in 0 .. b - 1
  PROVE  (x * b + r) \div b = x /\ (x * b + r) % b = r
<1> DEFINE a == x * b + r
           y == a \div b
           s == a % b
<1>1. x * b = b * x /\ b * x \in Nat /\ r \in Nat /\ a \in Nat /\ a \in Int
  OBVIOUS
<1>2. b * x <= a /\ a < b * x + b /\ a = x * b + r
  BY <1>1
<1> HIDE DEF a
<1>3. y = x
  BY <1>1, <1>2, QuotientIs
<1>4. y * b + s = a /\ s \in 0 .. b - 1
  BY <1>1, QuotientSplit, Remainder
<1> HIDE DEF y, s
<1>5. s = r
  BY <1>1, <1>2, <1>3, <1>4
<1> QED
  BY <1>3, <1>5 DEF y, s, a

\* Where byte b of segment k lies in a run that holds the image from page base on.
ByteAt(base, h, k, b) == base * PageSize + h[k].v - ImageStart(h) + b

\* It lies i pages behind the first page of the run, and its address i pages behind the
\* first page that is mapped.
OnPage(base, h, k, b, i) ==
    LET x == ByteAt(base, h, k, b)
        addr == h[k].v + b
    IN  /\ x \in Nat /\ x \div PageSize = base + i
        /\ addr \div PageSize = (ImageStart(h) \div PageSize) + i
        /\ (base + i) * PageSize + (addr % PageSize) = x

LEMMA ByteSpot ==
  ASSUME NEW p \in DOMAIN Programs, NEW h, h = Programs[p].headers, Regular(h), NEW base \in Nat,
         NEW k \in Loadable(h), NEW b \in 0 .. h[k].file - 1
  PROVE  \E i \in 0 .. pages_to_map(h) - 1 : OnPage(base, h, k, b, i)
<1> DEFINE S == ImageStart(h)
           E == ImageEnd(h)
           P == PageSize
           v == S \div P
           n == pages_to_map(h)
           hv == h[k].v
           mem == h[k].mem
           file == h[k].file
           off == (hv - S) + b
           i == off \div P
           r == off % P
           x == base * P + hv - S + b
           addr == hv + b
<1>1. /\ v \in Nat /\ n \in Nat \ {0} /\ S = v * P /\ E <= S + n * P
      /\ S \in Nat /\ E \in Nat /\ S <= hv /\ hv + mem <= E /\ P \in Nat \ {0}
  BY RegularPages, RegularImage, PagingAssumption
<1>2. hv \in Nat /\ mem \in Nat /\ file \in Nat /\ file <= mem
  BY ProgramHeaders DEF Regular, Loadable
<1>3. b \in Nat /\ b < file
  BY <1>2
<1> HIDE DEF S, E, P, v, n, hv, mem, file
<1>4. n * P \in Nat /\ n * P = P * n /\ v * P \in Nat /\ base * P \in Nat
  BY <1>1
<1>5. off \in Nat /\ off < P * n
  BY <1>1, <1>2, <1>3, <1>4
<1>6. x = base * P + off /\ addr = v * P + off
  BY <1>1, <1>2, <1>3, <1>4
<1> HIDE DEF off, x, addr
<1>7. i \in Nat /\ i * P + r = off /\ r \in 0 .. P - 1 /\ P * i <= off
  <2>1. off \in Int
    BY <1>5
  <2> QED
    BY <1>1, <1>5, <2>1, NatQuotient, QuotientSplit, Remainder, Divided
<1> HIDE DEF i, r
<1>8. i < n
  <2> SUFFICES ASSUME n <= i PROVE FALSE
    BY <1>1, <1>7
  <2>1. P \in Nat /\ n \in Nat
    BY <1>1
  <2>2. P * n <= P * i
    BY <1>7, <2>1, Scaled
  <2>3. P * i \in Nat
    BY <1>7, <2>1
  <2> QED
    BY <1>4, <1>5, <1>7, <2>2, <2>3
<1>9. i * P \in Nat /\ (base + i) * P = base * P + i * P /\ (v + i) * P = v * P + i * P
  BY <1>1, <1>7
<1>10. x = (base + i) * P + r /\ addr = (v + i) * P + r /\ r \in Nat
  BY <1>1, <1>4, <1>6, <1>7, <1>9
<1>11. base + i \in Nat /\ v + i \in Nat
  BY <1>1, <1>7
<1>12. x \div P = base + i /\ addr \div P = v + i /\ addr % P = r
  BY <1>1, <1>7, <1>10, <1>11, QuotientAndRest
<1>13. x \in Nat
  BY <1>4, <1>5, <1>6
<1>14. i \in 0 .. n - 1
  BY <1>1, <1>7, <1>8
<1>15. \E j \in 0 .. n - 1 : x \in Nat /\ x \div P = base + j /\ addr \div P = v + j
                              /\ (base + j) * P + (addr % P) = x
  BY <1>10, <1>12, <1>13, <1>14
<1> QED
  BY <1>15 DEF S, P, v, n, hv, x, addr, ByteAt, OnPage

\* No byte of the run belongs to two segments.
LEMMA OneSegment ==
  ASSUME NEW p \in DOMAIN Programs, NEW h, h = Programs[p].headers, Regular(h), NEW base \in Nat,
         NEW j \in Loadable(h), NEW k \in Loadable(h), NEW x \in Int,
         x \in base * PageSize + h[j].v - ImageStart(h) .. base * PageSize + h[j].v - ImageStart(h) + h[j].file - 1,
         x \in base * PageSize + h[k].v - ImageStart(h) .. base * PageSize + h[k].v - ImageStart(h) + h[k].file - 1
  PROVE  j = k
<1> DEFINE S == ImageStart(h)
           B == base * PageSize
           jv == h[j].v
           jm == h[j].mem
           jf == h[j].file
           kv == h[k].v
           km == h[k].mem
           kf == h[k].file
<1>1. S \in Nat /\ B \in Nat
  BY RegularImage, PagingAssumption
<1>2. jv \in Nat /\ jm \in Nat /\ jf \in Nat /\ kv \in Nat /\ km \in Nat /\ kf \in Nat
  BY ProgramHeaders DEF Loadable
<1>3. jf <= jm /\ kf <= km /\ (j # k => jv + jm <= kv \/ kv + km <= jv)
  BY DEF Regular
<1>4. x \in B + jv - S .. B + jv - S + jf - 1 /\ x \in B + kv - S .. B + kv - S + kf - 1
  OBVIOUS
<1> HIDE DEF S, B, jv, jm, jf, kv, km, kf
<1>5. ~(jv + jm <= kv) /\ ~(kv + km <= jv)
  BY <1>1, <1>2, <1>3, <1>4
<1> QED
  BY <1>3, <1>5

\* Whatever is a table, the walk to a page that lies below it comes to it.
LEMMA WalkReaches ==
  ASSUME NEW place, Placing(tables, roots, place), 0 \notin DOMAIN tables, NEW v \in Nat,
         NEW q \in DOMAIN tables, place[q].v = v \div Span[Levels - place[q].level + 1]
  PROVE  TableAt(roots[place[q].space], v)[place[q].level] = q
<1> DEFINE f(s) == TableAt(roots[s], v)
           T == {n \in Nat : \A p \in DOMAIN tables :
                   place[p].level = n + 1 /\ place[p].v = v \div Span[Levels - (n + 1) + 1] =>
                      f(place[p].space)[n + 1] = p}
<1>0. \A s : f(s) = [k \in 1 .. Levels |-> IF k = 1 THEN roots[s] ELSE Down(f(s)[k - 1], Index(v, k - 1))]
  <2> SUFFICES ASSUME NEW s PROVE IsWalk(f(s), roots[s], v)
    BY DEF IsWalk
  <2> QED
    BY WalkEquation
<1> HIDE DEF f
<1>1. 0 \in T
  <2>1. ASSUME NEW p \in DOMAIN tables, place[p].level = 1 PROVE f(place[p].space)[1] = p
    <3>1. p = roots[place[p].space]
      BY <2>1 DEF Placing
    <3>2. f(place[p].space)[1] = roots[place[p].space]
      BY <1>0, LevelsPositive
    <3> QED
      BY <3>1, <3>2
  <2>2. 0 + 1 = 1 /\ 0 \in Nat
    OBVIOUS
  <2> QED
    BY <2>1, <2>2
<1>2. ASSUME NEW n \in Nat, n \in T PROVE n + 1 \in T
  <2>1. ASSUME NEW p \in DOMAIN tables, place[p].level = (n + 1) + 1,
               place[p].v = v \div Span[Levels - ((n + 1) + 1) + 1]
        PROVE  f(place[p].space)[(n + 1) + 1] = p
    <3> DEFINE s == place[p].space
               j == n + 1
               k == j + 1
    <3>1. place[p].level # 1 /\ place[p].level \in 1 .. Levels
      BY <2>1 DEF Placing
    <3>2. PICK x \in DOMAIN tables, i \in 0 .. Fan - 1 :
            place[x].level < Levels /\ tables[x][i].present /\ tables[x][i].page = p
      BY <3>1 DEF Placing
    <3>3. place[p] = Under(place[x], i) /\ place[x].level \in 1 .. Levels
      BY <3>2 DEF Placing
    <3>4. s = place[x].space /\ place[p].level = place[x].level + 1 /\ place[p].v = place[x].v * Fan + i
      BY <3>3 DEF Under
    <3>5. place[x].level = j
      BY <2>1, <3>3, <3>4, LevelsPositive
    <3>6. /\ k \in 1 .. Levels /\ k # 1 /\ k - 1 = j /\ j \in 1 .. Levels
          /\ Levels - k + 1 = Levels - j
      BY <2>1, <3>1, LevelsPositive
    <3>7. place[x].v \in Nat
      BY PlaceNumbers
    <3>8. place[p].v = v \div Span[Levels - j]
      BY <2>1, <3>6
    <3> HIDE DEF s, j, k
    <3>9. (v \div Span[Levels - j + 1]) * Fan + Index(v, j) = v \div Span[Levels - j]
      BY <3>6, IndexSplits
    <3>10. Index(v, j) \in 0 .. Fan - 1 /\ v \div Span[Levels - j + 1] \in Nat
      <4>1. Levels - j + 1 \in 0 .. Levels
        BY <3>6, LevelsPositive
      <4> QED
        BY <3>6, <4>1, IndexType, SpanType, NatQuotient
    <3>11. place[x].v = v \div Span[Levels - j + 1] /\ i = Index(v, j)
      <4> DEFINE a == place[x].v
                 b == v \div Span[Levels - j + 1]
                 c == Index(v, j)
      <4>1. a \in Nat /\ b \in Nat /\ c \in 0 .. Fan - 1 /\ a * Fan + i = b * Fan + c /\ Fan \in Nat \ {0}
        BY <3>4, <3>7, <3>8, <3>9, <3>10, LevelsPositive
      <4> HIDE DEF a, b, c
      <4>2. a = b /\ i = c
        BY <4>1, SplitUnique
      <4> QED
        BY <4>2 DEF a, b, c
    <3>12. f(s)[j] = x
      BY <1>2, <3>4, <3>5, <3>11 DEF j
    <3>13. f(s)[k] = Down(x, i)
      <4>1. f(s)[k] = Down(f(s)[k - 1], Index(v, k - 1))
        BY <1>0, <3>6
      <4> QED
        BY <3>6, <3>11, <3>12, <4>1
    <3>14. f(s)[k] = p
      BY <3>2, <3>13 DEF Down
    <3> QED
      BY <3>14 DEF s, j, k
  <2> QED
    BY <2>1
<1> HIDE DEF T
<1>3. Nat \subseteq T
  BY <1>1, <1>2, Induction
<1>4. place[q].level \in 1 .. Levels
  BY DEF Placing
<1> DEFINE n == place[q].level - 1
<1>5. n \in Nat /\ n + 1 = place[q].level
  BY <1>4, LevelsPositive
<1> HIDE DEF n
<1>6. n \in T
  BY <1>3, <1>5
<1>7. f(place[q].space)[n + 1] = q
  BY <1>5, <1>6 DEF T
<1> QED
  BY <1>5, <1>7 DEF f

\* The processor finds every mapping where the tables on the way to its page say.
LEMMA MappingWalked ==
  ASSUME QInv, TreeInv, NEW s, NEW v \in Nat, NEW page, NEW user,
         [space |-> s, v |-> v, page |-> page, user |-> user] \in Maps
  PROVE  LET t == TableAt(roots[s], v)[Levels]
         IN  t # 0 /\ tables[t][Index(v, Levels)].present /\ tables[t][Index(v, Levels)].page = page
<1> DEFINE m == [space |-> s, v |-> v, page |-> page, user |-> user]
<1>1. PICK place : Placing(tables, roots, place)
  BY DEF TreeInv
<1>2. InLeaf(tables, place, m)
  BY <1>1, MapsFound DEF MapsFact
<1>3. PICK p \in DOMAIN tables, i \in 0 .. Fan - 1 :
         place[p].level = Levels /\ tables[p][i].present /\ m = Mapping(place[p], tables[p][i], i)
  BY <1>2 DEF InLeaf
<1>4. s = place[p].space /\ v = place[p].v * Fan + i /\ page = tables[p][i].page
  BY <1>3 DEF Mapping
<1>5. place[p].v \in Nat /\ Fan \in Nat \ {0} /\ Levels \in 1 .. Levels
  BY <1>1, PlaceNumbers, LevelsPositive
<1>6. (v \div Span[Levels - Levels + 1]) * Fan + Index(v, Levels) = v
  BY <1>5, IndexSplits, SpanEnds
<1>7. Index(v, Levels) \in 0 .. Fan - 1 /\ v \div Span[Levels - Levels + 1] \in Nat
  <2>1. Levels - Levels + 1 \in 0 .. Levels
    BY LevelsPositive
  <2> QED
    BY <1>5, <2>1, IndexType, SpanType, NatQuotient
<1>8. place[p].v = v \div Span[Levels - Levels + 1] /\ i = Index(v, Levels)
  <2> DEFINE a == place[p].v
             b == v \div Span[Levels - Levels + 1]
             c == Index(v, Levels)
  <2>1. a \in Nat /\ b \in Nat /\ c \in 0 .. Fan - 1 /\ a * Fan + i = b * Fan + c
    BY <1>4, <1>5, <1>6, <1>7
  <2> HIDE DEF a, b, c
  <2>2. a = b /\ i = c
    BY <1>5, <2>1, SplitUnique
  <2> QED
    BY <2>2 DEF a, b, c
<1>9. 0 \notin DOMAIN tables
  BY DEF TreeInv
<1>10. TableAt(roots[place[p].space], v)[place[p].level] = p
  BY <1>1, <1>3, <1>8, <1>9, WalkReaches
<1> QED
  BY <1>3, <1>4, <1>8, <1>9, <1>10

\* The headers of a program.
Headers(p) == Programs[p].headers

\* The pages that hold its image, in the run of pages from base on.
Frames(base, p) == base .. base + pages_to_map(Headers(p)) - 1

\* The bytes of its file are in the run.
Bytes(base, p) ==
    \A k \in Loadable(Headers(p)) : \A b \in 0 .. Headers(p)[k].file - 1 :
        LET x == ByteAt(base, Headers(p), k, b)
        IN  x \in DOMAIN memory /\ memory[x] = [program |-> p, at |-> Headers(p)[k].offset + b]

\* The first n pages of the image are mapped into tree t.
Mapped(base, t, p, n) ==
    \A i \in 0 .. n - 1 :
        [space |-> t, v |-> (ImageStart(Headers(p)) \div PageSize) + i, page |-> base + i, user |-> TRUE] \in Maps

\* Tree t has the image of p, on pages that were handed out for it, none of them in out.
Image(t, p, out) ==
    Regular(Headers(p)) =>
        \E base \in Nat : /\ Frames(base, p) \subseteq Owned \ out
                          /\ Bytes(base, p) /\ Mapped(base, t, p, pages_to_map(Headers(p)))

Present(t, out) == \E p \in DOMAIN Programs : p = program[t] /\ Image(t, p, out)

Others(s, out) == \A t \in 2 .. s - 1 : Present(t, out)

\* Virtual page v of tree t belongs to an image.
InImage(t, v) ==
    t \in 2 .. Len(program) /\ Regular(Headers(program[t])) /\ v \in ImagePages(Headers(program[t]))

\* Parts of a call that touch no image.
Harmless ==
    {x \in PartType : /\ x.op # "copy"
                      /\ x.op \in {"map", "alloc"} => \A v \in x.v .. x.v + x.n - 1 : ~InImage(x.space, v)}

\* Parts that make tree s and write to no other.
Filling(s) == {x \in PartType : x.op \in {"tree", "map", "alloc"} /\ (x.op # "tree" => x.space = s)}

\* What spawn does before the image is mapped, and behind it.
Filler(s) == NewTree(s) \o map_all(s)

Behind(s) == Alloc(s, UserStack, TRUE) \o (Take(1) \o (MapTaken(s, Argv, 2) \o map_apic_into_task(s)))

\* The map of an image of which d pages are mapped.
ImagePart(s, h, d) ==
    Part("map", s, (ImageStart(h) \div PageSize) + d, pages_to_map(h) - d, "taken", d, TRUE)

Rest(s, h, d) == <<ImagePart(s, h, d)>> \o Behind(s)

\* Where spawn is with the image of p in tree s: before the pages are taken, before the
\* bytes are copied to the run from base on, and before the last page is mapped.
Asking(s, p) ==
    /\ todo = Take(pages_to_map(Headers(p))) \o (Copy(s) \o (Filler(s) \o Rest(s, Headers(p), 0)))
    /\ Others(s, {})

Given(p, base) == /\ base = taken /\ base \in Nat /\ pages_to_map(Headers(p)) > 0
                  /\ Frames(base, p) \subseteq Owned

Copying(s, p, base) ==
    /\ todo = Copy(s) \o (Filler(s) \o Rest(s, Headers(p), 0))
    /\ Given(p, base) /\ Others(s, Frames(base, p))

Entering(s, p, base, d, q) ==
    /\ d \in 0 .. pages_to_map(Headers(p)) - 1 /\ q \in Seq(Filling(s))
    /\ todo = q \o Rest(s, Headers(p), d) /\ (d # 0 => q = <<>>)
    /\ Given(p, base) /\ Others(s, {})
    /\ Regular(Headers(p)) => Bytes(base, p) /\ Mapped(base, s, p, d)

Loading(s, p) ==
    \/ Asking(s, p)
    \/ \E base : Copying(s, p, base)
    \/ \E base, d, q : Entering(s, p, base, d, q)

\* Tree t is made for a program that was accepted, and mmap goes on behind its image.
Accepted(t) ==
    /\ program[t] \in DOMAIN Programs /\ validate_elf(Programs[program[t]].id)
    /\ PAGE_ALIGN_UP(ImageEnd(Headers(program[t]))) <= upto[t]

ProgramsOk ==
    /\ program \in Seq(Nat) /\ Len(program) = IF upto = <<>> THEN 1 ELSE Len(upto)
    /\ \A t \in 2 .. Len(program) : Accepted(t)

Settled == todo \in Seq(Harmless) /\ \A t \in 2 .. Len(program) : Present(t, {})

\* The last tree is the one that is being loaded.
Unsettled == \E s \in Nat, p \in DOMAIN Programs :
                 s >= 2 /\ s = Len(program) /\ p = program[s] /\ Loading(s, p)

LoadInv == ProgramsOk /\ (Settled \/ Unsettled)

\* What a call has to do begins with the first part of its first sequence of parts.
LEMMA FirstPart ==
  ASSUME NEW x \in PartType, NEW z \in Seq(PartType)
  PROVE  /\ <<x>> \o z \in Seq(PartType) /\ <<x>> \o z # <<>>
         /\ Head(<<x>> \o z) = x /\ Tail(<<x>> \o z) = z
<1> DEFINE q == <<x>> \o z
<1>1. <<x>> \in Seq(PartType) /\ Len(<<x>>) = 1 /\ <<x>>[1] = x /\ Len(z) \in Nat
  BY LenProperties
<1>2. /\ q \in Seq(PartType) /\ Len(q) = 1 + Len(z)
      /\ \A i \in 1 .. 1 + Len(z) : q[i] = IF i <= 1 THEN <<x>>[i] ELSE z[i - 1]
  BY <1>1, ConcatProperties
<1> HIDE DEF q
<1>3. q # <<>> /\ q[1] = x
  BY <1>1, <1>2, EmptySeq
<1>4. Head(q) = x
  BY <1>2, <1>3
<1>5. /\ Tail(q) \in Seq(PartType) /\ Len(Tail(q)) = Len(q) - 1
      /\ \A i \in 1 .. Len(Tail(q)) : Tail(q)[i] = q[i + 1]
  BY <1>2, <1>3, HeadTailProperties
<1>6. Len(Tail(q)) = Len(z) /\ \A i \in 1 .. Len(z) : Tail(q)[i] = z[i]
  <2>1. Len(Tail(q)) = Len(z)
    BY <1>1, <1>2, <1>5
  <2>2. \A i \in 1 .. Len(z) : i + 1 \in 1 .. 1 + Len(z) /\ ~(i + 1 <= 1) /\ (i + 1) - 1 = i
    BY <1>1
  <2> QED
    BY <1>2, <1>5, <2>1, <2>2
<1>7. Tail(q) = z
  BY <1>5, <1>6, SeqEqual
<1> QED
  BY <1>2, <1>3, <1>4, <1>7 DEF q

LEMMA FirstOf ==
  ASSUME NEW q \in Seq(PartType), NEW z \in Seq(PartType), q # <<>>
  PROVE  /\ q \o z \in Seq(PartType) /\ q \o z # <<>>
         /\ Head(q \o z) = Head(q) /\ Tail(q \o z) = Tail(q) \o z
<1>1. Head(q) \in PartType /\ Tail(q) \in Seq(PartType)
  BY HeadTailProperties
<1>2. q = <<Head(q)>> \o Tail(q)
  <2> DEFINE y == <<Head(q)>> \o Tail(q)
  <2>1. y \in Seq(PartType) /\ y # <<>> /\ Head(y) = Head(q) /\ Tail(y) = Tail(q)
    BY <1>1, FirstPart
  <2> HIDE DEF y
  <2>2. /\ Len(Tail(y)) = Len(y) - 1 /\ \A i \in 1 .. Len(Tail(y)) : Tail(y)[i] = y[i + 1]
        /\ Len(Tail(q)) = Len(q) - 1 /\ \A i \in 1 .. Len(Tail(q)) : Tail(q)[i] = q[i + 1]
    BY <2>1, HeadTailProperties
  <2>3. Len(y) \in Nat /\ Len(q) \in Nat /\ Len(y) # 0 /\ Len(q) # 0
    BY <2>1, LenProperties, EmptySeq
  <2>4. Len(y) = Len(q) /\ y[1] = q[1]
    <3>1. Len(y) = Len(q)
      <4>1. Len(y) - 1 = Len(q) - 1
        BY <2>1, <2>2
      <4> QED
        BY ONLY <4>1, <2>3
    <3>2. Head(y) = y[1]
      BY <2>1, <2>3
    <3>3. Head(q) = q[1]
      BY <2>3
    <3> QED
      BY <2>1, <3>1, <3>2, <3>3
  <2>5. \A i \in 1 .. Len(y) : i = 1 \/ (i - 1 \in 1 .. Len(Tail(y)) /\ (i - 1) + 1 = i)
    BY <2>2, <2>3
  <2>6. \A i \in 1 .. Len(y) : y[i] = q[i]
    BY <2>1, <2>2, <2>4, <2>5
  <2>7. y = q
    BY <2>1, <2>4, <2>6, SeqEqual
  <2> QED
    BY <2>7 DEF y
<1>3. <<Head(q)>> \in Seq(PartType)
  BY <1>1
<1>4. q \o z = <<Head(q)>> \o (Tail(q) \o z)
  BY <1>1, <1>2, <1>3, ConcatAssociative
<1>5. Tail(q) \o z \in Seq(PartType)
  BY <1>1, ConcatProperties
<1> QED
  BY <1>1, <1>4, <1>5, FirstPart

\* The parts of a set that a part does not leave when a page of it is done.
LEMMA RestOf ==
  ASSUME NEW S, S \subseteq PartType, NEW q \in Seq(S), q # <<>>
  PROVE  Head(q) \in S /\ Tail(q) \in Seq(S) /\ q \in Seq(PartType)
<1>1. q \in Seq(PartType)
  BY SeqMonotonic
<1> QED
  BY <1>1, HeadTailProperties

\* The parts that spawn asks for before the image, and their tree.
LEMMA FillingParts == \A s : Filling(s) \subseteq PartType
  BY DEF Filling

LEMMA HarmlessParts == Harmless \subseteq PartType
  BY DEF Harmless

LEMMA KernelFills ==
  ASSUME NEW s \in Nat, NEW v \in Nat, NEW n \in Nat, NEW page \in Nat
  PROVE  MapKernel(s, v, n, page) \in Filling(s)
  BY DEF MapKernel, Part, PartType, Filling

LEMMA SectionsFill ==
  ASSUME NEW s \in Nat \ {0}
  PROVE  map_sections(s) \in Seq(Filling(s))
<1> DEFINE f == SectionParts(s)
           F == Filling(s)
           T == {n \in Nat : n <= Len(Sections) => f[n] \in Seq(F)}
<1>0. Len(Sections) \in Nat /\ Entries = 1 .. Len(Sections) /\ s \in Nat /\ s \in 1 .. s
  BY PMMAssumption, LenProperties DEF Entries
<1>1. 0 \in T
  <2>1. f[0] = <<>>
    BY <1>0, SectionPartsEquation
  <2>2. <<>> \in Seq(F)
    BY EmptySeq
  <2> HIDE DEF f, F
  <2> QED
    BY <2>1, <2>2
<1>2. ASSUME NEW n \in Nat, n \in T PROVE n + 1 \in T
  <2> SUFFICES ASSUME n + 1 <= Len(Sections) PROVE f[n + 1] \in Seq(F)
    OBVIOUS
  <2>1. /\ n <= Len(Sections) /\ n + 1 \in 0 .. Len(Sections) /\ n + 1 # 0
        /\ (n + 1) - 1 = n /\ n + 1 \in Entries
    BY <1>0
  <2>2. f[n] \in Seq(F)
    BY <1>2, <2>1
  <2>3. f[n + 1] = Grown(s, n + 1, f[n])
    BY <2>1, SectionPartsEquation
  <2> HIDE DEF f, F
  <2>4. CASE ~Sections[n + 1].usable
    BY <2>2, <2>3, <2>4 DEF Grown
  <2>5. CASE Sections[n + 1].usable
    <3> DEFINE part == MapKernel(s, Hhdm + Sections[n + 1].base, Sections[n + 1].pages,
                                 Sections[n + 1].base)
    <3>1. Sections[n + 1].base \in Nat /\ Sections[n + 1].pages \in Nat
      BY <2>1, SectionTypes
    <3>2. Hhdm + Sections[n + 1].base \in Nat
      BY <3>1, PagingAssumption
    <3>3. part \in F
      BY <1>0, <3>1, <3>2, KernelFills DEF F
    <3>4. f[n + 1] = Append(f[n], part)
      BY <2>3, <2>5 DEF Grown
    <3> HIDE DEF part
    <3> QED
      BY <2>2, <3>3, <3>4, AppendProperties
  <2> QED
    BY <2>4, <2>5
<1> HIDE DEF T
<1>3. Len(Sections) \in T
  BY <1>0, <1>1, <1>2, Induction
<1> QED
  BY <1>0, <1>3, SectionsAreParts DEF T

LEMMA FillerFills ==
  ASSUME NEW s \in Nat \ {0}
  PROVE  Filler(s) \in Seq(Filling(s)) /\ Filler(s) \in Seq(PartType)
<1> DEFINE F == Filling(s)
           I == [v : Nat, page : Nat, n : Nat \ {0}]
           f == [k \in DOMAIN KernelImage |->
                   MapKernel(s, KernelImage[k].v, KernelImage[k].n, KernelImage[k].page)]
           tree == Part("tree", s, 0, 1, "zero", 0, FALSE)
           stack == Part("alloc", s, KernelStack, StackPages, "zero", 0, FALSE)
<1>0. s \in Nat /\ s \in 1 .. s /\ KernelStack \in Nat /\ StackPages \in Int
  BY PagingAssumption
<1>1. KernelImage \in Seq(I) /\ DOMAIN KernelImage = 1 .. Len(KernelImage) /\ Len(KernelImage) \in Nat
  <2>1. KernelImage \in Seq(I)
    BY PagingAssumption
  <2> QED
    BY <2>1, LenProperties
<1>2. ASSUME NEW k \in DOMAIN KernelImage PROVE f[k] \in F
  <2>1. KernelImage[k] \in I
    BY <1>1, ElementOfSeq
  <2>2. KernelImage[k].v \in Nat /\ KernelImage[k].page \in Nat /\ KernelImage[k].n \in Nat
    BY <2>1
  <2>3. f[k] = MapKernel(s, KernelImage[k].v, KernelImage[k].n, KernelImage[k].page)
    OBVIOUS
  <2> HIDE DEF f
  <2> QED
    BY <1>0, <2>2, <2>3, KernelFills
<1>3. f \in [1 .. Len(KernelImage) -> F]
  BY <1>1, <1>2
<1>4. f \in Seq(F)
  BY <1>1, <1>3, FunctionIsSeq
<1>5. tree \in PartType /\ tree.op = "tree"
  BY <1>0 DEF Part, PartType
<1>6. stack \in PartType /\ stack.op = "alloc" /\ stack.space = s
  BY <1>0 DEF Part, PartType
<1>7. NewTree(s) = <<tree>> /\ Alloc(s, KernelStack, FALSE) = <<stack>> /\ map_kernel(s) = f \o <<stack>>
  BY DEF NewTree, Alloc, map_kernel
<1> HIDE DEF tree, stack, f
<1>8. tree \in F /\ stack \in F
  BY <1>5, <1>6 DEF Filling
<1> HIDE DEF F
<1>9. <<tree>> \in Seq(F) /\ <<stack>> \in Seq(F)
  BY <1>8
<1>10. map_kernel(s) \in Seq(F)
  BY <1>4, <1>7, <1>9, ConcatProperties
<1>11. map_sections(s) \in Seq(F)
  BY SectionsFill DEF F
<1>12. map_all(s) \in Seq(F)
  BY <1>10, <1>11, ConcatProperties DEF map_all
<1>13. Filler(s) \in Seq(F)
  BY <1>7, <1>9, <1>12, ConcatProperties DEF Filler
<1>14. F \subseteq PartType
  BY FillingParts DEF F
<1> QED
  BY <1>13, <1>14, SeqMonotonic DEF F

LEMMA BehindTypes ==
  ASSUME NEW s \in Nat \ {0}
  PROVE  Behind(s) \in Seq(PartType)
<1>0. s \in Nat /\ s \in 1 .. s /\ UserStack \in Nat /\ Argv \in Nat /\ 1 \in Int /\ 2 \in Int
  BY PagingAssumption
<1>1. /\ Alloc(s, UserStack, TRUE) \in Seq(PartType) /\ Take(1) \in Seq(PartType)
      /\ MapTaken(s, Argv, 2) \in Seq(PartType) /\ map_apic_into_task(s) \in Seq(PartType)
  BY <1>0, AllocPlain, TakePlain, MapTakenPlain, ApicsPlain DEF Plain
<1> QED
  BY <1>1, ConcatProperties DEF Behind

\* The parts with the image in front.
LEMMA RestTypes ==
  ASSUME NEW s \in Nat \ {0}, NEW p \in DOMAIN Programs, NEW h, h = Programs[p].headers, NEW d \in Nat
  PROVE  /\ Rest(s, h, d) \in Seq(PartType) /\ Rest(s, h, d) # <<>>
         /\ Head(Rest(s, h, d)) = ImagePart(s, h, d) /\ Tail(Rest(s, h, d)) = Behind(s)
         /\ ImagePart(s, h, d) \in PartType
<1>1. (ImageStart(h) \div PageSize) + d \in Nat /\ pages_to_map(h) - d \in Int
  BY ProgramTypes
<1> DEFINE v == (ImageStart(h) \div PageSize) + d
           n == pages_to_map(h) - d
<1> HIDE DEF v, n
<1>2. Part("map", s, v, n, "taken", d, TRUE) \in PartType
  BY <1>1 DEF Part, PartType, v, n
<1>3. ImagePart(s, h, d) \in PartType
  BY <1>2 DEF ImagePart, v, n
<1> QED
  BY <1>3, BehindTypes, FirstPart DEF Rest

\* The parts of one sequence and then those of another: regrouped.
Then(a, b) == a \o b

LEMMA ThenTypes ==
  ASSUME NEW S, NEW a \in Seq(S), NEW b \in Seq(S)
  PROVE  Then(a, b) \in Seq(S)
  BY ConcatProperties DEF Then

LEMMA ThenRegroups ==
  ASSUME NEW S, NEW a \in Seq(S), NEW b \in Seq(S), NEW c \in Seq(S)
  PROVE  Then(Then(a, b), c) = Then(a, Then(b, c))
  BY DEF Then

\* What spawn asks for, with the image apart.
LEMMA SpawnAsks ==
  ASSUME NEW s \in Nat \ {0}, NEW p \in DOMAIN Programs, NEW h, h = Programs[p].headers
  PROVE  LET n == pages_to_map(h)
         IN  Take(n) \o Copy(s) \o NewTree(s) \o map_all(s)
                \o MapTaken(s, ImageStart(h) \div PageSize, n)
                \o Alloc(s, UserStack, TRUE) \o Take(1) \o MapTaken(s, Argv, 2)
                \o map_apic_into_task(s)
             = Take(n) \o (Copy(s) \o (Filler(s) \o Rest(s, h, 0)))
<1> DEFINE n == pages_to_map(h)
           v == ImageStart(h) \div PageSize
           P == Seq(PartType)
<1>0. s \in Nat /\ s \in 1 .. s /\ UserStack \in Nat /\ Argv \in Nat /\ 1 \in Int /\ 2 \in Int
      /\ n \in Int /\ v \in Nat
  BY PagingAssumption, ProgramTypes
<1>1. MapTaken(s, v, n) = <<ImagePart(s, h, 0)>>
  <2>1. v + 0 = v /\ n - 0 = n
    BY <1>0
  <2> QED
    BY <2>1 DEF MapTaken, ImagePart
<1> HIDE DEF n, v
<1>2. Copy(s) \in P
  BY <1>0 DEF Copy, Part, PartType
<1>3. NewTree(s) \in P
  BY <1>0, NewTreeMaking DEF Making
<1>4. /\ map_all(s) \in P /\ MapTaken(s, v, n) \in P /\ Alloc(s, UserStack, TRUE) \in P
      /\ Take(n) \in P /\ Take(1) \in P /\ MapTaken(s, Argv, 2) \in P /\ map_apic_into_task(s) \in P
  BY <1>0, MapAllPlain, MapTakenPlain, AllocPlain, TakePlain, ApicsPlain DEF Plain
<1> DEFINE a == Take(n)
           b == Copy(s)
           c == NewTree(s)
           d == map_all(s)
           e == MapTaken(s, v, n)
           f == Alloc(s, UserStack, TRUE)
           g == Take(1)
           i == MapTaken(s, Argv, 2)
           j == map_apic_into_task(s)
           long == a \o b \o c \o d \o e \o f \o g \o i \o j
           short == a \o (b \o ((c \o d) \o (e \o (f \o (g \o (i \o j))))))
<1>5. /\ a \in P /\ b \in P /\ c \in P /\ d \in P /\ e \in P /\ f \in P /\ g \in P /\ i \in P
      /\ j \in P
  BY <1>2, <1>3, <1>4
<1>6. long = short
  <2> HIDE DEF a, b, c, d, e, f, g, i, j
  <2> DEFINE w3 == Then(Then(a, b), c)
             w == Then(w3, d)
             cd == Then(c, d)
             x == Then(w, e)
             y == Then(x, f)
             z == Then(y, g)
             k == Then(i, j)
             l == Then(g, k)
             m == Then(f, l)
             rest == Then(e, m)
  <2>1. Then(a, b) \in P /\ cd \in P /\ k \in P
    BY <1>5, ThenTypes
  <2>2. w = Then(Then(a, b), cd)
    BY <1>5, <2>1, ThenRegroups
  <2>3. w \in P /\ w = Then(a, Then(b, cd)) /\ Then(b, cd) \in P
    BY <1>5, <2>1, <2>2, ThenRegroups, ThenTypes
  <2> HIDE DEF w
  <2>4. x \in P
    BY <1>5, <2>3, ThenTypes
  <2> HIDE DEF x
  <2>5. y \in P
    BY <1>5, <2>4, ThenTypes
  <2> HIDE DEF y
  <2>6. z \in P /\ l \in P
    BY <1>5, <2>1, <2>5, ThenTypes
  <2>7. Then(Then(z, i), j) = Then(z, k)
    BY <1>5, <2>6, ThenRegroups
  <2>8. Then(z, k) = Then(y, l)
    BY <1>5, <2>1, <2>5, ThenRegroups
  <2> HIDE DEF l
  <2>9. m \in P /\ Then(y, l) = Then(x, m)
    BY <1>5, <2>4, <2>6, ThenRegroups, ThenTypes DEF y
  <2> HIDE DEF m
  <2>10. rest \in P /\ Then(x, m) = Then(w, rest)
    BY <1>5, <2>3, <2>9, ThenRegroups, ThenTypes DEF x
  <2> HIDE DEF rest
  <2>11. Then(w, rest) = Then(a, Then(Then(b, cd), rest))
    BY <1>5, <2>3, <2>10, ThenRegroups
  <2>12. Then(Then(b, cd), rest) = Then(b, Then(cd, rest))
    BY <1>5, <2>1, <2>10, ThenRegroups
  <2>13. Then(Then(z, i), j) = Then(a, Then(b, Then(cd, rest)))
    BY <2>7, <2>8, <2>9, <2>10, <2>11, <2>12
  <2> QED
    BY <2>13 DEF w, x, y, l, m, rest, Then
<1>7. short = a \o (b \o (Filler(s) \o Rest(s, h, 0)))
  BY <1>1 DEF Filler, Rest, Behind
<1> QED
  BY <1>6, <1>7 DEF n, v

\* Nothing else is mapped where an image is.
LEMMA ApartFromImages ==
  ASSUME Layout, ProgramsOk, NEW s, NEW v \in Elsewhere
  PROVE  ~InImage(s, v)
<1> SUFFICES ASSUME InImage(s, v) PROVE FALSE
  OBVIOUS
<1>1. /\ s \in 2 .. Len(program) /\ Regular(Headers(program[s])) /\ v \in ImagePages(Headers(program[s]))
      /\ Accepted(s)
  BY DEF InImage, ProgramsOk
<1>2. program[s] \in DOMAIN Programs /\ validate_elf(Programs[program[s]].id)
  BY <1>1 DEF Accepted
<1>3. Loadable(Headers(program[s])) = {} \/ ImagePages(Headers(program[s])) \intersect Elsewhere = {}
  BY <1>2 DEF Layout, Headers
<1>4. Loadable(Headers(program[s])) # {}
  BY <1>1 DEF Regular
<1> QED
  BY <1>1, <1>3, <1>4

LEMMA TakeHarmless == ASSUME NEW n \in Int PROVE Take(n) \in Seq(Harmless)
<1> DEFINE part == Part("take", 0, 0, n, "zero", 0, FALSE)
<1>1. part \in PartType /\ part.op = "take"
  BY DEF Part, PartType
<1> HIDE DEF part
<1>2. part \in Harmless
  BY <1>1 DEF Harmless
<1>3. <<part>> \in Seq(Harmless)
  BY <1>2
<1> QED
  BY <1>3 DEF Take, part

LEMMA MapHarmless ==
  ASSUME NEW s \in Nat, NEW v \in Nat, NEW n \in Int, \A i \in v .. v + n - 1 : ~InImage(s, i)
  PROVE  MapTaken(s, v, n) \in Seq(Harmless)
<1> DEFINE part == Part("map", s, v, n, "taken", 0, TRUE)
<1>1. part \in PartType /\ part.op = "map" /\ part.v = v /\ part.n = n /\ part.space = s
  BY DEF Part, PartType
<1> HIDE DEF part
<1>2. part \in Harmless
  BY <1>1 DEF Harmless
<1>3. <<part>> \in Seq(Harmless)
  BY <1>2
<1> QED
  BY <1>3 DEF MapTaken, part

\* What spawn maps behind the image touches no image.
LEMMA BehindHarmless ==
  ASSUME Layout, ProgramsOk, NEW s \in Nat \ {0}
  PROVE  Behind(s) \in Seq(Harmless)
<1>0. /\ s \in Nat /\ UserStack \in Nat /\ Argv \in Nat /\ 1 \in Int /\ 2 \in Int
      /\ Apics \in Seq(Nat) /\ DOMAIN Apics = 1 .. Len(Apics) /\ Len(Apics) \in Nat
      /\ Hhdm \in Nat /\ StackPages \in Int
  BY PagingAssumption, LenProperties
<1>1. Alloc(s, UserStack, TRUE) \in Seq(Harmless)
  <2> DEFINE part == Part("alloc", s, UserStack, StackPages, "zero", 0, TRUE)
  <2>1. /\ part \in PartType /\ part.op = "alloc" /\ part.v = UserStack /\ part.n = StackPages
        /\ part.space = s
    BY <1>0 DEF Part, PartType
  <2>2. \A v \in UserStack .. UserStack + StackPages - 1 : v \in Elsewhere
    BY DEF Elsewhere
  <2>3. \A v \in UserStack .. UserStack + StackPages - 1 : ~InImage(s, v)
    BY <2>2, ApartFromImages
  <2> HIDE DEF part
  <2>4. part \in Harmless
    BY <2>1, <2>3 DEF Harmless
  <2>5. <<part>> \in Seq(Harmless)
    BY <2>4
  <2> QED
    BY <2>5 DEF Alloc, part
<1>2. MapTaken(s, Argv, 2) \in Seq(Harmless)
  <2>1. \A v \in Argv .. Argv + 2 - 1 : v \in Argv .. Argv + 1
    BY <1>0
  <2>2. \A v \in Argv .. Argv + 2 - 1 : v \in Elsewhere
    BY <2>1 DEF Elsewhere
  <2>3. \A v \in Argv .. Argv + 2 - 1 : ~InImage(s, v)
    BY <2>2, ApartFromImages
  <2> QED
    BY <1>0, <2>3, MapHarmless
<1>3. map_apic_into_task(s) \in Seq(Harmless)
  <2> DEFINE f == map_apic_into_task(s)
  <2>1. ASSUME NEW k \in DOMAIN Apics PROVE f[k] \in Harmless
    <3> DEFINE a == Hhdm + Apics[k]
               part == MapKernel(s, a, 1, Apics[k])
    <3>1. Apics[k] \in Nat /\ a \in Nat
      BY <1>0, ElementOfSeq
    <3>2. f[k] = part
      BY DEF map_apic_into_task
    <3>3. a \in Elsewhere
      BY DEF Elsewhere
    <3>4. ~InImage(s, a)
      BY <3>3, ApartFromImages
    <3> HIDE DEF a
    <3>5. part \in PartType /\ part.op = "map" /\ part.v = a /\ part.n = 1 /\ part.space = s
      BY <1>0, <3>1 DEF MapKernel, Part, PartType
    <3>6. \A v \in a .. a + 1 - 1 : v = a
      BY <3>1
    <3> HIDE DEF part
    <3>7. part \in Harmless
      BY <3>4, <3>5, <3>6 DEF Harmless
    <3> QED
      BY <3>2, <3>7
  <2>2. f \in [1 .. Len(Apics) -> Harmless]
    BY <1>0, <2>1 DEF map_apic_into_task
  <2> QED
    BY <1>0, <2>2, FunctionIsSeq
<1>4. Take(1) \in Seq(Harmless)
  BY <1>0, TakeHarmless
<1> QED
  BY <1>1, <1>2, <1>3, <1>4, ConcatProperties DEF Behind

\* A step that leaves the images of the trees before s as they are: pages in out may be
\* written, and pages in next may have been handed out for something else.
Spares(s, out, next) ==
    /\ Owned \subseteq Owned' /\ next \intersect Owned \subseteq out
    /\ \A x \in DOMAIN memory : x \in Nat /\ x \div PageSize \notin out =>
          x \in DOMAIN memory' /\ memory'[x] = memory[x]
    /\ \A t \in 2 .. s - 1 :
          /\ program'[t] = program[t]
          /\ \A m \in Maps : m.space = t /\ InImage(t, m.v) => m \in Maps'

LEMMA ImageKept ==
  ASSUME NEW t, NEW p \in DOMAIN Programs, NEW out, NEW next, Image(t, p, out),
         Owned \subseteq Owned', next \intersect Owned \subseteq out,
         \A x \in DOMAIN memory : x \in Nat /\ x \div PageSize \notin out =>
            x \in DOMAIN memory' /\ memory'[x] = memory[x],
         Regular(Headers(p)) => \A m \in Maps : m.space = t /\ m.v \in ImagePages(Headers(p)) => m \in Maps'
  PROVE  Image(t, p, next)'
<1> DEFINE h == Headers(p)
           n == pages_to_map(h)
           v == ImageStart(h) \div PageSize
<1> SUFFICES ASSUME Regular(h)
             PROVE  \E base \in Nat : /\ Frames(base, p) \subseteq Owned' \ next
                                      /\ Bytes(base, p)' /\ Mapped(base, t, p, n)'
  BY DEF Image
<1>0. h = Programs[p].headers
  BY DEF Headers
<1>1. PICK base \in Nat : /\ Frames(base, p) \subseteq Owned \ out
                          /\ Bytes(base, p) /\ Mapped(base, t, p, n)
  BY DEF Image
<1>2. Frames(base, p) \subseteq Owned' \ next
  BY <1>1
<1>3. Bytes(base, p)'
  <2> SUFFICES ASSUME NEW k \in Loadable(h), NEW b \in 0 .. h[k].file - 1
               PROVE  LET x == ByteAt(base, h, k, b)
                      IN  x \in DOMAIN memory' /\ memory'[x] = [program |-> p, at |-> h[k].offset + b]
    BY DEF Bytes
  <2> DEFINE x == ByteAt(base, h, k, b)
  <2>1. PICK i \in 0 .. n - 1 : x \in Nat /\ x \div PageSize = base + i
    <3>1. h = Programs[p].headers /\ Regular(h) /\ p \in DOMAIN Programs /\ base \in Nat /\ k \in Loadable(h)
          /\ b \in 0 .. h[k].file - 1
      BY <1>0
    <3> HIDE DEF h
    <3>2. \E i \in 0 .. pages_to_map(h) - 1 : OnPage(base, h, k, b, i)
      BY ONLY <3>1, ByteSpot
    <3> QED
      BY <3>2 DEF OnPage
  <2>2. x \in DOMAIN memory /\ memory[x] = [program |-> p, at |-> h[k].offset + b]
    BY <1>1 DEF Bytes
  <2>3. base + i \in Frames(base, p)
    <3>1. n \in Int
      BY <1>0, ProgramTypes
    <3> HIDE DEF n
    <3>2. base + i \in base .. base + n - 1
      BY <3>1
    <3> QED
      BY <3>2 DEF Frames, n
  <2> HIDE DEF x
  <2>4. x \div PageSize \notin out
    BY <1>1, <2>1, <2>3
  <2>5. x \in DOMAIN memory' /\ memory'[x] = memory[x]
    BY <2>1, <2>2, <2>4
  <2> QED
    BY <2>2, <2>5 DEF x
<1>4. Mapped(base, t, p, n)'
  <2> SUFFICES ASSUME NEW i \in 0 .. n - 1
               PROVE  [space |-> t, v |-> v + i, page |-> base + i, user |-> TRUE] \in Maps'
    BY DEF Mapped
  <2> DEFINE m == [space |-> t, v |-> v + i, page |-> base + i, user |-> TRUE]
  <2>1. m \in Maps
    BY <1>1 DEF Mapped
  <2>2. n \in Int /\ v \in Nat
    BY <1>0, ProgramTypes
  <2>3. ImagePages(h) = v .. v + n - 1
    BY DEF ImagePages
  <2>4. m.space = t /\ m.v = v + i
    OBVIOUS
  <2> HIDE DEF m, v, n, h
  <2>5. m.v \in ImagePages(h)
    BY <2>2, <2>3, <2>4
  <2> QED
    BY <2>1, <2>4, <2>5 DEF m, h
<1> QED
  BY <1>2, <1>3, <1>4

LEMMA OthersKept ==
  ASSUME ProgramsOk, NEW s \in Nat, s - 1 <= Len(program), NEW out, NEW next,
         Others(s, out), Spares(s, out, next)
  PROVE  Others(s, next)'
<1> SUFFICES ASSUME NEW t \in 2 .. s - 1 PROVE Present(t, next)'
  BY DEF Others
<1>1. PICK p \in DOMAIN Programs : p = program[t] /\ Image(t, p, out)
  BY DEF Others, Present
<1>2. t \in 2 .. Len(program)
  BY LenProperties DEF ProgramsOk
<1>3. p = program'[t]
  BY <1>1 DEF Spares
<1>4. /\ Owned \subseteq Owned' /\ next \intersect Owned \subseteq out
      /\ \A x \in DOMAIN memory : x \in Nat /\ x \div PageSize \notin out =>
            x \in DOMAIN memory' /\ memory'[x] = memory[x]
      /\ \A m \in Maps : m.space = t /\ InImage(t, m.v) => m \in Maps'
  BY DEF Spares
<1>5. Regular(Headers(p)) => \A m \in Maps : m.space = t /\ m.v \in ImagePages(Headers(p)) => m \in Maps'
  BY <1>1, <1>2, <1>4 DEF InImage
<1>6. Image(t, p, next)'
  BY <1>1, <1>4, <1>5, ImageKept
<1> QED
  BY <1>3, <1>6 DEF Present

-----------------------------------------------------------------------------
(* What the steps of a call do to the images *)

LEMMA MapsStill ==
  ASSUME QInv, TreeInv, [PNext]_allVars, ~map_page, ~alloc_page
  PROVE  Maps' = Maps
<1>0. QInv' /\ TreeInv'
  BY QNext, TreeStep
<1>1. ASSUME UNCHANGED <<tables, roots>> PROVE Maps' = Maps
  BY <1>1 DEF Maps, Trees, Placed
<1>2. CASE init_paging_task
  BY <1>0, <1>2, TreeMade, MapsKept
<1>3. CASE add_table
  BY <1>0, <1>3, TableMade, MapsKept
<1>4. CASE take_pages \/ copy_segments \/ runs_off \/ out_of_memory
  BY <1>1, <1>4 DEF take_pages, copy_segments, runs_off, out_of_memory, pvars
<1>5. CASE \/ init_paging
           \/ \E p \in DOMAIN Programs : spawn(p)
           \/ \E s \in 2 .. Len(roots), addr \in Fixed \union {0}, length \in Lengths :
                 syscall_mmap(s, addr, length)
  BY <1>1, <1>5, QCallers
<1>6. ASSUME NEW n \in Requests, kmalloc_elsewhere(n) PROVE Maps' = Maps
  BY <1>1, <1>6 DEF kmalloc_elsewhere, pvars
<1>7. CASE UNCHANGED allVars
  BY <1>1, <1>7 DEF allVars, pvars
<1> QED
  BY <1>2, <1>3, <1>4, <1>5, <1>6, <1>7 DEF PNext, Step

\* One entry is written, for the page that the call is at.
Written(page) ==
    Maps' = {k \in Maps : ~(k.space = Now.space /\ k.v = Now.v)}
            \union {[space |-> Now.space, v |-> Now.v, page |-> page, user |-> Now.user]}

LEMMA EntryWritten ==
  ASSUME QInv, TreeInv, CountInv, map_page \/ alloc_page
  PROVE  /\ todo # <<>> /\ Now \in PartType /\ Now.op \in {"map", "alloc"} /\ Now.n > 0
         /\ Advance /\ UNCHANGED <<roots, taken, upto, program, memory>>
         /\ \E page : (map_page => page = PhysAddr) /\ Written(page)
<1>0. QInv' /\ TreeInv'
  <2>1. [PNext]_allVars
    BY DEF PNext, Step
  <2> QED
    BY <2>1, QNext, TreeStep
<1>1. /\ Runs /\ Leaf # 0 /\ todo # <<>> /\ Now.op \in {"map", "alloc"} /\ Advance
      /\ UNCHANGED <<roots, taken, upto, program, memory>>
  BY DEF map_page, alloc_page, Runs, Doing
<1>2. Now \in PartType /\ Now.user \in BOOLEAN /\ Now.page \in Nat /\ taken \in Nat
  BY <1>1, NowType DEF PartType, QInv
<1>3. Now.n > 0
  BY <1>1, PageLeft
<1>4. ASSUME NEW page \in Nat, Enter(EntryOf(page, Now.user)) PROVE Written(page)
  <2>1. /\ EntryOf(page, Now.user) \in EntrySet /\ EntryOf(page, Now.user).present
        /\ EntryOf(page, Now.user).page = page /\ EntryOf(page, Now.user).user = Now.user
    BY <1>2 DEF EntryOf, EntrySet
  <2> QED
    BY <1>0, <1>1, <1>4, <2>1, MapsEntered DEF Written
<1>5. CASE map_page
  <2>1. PhysAddr \in Nat
    BY <1>2 DEF PhysAddr
  <2>2. Enter(EntryOf(PhysAddr, Now.user))
    BY <1>5 DEF map_page
  <2> QED
    BY <1>1, <1>2, <1>3, <1>4, <2>1, <2>2
<1>6. CASE ~map_page /\ alloc_page
  <2>1. last'.lo \in Nat /\ Enter(EntryOf(last'.lo, Now.user))
    <3>1. kmalloc_returns(1) /\ status = "running" /\ TypeOK /\ 1 \in Int
      BY <1>6 DEF alloc_page, Runs, Doing, QInv
    <3> QED
      BY <1>6, <3>1, Fresh DEF alloc_page
  <2> QED
    BY <1>1, <1>2, <1>3, <1>4, <1>6, <2>1
<1> QED
  BY <1>5, <1>6

\* The part that a part becomes when one of its pages is done.
NextOf(x) == [x EXCEPT !.v = @ + 1, !.page = @ + 1, !.n = @ - 1]

LEMMA NextOfParts ==
  ASSUME NEW x \in PartType
  PROVE  /\ NextOf(x) \in PartType /\ NextOf(x).op = x.op /\ NextOf(x).space = x.space
         /\ NextOf(x).v = x.v + 1 /\ NextOf(x).page = x.page + 1 /\ NextOf(x).n = x.n - 1
         /\ NextOf(x).from = x.from /\ NextOf(x).user = x.user
  BY NextPart DEF NextOf

LEMMA AdvanceIs ==
  ASSUME Advance
  PROVE  todo' = IF Now.n = 1 THEN Tail(todo) ELSE <<NextOf(Now)>> \o Tail(todo)
  BY DEF Advance, NextOf

\* A call whose parts are in a set goes on in the set, before whatever follows.
LEMMA AdvancesIn ==
  ASSUME NEW S, S \subseteq PartType, NEW q \in Seq(S), q # <<>>, NEW z \in Seq(PartType),
         todo = q \o z, Advance, Now.n # 1 => NextOf(Now) \in S
  PROVE  \E r \in Seq(S) : todo' = r \o z
<1> DEFINE x == NextOf(Now)
           y == Tail(q)
<1>1. q \in Seq(PartType) /\ y \in Seq(S)
  BY RestOf
<1>2. Tail(todo) = y \o z
  BY <1>1, FirstOf
<1>3. todo' = IF Now.n = 1 THEN Tail(todo) ELSE <<x>> \o Tail(todo)
  BY AdvanceIs
<1> HIDE DEF x, y
<1>4. CASE Now.n = 1
  BY <1>1, <1>2, <1>3, <1>4
<1>5. CASE Now.n # 1
  <2>1. x \in S
    BY <1>5 DEF x
  <2>2. <<x>> \in Seq(S)
    BY <2>1
  <2>3. <<x>> \o y \in Seq(S)
    BY <1>1, <2>2, ConcatProperties
  <2>4. <<x>> \in Seq(PartType) /\ y \in Seq(PartType)
    BY <1>1, <2>2, SeqMonotonic
  <2>5. <<x>> \o (y \o z) = (<<x>> \o y) \o z
    BY <2>4, ConcatAssociative
  <2> QED
    BY <1>2, <1>3, <1>5, <2>3, <2>5
<1> QED
  BY <1>4, <1>5

LEMMA AdvancesWithin ==
  ASSUME NEW S, S \subseteq PartType, todo \in Seq(S), todo # <<>>, Advance,
         Now.n # 1 => NextOf(Now) \in S
  PROVE  todo' \in Seq(S)
<1> DEFINE x == NextOf(Now)
<1>1. Tail(todo) \in Seq(S)
  BY RestOf
<1>2. todo' = IF Now.n = 1 THEN Tail(todo) ELSE <<x>> \o Tail(todo)
  BY AdvanceIs
<1>3. CASE Now.n # 1
  <2>1. x \in S
    BY <1>3 DEF x
  <2> HIDE DEF x
  <2>2. <<x>> \in Seq(S)
    BY <2>1
  <2> QED
    BY <1>1, <1>2, <1>3, <2>2, ConcatProperties
<1> QED
  BY <1>1, <1>2, <1>3

LEMMA HarmlessSame ==
  ASSUME program' = program
  PROVE  Harmless' = Harmless
<1>1. \A t, v : InImage(t, v)' <=> InImage(t, v)
  BY DEF InImage
<1> QED
  BY <1>1 DEF Harmless

LEMMA HarmlessNext ==
  ASSUME NEW x \in Harmless, x.op \in {"map", "alloc"}, x.n > 0
  PROVE  NextOf(x) \in Harmless /\ ~InImage(x.space, x.v)
<1> DEFINE y == NextOf(x)
<1>1. x \in PartType /\ x.v \in Nat /\ x.n \in Int /\ \A v \in x.v .. x.v + x.n - 1 : ~InImage(x.space, v)
  BY DEF Harmless, PartType
<1>2. /\ y \in PartType /\ y.op = x.op /\ y.space = x.space /\ y.v = x.v + 1 /\ y.n = x.n - 1
  BY <1>1, NextOfParts
<1> HIDE DEF y
<1>3. \A v \in y.v .. y.v + y.n - 1 : v \in x.v .. x.v + x.n - 1
  BY <1>1, <1>2
<1>4. y \in Harmless
  BY <1>1, <1>2, <1>3 DEF Harmless
<1>5. x.v \in x.v .. x.v + x.n - 1
  BY <1>1
<1> QED
  BY <1>1, <1>4, <1>5 DEF y

LEMMA FillingNext ==
  ASSUME NEW s, NEW x \in Filling(s), x.op \in {"map", "alloc"}
  PROVE  NextOf(x) \in Filling(s) /\ x.space = s
<1>1. x \in PartType /\ x.op # "tree" /\ x.space = s
  BY DEF Filling
<1> QED
  BY <1>1, NextOfParts DEF Filling

\* A step that writes no memory and no mapping of an image.
LEMMA SparesImages ==
  ASSUME NEW s, Owned \subseteq Owned', memory' = memory,
         \A t \in 2 .. s - 1 : program'[t] = program[t],
         \/ Maps' = Maps
         \/ /\ \E page : Written(page)
            /\ Now.space \in 2 .. s - 1 => ~InImage(Now.space, Now.v)
  PROVE  Spares(s, {}, {})
<1>1. ASSUME NEW t \in 2 .. s - 1, NEW m \in Maps, m.space = t, InImage(t, m.v) PROVE m \in Maps'
  BY <1>1 DEF Written
<1> QED
  BY <1>1 DEF Spares

LEMMA ImagesStay ==
  ASSUME ProgramsOk, NEW s \in Nat, s = Len(program) + 1, Others(s, {}), Spares(s, {}, {}),
         Len(program') = Len(program)
  PROVE  \A t \in 2 .. Len(program') : Present(t, {})'
<1>1. Len(program) \in Nat
  BY LenProperties DEF ProgramsOk
<1>2. s - 1 <= Len(program) /\ s - 1 = Len(program')
  BY <1>1
<1>3. Others(s, {})'
  BY <1>2, OthersKept
<1> QED
  BY <1>2, <1>3 DEF Others

\* Steps of a call that touches no image.
LEMMA SettledStep ==
  ASSUME QInv, TreeInv, CountInv, ProgramsOk, Settled, Step
  PROVE  Settled'
<1>0. [PNext]_allVars
  BY DEF PNext
<1>1. Owned \subseteq Owned'
  BY <1>0, QNext, OwnedGrows
<1>2. todo # <<>> /\ program' = program
  BY DEF Step, take_pages, copy_segments, init_paging_task, add_table, map_page, alloc_page,
         runs_off, out_of_memory, Doing, Runs, pvars
<1>3. todo \in Seq(Harmless) /\ Harmless \subseteq PartType
  BY HarmlessParts DEF Settled
<1>4. Head(todo) \in Harmless /\ Tail(todo) \in Seq(Harmless)
  BY <1>2, <1>3, RestOf
<1>5. Now \in Harmless
  BY <1>4 DEF Now
<1>6. ~copy_segments
  BY <1>5 DEF copy_segments, Doing, Harmless
<1>7. memory' = memory
  BY <1>6 DEF Step, take_pages, init_paging_task, add_table, map_page, alloc_page,
         runs_off, out_of_memory, pvars
<1>8. todo' \in Seq(Harmless)
  <2>1. CASE map_page \/ alloc_page
    <3>1. Advance /\ Now.n > 0 /\ Now.op \in {"map", "alloc"}
      BY <2>1, EntryWritten
    <3>2. NextOf(Now) \in Harmless
      BY <1>5, <3>1, HarmlessNext
    <3> QED
      BY <1>2, <1>3, <3>1, <3>2, AdvancesWithin
  <2>2. CASE take_pages \/ init_paging_task
    BY <1>4, <2>2 DEF take_pages, init_paging_task
  <2>3. CASE add_table \/ runs_off \/ out_of_memory
    BY <1>3, <2>3 DEF add_table, runs_off, out_of_memory, pvars
  <2> QED
    BY <1>6, <2>1, <2>2, <2>3 DEF Step
<1>9. PICK s \in Nat : s = Len(program) + 1
  BY LenProperties DEF ProgramsOk
<1>10. Spares(s, {}, {})
  <2>1. CASE map_page \/ alloc_page
    <3>1. Now.n > 0 /\ Now.op \in {"map", "alloc"} /\ \E page : Written(page)
      BY <2>1, EntryWritten
    <3>2. ~InImage(Now.space, Now.v)
      BY <1>5, <3>1, HarmlessNext
    <3> QED
      BY <1>1, <1>2, <1>7, <3>1, <3>2, SparesImages
  <2>2. CASE ~map_page /\ ~alloc_page
    <3>1. Maps' = Maps
      BY <1>0, <2>2, MapsStill
    <3> QED
      BY <1>1, <1>2, <1>7, <3>1, SparesImages
  <2> QED
    BY <2>1, <2>2
<1>11. Others(s, {})
  <2>1. s - 1 = Len(program)
    BY <1>9, LenProperties DEF ProgramsOk
  <2> QED
    BY <2>1 DEF Others, Settled
<1>12. \A t \in 2 .. Len(program') : Present(t, {})'
  BY <1>2, <1>9, <1>10, <1>11, ImagesStay
<1>13. todo' \in Seq(Harmless')
  BY <1>2, <1>8, HarmlessSame
<1> QED
  BY <1>12, <1>13 DEF Settled

-----------------------------------------------------------------------------
(* The stages of spawn *)

\* The pages of the image are handed out, and none of them holds another image.
LEMMA AskingStep ==
  ASSUME QInv, TreeInv, CountInv, ProgramsOk, NEW s \in Nat, s >= 2, s = Len(program),
         NEW p \in DOMAIN Programs, Asking(s, p), Step
  PROVE  Loading(s, p)'
<1> DEFINE h == Headers(p)
           n == pages_to_map(h)
           x == Part("take", 0, 0, n, "zero", 0, FALSE)
           z == Copy(s) \o (Filler(s) \o Rest(s, h, 0))
<1>0. [PNext]_allVars
  BY DEF PNext
<1>1. n \in Int /\ h = Programs[p].headers /\ s \in Nat \ {0} /\ 0 \in Nat
  BY ProgramTypes DEF Headers
<1>2. x \in PartType /\ x.op = "take" /\ x.n = n
  <2> HIDE DEF n
  <2> QED
    BY <1>1 DEF Part, PartType
<1>3. z \in Seq(PartType)
  <2> DEFINE r == Rest(s, h, 0)
             f == Filler(s)
             c == Part("copy", s, 0, 1, "taken", 0, FALSE)
  <2>1. r \in Seq(PartType)
    <3> HIDE DEF h
    <3> QED
      BY <1>1, RestTypes
  <2>2. f \in Seq(PartType)
    BY <1>1, FillerFills
  <2>3. c \in PartType
    BY <1>1 DEF Part, PartType
  <2>4. z = <<c>> \o (f \o r)
    BY DEF Copy
  <2> HIDE DEF r, f, c, z
  <2>5. f \o r \in Seq(PartType)
    BY <2>1, <2>2, ConcatProperties
  <2> QED
    BY <2>3, <2>4, <2>5, FirstPart
<1>4. todo = <<x>> \o z
  BY DEF Asking, Take
<1>5. todo # <<>> /\ Now = x /\ Tail(todo) = z
  <2> HIDE DEF x, z
  <2> QED
    BY <1>2, <1>3, <1>4, FirstPart DEF Now
<1>6. Now.op = "take" /\ Now.n = n
  BY <1>2, <1>5
<1> HIDE DEF x
<1>7. take_pages \/ out_of_memory
  BY <1>6 DEF Step, copy_segments, init_paging_task, add_table, map_page, alloc_page,
         runs_off, Doing, Runs
<1>8. program' = program /\ memory' = memory
  BY <1>7 DEF take_pages, out_of_memory, pvars
<1>9. Maps' = Maps /\ Owned \subseteq Owned'
  <2>1. ~map_page /\ ~alloc_page
    BY <1>6 DEF map_page, alloc_page
  <2> QED
    BY <1>0, <2>1, MapsStill, QNext, OwnedGrows
<1>10. Others(s, {}) /\ s - 1 <= Len(program)
  BY DEF Asking
<1>11. CASE out_of_memory
  <2>1. todo' = todo
    BY <1>11 DEF out_of_memory, pvars
  <2>2. Spares(s, {}, {})
    BY <1>8, <1>9, SparesImages
  <2>3. Others(s, {})'
    BY <1>10, <2>2, OthersKept
  <2> QED
    BY <2>1, <2>3 DEF Loading, Asking
<1>12. CASE take_pages
  <2> DEFINE F == Frames(taken', p)
  <2>1. kmalloc_returns(n) /\ taken' = last'.lo /\ todo' = z /\ status = "running" /\ TypeOK
    BY <1>5, <1>6, <1>12 DEF take_pages, Doing, QInv
  <2>2. n \in Nat /\ last'.n = n /\ n > 0
    <3> HIDE DEF n
    <3> QED
      BY <1>1, <2>1 DEF kmalloc_returns
  <2>3. A!Give
    <3> HIDE DEF n
    <3> QED
      BY <2>1, <2>2, Returns
  <2>4. /\ last' \in [lo : Nat, n : Nat \ {0}] /\ A!Run(last') \subseteq UsablePages \ Owned
        /\ Owned' = Owned \union A!Run(last')
    BY <2>3 DEF A!Give
  <2>5. F = A!Run(last')
    BY <2>1, <2>2 DEF A!Run, Frames
  <2>6. F \subseteq Owned' /\ F \intersect Owned = {} /\ taken' \in Nat
    BY <2>1, <2>4, <2>5
  <2>7. PICK base \in Nat : base = taken'
    BY <2>6
  <2>8. F = Frames(base, p)
    BY <2>7
  <2> DEFINE B == Frames(base, p)
  <2>9. B \subseteq Owned' /\ B \intersect Owned = {}
    BY <2>6, <2>8
  <2> HIDE DEF F
  <2>10. Spares(s, {}, B)
    <3>1. Spares(s, {}, {})
      BY <1>8, <1>9, SparesImages
    <3> HIDE DEF B
    <3> QED
      BY <2>9, <3>1 DEF Spares
  <2>11. Others(s, B)'
    <3> HIDE DEF B
    <3> QED
      BY <1>10, <2>10, OthersKept
  <2>12. Given(p, base)'
    BY <2>2, <2>7, <2>9 DEF Given
  <2>13. Copying(s, p, base)'
    BY <2>1, <2>11, <2>12 DEF Copying
  <2> QED
    BY <2>13 DEF Loading
<1> QED
  BY <1>7, <1>11, <1>12

\* The bytes that a segment is copied to.
SegmentAt(base, h, k) == base * PageSize + h[k].v - ImageStart(h)

Segment(base, h, k) == SegmentAt(base, h, k) .. SegmentAt(base, h, k) + h[k].file - 1

SegmentFact(base, h, k) ==
    /\ SegmentAt(base, h, k) \in Int /\ h[k].file \in Nat /\ h[k].offset \in Nat
    /\ \A x \in Segment(base, h, k) : \E b \in 0 .. h[k].file - 1 : x = ByteAt(base, h, k, b)
    /\ \A b \in 0 .. h[k].file - 1 : /\ ByteAt(base, h, k, b) \in Segment(base, h, k)
                                     /\ ByteAt(base, h, k, b) = SegmentAt(base, h, k) + b

LEMMA SegmentBytes ==
  ASSUME NEW p \in DOMAIN Programs, NEW h, h = Programs[p].headers, Regular(h), NEW base \in Nat,
         NEW k \in Loadable(h)
  PROVE  SegmentFact(base, h, k)
<1> DEFINE S == ImageStart(h)
           B == base * PageSize
           v == h[k].v
           f == h[k].file
           a == SegmentAt(base, h, k)
<1>1. S \in Nat /\ B \in Nat /\ v \in Nat /\ f \in Nat /\ h[k].offset \in Nat
  BY RegularImage, ProgramHeaders, PagingAssumption DEF Loadable
<1>2. a = B + v - S /\ \A b : ByteAt(base, h, k, b) = B + v - S + b
  BY DEF SegmentAt, ByteAt
<1>3. Segment(base, h, k) = a .. a + f - 1
  BY DEF Segment
<1> HIDE DEF S, B, v, f, a
<1>4. a \in Int
  BY <1>1, <1>2
<1>5. ASSUME NEW x \in a .. a + f - 1 PROVE \E b \in 0 .. f - 1 : x = ByteAt(base, h, k, b)
  <2>1. x - a \in 0 .. f - 1 /\ x = a + (x - a)
    BY <1>1, <1>4
  <2> QED
    BY <1>2, <2>1
<1>6. ASSUME NEW b \in 0 .. f - 1 PROVE ByteAt(base, h, k, b) = a + b /\ a + b \in a .. a + f - 1
  BY <1>1, <1>2, <1>4
<1> QED
  BY <1>1, <1>3, <1>4, <1>5, <1>6 DEF a, f, SegmentFact

\* The segments that byte x is copied from, and all bytes that are written.
CopyIn(base, h, x) == {k \in Loadable(h) : x \in Segment(base, h, k)}

CopyAll(base, h) == UNION {Segment(base, h, k) : k \in Loadable(h)}

CopyLast(base, h, x) == CHOOSE k \in CopyIn(base, h, x) : \A j \in CopyIn(base, h, x) : j <= k

CopyOf(base, p, h) ==
    [x \in DOMAIN memory \union CopyAll(base, h) |->
        IF x \in CopyAll(base, h)
        THEN [program |-> p,
              at |-> h[CopyLast(base, h, x)].offset + x - SegmentAt(base, h, CopyLast(base, h, x))]
        ELSE memory[x]]

LEMMA CopyIs ==
  ASSUME copy_segments
  PROVE  memory' = CopyOf(taken, program[Now.space], Programs[program[Now.space]].headers)
  BY DEF copy_segments, CopyOf, CopyAll, CopyLast, CopyIn, Segment, SegmentAt

LEMMA CopyOne ==
  ASSUME NEW p \in DOMAIN Programs, NEW h, h = Programs[p].headers, Regular(h), NEW base \in Nat,
         NEW k \in Loadable(h), NEW x \in Int, x \in Segment(base, h, k)
  PROVE  CopyLast(base, h, x) = k
<1>1. ASSUME NEW j \in Loadable(h), x \in Segment(base, h, j) PROVE j = k
  BY <1>1, OneSegment DEF Segment, SegmentAt
<1>2. CopyIn(base, h, x) = {k}
  BY <1>1 DEF CopyIn
<1>3. k \in Nat
  BY ProgramHeaders DEF Loadable
<1>4. k <= k
  BY <1>3
<1> QED
  BY <1>2, <1>4 DEF CopyLast

\* The file's bytes are in the run afterwards, and no byte of another page is written.
LEMMA Copied ==
  ASSUME copy_segments, NEW base \in Nat, base = taken, NEW p \in DOMAIN Programs, p = program[Now.space],
         Loadable(Headers(p)) = {} \/ Regular(Headers(p))
  PROVE  /\ Regular(Headers(p)) => Bytes(base, p)'
         /\ \A x \in DOMAIN memory : x \in Nat /\ x \div PageSize \notin Frames(base, p) =>
               x \in DOMAIN memory' /\ memory'[x] = memory[x]
<1> DEFINE h == Headers(p)
           all == CopyAll(base, h)
           byte(x) == [program |-> p,
                       at |-> h[CopyLast(base, h, x)].offset + x - SegmentAt(base, h, CopyLast(base, h, x))]
<1>0. h = Programs[p].headers
  BY DEF Headers
<1> HIDE DEF h
<1>1. memory' = [x \in DOMAIN memory \union all |-> IF x \in all THEN byte(x) ELSE memory[x]]
  BY <1>0, CopyIs DEF CopyOf
<1> HIDE DEF all, byte
<1>2. DOMAIN memory' = DOMAIN memory \union all
  BY <1>1
<1>3. ASSUME Regular(h) PROVE Bytes(base, p)'
  <2> SUFFICES ASSUME NEW k \in Loadable(h), NEW b \in 0 .. h[k].file - 1
               PROVE  LET x == ByteAt(base, h, k, b)
                      IN  x \in DOMAIN memory' /\ memory'[x] = [program |-> p, at |-> h[k].offset + b]
    BY DEF Bytes, h
  <2> DEFINE x == ByteAt(base, h, k, b)
             a == SegmentAt(base, h, k)
             o == h[k].offset
  <2>1. a \in Int /\ o \in Nat /\ h[k].file \in Nat /\ x \in Segment(base, h, k) /\ x = a + b
    <3>1. SegmentFact(base, h, k)
      BY <1>0, <1>3, SegmentBytes
    <3> QED
      BY <3>1 DEF SegmentFact
  <2>2. b \in Int /\ x \in Int
    BY <2>1
  <2>3. CopyLast(base, h, x) = k
    <3>1. /\ p \in DOMAIN Programs /\ h = Programs[p].headers /\ Regular(h) /\ base \in Nat
          /\ k \in Loadable(h) /\ x \in Int /\ x \in Segment(base, h, k)
      BY <1>0, <1>3, <2>1, <2>2
    <3> HIDE DEF x
    <3> QED
      BY ONLY <3>1, CopyOne
  <2>4. x \in all
    BY <2>1 DEF all, CopyAll
  <2>5. byte(x) = [program |-> p, at |-> o + x - a]
    BY <2>3 DEF byte
  <2> HIDE DEF x, a, o
  <2>6. o + x - a = o + b
    BY <2>1, <2>2
  <2>7. x \in DOMAIN memory' /\ memory'[x] = [program |-> p, at |-> o + b]
    BY <1>1, <1>2, <2>4, <2>5, <2>6
  <2> QED
    BY <2>7 DEF x, o
<1>4. ASSUME NEW x \in DOMAIN memory, x \in Nat, x \div PageSize \notin Frames(base, p)
      PROVE  x \in DOMAIN memory' /\ memory'[x] = memory[x]
  <2>1. x \notin all
    <3> SUFFICES ASSUME x \in all PROVE FALSE
      OBVIOUS
    <3>1. PICK k \in Loadable(h) : x \in Segment(base, h, k)
      BY DEF all, CopyAll
    <3>2. Regular(h)
      BY <3>1 DEF h
    <3>3. PICK b \in 0 .. h[k].file - 1 : x = ByteAt(base, h, k, b)
      <4>1. SegmentFact(base, h, k)
        BY <1>0, <3>1, <3>2, SegmentBytes
      <4> QED
        BY <3>1, <4>1 DEF SegmentFact
    <3>4. PICK i \in 0 .. pages_to_map(h) - 1 : OnPage(base, h, k, b, i)
      BY <1>0, <3>1, <3>2, ByteSpot
    <3>5. x \div PageSize = base + i
      BY <3>3, <3>4 DEF OnPage
    <3> DEFINE n == pages_to_map(h)
    <3>6. n \in Int
      BY <1>0, ProgramTypes
    <3>7. Frames(base, p) = base .. base + n - 1
      BY DEF Frames, h
    <3> HIDE DEF n
    <3>8. i \in 0 .. n - 1
      BY DEF n
    <3>9. base + i \in base .. base + n - 1
      BY <3>6, <3>8
    <3> QED
      BY <1>4, <3>5, <3>7, <3>9
  <2> QED
    BY <1>1, <1>2, <2>1
<1> QED
  BY <1>3, <1>4 DEF h

LEMMA AcceptedKinds ==
  ASSUME Layout, ProgramsOk, NEW s \in 2 .. Len(program), NEW p, p = program[s]
  PROVE  Loadable(Headers(p)) = {} \/ Regular(Headers(p))
<1>1. Accepted(s)
  BY DEF ProgramsOk
<1>2. p \in DOMAIN Programs /\ validate_elf(Programs[p].id)
  BY <1>1 DEF Accepted
<1> QED
  BY <1>2 DEF Layout, Headers

\* The bytes are copied to pages that hold no other image.
LEMMA CopyingStep ==
  ASSUME Layout, QInv, TreeInv, CountInv, ProgramsOk, NEW s \in Nat, s >= 2, s = Len(program),
         NEW p \in DOMAIN Programs, p = program[s], NEW base, Copying(s, p, base), Step
  PROVE  Loading(s, p)'
<1> DEFINE h == Headers(p)
           r == Rest(s, h, 0)
           f == Filler(s)
           z == f \o r
           x == Part("copy", s, 0, 1, "taken", 0, FALSE)
<1>0. [PNext]_allVars
  BY DEF PNext
<1>1. h = Programs[p].headers /\ s \in Nat \ {0} /\ 0 \in Nat
  BY DEF Headers
<1>2. r \in Seq(PartType)
  <2> HIDE DEF h
  <2> QED
    BY <1>1, RestTypes
<1>3. f \in Seq(PartType) /\ f \in Seq(Filling(s))
  BY <1>1, FillerFills
<1>4. x \in PartType /\ x.op = "copy" /\ x.space = s
  BY <1>1 DEF Part, PartType
<1>5. todo = <<x>> \o z /\ base = taken /\ base \in Nat /\ pages_to_map(h) > 0 /\ Frames(base, p) \subseteq Owned
      /\ Others(s, Frames(base, p))
  BY DEF Copying, Copy, Given
<1>6. z \in Seq(PartType)
  <2> HIDE DEF r, f
  <2> QED
    BY <1>2, <1>3, ConcatProperties
<1>7. todo # <<>> /\ Now = x /\ Tail(todo) = z
  <2> HIDE DEF x, z
  <2> QED
    BY <1>4, <1>5, <1>6, FirstPart DEF Now
<1>8. Now.op = "copy" /\ Now.space = s
  BY <1>4, <1>7
<1> HIDE DEF x
<1>9. copy_segments
  BY <1>8 DEF Step, take_pages, init_paging_task, add_table, map_page, alloc_page,
         runs_off, out_of_memory, Doing, Runs
<1>10. todo' = z /\ UNCHANGED <<taken, program>>
  BY <1>7, <1>9 DEF copy_segments
<1>11. Maps' = Maps /\ Owned \subseteq Owned'
  <2>1. ~map_page /\ ~alloc_page
    BY <1>8 DEF map_page, alloc_page
  <2> QED
    BY <1>0, <2>1, MapsStill, QNext, OwnedGrows
<1>12. s \in 2 .. Len(program)
  OBVIOUS
<1>13. Loadable(h) = {} \/ Regular(h)
  BY <1>12, AcceptedKinds
<1> DEFINE F == Frames(base, p)
<1>14. /\ Regular(h) => Bytes(base, p)'
       /\ \A y \in DOMAIN memory : y \in Nat /\ y \div PageSize \notin F =>
               y \in DOMAIN memory' /\ memory'[y] = memory[y]
  <2>1. p = program[Now.space]
    BY <1>8
  <2> QED
    BY <1>5, <1>9, <1>13, <2>1, Copied
<1>15. Others(s, {})'
  <2> HIDE DEF F
  <2>1. Spares(s, F, {})
    BY <1>10, <1>11, <1>14 DEF Spares
  <2> QED
    BY <1>5, <2>1, OthersKept DEF F
<1>16. Given(p, base)'
  BY <1>5, <1>10, <1>11 DEF Given
<1>17. Mapped(base, s, p, 0)'
  BY DEF Mapped
<1>18. 0 \in 0 .. pages_to_map(h) - 1
  <2> DEFINE n == pages_to_map(h)
  <2>1. n \in Int /\ n > 0
    BY <1>1, <1>5, ProgramTypes
  <2> HIDE DEF n
  <2> QED
    BY <2>1 DEF n
<1>19. Entering(s, p, base, 0, f)'
  BY <1>3, <1>10, <1>14, <1>15, <1>16, <1>17, <1>18 DEF Entering
<1> QED
  BY <1>19 DEF Loading

\* Until the image is mapped, its tree is made and filled.
LEMMA FillingStep ==
  ASSUME QInv, TreeInv, CountInv, ProgramsOk, NEW s \in Nat, s >= 2, s = Len(program),
         NEW p \in DOMAIN Programs, NEW base, NEW d, NEW q, Entering(s, p, base, d, q), q # <<>>, Step
  PROVE  Loading(s, p)'
<1> DEFINE h == Headers(p)
           z == Rest(s, h, d)
<1>0. [PNext]_allVars
  BY DEF PNext
<1>1. h = Programs[p].headers /\ s \in Nat \ {0}
  BY DEF Headers
<1>2. /\ d = 0 /\ d \in 0 .. pages_to_map(h) - 1 /\ q \in Seq(Filling(s)) /\ todo = q \o z
      /\ base = taken /\ base \in Nat /\ pages_to_map(h) > 0 /\ Frames(base, p) \subseteq Owned
      /\ Others(s, {})
      /\ Regular(h) => Bytes(base, p)
  BY DEF Entering, Given
<1>3. z \in Seq(PartType)
  <2>1. d \in Nat
    BY <1>2
  <2> HIDE DEF h
  <2> QED
    BY <1>1, <2>1, RestTypes
<1> HIDE DEF z
<1>4. Filling(s) \subseteq PartType
  BY FillingParts
<1>5. q \in Seq(PartType) /\ Head(q) \in Filling(s) /\ Tail(q) \in Seq(Filling(s))
  BY <1>2, <1>4, RestOf
<1>6. todo # <<>> /\ Now = Head(q) /\ Tail(todo) = Tail(q) \o z
  BY <1>2, <1>3, <1>5, FirstOf DEF Now
<1>7. Now \in Filling(s) /\ Now.op \in {"tree", "map", "alloc"}
  BY <1>5, <1>6 DEF Filling
<1>8. ~take_pages /\ ~copy_segments
  BY <1>7 DEF take_pages, copy_segments, Doing
<1>9. memory' = memory /\ program' = program /\ taken' = taken
  BY <1>8 DEF Step, init_paging_task, add_table, map_page, alloc_page, runs_off, out_of_memory, pvars
<1>10. Owned \subseteq Owned'
  BY <1>0, QNext, OwnedGrows
<1>11. \E r \in Seq(Filling(s)) : todo' = r \o z
  <2>1. CASE map_page \/ alloc_page
    <3>1. Advance /\ Now.op \in {"map", "alloc"}
      BY <2>1, EntryWritten
    <3>2. NextOf(Now) \in Filling(s)
      BY <1>7, <3>1, FillingNext
    <3> QED
      BY <1>2, <1>3, <1>4, <3>1, <3>2, AdvancesIn
  <2>2. CASE init_paging_task
    BY <1>5, <1>6, <2>2 DEF init_paging_task
  <2>3. CASE add_table \/ runs_off \/ out_of_memory
    BY <1>2, <2>3 DEF add_table, runs_off, out_of_memory, pvars
  <2> QED
    BY <1>8, <2>1, <2>2, <2>3 DEF Step
<1>12. Spares(s, {}, {})
  <2>1. CASE map_page \/ alloc_page
    <3>1. Now.op \in {"map", "alloc"} /\ \E page : Written(page)
      BY <2>1, EntryWritten
    <3>2. Now.space = s
      BY <1>7, <3>1, FillingNext
    <3>3. Now.space \notin 2 .. s - 1
      BY <3>2
    <3> QED
      BY <1>9, <1>10, <3>1, <3>3, SparesImages
  <2>2. CASE ~map_page /\ ~alloc_page
    <3>1. Maps' = Maps
      BY <1>0, <2>2, MapsStill
    <3> QED
      BY <1>9, <1>10, <3>1, SparesImages
  <2> QED
    BY <2>1, <2>2
<1>13. Others(s, {})'
  <2>1. s - 1 <= Len(program)
    OBVIOUS
  <2> QED
    BY <1>2, <1>12, <2>1, OthersKept
<1>14. Given(p, base)'
  BY <1>2, <1>9, <1>10 DEF Given
<1>15. Regular(h) => Bytes(base, p)'
  BY <1>2, <1>9 DEF Bytes
<1>16. Mapped(base, s, p, d)'
  BY <1>2 DEF Mapped
<1>17. PICK r \in Seq(Filling(s)) : todo' = r \o z
  BY <1>11
<1>18. Entering(s, p, base, d, r)'
  BY <1>2, <1>13, <1>14, <1>15, <1>16, <1>17 DEF Entering, z
<1> QED
  BY <1>18 DEF Loading

LEMMA NextImagePart ==
  ASSUME NEW s \in Nat, NEW p \in DOMAIN Programs, NEW h, h = Programs[p].headers, NEW d \in Nat
  PROVE  NextOf(ImagePart(s, h, d)) = ImagePart(s, h, d + 1)
<1> DEFINE w == ImageStart(h) \div PageSize
           n == pages_to_map(h)
<1>1. w \in Nat /\ n \in Int
  BY ProgramTypes
<1>2. ImagePart(s, h, d) = Part("map", s, w + d, n - d, "taken", d, TRUE)
      /\ ImagePart(s, h, d + 1) = Part("map", s, w + (d + 1), n - (d + 1), "taken", d + 1, TRUE)
  BY DEF ImagePart
<1> HIDE DEF w, n
<1>3. (w + d) + 1 = w + (d + 1) /\ (n - d) - 1 = n - (d + 1)
  BY <1>1
<1>4. NextOf(Part("map", s, w + d, n - d, "taken", d, TRUE))
        = Part("map", s, (w + d) + 1, (n - d) - 1, "taken", d + 1, TRUE)
  <2> DEFINE a == w + d
             b == n - d
             y == Part("map", s, a, b, "taken", d, TRUE)
             c == NextOf(y)
  <2>0. a \in Nat /\ b \in Int
    BY <1>1
  <2> HIDE DEF a, b
  <2>2. /\ y \in PartType /\ y.op = "map" /\ y.space = s /\ y.v = a /\ y.n = b /\ y.from = "taken"
        /\ y.page = d /\ y.user = TRUE
    BY <2>0 DEF Part, PartType
  <2> HIDE DEF y
  <2>3. /\ c \in PartType /\ c.op = "map" /\ c.space = s /\ c.v = a + 1 /\ c.n = b - 1 /\ c.from = "taken"
        /\ c.page = d + 1 /\ c.user = TRUE
    BY <2>2, NextOfParts
  <2> HIDE DEF c
  <2>4. c = Part("map", s, a + 1, b - 1, "taken", d + 1, TRUE)
    BY <2>3 DEF Part, PartType
  <2>1. NextOf(Part("map", s, a, b, "taken", d, TRUE)) = Part("map", s, a + 1, b - 1, "taken", d + 1, TRUE)
    BY <2>4 DEF c, y
  <2> QED
    BY <2>1 DEF a, b
<1> QED
  BY <1>2, <1>3, <1>4

\* The pages of the image are mapped one by one.
LEMMA MappingStep ==
  ASSUME Layout, QInv, TreeInv, CountInv, ProgramsOk, ProgramsOk', NEW s \in Nat, s >= 2, s = Len(program),
         NEW p \in DOMAIN Programs, p = program[s], NEW base, NEW d, Entering(s, p, base, d, <<>>), Step
  PROVE  Settled' \/ Loading(s, p)'
<1> DEFINE h == Headers(p)
           n == pages_to_map(h)
           w == ImageStart(h) \div PageSize
           x == ImagePart(s, h, d)
           z == Behind(s)
<1>0. [PNext]_allVars
  BY DEF PNext
<1>1. h = Programs[p].headers /\ s \in Nat \ {0} /\ n \in Int /\ w \in Nat
  BY ProgramTypes DEF Headers
<1>2. /\ d \in 0 .. n - 1 /\ todo = <<>> \o Rest(s, h, d)
      /\ base = taken /\ base \in Nat /\ n > 0 /\ Frames(base, p) \subseteq Owned
      /\ Others(s, {})
      /\ Regular(h) => Bytes(base, p) /\ Mapped(base, s, p, d)
  BY DEF Entering, Given
<1>3. d \in Nat
  BY <1>2
<1> HIDE DEF h
<1>4. /\ Rest(s, h, d) \in Seq(PartType) /\ Rest(s, h, d) # <<>>
      /\ Head(Rest(s, h, d)) = x /\ Tail(Rest(s, h, d)) = z /\ x \in PartType
  <2>1. p \in DOMAIN Programs /\ h = Programs[p].headers /\ s \in Nat \ {0} /\ d \in Nat
    BY <1>1, <1>3
  <2> QED
    BY ONLY <2>1, RestTypes
<1>5. todo = Rest(s, h, d)
  BY <1>2, <1>4, ConcatEmptySeq
<1>6. todo # <<>> /\ Now = x /\ Tail(todo) = z
  BY <1>4, <1>5 DEF Now
<1> HIDE DEF n, w, z
<1>7. Now.op = "map" /\ Now.space = s /\ Now.v = w + d /\ Now.n = n - d /\ Now.from = "taken"
      /\ Now.page = d /\ Now.user = TRUE
  BY <1>6 DEF ImagePart, Part, n, w
<1> HIDE DEF x
<1>8. add_table \/ map_page \/ runs_off \/ out_of_memory
  BY <1>7 DEF Step, take_pages, copy_segments, init_paging_task, alloc_page, Doing
<1>9. memory' = memory /\ program' = program /\ taken' = taken
  BY <1>8 DEF add_table, map_page, runs_off, out_of_memory, pvars
<1>10. Owned \subseteq Owned'
  BY <1>0, QNext, OwnedGrows
<1>11. \/ Maps' = Maps
       \/ /\ \E page : Written(page)
          /\ Now.space \in 2 .. s - 1 => ~InImage(Now.space, Now.v)
  <2>1. CASE map_page
    <3>1. \E page : Written(page)
      BY <2>1, EntryWritten
    <3>2. Now.space \notin 2 .. s - 1
      BY <1>7
    <3> QED
      BY <3>1, <3>2
  <2>2. CASE ~map_page
    <3>1. ~alloc_page
      BY <1>7 DEF alloc_page
    <3> QED
      BY <1>0, <2>2, <3>1, MapsStill
  <2> QED
    BY <2>1, <2>2
<1>12. Others(s, {})'
  <2>1. s - 1 <= Len(program)
    OBVIOUS
  <2>2. Spares(s, {}, {})
    BY <1>9, <1>10, <1>11, SparesImages
  <2> QED
    BY <1>2, <2>1, <2>2, OthersKept
<1>13. Given(p, base)'
  BY <1>2, <1>9, <1>10 DEF Given, n, h
<1>14. Regular(h) => Bytes(base, p)'
  BY <1>2, <1>9 DEF Bytes
<1>15. CASE ~map_page
  <2>1. todo' = todo
    BY <1>8, <1>15 DEF add_table, runs_off, out_of_memory, pvars
  <2>2. Maps' = Maps
    <3>1. ~alloc_page
      BY <1>7 DEF alloc_page
    <3> QED
      BY <1>0, <1>15, <3>1, MapsStill
  <2>3. Regular(h) => Mapped(base, s, p, d)'
    BY <1>2, <2>2 DEF Mapped
  <2>4. Entering(s, p, base, d, <<>>)'
    <3>1. <<>> \in Seq(Filling(s))
      OBVIOUS
    <3> QED
      BY <1>2, <1>12, <1>13, <1>14, <2>1, <2>3, <3>1 DEF Entering, n, h
  <2> QED
    BY <2>4 DEF Loading
<1>16. CASE map_page
  <2> DEFINE m == [space |-> s, v |-> w + d, page |-> base + d, user |-> TRUE]
  <2>1. PhysAddr = base + d
    BY <1>2, <1>7 DEF PhysAddr
  <2>2. Written(base + d) /\ Advance
    BY <1>16, <2>1, EntryWritten
  <2>3. Maps' = {k \in Maps : ~(k.space = s /\ k.v = w + d)} \union {m}
    BY <1>7, <2>2 DEF Written
  <2>4. Regular(h) => Mapped(base, s, p, d + 1)'
    <3> SUFFICES ASSUME Regular(h), NEW i \in 0 .. (d + 1) - 1
                 PROVE  [space |-> s, v |-> w + i, page |-> base + i, user |-> TRUE] \in Maps'
      BY DEF Mapped, w, h
    <3> DEFINE k == [space |-> s, v |-> w + i, page |-> base + i, user |-> TRUE]
    <3>1. CASE i = d
      BY <2>3, <3>1
    <3>2. CASE i # d
      <4>1. i \in 0 .. d - 1
        BY <1>3, <3>2
      <4>2. k \in Maps
        BY <1>2, <4>1 DEF Mapped, w, h
      <4>3. k.v = w + i /\ w + i # w + d
        BY <1>1, <1>3, <3>2
      <4> HIDE DEF k, m
      <4>4. k \in Maps'
        BY <2>3, <4>2, <4>3
      <4> QED
        BY <4>4 DEF k
    <3> QED
      BY <3>1, <3>2
  <2> HIDE DEF m
  <2>5. todo' = IF n - d = 1 THEN z ELSE <<ImagePart(s, h, d + 1)>> \o z
    <3>1. NextOf(Now) = ImagePart(s, h, d + 1)
      BY <1>1, <1>3, <1>6, NextImagePart DEF x
    <3> QED
      BY <1>6, <1>7, <2>2, <3>1, AdvanceIs
  <2>6. CASE n - d = 1
    <3>1. todo' \in Seq(Harmless')
      <4>1. z \in Seq(Harmless)
        BY <1>1, BehindHarmless DEF z
      <4> QED
        BY <1>9, <2>5, <2>6, <4>1, HarmlessSame
    <3>2. d + 1 = n
      BY <1>1, <1>3, <2>6
    <3>3. Image(s, p, {})'
      <4> SUFFICES ASSUME Regular(h)
                   PROVE  /\ base \in Nat /\ Frames(base, p) \subseteq Owned' \ {}
                          /\ Bytes(base, p)' /\ Mapped(base, s, p, n)'
        BY DEF Image, n, h
      <4> QED
        BY <1>2, <1>10, <1>14, <2>4, <3>2
    <3>4. Present(s, {})'
      BY <1>9, <3>3 DEF Present
    <3>5. \A t \in 2 .. Len(program') : Present(t, {})'
      <4> SUFFICES ASSUME NEW t \in 2 .. Len(program') PROVE Present(t, {})'
        OBVIOUS
      <4>1. t = s \/ t \in 2 .. s - 1
        BY <1>9
      <4> QED
        BY <1>12, <3>4, <4>1 DEF Others
    <3> QED
      BY <3>1, <3>5 DEF Settled
  <2>7. CASE n - d # 1
    <3>1. d + 1 \in 0 .. n - 1
      BY <1>1, <1>2, <1>3, <2>7
    <3>2. todo' = Rest(s, h, d + 1)
      BY <2>5, <2>7 DEF Rest, z
    <3>3. d + 1 \in Nat
      BY <1>3
    <3>4. Rest(s, h, d + 1) \in Seq(PartType)
      BY <1>1, <3>3, RestTypes
    <3>5. todo' = <<>> \o Rest(s, h, d + 1)
      BY <3>2, <3>4, ConcatEmptySeq
    <3>6. <<>> \in Seq(Filling(s))
      OBVIOUS
    <3> DEFINE e == d + 1
    <3>7. Entering(s, p, base, e, <<>>)'
      <4>1. /\ e \in 0 .. n - 1 /\ todo' = <<>> \o Rest(s, h, e)
            /\ Regular(h) => Mapped(base, s, p, e)'
        BY <2>4, <3>1, <3>5
      <4> HIDE DEF e
      <4> QED
        BY <1>12, <1>13, <1>14, <3>6, <4>1 DEF Entering, n, h
    <3> QED
      BY <3>7 DEF Loading
  <2> QED
    BY <2>6, <2>7
<1> QED
  BY <1>15, <1>16

\* The trees and the programs they are made for.
LEMMA ProgramsSame ==
  ASSUME ProgramsOk, program' = program, upto' = upto
  PROVE  ProgramsOk'
  BY DEF ProgramsOk, Accepted

LEMMA IdlePrograms ==
  ASSUME QInv, ProgramsOk, todo = <<>>, roots # <<>>
  PROVE  /\ Len(program) = Len(roots) /\ Len(upto) = Len(roots) /\ Len(roots) \in Nat \ {0}
         /\ upto \in Seq(Nat) /\ program \in Seq(Nat)
<1>1. Len(upto) = Len(roots) /\ roots \in Seq(Nat) /\ upto \in Seq(Nat)
  BY IdleLengths DEF QInv
<1>2. Len(roots) \in Nat \ {0}
  BY <1>1, LenProperties, EmptySeq
<1>3. upto # <<>>
  BY <1>1, <1>2
<1> QED
  BY <1>1, <1>2, <1>3 DEF ProgramsOk

LEMMA SpawnPrograms ==
  ASSUME QInv, ProgramsOk, NEW p \in DOMAIN Programs, spawn(p)
  PROVE  /\ ProgramsOk' /\ Len(program') = Len(program) + 1 /\ program'[Len(program) + 1] = p
         /\ Len(program) = Len(roots) /\ Len(roots) \in Nat \ {0}
         /\ \A t \in 1 .. Len(program) : program'[t] = program[t]
<1> DEFINE end == PAGE_ALIGN_UP(ImageEnd(Headers(p)))
           n == Len(roots)
<1>1. /\ todo = <<>> /\ roots # <<>> /\ validate_elf(Programs[p].id)
      /\ upto' = Append(upto, end) /\ program' = Append(program, p)
  BY DEF spawn, Calling, Headers
<1>2. Len(program) = n /\ Len(upto) = n /\ n \in Nat \ {0} /\ upto \in Seq(Nat) /\ program \in Seq(Nat)
  BY <1>1, IdlePrograms
<1>3. end \in Nat /\ p \in Nat
  <2>1. end \in Nat
    BY ProgramTypes DEF Headers
  <2>2. p \in Nat
    <3>1. Programs \in Seq([id : Identification, headers : Seq(ProgramHeader)])
      BY PagingAssumption
    <3> DEFINE R == [id : Identification, headers : Seq(ProgramHeader)]
    <3> HIDE DEF R
    <3>2. Programs \in Seq(R)
      BY <3>1 DEF R
    <3> QED
      BY <3>2, LenProperties
  <2> QED
    BY <2>1, <2>2
<1> HIDE DEF end, n
<1>4. /\ upto' \in Seq(Nat) /\ Len(upto') = n + 1 /\ upto'[n + 1] = end
      /\ \A t \in 1 .. n : upto'[t] = upto[t]
  BY <1>1, <1>2, <1>3, AppendProperties
<1>5. /\ program' \in Seq(Nat) /\ Len(program') = n + 1 /\ program'[n + 1] = p
      /\ \A t \in 1 .. n : program'[t] = program[t]
  BY <1>1, <1>2, <1>3, AppendProperties
<1>6. upto' # <<>>
  BY <1>2, <1>4
<1>7. ASSUME NEW t \in 2 .. n + 1 PROVE Accepted(t)'
  <2>1. CASE t = n + 1
    <3>1. program'[t] = p /\ upto'[t] = end /\ end <= end
      BY <1>3, <1>4, <1>5, <2>1
    <3> QED
      BY <1>1, <3>1 DEF Accepted, end
  <2>2. CASE t # n + 1
    <3>1. t \in 1 .. n /\ t \in 2 .. Len(program)
      BY <1>2, <2>2
    <3>2. Accepted(t)
      BY <3>1 DEF ProgramsOk
    <3> QED
      BY <1>4, <1>5, <3>1, <3>2 DEF Accepted
  <2> QED
    BY <2>1, <2>2
<1>8. ProgramsOk'
  BY <1>4, <1>5, <1>6, <1>7 DEF ProgramsOk
<1> QED
  BY <1>2, <1>5, <1>8 DEF n

LEMMA MmapPrograms ==
  ASSUME QInv, ProgramsOk, NEW s \in 2 .. Len(roots), NEW addr \in Fixed \union {0}, NEW length \in Lengths,
         syscall_mmap(s, addr, length)
  PROVE  ProgramsOk' /\ s \in 2 .. Len(program) /\ upto[s] \in Nat
<1> DEFINE n == PAGE_ALIGN_UP(length)
           u == [upto EXCEPT ![s] = upto[s] + n]
<1>1. /\ todo = <<>> /\ program' = program
      /\ upto' = IF addr = 0 THEN u ELSE upto
  BY DEF syscall_mmap, Calling
<1>2. n \in Nat
  BY AlignedUpNat, PagingAssumption
<1>3. roots # <<>>
  BY QLengths
<1>4. Len(program) = Len(roots) /\ Len(upto) = Len(roots) /\ upto \in Seq(Nat) /\ Len(roots) \in Nat \ {0}
  BY <1>1, <1>3, IdlePrograms
<1>5. s \in 2 .. Len(program) /\ s \in 1 .. Len(upto) /\ upto[s] \in Nat
  BY <1>4, ElementOfSeq
<1> HIDE DEF n
<1>6. upto[s] + n \in Nat /\ upto[s] <= upto[s] + n
  BY <1>2, <1>5
<1>7. /\ u \in Seq(Nat) /\ Len(u) = Len(upto)
      /\ \A t \in 1 .. Len(upto) : u[t] = IF t = s THEN upto[s] + n ELSE upto[t]
  BY <1>4, <1>5, <1>6, ExceptSeq
<1> HIDE DEF u
<1>8. Len(upto') = Len(upto) /\ upto' # <<>> /\ upto # <<>>
  BY <1>1, <1>4, <1>7
<1>9. ASSUME NEW t \in 2 .. Len(program) PROVE Accepted(t)'
  <2>1. Accepted(t) /\ t \in 1 .. Len(upto)
    BY <1>4 DEF ProgramsOk
  <2>2. upto[t] \in Nat
    BY <1>4, <2>1, ElementOfSeq
  <2>3. upto[t] <= upto'[t] /\ upto'[t] \in Nat
    <3>1. CASE addr = 0
      BY <1>1, <1>6, <1>7, <2>1, <2>2, <3>1
    <3>2. CASE addr # 0
      BY <1>1, <2>2, <3>2
    <3> QED
      BY <3>1, <3>2
  <2> DEFINE end == PAGE_ALIGN_UP(ImageEnd(Headers(program[t])))
  <2>4. program[t] \in DOMAIN Programs /\ validate_elf(Programs[program[t]].id) /\ end <= upto[t]
    BY <2>1 DEF Accepted
  <2>5. end \in Nat
    BY <2>4, ProgramTypes DEF Headers
  <2> HIDE DEF end
  <2>6. end <= upto'[t]
    BY <2>2, <2>3, <2>4, <2>5
  <2> QED
    BY <1>1, <2>4, <2>6 DEF Accepted, end
<1>10. ProgramsOk'
  BY <1>1, <1>8, <1>9 DEF ProgramsOk
<1> QED
  BY <1>5, <1>10

LEMMA ProgramsStep ==
  ASSUME QInv, ProgramsOk, [PNext]_allVars
  PROVE  ProgramsOk'
<1>1. ASSUME program' = program, upto' = upto PROVE ProgramsOk'
  BY <1>1, ProgramsSame
<1>2. CASE init_paging_task
  <2>1. program' = program /\ upto' = IF upto = <<>> THEN <<0>> ELSE upto
    BY <1>2 DEF init_paging_task
  <2>2. CASE upto = <<>>
    <3>1. Len(program') = 1 /\ upto' = <<0>> /\ program' \in Seq(Nat)
      BY <2>1, <2>2 DEF ProgramsOk
    <3>2. upto' # <<>> /\ Len(upto') = 1
      BY <3>1
    <3>3. \A t \in 2 .. Len(program') : FALSE
      BY <3>1
    <3> QED
      BY <3>1, <3>2, <3>3 DEF ProgramsOk
  <2>3. CASE upto # <<>>
    BY <1>1, <2>1, <2>3
  <2> QED
    BY <2>2, <2>3
<1>3. CASE take_pages \/ copy_segments \/ add_table \/ map_page \/ alloc_page \/ runs_off \/ out_of_memory
           \/ init_paging
  BY <1>1, <1>3 DEF take_pages, copy_segments, add_table, map_page, alloc_page, runs_off, out_of_memory,
                    init_paging, pvars
<1>4. ASSUME NEW p \in DOMAIN Programs, spawn(p) PROVE ProgramsOk'
  BY <1>4, SpawnPrograms
<1>5. ASSUME NEW s \in 2 .. Len(roots), NEW addr \in Fixed \union {0}, NEW length \in Lengths,
             syscall_mmap(s, addr, length)
      PROVE  ProgramsOk'
  BY <1>5, MmapPrograms
<1>6. ASSUME NEW n \in Requests, kmalloc_elsewhere(n) PROVE ProgramsOk'
  BY <1>1, <1>6 DEF kmalloc_elsewhere, pvars
<1>7. CASE UNCHANGED allVars
  BY <1>1, <1>7 DEF allVars, pvars
<1> QED
  BY <1>2, <1>3, <1>4, <1>5, <1>6, <1>7 DEF PNext, Step

\* While an image is being loaded, the call has something left to do.
LEMMA LoadingBusy ==
  ASSUME NEW s \in Nat, s >= 2, NEW p \in DOMAIN Programs, Loading(s, p)
  PROVE  todo # <<>>
<1> DEFINE h == Headers(p)
           n == pages_to_map(h)
           r == Rest(s, h, 0)
           f == Filler(s)
           x == Part("take", 0, 0, n, "zero", 0, FALSE)
           y == Part("copy", s, 0, 1, "taken", 0, FALSE)
           z == f \o r
<1>1. h = Programs[p].headers /\ s \in Nat \ {0} /\ n \in Int /\ 0 \in Nat
  BY ProgramTypes DEF Headers
<1>2. \A d \in Nat : Rest(s, h, d) \in Seq(PartType) /\ Rest(s, h, d) # <<>>
  <2> HIDE DEF h
  <2> QED
    BY <1>1, RestTypes
<1>3. r \in Seq(PartType) /\ f \in Seq(PartType)
  BY <1>1, <1>2, FillerFills
<1>4. x \in PartType /\ y \in PartType
  <2> HIDE DEF n
  <2> QED
    BY <1>1 DEF Part, PartType
<1>5. z \in Seq(PartType)
  <2> HIDE DEF r, f
  <2> QED
    BY <1>3, ConcatProperties
<1>6. <<y>> \o z \in Seq(PartType) /\ <<y>> \o z # <<>>
  <2> HIDE DEF y, z
  <2> QED
    BY <1>4, <1>5, FirstPart
<1> DEFINE w == <<y>> \o z
<1>7. <<x>> \o w # <<>>
  <2> HIDE DEF x, w
  <2> QED
    BY <1>4, <1>6, FirstPart DEF w
<1>8. Asking(s, p) => todo = <<x>> \o w
  BY DEF Asking, Take, Copy
<1>9. ASSUME NEW base, Copying(s, p, base) PROVE todo = w
  BY <1>9 DEF Copying, Copy
<1> HIDE DEF w, x, y, z
<1>10. ASSUME NEW base, NEW d, NEW q, Entering(s, p, base, d, q) PROVE todo # <<>>
  <2> DEFINE v == Rest(s, h, d)
  <2>1. d \in Nat /\ q \in Seq(Filling(s)) /\ todo = q \o v
    BY <1>10 DEF Entering
  <2>2. v \in Seq(PartType) /\ v # <<>>
    BY <1>2, <2>1
  <2>3. q \in Seq(PartType)
    BY <2>1, FillingParts, SeqMonotonic
  <2> HIDE DEF v
  <2>4. CASE q = <<>>
    BY <2>1, <2>2, <2>4, ConcatEmptySeq
  <2>5. CASE q # <<>>
    BY <2>1, <2>2, <2>3, <2>5, FirstOf
  <2> QED
    BY <2>4, <2>5
<1> QED
  BY <1>6, <1>7, <1>8, <1>9, <1>10 DEF Loading, w

LEMMA IdleSettled ==
  ASSUME LoadInv, todo = <<>>
  PROVE  Settled
  BY LoadingBusy DEF LoadInv, Unsettled

\* Callers touch no image.
LEMMA CallersSpare ==
  ASSUME QInv, TreeInv, ProgramsOk, Settled, [PNext]_allVars, todo = <<>>, NEW s \in Nat, s = Len(program) + 1,
         memory' = memory, \A t \in 1 .. Len(program) : program'[t] = program[t]
  PROVE  Others(s, {})'
<1>0. Len(program) \in Nat /\ s - 1 = Len(program) /\ s - 1 <= Len(program)
  BY LenProperties DEF ProgramsOk
<1>1. ~map_page /\ ~alloc_page
  BY DEF map_page, alloc_page, Runs, Doing
<1>2. Maps' = Maps /\ Owned \subseteq Owned'
  BY <1>1, MapsStill, QNext, OwnedGrows
<1>3. \A t \in 2 .. s - 1 : program'[t] = program[t]
  BY <1>0
<1>4. Spares(s, {}, {})
  BY <1>2, <1>3, SparesImages
<1>5. Others(s, {})
  BY <1>0 DEF Others, Settled
<1> QED
  BY <1>0, <1>4, <1>5, OthersKept

LEMMA CallersSettle ==
  ASSUME QInv, TreeInv, ProgramsOk, Settled, [PNext]_allVars, todo = <<>>,
         memory' = memory, program' = program, todo' \in Seq(Harmless)
  PROVE  Settled'
<1>0. Len(program) \in Nat
  BY LenProperties DEF ProgramsOk
<1>1. PICK s \in Nat : s = Len(program) + 1
  BY <1>0
<1>2. Others(s, {})'
  BY <1>1, CallersSpare
<1>3. s - 1 = Len(program')
  BY <1>0, <1>1
<1>4. \A t \in 2 .. Len(program') : Present(t, {})'
  BY <1>2, <1>3 DEF Others
<1>5. todo' \in Seq(Harmless')
  BY HarmlessSame
<1> QED
  BY <1>4, <1>5 DEF Settled

\* The kernel's tree holds no image.
LEMMA KernelSettles ==
  ASSUME QInv, TreeInv, ProgramsOk, Settled, init_paging
  PROVE  Settled'
<1>1. /\ todo = <<>> /\ todo' = Filler(1) /\ memory' = memory /\ program' = program
  BY DEF init_paging, Calling, Filler
<1>2. Filler(1) \in Seq(Filling(1))
  <2>1. 1 \in Nat \ {0}
    OBVIOUS
  <2> QED
    BY <2>1, FillerFills
<1>3. Filling(1) \subseteq Harmless
  <2> SUFFICES ASSUME NEW x \in Filling(1) PROVE x \in Harmless
    OBVIOUS
  <2>1. x \in PartType /\ x.op # "copy" /\ (x.op \in {"map", "alloc"} => x.space = 1)
    BY DEF Filling
  <2>2. \A v : ~InImage(1, v)
    BY DEF InImage
  <2> QED
    BY <2>1, <2>2 DEF Harmless
<1>4. todo' \in Seq(Harmless)
  BY <1>1, <1>2, <1>3, SeqMonotonic
<1>5. [PNext]_allVars
  BY DEF PNext
<1> QED
  BY <1>1, <1>4, <1>5, CallersSettle

\* mmap maps behind the image, or where the program asks and no image is.
LEMMA MmapSettles ==
  ASSUME Layout, QInv, TreeInv, ProgramsOk, Settled,
         NEW s \in 2 .. Len(roots), NEW addr \in Fixed \union {0}, NEW length \in Lengths,
         syscall_mmap(s, addr, length)
  PROVE  Settled'
<1> DEFINE n == PAGE_ALIGN_UP(length)
           v == IF addr = 0 THEN upto[s] ELSE addr
<1>1. /\ todo = <<>> /\ todo' = Take(n) \o MapTaken(s, v, length)
      /\ memory' = memory /\ program' = program
  BY DEF syscall_mmap, Calling
<1>2. length \in Nat /\ addr \in Nat /\ n \in Int /\ s \in Nat
  BY PagingAssumption, AlignedUpNat, QLengths
<1>3. s \in 2 .. Len(program) /\ upto[s] \in Nat
  BY MmapPrograms
<1>4. v \in Nat
  BY <1>2, <1>3
<1>5. ASSUME NEW i \in v .. v + length - 1 PROVE ~InImage(s, i)
  <2>1. CASE addr # 0
    <3>1. addr \in Fixed /\ i \in addr .. addr + length - 1
      BY <2>1
    <3>2. i \in UNION {UNION {a .. a + l - 1 : l \in Lengths} : a \in Fixed}
      BY <3>1
    <3>3. i \in Elsewhere
      BY <3>2 DEF Elsewhere
    <3> QED
      BY <3>3, ApartFromImages
  <2>2. CASE addr = 0
    <3> SUFFICES ASSUME InImage(s, i) PROVE FALSE
      OBVIOUS
    <3> DEFINE p == program[s]
               h == Headers(p)
               w == ImageStart(h) \div PageSize
               m == pages_to_map(h)
               end == PAGE_ALIGN_UP(ImageEnd(h))
    <3>1. Accepted(s)
      BY <1>3 DEF ProgramsOk
    <3>2. p \in DOMAIN Programs /\ h = Programs[p].headers /\ end <= upto[s]
      BY <3>1 DEF Accepted, Headers
    <3>3. Regular(h) /\ i \in w .. w + m - 1
      BY DEF InImage, ImagePages
    <3>4. w \in Nat /\ m \in Nat \ {0} /\ end = w + m
      BY <3>2, <3>3, RegularPages
    <3> HIDE DEF p, h, w, m, end
    <3>5. i \in upto[s] .. upto[s] + length - 1
      BY <2>2
    <3> QED
      BY <1>2, <1>3, <3>2, <3>3, <3>4, <3>5
  <2> QED
    BY <2>1, <2>2
<1> HIDE DEF n, v
<1>6. MapTaken(s, v, length) \in Seq(Harmless)
  BY <1>2, <1>4, <1>5, MapHarmless
<1>7. Take(n) \in Seq(Harmless)
  BY <1>2, TakeHarmless
<1>8. todo' \in Seq(Harmless)
  BY <1>1, <1>6, <1>7, ConcatProperties
<1>9. [PNext]_allVars
  BY DEF PNext
<1> QED
  BY <1>1, <1>8, <1>9, CallersSettle

\* spawn begins.
LEMMA SpawnLoads ==
  ASSUME QInv, TreeInv, ProgramsOk, Settled, NEW p \in DOMAIN Programs, spawn(p)
  PROVE  Unsettled'
<1> DEFINE h == Headers(p)
<1>0. [PNext]_allVars
  BY DEF PNext
<1>1. /\ Len(program') = Len(program) + 1 /\ program'[Len(program) + 1] = p
      /\ Len(program) = Len(roots) /\ Len(roots) \in Nat \ {0}
      /\ \A t \in 1 .. Len(program) : program'[t] = program[t]
  BY SpawnPrograms
<1>2. PICK s \in Nat : s = Len(roots) + 1
  BY <1>1
<1>3. s = Len(program) + 1 /\ s >= 2 /\ s = Len(program') /\ p = program'[s] /\ s \in Nat \ {0}
  BY <1>1, <1>2
<1>4. todo = <<>> /\ memory' = memory
  BY DEF spawn, Calling
<1>5. Others(s, {})'
  BY <1>0, <1>1, <1>3, <1>4, CallersSpare
<1>6. h = Programs[p].headers
  BY DEF Headers
<1>7. todo' = Take(pages_to_map(h)) \o (Copy(s) \o (Filler(s) \o Rest(s, h, 0)))
  <2>1. todo' = Take(pages_to_map(h)) \o Copy(s) \o NewTree(s) \o map_all(s)
                \o MapTaken(s, ImageStart(h) \div PageSize, pages_to_map(h))
                \o Alloc(s, UserStack, TRUE) \o Take(1) \o MapTaken(s, Argv, 2)
                \o map_apic_into_task(s)
    BY <1>2, <1>6 DEF spawn
  <2> HIDE DEF h
  <2>2. p \in DOMAIN Programs /\ h = Programs[p].headers /\ s \in Nat \ {0}
    BY <1>3, <1>6
  <2> QED
    BY ONLY <2>1, <2>2, SpawnAsks
<1>8. Asking(s, p)'
  BY <1>5, <1>7 DEF Asking
<1> QED
  BY <1>3, <1>8 DEF Unsettled, Loading

LEMMA LoadSame ==
  ASSUME LoadInv, UNCHANGED allVars
  PROVE  LoadInv'
<1>0. UNCHANGED <<bitmap, last, total, status, tables, roots, todo, taken, upto, program, memory>>
  BY DEF allVars, vars, pvars
<1>1. Maps' = Maps /\ Owned' = Owned
  BY <1>0 DEF Maps, Trees, Placed, Owned
<1>2. \A t, p, out : Image(t, p, out)' <=> Image(t, p, out)
  BY <1>0, <1>1 DEF Image, Bytes, Mapped
<1>3. \A t, out : Present(t, out)' <=> Present(t, out)
  BY <1>0, <1>2 DEF Present
<1>4. \A s, out : Others(s, out)' <=> Others(s, out)
  BY <1>3 DEF Others
<1>5. \A p, base : Given(p, base)' <=> Given(p, base)
  BY <1>0, <1>1 DEF Given
<1>6. ProgramsOk'
  BY <1>0, ProgramsSame DEF LoadInv
<1>7. CASE Settled
  <2>1. Settled'
    BY <1>0, <1>3, <1>7, HarmlessSame DEF Settled
  <2> QED
    BY <1>6, <2>1 DEF LoadInv
<1>8. CASE Unsettled
  <2>1. PICK s \in Nat, p \in DOMAIN Programs :
           s >= 2 /\ s = Len(program) /\ p = program[s] /\ Loading(s, p)
    BY <1>8 DEF Unsettled
  <2>2. Asking(s, p) => Asking(s, p)'
    BY <1>0, <1>4 DEF Asking
  <2>3. \A base : Copying(s, p, base) => Copying(s, p, base)'
    BY <1>0, <1>4, <1>5 DEF Copying
  <2>4. \A base, d, q : Entering(s, p, base, d, q) => Entering(s, p, base, d, q)'
    <3>1. \A base : Bytes(base, p)' <=> Bytes(base, p)
      BY <1>0 DEF Bytes
    <3>2. \A base, d : Mapped(base, s, p, d)' <=> Mapped(base, s, p, d)
      BY <1>1 DEF Mapped
    <3> QED
      BY <1>0, <1>4, <1>5, <3>1, <3>2 DEF Entering
  <2>5. Loading(s, p)'
    BY <2>1, <2>2, <2>3, <2>4 DEF Loading
  <2>6. Unsettled'
    BY <1>0, <2>1, <2>5 DEF Unsettled
  <2> QED
    BY <1>6, <2>6 DEF LoadInv
<1> QED
  BY <1>7, <1>8 DEF LoadInv

LEMMA LoadInit == PInit => LoadInv
<1> SUFFICES ASSUME PInit PROVE LoadInv
  OBVIOUS
<1>1. program = <<0>> /\ upto = <<>> /\ todo = <<>>
  BY DEF PInit
<1>2. program \in Seq(Nat) /\ Len(program) = 1
  BY <1>1
<1>3. \A t \in 2 .. Len(program) : FALSE
  BY <1>2
<1>4. todo \in Seq(Harmless)
  BY <1>1
<1> QED
  BY <1>1, <1>2, <1>3, <1>4 DEF LoadInv, ProgramsOk, Settled

\* No step loses an image, whatever is under way.
LEMMA LoadStep ==
  ASSUME Layout, QInv, TreeInv, CountInv, LoadInv, [PNext]_allVars
  PROVE  LoadInv'
<1>1. ProgramsOk /\ ProgramsOk'
  BY ProgramsStep DEF LoadInv
<1>2. CASE Step
  <2>1. CASE Settled
    BY <1>1, <1>2, <2>1, SettledStep DEF LoadInv
  <2>2. CASE Unsettled
    <3>1. PICK s \in Nat, p \in DOMAIN Programs :
             s >= 2 /\ s = Len(program) /\ p = program[s] /\ Loading(s, p)
      BY <2>2 DEF Unsettled
    <3>2. Settled' \/ Loading(s, p)'
      <4>1. CASE Asking(s, p)
        BY <1>1, <1>2, <3>1, <4>1, AskingStep
      <4>2. ASSUME NEW base, Copying(s, p, base) PROVE Loading(s, p)'
        BY <1>1, <1>2, <3>1, <4>2, CopyingStep
      <4>3. ASSUME NEW base, NEW d, NEW q, Entering(s, p, base, d, q) PROVE Settled' \/ Loading(s, p)'
        <5>1. CASE q = <<>>
          <6>1. Entering(s, p, base, d, <<>>)
            BY <4>3, <5>1
          <6> QED
            BY <1>1, <1>2, <3>1, <6>1, MappingStep
        <5>2. CASE q # <<>>
          BY <1>1, <1>2, <3>1, <4>3, <5>2, FillingStep
        <5> QED
          BY <5>1, <5>2
      <4> QED
        BY <3>1, <4>1, <4>2, <4>3 DEF Loading
    <3>3. program' = program
      BY <1>2 DEF Step, take_pages, copy_segments, init_paging_task, add_table, map_page, alloc_page,
                  runs_off, out_of_memory, pvars
    <3>4. Loading(s, p)' => Unsettled'
      BY <3>1, <3>3 DEF Unsettled
    <3> QED
      BY <1>1, <3>2, <3>4 DEF LoadInv
  <2> QED
    BY <2>1, <2>2 DEF LoadInv
<1>3. ASSUME todo = <<>> PROVE Settled
  BY <1>3, IdleSettled
<1>4. CASE init_paging
  BY <1>1, <1>3, <1>4, KernelSettles DEF LoadInv, init_paging, Calling
<1>5. ASSUME NEW p \in DOMAIN Programs, spawn(p) PROVE LoadInv'
  BY <1>1, <1>3, <1>5, SpawnLoads DEF LoadInv, spawn, Calling
<1>6. ASSUME NEW s \in 2 .. Len(roots), NEW addr \in Fixed \union {0}, NEW length \in Lengths,
             syscall_mmap(s, addr, length)
      PROVE  LoadInv'
  <2>1. todo = <<>>
    BY <1>6 DEF syscall_mmap, Calling
  <2>2. Settled'
    BY <1>1, <1>3, <1>6, <2>1, MmapSettles
  <2> QED
    BY <1>1, <2>2 DEF LoadInv
<1>7. ASSUME NEW n \in Requests, kmalloc_elsewhere(n) PROVE LoadInv'
  <2>1. todo = <<>> /\ todo' = todo /\ memory' = memory /\ program' = program
    BY <1>7 DEF kmalloc_elsewhere, Calling, pvars
  <2>2. todo' \in Seq(Harmless)
    BY <2>1
  <2>3. Settled'
    BY <1>1, <1>3, <2>1, <2>2, CallersSettle
  <2> QED
    BY <1>1, <2>3 DEF LoadInv
<1>8. CASE UNCHANGED allVars
  BY <1>8, LoadSame
<1> QED
  BY <1>2, <1>4, <1>5, <1>6, <1>7, <1>8 DEF PNext

\* An image that is there is seen: the processor finds its pages in the tree, and the
\* bytes in the pages.
LEMMA PresentSeen ==
  ASSUME QInv, TreeInv, NEW t \in Nat, NEW out, Present(t, out), Regular(Headers(program[t])),
         NEW k \in Loadable(Headers(program[t])), NEW b \in 0 .. Headers(program[t])[k].file - 1
  PROVE  Sees(t, Headers(program[t])[k].v + b,
              [program |-> program[t], at |-> Headers(program[t])[k].offset + b])
<1> DEFINE p == program[t]
           h == Headers(p)
           n == pages_to_map(h)
           w == ImageStart(h) \div PageSize
           addr == h[k].v + b
           byte == [program |-> p, at |-> h[k].offset + b]
<1>1. p \in DOMAIN Programs /\ Image(t, p, out) /\ h = Programs[p].headers
  BY DEF Present, Headers
<1>2. PICK base \in Nat : Bytes(base, p) /\ Mapped(base, t, p, n)
  BY <1>1 DEF Image
<1> DEFINE x == ByteAt(base, h, k, b)
<1>3. x \in DOMAIN memory /\ memory[x] = byte
  BY <1>2 DEF Bytes
<1>4. PICK i \in 0 .. n - 1 : OnPage(base, h, k, b, i)
  <2>1. /\ p \in DOMAIN Programs /\ h = Programs[p].headers /\ Regular(h) /\ base \in Nat
        /\ k \in Loadable(h) /\ b \in 0 .. h[k].file - 1
    BY <1>1
  <2> HIDE DEF h, p
  <2> QED
    BY ONLY <2>1, ByteSpot
<1>5. addr \div PageSize = w + i /\ (base + i) * PageSize + (addr % PageSize) = x
  BY <1>4 DEF OnPage
<1>6. [space |-> t, v |-> w + i, page |-> base + i, user |-> TRUE] \in Maps
  BY <1>2 DEF Mapped
<1>7. w \in Nat /\ n \in Int
  BY <1>1, ProgramTypes
<1> HIDE DEF n, w, x, addr, byte, h, p
<1>8. w + i \in Nat
  BY <1>7
<1> DEFINE u == w + i
           f == base + i
<1>9. LET q == TableAt(roots[t], u)[Levels]
      IN  q # 0 /\ tables[q][Index(u, Levels)].present /\ tables[q][Index(u, Levels)].page = f
  <2>1. [space |-> t, v |-> u, page |-> f, user |-> TRUE] \in Maps /\ u \in Nat
    BY <1>6, <1>8
  <2> HIDE DEF u, f
  <2> QED
    BY <2>1, MappingWalked
<1>10. Sees(t, addr, byte)
  <2>1. addr \div PageSize = u /\ f * PageSize + (addr % PageSize) = x
    BY <1>5
  <2> HIDE DEF u, f
  <2> QED
    BY <1>3, <1>9, <2>1 DEF Sees
<1> QED
  BY <1>10 DEF addr, byte, h, p

LEMMA LoadSeen ==
  ASSUME QInv, TreeInv, LoadInv
  PROVE  ImageSeen
<1> SUFFICES ASSUME NEW t \in 2 .. Len(program), t < Len(program) \/ todo = <<>>
             PROVE  /\ validate_elf(Programs[program[t]].id)
                    /\ Regular(Headers(program[t])) =>
                         \A k \in Loadable(Headers(program[t])) :
                            \A b \in 0 .. Headers(program[t])[k].file - 1 :
                               Sees(t, Headers(program[t])[k].v + b,
                                    [program |-> program[t], at |-> Headers(program[t])[k].offset + b])
  BY DEF ImageSeen, Headers
<1>1. t \in Nat /\ validate_elf(Programs[program[t]].id)
  BY DEF LoadInv, ProgramsOk, Accepted
<1>2. \E out : Present(t, out)
  <2>1. CASE Settled
    BY <2>1 DEF Settled
  <2>2. CASE Unsettled
    <3>1. PICK s \in Nat, p \in DOMAIN Programs :
             s >= 2 /\ s = Len(program) /\ p = program[s] /\ Loading(s, p)
      BY <2>2 DEF Unsettled
    <3>2. todo # <<>>
      BY <3>1, LoadingBusy
    <3>3. t \in 2 .. s - 1
      BY <3>1, <3>2
    <3>4. \E out : Others(s, out)
      BY <3>1 DEF Loading, Asking, Copying, Entering
    <3> QED
      BY <3>3, <3>4 DEF Others
  <2> QED
    BY <2>1, <2>2 DEF LoadInv
<1> QED
  BY <1>1, <1>2, PresentSeen

\* A task whose spawn has returned finds every byte of its program's file at the address
\* the file gives it, whatever has been spawned, mapped and handed out since, for every
\* memory map, every shape of the trees and every set of programs that are linked apart
\* from what else is mapped.
THEOREM ImagesSeen ==
  ASSUME Layout
  PROVE  PSpec => []ImageSeen
<1>1. PInit => LoadInv /\ CountInv
  <2>1. PInit => todo = <<>>
    BY DEF PInit
  <2>2. todo = <<>> => Lasting(todo)
    BY DEF Lasting
  <2> QED
    BY <2>1, <2>2, LoadInit DEF CountInv
<1>2. QInv /\ CountInv /\ [PNext]_allVars => CountInv'
  BY CountStep
<1>3. QInv /\ TreeInv /\ CountInv /\ LoadInv /\ [PNext]_allVars => LoadInv'
  BY LoadStep
<1>4. QInv /\ TreeInv /\ LoadInv => ImageSeen
  BY LoadSeen
<1> QED
  BY <1>1, <1>2, <1>3, <1>4, TreesKept, PTL DEF PSpec
=============================================================================
