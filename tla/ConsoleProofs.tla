---------------------------- MODULE ConsoleProofs ----------------------------
(***************************************************************************)
(* Proofs about Console, for every size of screen and font, every text and  *)
(* every number.                                                            *)
(***************************************************************************)
EXTENDS Console, SequenceTheorems, WellFoundedInduction, TLAPS

\* No glyph of screen k was drawn outside of a buffer without padding, and the position
\* is in a line that fits, in a column from lo to the last one.
Fits(k, lo) ==
    /\ Packed => ~k.stray
    /\ k.col \in lo .. Columns - 1
    /\ k.y \in 5 .. Height - CharSize - 1

-----------------------------------------------------------------------------
(* What the operators on a screen do to its position *)

\* swap_framebuffers, painting and colours do not move.
LEMMA SwapFits ==
    ASSUME NEW k, NEW lo, Fits(k, lo)
    PROVE  Fits(swap_framebuffers(k), lo)
BY DEF Fits, swap_framebuffers, Screen

\* A change of background.
LEMMA ColouredFits ==
    ASSUME NEW k, NEW lo, Fits(k, lo), NEW bg
    PROVE  Fits(Coloured(k, bg), lo)
BY DEF Fits, Coloured, Screen

\* clear_screen and pictures.
LEMMA FilledFits ==
    ASSUME NEW k, NEW lo, Fits(k, lo), NEW m, NEW c
    PROVE  Fits(Filled(k, m, c), lo)
BY DEF Fits, Filled, Painted, Screen

\* ch_X -= 8 * n.
LEMMA LeftFits ==
    ASSUME NEW k, NEW lo \in Int, NEW n \in Nat, Fits(k, lo), NEW less \in Int, less = lo - n
    PROVE  Fits(Left(k, n), less)
BY ConsoleAssumption DEF Fits, Left, Moved, Screen

\* A range of columns that begins further left holds all the more.
LEMMA Wider ==
    ASSUME NEW k, NEW lo \in Int, NEW less \in Int, less <= lo, Fits(k, lo)
    PROVE  Fits(k, less)
BY ConsoleAssumption DEF Fits

\* new_line scrolls when the next line would not fit (renderfont.c:66-70).
LEMMA NewLineFits ==
    ASSUME NEW k, Packed => ~k.stray, k.y \in 5 .. Height - CharSize - 1
    PROVE  Fits(new_line(k), 0)
<1> DEFINE n == Moved(k, 0, k.y + CharSize + 1)
<1> DEFINE u == Moved(scroll_pixel(n), n.col, n.y - (CharSize + 1))
<1>1. n.stray = k.stray /\ n.col = 0 /\ n.y = k.y + CharSize + 1
  BY DEF Moved, Screen
<1>2. u.stray = n.stray /\ u.col = n.col /\ u.y = n.y - (CharSize + 1)
  <2> HIDE DEF n
  <2> QED BY DEF Moved, Screen, scroll_pixel, MovedUp, Painted
<1>3. Fits(swap_framebuffers(u), 0)
  <2> HIDE DEF n, u
  <2>1. Fits(u, 0)
    BY <1>1, <1>2, ConsoleAssumption DEF Fits
  <2> QED BY <2>1, SwapFits
<1>4. ~(n.y >= Height - CharSize) => Fits(n, 0)
  <2> HIDE DEF n
  <2> QED BY <1>1, ConsoleAssumption DEF Fits
<1>5. new_line(k) = IF n.y >= Height - CharSize THEN swap_framebuffers(u) ELSE n
  BY DEF new_line, scroll_line
<1> QED
  <2> HIDE DEF n, u
  <2> QED BY <1>3, <1>4, <1>5

\* A row that is one of the screen's, as far as it is not padded.
LEMMA InBuffer ==
    ASSUME Packed, NEW row \in 1 .. Height - 1, NEW col \in -2 .. Columns - 1
    PROVE  At(row, col) \in Buffer
<1>1. Pitch \in Nat /\ Pitch = Columns + 1 /\ Columns \in Nat /\ Columns >= 2 /\ Height \in Nat
  BY ConsoleAssumption, PitchAssumption DEF Packed, PerRow
<1>2. row * Pitch >= Pitch /\ row * Pitch \in Nat
  BY <1>1
<1>3. (Height - 1 - row) * Pitch \in Nat /\ Height * Pitch = row * Pitch + Pitch + (Height - 1 - row) * Pitch
  BY <1>1
<1> DEFINE a == row * Pitch
           h == Height * Pitch
           rest == (Height - 1 - row) * Pitch
<1>4. a >= Pitch /\ a \in Nat /\ rest \in Nat /\ h = a + Pitch + rest
  BY <1>2, <1>3
<1>5. At(row, col) = a + col + 1 /\ Buffer = 0 .. h - 1
  BY <1>1 DEF At, Buffer, PerRow
<1> HIDE DEF a, h, rest
<1>6. a + col + 1 \in 0 .. h - 1
  BY <1>1, <1>4
<1> QED BY <1>5, <1>6

\* A character may be drawn from two columns before the first one on, and the
\* position after it is a column of a line (renderfont.c:72-80).
LEMMA WriteFits ==
    ASSUME NEW k, Fits(k, -2), NEW ch
    PROVE  Fits(write_char(k, ch), 0)
<1> DEFINE d == Moved(draw_char(k, ch), k.col + 1, k.y)
<1>1. Packed => ~Strays(k)
  <2> SUFFICES ASSUME Packed, NEW j \in 0 .. CharSize - 1 PROVE At(k.y + j, k.col) \in Buffer
    BY DEF Strays
  <2>1. k.y + j \in 1 .. Height - 1 /\ k.col \in -2 .. Columns - 1
    BY ConsoleAssumption DEF Fits
  <2> QED BY <2>1, InBuffer
<1>2. d.stray = (k.stray \/ Strays(k)) /\ d.col = k.col + 1 /\ d.y = k.y
  BY DEF Moved, Screen, draw_char
<1>3. (Packed => ~d.stray) /\ d.y \in 5 .. Height - CharSize - 1
  <2> HIDE DEF d
  <2> QED BY <1>1, <1>2 DEF Fits
<1>4. Fits(new_line(d), 0)
  <2> HIDE DEF d
  <2> QED BY <1>3, NewLineFits
<1>5. ~(d.col >= Columns \/ d.col < 0) => Fits(d, 0)
  <2> HIDE DEF d
  <2> QED BY <1>2, <1>3, ConsoleAssumption DEF Fits
<1>6. Fits(new_line(k), 0)
  BY NewLineFits DEF Fits
<1>7. write_char(k, ch) = IF ch = "LF" THEN new_line(k)
                          ELSE IF d.col >= Columns \/ d.col < 0 THEN new_line(d) ELSE d
  BY DEF write_char
<1> QED
  <2> HIDE DEF d
  <2> QED BY <1>4, <1>5, <1>6, <1>7

\* printf of one character.
LEMMA PrintedFits ==
    ASSUME NEW k, Fits(k, -2), NEW ch
    PROVE  Fits(Printed(k, ch), 0)
BY WriteFits, SwapFits DEF Printed

\* The cursor leaves the position in a line or in the margin before it
\* (keyboard.c:63-70).
LEMMA CursorFits ==
    ASSUME NEW k, Fits(k, -2)
    PROVE  Fits(draw_cursor(k), -1)
<1> DEFINE p == write_char(Coloured(k, "white"), " ")
<1> DEFINE b == Coloured(p, k.bg)
<1>1. Fits(p, 0)
  BY ColouredFits, WriteFits
<1>2. Fits(b, 0)
  <2> HIDE DEF p
  <2> QED BY <1>1, ColouredFits
<1>3. Fits(Left(b, 1), -1)
  <2> HIDE DEF b
  <2> QED BY <1>2, LeftFits
<1>4. draw_cursor(k) = swap_framebuffers(Left(b, 1))
  BY DEF draw_cursor
<1> QED
  <2> HIDE DEF b
  <2> QED BY <1>3, <1>4, SwapFits

\* Backspace, also across the beginning of a line (keyboard.c:86-91).
LEMMA ErasedFits ==
    ASSUME NEW k, Fits(k, -1)
    PROVE  Fits(Erased(k), -1)
<1> DEFINE p == Printed(k, " ")
<1> DEFINE q == Printed(Left(p, 2), " ")
<1>1. Fits(p, 0)
  <2>1. Fits(k, -2)
    BY Wider
  <2> QED BY <2>1, PrintedFits
<1>2. Fits(Left(p, 2), -2)
  <2> HIDE DEF p
  <2> QED BY <1>1, LeftFits
<1>3. Fits(q, 0)
  <2> HIDE DEF p
  <2> QED BY <1>2, PrintedFits
<1>4. Fits(Left(q, 1), -1)
  <2> HIDE DEF q
  <2> QED BY <1>3, LeftFits
<1>5. Fits(Left(q, 1), -2)
  <2> HIDE DEF q
  <2> QED BY <1>4, Wider
<1>6. Erased(k) = draw_cursor(Left(q, 1))
  BY DEF Erased
<1> QED
  <2> HIDE DEF q
  <2> QED BY <1>5, <1>6, CursorFits

-----------------------------------------------------------------------------
(* The position on the screen *)

ScreenInv == Fits(con, -1)

\* The screen at boot (kernel/entry.c:58-62, framebuffer.c:62-67).
LEMMA ScreenInit == Init => ScreenInv
<1> SUFFICES ASSUME Init PROVE ScreenInv
  OBVIOUS
<1> QED BY ConsoleAssumption DEF Init, Cleared, Screen, ScreenInv, Fits

\* Every action leaves the position where the next glyph fits.
LEMMA ScreenStep == ScreenInv /\ [Next]_vars => ScreenInv'
<1> SUFFICES ASSUME ScreenInv, [Next]_vars PROVE ScreenInv'
  OBVIOUS
<1> USE DEF ScreenInv
<1>0. Fits(con, -2)
  BY Wider
<1>1. ASSUME con' = con PROVE ScreenInv'
  BY <1>1 DEF Fits
<1>2. ASSUME NEW ch, con' = write_char(con, ch) PROVE ScreenInv'
  BY <1>0, <1>2, WriteFits, Wider
<1>3. ASSUME con' = swap_framebuffers(con) PROVE ScreenInv'
  BY <1>3, SwapFits
<1>4. CASE write_character
  BY <1>4, <1>1, <1>2 DEF write_character
<1>5. CASE printf_ends \/ k_ok_swaps
  BY <1>5, <1>1, <1>3 DEF printf_ends, k_ok_swaps, Shown
<1>6. CASE init_font
  <2>1. PICK l \in Keys : con' = IF font' THEN write_char(write_char(con, l), "LF") ELSE con
    BY <1>6 DEF init_font
  <2>2. Fits(write_char(con, l), -2)
    BY <1>0, WriteFits, Wider
  <2>3. Fits(write_char(write_char(con, l), "LF"), -1)
    BY <2>2, WriteFits, Wider
  <2> QED BY <2>1, <2>3, <1>1
<1>7. CASE clear_screen
  <2> DEFINE f == Filled(con, <<con.bg, 0>>, {c \in Visible : InWidth(c)})
  <2> DEFINE e == Moved(f, 0, 5)
  <2>1. Fits(f, -1)
    BY FilledFits
  <2>2. Fits(e, -1)
    <3> HIDE DEF f
    <3> QED BY <2>1, ConsoleAssumption DEF Fits, Moved, Screen
  <2>3. con' = swap_framebuffers(e)
    BY <1>7 DEF clear_screen
  <2> HIDE DEF e
  <2> QED BY <2>2, <2>3, SwapFits
<1>8. ASSUME NEW n, write_fb_device(n) PROVE ScreenInv'
  <2>1. con' = swap_framebuffers(Filled(con, <<"picture", 0>>, 0 .. n - 1))
    BY <1>8 DEF write_fb_device
  <2> QED BY <2>1, FilledFits, SwapFits
<1>9. CASE read_fb_device
  BY <1>9, <1>3 DEF read_fb_device
<1>10. CASE read_ps2_kb
  <2>1. con' = con \/ con' = draw_cursor(con)
    BY <1>10 DEF read_ps2_kb
  <2> QED BY <2>1, <1>0, <1>1, CursorFits
<1>11. ASSUME NEW ch, echo_character(ch) PROVE ScreenInv'
  <2>1. con' = draw_cursor(Printed(con, ch))
    BY <1>11 DEF echo_character
  <2>2. Fits(Printed(con, ch), -2)
    BY <1>0, PrintedFits, Wider
  <2> QED BY <2>1, <2>2, CursorFits
<1>12. CASE echo_backspace
  BY <1>12, ErasedFits DEF echo_backspace
<1>13. CASE echo_enter
  <2>1. con' = Left(Printed(con, " "), 1)
    BY <1>13 DEF echo_enter
  <2>2. Fits(Printed(con, " "), 0)
    BY <1>0, PrintedFits
  <2>3. \A k : Fits(k, 0) => Fits(Left(k, 1), -1)
    BY LeftFits
  <2> QED BY <2>1, <2>2, <2>3
<1>14. CASE \/ spinlock_aquire \/ write_any_text \/ write_faults \/ k_ok_releases
            \/ boot_message \/ k_ok \/ kmalloc_fails
            \/ exception_handler \/ nested_exception \/ halt
  BY <1>14, <1>1 DEF spinlock_aquire, write_any_text, write_faults, k_ok_releases,
     boot_message, k_ok, kmalloc_fails, exception_handler, nested_exception, halt
<1>15. ASSUME NEW t, kstatusf(t) \/ write(t) PROVE ScreenInv'
  BY <1>15, <1>1 DEF kstatusf, write
<1>16. CASE kpanic
  BY <1>16, ColouredFits DEF kpanic
<1>17. CASE UNCHANGED vars
  BY <1>17, <1>1 DEF vars
<1> QED
  BY <1>4, <1>5, <1>6, <1>7, <1>8, <1>9, <1>10, <1>11, <1>12, <1>13, <1>14, <1>15, <1>16, <1>17
  DEF Next, print

\* No glyph is ever drawn outside of the back buffer of a machine that does not pad its
\* rows, although the column may be the one before the first or two before it.
THEOREM GlyphsInside == Spec => []DrawnInside
<1>1. ScreenInv => DrawnInside
  BY DEF ScreenInv, Fits, DrawnInside
<1> QED BY <1>1, ScreenInit, ScreenStep, PTL DEF Spec

-----------------------------------------------------------------------------
(* Induction over natural numbers, by the least counterexample *)

\* A set of natural numbers that is not empty has a least member.
LEMMA Least ==
  ASSUME NEW T, T \subseteq Nat, T # {}
  PROVE  \E x \in T : \A y \in T : x <= y
<1> DEFINE R == OpToRel(<, Nat)
<1>1. IsWellFoundedOn(R, Nat)
  BY NatLessThanWellFounded
<1>2. \A x, y \in Nat : x < y => <<x, y>> \in R
  BY DEF OpToRel
<1> HIDE DEF R
<1>3. \E x \in T : \A y \in T : ~ (<<y, x>> \in R)
  BY <1>1, WFMin
<1>4. PICK x \in T : \A y \in T : ~ (<<y, x>> \in R)
  BY <1>3
<1>5. \A y \in T : ~(y < x) /\ x \in Nat /\ y \in Nat
  BY <1>2, <1>4
<1>6. \A y \in T : x <= y
  BY <1>5
<1> QED
  BY <1>6

\* A set with 0 and the successor of each of its members has all natural numbers.
LEMMA Induction ==
  ASSUME NEW T, 0 \in T, \A n \in Nat : n \in T => n + 1 \in T
  PROVE  Nat \subseteq T
<1> SUFFICES ASSUME Nat \ T # {} PROVE FALSE
  OBVIOUS
<1>1. PICK x \in Nat \ T : \A y \in Nat \ T : x <= y
  BY Least
<1>2. x # 0 /\ x - 1 \in Nat /\ (x - 1) + 1 = x
  OBVIOUS
<1>3. x - 1 \in T
  BY <1>1, <1>2
<1> QED
  BY <1>2, <1>3

-----------------------------------------------------------------------------
(* The digits of a number, least first *)

\* Each digit has a name of its own, and no text that is still to be chosen is one.
LEMMA DigitsDistinct ==
  /\ \A v \in 0 .. 15 : DigitNames[v + 1] \in Digits
  /\ \A v, w \in 0 .. 15 : DigitNames[v + 1] = DigitNames[w + 1] => v = w
  /\ "conv" \notin Digits /\ "0" \in Digits /\ DigitNames[0 + 1] = "0"
  BY DEF Digits, DigitNames

\* One digit more in front of the digits of the quotient.
Longer(base, n, rest) ==
    IF n < base THEN <<DigitNames[n + 1]>> ELSE <<DigitNames[(n % base) + 1]>> \o rest

\* What is left of a number without its last digit is smaller.
LEMMA Smaller ==
  ASSUME NEW base \in 2 .. 16, NEW n \in Nat
  PROVE  /\ n \div base \in Nat /\ n \div base <= n /\ (n > 0 => n \div base < n)
         /\ n % base \in 0 .. base - 1 /\ (n \div base) * base + (n % base) = n
<1> DEFINE q == n \div base
<1>1. base \in Nat \ {0} /\ base >= 2
  OBVIOUS
<1>2. q \in Nat /\ base * q <= n /\ n % base = n - base * q
  BY <1>1
<1>3. n % base \in 0 .. base - 1
  BY <1>1
<1> HIDE DEF q
<1>4. base * q >= 2 * q /\ q * base = base * q /\ base * q \in Nat
  BY <1>1, <1>2
<1>5. q <= n /\ (n > 0 => q < n)
  BY <1>2, <1>4
<1>6. q * base + (n % base) = n
  BY <1>2, <1>4
<1> QED
  BY <1>2, <1>3, <1>5, <1>6 DEF q

\* The digits of the numbers up to n.
IsPart(f, base, n) == f = [k \in 0 .. n |-> Longer(base, k, f[k \div base])]

\* What such a function has for a number in its range.
LEMMA PartValue ==
  ASSUME NEW f, NEW base, NEW n \in Nat, IsPart(f, base, n), NEW k \in 0 .. n
  PROVE  f[k] = Longer(base, k, f[k \div base])
  BY DEF IsPart

\* There is one for every n.
LEMMA PartExists ==
  ASSUME NEW base \in 2 .. 16
  PROVE  \A n \in Nat : \E f : IsPart(f, base, n)
<1> DEFINE T == {n \in Nat : \E f : IsPart(f, base, n)}
<1>1. 0 \in T
  <2> DEFINE f == [k \in 0 .. 0 |-> Longer(base, 0, <<>>)]
  <2>1. \A r : Longer(base, 0, r) = Longer(base, 0, <<>>)
    BY DEF Longer
  <2>2. f = [k \in 0 .. 0 |-> Longer(base, k, f[k \div base])]
    BY <2>1
  <2> HIDE DEF f
  <2>3. IsPart(f, base, 0)
    BY <2>2 DEF IsPart
  <2> QED
    BY <2>3
<1>2. ASSUME NEW n \in Nat, n \in T PROVE n + 1 \in T
  <2>1. PICK f : IsPart(f, base, n)
    BY <1>2
  <2> DEFINE last1 == Longer(base, n + 1, f[(n + 1) \div base])
             g == [k \in 0 .. n + 1 |-> IF k <= n THEN f[k] ELSE last1]
  <2>2. ASSUME NEW k \in 0 .. n + 1 PROVE g[k] = Longer(base, k, g[k \div base])
    <3>1. k \in Nat /\ k \div base \in Nat /\ k \div base <= k /\ (k > 0 => k \div base < k)
      BY Smaller
    <3>2. k \div base \in 0 .. n /\ k \div base \in 0 .. n + 1
      BY <3>1
    <3>3. g[k \div base] = f[k \div base]
      BY <3>2
    <3>4. CASE k <= n
      <4>1. k \in 0 .. n /\ g[k] = f[k]
        BY <3>1, <3>4
      <4>2. f[k] = Longer(base, k, f[k \div base])
        BY <2>1, <4>1, PartValue
      <4> HIDE DEF g
      <4> QED
        BY <3>3, <4>1, <4>2
    <3>5. CASE ~(k <= n)
      <4>1. k = n + 1 /\ g[k] = last1
        BY <3>1, <3>5
      <4> HIDE DEF g
      <4> QED
        BY <3>3, <4>1
    <3> QED
      BY <3>4, <3>5
  <2>3. g = [k \in 0 .. n + 1 |-> Longer(base, k, g[k \div base])]
    BY <2>2
  <2> HIDE DEF g
  <2>4. IsPart(g, base, n + 1)
    BY <2>3 DEF IsPart
  <2> QED
    BY <2>4
<1> HIDE DEF T
<1>3. Nat \subseteq T
  BY <1>1, <1>2, Induction
<1> QED
  BY <1>3 DEF T

\* Any two agree as far as both go.
LEMMA PartUnique ==
  ASSUME NEW base \in 2 .. 16, NEW m \in Nat, NEW n \in Nat, m <= n,
         NEW f, NEW g, IsPart(f, base, m), IsPart(g, base, n)
  PROVE  f[m] = g[m]
<1> DEFINE T == {k \in Nat : k <= m /\ f[k] # g[k]}
<1> SUFFICES ASSUME f[m] # g[m] PROVE FALSE
  OBVIOUS
<1>1. m \in T /\ T \subseteq Nat
  OBVIOUS
<1>2. PICK k \in T : \A j \in T : k <= j
  BY <1>1, Least
<1>3. k \in Nat /\ k <= m /\ f[k] # g[k]
  OBVIOUS
<1>4. f[k] = Longer(base, k, f[k \div base]) /\ g[k] = Longer(base, k, g[k \div base])
  BY <1>3, PartValue
<1>5. k \div base \in Nat /\ k \div base <= k /\ (k > 0 => k \div base < k)
  BY <1>3, Smaller
<1>6. CASE k = 0
  BY <1>3, <1>4, <1>6 DEF Longer
<1>7. CASE k > 0
  <2>1. k \div base \notin T
    BY <1>2, <1>3, <1>5, <1>7
  <2>2. f[k \div base] = g[k \div base]
    BY <1>3, <1>5, <2>1
  <2> QED
    BY <1>3, <1>4, <2>2
<1> QED
  BY <1>3, <1>6, <1>7

\* The recursive function of LeastFirst, under a name.
IsAll(d, base) == d = [n \in Nat |-> Longer(base, n, d[n \div base])]

AllDigits(base) == CHOOSE d : IsAll(d, base)

\* It exists: the last digit, and in front of it the digits of the quotient.
LEMMA DigitsEquation ==
  ASSUME NEW base \in 2 .. 16, NEW n \in Nat
  PROVE  LeastFirst(n, base) = Longer(base, n, LeastFirst(n \div base, base))
<1> DEFINE part == [k \in Nat |-> CHOOSE f : IsPart(f, base, k)]
           d == [k \in Nat |-> part[k][k]]
<1>1. ASSUME NEW k \in Nat PROVE IsPart(part[k], base, k)
  BY PartExists
<1>2. ASSUME NEW k \in Nat PROVE d[k] = Longer(base, k, d[k \div base])
  <2>1. k \div base \in Nat /\ k \div base <= k /\ k \in 0 .. k
    BY Smaller
  <2>2. IsPart(part[k], base, k) /\ IsPart(part[k \div base], base, k \div base)
    BY <1>1, <2>1
  <2>3. d[k] = part[k][k] /\ d[k \div base] = part[k \div base][k \div base]
    BY <2>1
  <2> HIDE DEF d, part
  <2>4. part[k][k] = Longer(base, k, part[k][k \div base])
    BY <2>1, <2>2, PartValue
  <2>5. part[k \div base][k \div base] = part[k][k \div base]
    BY <2>1, <2>2, PartUnique
  <2> QED
    BY <2>3, <2>4, <2>5
<1>3. IsAll(d, base)
  <2>1. d = [k \in Nat |-> d[k]]
    OBVIOUS
  <2> HIDE DEF d
  <2> QED
    BY <1>2, <2>1 DEF IsAll
<1> HIDE DEF d
<1>4. IsAll(AllDigits(base), base)
  BY <1>3 DEF AllDigits
<1>5. \A k : LeastFirst(k, base) = AllDigits(base)[k]
  BY DEF LeastFirst, AllDigits, IsAll, Longer
<1>6. AllDigits(base)[n] = Longer(base, n, AllDigits(base)[n \div base])
  BY <1>4 DEF IsAll
<1> QED
  BY <1>5, <1>6

\* A number has digits, and at least one.
LEMMA DigitsType ==
  ASSUME NEW base \in 2 .. 16
  PROVE  \A n \in Nat : LeastFirst(n, base) \in Seq(Digits) /\ LeastFirst(n, base) # <<>>
<1> DEFINE Bad == {n \in Nat : ~(LeastFirst(n, base) \in Seq(Digits) /\ LeastFirst(n, base) # <<>>)}
<1> SUFFICES ASSUME Bad # {} PROVE FALSE
  OBVIOUS
<1>1. Bad \subseteq Nat
  OBVIOUS
<1>2. PICK n \in Bad : \A m \in Bad : n <= m
  BY <1>1, Least
<1> DEFINE rest == LeastFirst(n \div base, base)
           x == DigitNames[(n % base) + 1]
<1>3. n \in Nat /\ ~(LeastFirst(n, base) \in Seq(Digits) /\ LeastFirst(n, base) # <<>>)
  OBVIOUS
<1> HIDE DEF Bad
<1>4. LeastFirst(n, base) = Longer(base, n, rest)
  BY <1>3, DigitsEquation
<1>5. CASE n < base
  <2>1. n \in 0 .. 15
    BY <1>3, <1>5
  <2>2. DigitNames[n + 1] \in Digits
    BY <2>1, DigitsDistinct
  <2>3. LeastFirst(n, base) = <<DigitNames[n + 1]>>
    BY <1>4, <1>5 DEF Longer
  <2> QED
    BY <1>3, <2>2, <2>3
<1>6. CASE ~(n < base)
  <2>1. n > 0 /\ n \div base \in Nat /\ n \div base < n /\ n % base \in 0 .. 15
    <3>1. n > 0
      BY <1>3, <1>6
    <3>2. n \div base \in Nat /\ n \div base < n /\ n % base \in 0 .. base - 1
      BY <1>3, <3>1, Smaller
    <3> QED
      BY <3>1, <3>2
  <2>2. n \div base \notin Bad
    BY <1>2, <1>3, <2>1
  <2>3. rest \in Seq(Digits)
    BY <2>1, <2>2 DEF Bad
  <2>4. x \in Digits
    BY <2>1, DigitsDistinct
  <2>5. LeastFirst(n, base) = <<x>> \o rest
    BY <1>4, <1>6 DEF Longer
  <2> HIDE DEF x, rest
  <2>6. <<x>> \in Seq(Digits) /\ Len(<<x>>) = 1
    BY <2>4
  <2>7. <<x>> \o rest \in Seq(Digits) /\ Len(<<x>> \o rest) = 1 + Len(rest) /\ Len(rest) \in Nat
    BY <2>3, <2>6, ConcatProperties, LenProperties
  <2>8. <<x>> \o rest # <<>>
    BY <2>7, EmptySeq
  <2> QED
    BY <1>3, <2>5, <2>7, <2>8
<1> QED
  BY <1>5, <1>6

\* What is read backwards.
LEMMA Reversed ==
  ASSUME NEW S, NEW q \in Seq(S)
  PROVE  /\ ku_reverse(q) \in Seq(S) /\ Len(ku_reverse(q)) = Len(q)
         /\ \A k \in 1 .. Len(q) : ku_reverse(q)[k] = q[Len(q) + 1 - k]
<1>1. Len(q) \in Nat /\ DOMAIN q = 1 .. Len(q)
  BY LenProperties
<1>2. ku_reverse(q) = [n \in 1 .. Len(q) |-> q[Len(q) + 1 - n]]
  BY <1>1 DEF ku_reverse
<1>3. \A n \in 1 .. Len(q) : Len(q) + 1 - n \in 1 .. Len(q)
  BY <1>1
<1>4. \A n \in 1 .. Len(q) : q[n] \in S
  BY <1>1, ElementOfSeq
<1>5. ku_reverse(q) \in [1 .. Len(q) -> S]
  BY <1>2, <1>3, <1>4
<1>6. ku_reverse(q) \in Seq(S) /\ DOMAIN ku_reverse(q) = 1 .. Len(q)
  BY <1>1, <1>5, SeqDef
<1>7. Len(ku_reverse(q)) = Len(q)
  BY <1>1, <1>6, LenProperties
<1> QED
  BY <1>2, <1>6, <1>7

-----------------------------------------------------------------------------
(* The value of a row of digits *)

ValueOf(d) == CHOOSE v \in 0 .. 15 : DigitNames[v + 1] = d

\* The value of a digit's name is the digit.
LEMMA DigitValue ==
  ASSUME NEW r \in 0 .. 15
  PROVE  ValueOf(DigitNames[r + 1]) = r
<1> DEFINE d == DigitNames[r + 1]
<1>1. \E v \in 0 .. 15 : DigitNames[v + 1] = d
  OBVIOUS
<1> HIDE DEF d
<1>2. ValueOf(d) \in 0 .. 15 /\ DigitNames[ValueOf(d) + 1] = d
  BY <1>1 DEF ValueOf
<1>3. ValueOf(d) = r
  BY <1>2, DigitsDistinct DEF d
<1> QED
  BY <1>3 DEF d

\* The recursive function of Value, under a name.
IsSum(f, digits, base) ==
    f = [n \in 0 .. Len(digits) |-> IF n = 0 THEN 0 ELSE f[n - 1] * base + ValueOf(digits[n])]

SumOf(digits, base) == CHOOSE f : IsSum(f, digits, base)

\* The value of a text of digits is the sum over all of them.
LEMMA ValueIsSum ==
  ASSUME NEW digits, NEW base
  PROVE  Value(digits, base) = SumOf(digits, base)[Len(digits)]
  BY DEF Value, SumOf, IsSum, ValueOf

\* That function exists: it adds one digit after the other.
LEMMA SumEquation ==
  ASSUME NEW digits \in Seq(Digits), NEW base
  PROVE  /\ SumOf(digits, base)[0] = 0
         /\ \A n \in 1 .. Len(digits) :
              SumOf(digits, base)[n] = SumOf(digits, base)[n - 1] * base + ValueOf(digits[n])
<1> DEFINE Is(f, n) == f = [k \in 0 .. n |-> IF k = 0 THEN 0 ELSE f[k - 1] * base + ValueOf(digits[k])]
           T == {n \in Nat : \E f : Is(f, n)}
<1>1. 0 \in T
  <2> DEFINE f == [k \in 0 .. 0 |-> 0]
  <2>1. f = [k \in 0 .. 0 |-> IF k = 0 THEN 0 ELSE f[k - 1] * base + ValueOf(digits[k])]
    OBVIOUS
  <2> QED
    BY <2>1
<1>2. ASSUME NEW n \in Nat, n \in T PROVE n + 1 \in T
  <2>1. PICK f : Is(f, n)
    BY <1>2
  <2> DEFINE g == [k \in 0 .. n + 1 |->
                     IF k <= n THEN f[k] ELSE f[n] * base + ValueOf(digits[n + 1])]
  <2>2. ASSUME NEW k \in 0 .. n + 1
        PROVE  g[k] = IF k = 0 THEN 0 ELSE g[k - 1] * base + ValueOf(digits[k])
    <3>1. CASE k <= n
      <4>1. k \in 0 .. n /\ (k # 0 => k - 1 \in 0 .. n /\ k - 1 \in 0 .. n + 1 /\ k - 1 <= n)
        BY <3>1
      <4>2. g[k] = f[k] /\ (k # 0 => g[k - 1] = f[k - 1])
        BY <3>1, <4>1
      <4>3. f[k] = IF k = 0 THEN 0 ELSE f[k - 1] * base + ValueOf(digits[k])
        BY <2>1, <4>1
      <4> HIDE DEF g, Is
      <4> QED
        BY <4>2, <4>3
    <3>2. CASE k = n + 1
      <4>1. ~(k <= n) /\ k - 1 = n /\ k # 0 /\ n \in 0 .. n + 1 /\ n <= n
        BY <3>2
      <4>2. g[k] = f[n] * base + ValueOf(digits[n + 1]) /\ g[n] = f[n]
        BY <4>1
      <4> HIDE DEF g, Is
      <4> QED
        BY <3>2, <4>1, <4>2
    <3> QED
      BY <3>1, <3>2
  <2>3. Is(g, n + 1)
    BY <2>2
  <2> HIDE DEF g, Is
  <2> QED
    BY <2>3
<1>3. Len(digits) \in Nat
  BY LenProperties
<1> HIDE DEF T
<1>4. Len(digits) \in T
  BY <1>1, <1>2, <1>3, Induction
<1>5. \E f : IsSum(f, digits, base)
  BY <1>4 DEF T, IsSum
<1>6. IsSum(SumOf(digits, base), digits, base)
  BY <1>5 DEF SumOf
<1> DEFINE f == SumOf(digits, base)
<1>7. f = [n \in 0 .. Len(digits) |-> IF n = 0 THEN 0 ELSE f[n - 1] * base + ValueOf(digits[n])]
  BY <1>6 DEF IsSum
<1> HIDE DEF f
<1>8. f[0] = 0 /\ \A n \in 1 .. Len(digits) : f[n] = f[n - 1] * base + ValueOf(digits[n])
  <2>1. 0 \in 0 .. Len(digits) /\ \A n \in 1 .. Len(digits) : n \in 0 .. Len(digits) /\ n # 0
    BY <1>3
  <2> QED
    BY <1>7, <2>1
<1> QED
  BY <1>8 DEF f

\* Row b begins with p noughts, and goes on with the digits of a.
Continues(a, b, p) ==
    /\ a \in Seq(Digits) /\ b \in Seq(Digits) /\ p + Len(a) <= Len(b)
    /\ \A k \in 1 .. p : b[k] = "0"
    /\ \A k \in 1 .. Len(a) : b[p + k] = a[k]

\* Noughts in front do not change a value.
LEMMA NoughtsCountNothing ==
  ASSUME NEW a, NEW b, NEW p \in Nat, NEW base \in 2 .. 16, Continues(a, b, p)
  PROVE  \A k \in 0 .. Len(a) : SumOf(b, base)[p + k] = SumOf(a, base)[k]
<1> DEFINE f == SumOf(a, base)
           g == SumOf(b, base)
           Z == {k \in Nat : k <= p => g[k] = 0}
           T == {k \in Nat : k <= Len(a) => g[p + k] = f[k]}
<1>0. a \in Seq(Digits) /\ b \in Seq(Digits) /\ Len(a) \in Nat /\ Len(b) \in Nat /\ p + Len(a) <= Len(b)
  BY LenProperties DEF Continues
<1>1. /\ f[0] = 0 /\ \A n \in 1 .. Len(a) : f[n] = f[n - 1] * base + ValueOf(a[n])
      /\ g[0] = 0 /\ \A n \in 1 .. Len(b) : g[n] = g[n - 1] * base + ValueOf(b[n])
  BY <1>0, SumEquation
<1> HIDE DEF f, g
<1>2. ValueOf("0") = 0
  BY DigitValue, DigitsDistinct
<1>3. p \in Z
  <2>1. 0 \in Z
    BY <1>1
  <2>2. ASSUME NEW n \in Nat, n \in Z PROVE n + 1 \in Z
    <3> SUFFICES ASSUME n + 1 <= p PROVE g[n + 1] = 0
      OBVIOUS
    <3>1. n + 1 \in 1 .. p /\ n + 1 \in 1 .. Len(b) /\ (n + 1) - 1 = n /\ n <= p
      BY <1>0
    <3>2. b[n + 1] = "0"
      BY <3>1 DEF Continues
    <3>3. g[n] = 0
      BY <2>2, <3>1
    <3>4. g[n + 1] = 0 * base + 0
      BY <1>1, <1>2, <3>1, <3>2, <3>3
    <3> QED
      BY <3>4
  <2> HIDE DEF Z
  <2> QED
    BY <2>1, <2>2, Induction
<1>4. 0 \in T
  BY <1>1, <1>3
<1>5. ASSUME NEW n \in Nat, n \in T PROVE n + 1 \in T
  <2> SUFFICES ASSUME n + 1 <= Len(a) PROVE g[p + (n + 1)] = f[n + 1]
    OBVIOUS
  <2>1. /\ n + 1 \in 1 .. Len(a) /\ p + (n + 1) \in 1 .. Len(b) /\ (n + 1) - 1 = n
        /\ (p + (n + 1)) - 1 = p + n /\ n <= Len(a)
    BY <1>0
  <2>2. b[p + (n + 1)] = a[n + 1]
    BY <2>1 DEF Continues
  <2>3. g[p + n] = f[n]
    BY <1>5, <2>1
  <2> DEFINE j == p + (n + 1)
             i == n + 1
  <2>4. g[j] = g[p + n] * base + ValueOf(b[j]) /\ f[i] = f[n] * base + ValueOf(a[i])
    BY <1>1, <2>1
  <2> HIDE DEF j, i
  <2>5. g[j] = f[i]
    BY <2>2, <2>3, <2>4 DEF j, i
  <2> QED
    BY <2>5 DEF j, i
<1> HIDE DEF T, Z
<1>6. Nat \subseteq T
  BY <1>4, <1>5, Induction
<1>7. ASSUME NEW k \in 0 .. Len(a) PROVE g[p + k] = f[k]
  <2>1. k \in Nat /\ k <= Len(a)
    BY <1>0
  <2> QED
    BY <1>6, <2>1 DEF T
<1> QED
  BY <1>7 DEF f, g

\* The digits that are found, read backwards, denote the number.
LEMMA ReversedValue ==
  ASSUME NEW base \in 2 .. 16
  PROVE  \A n \in Nat : Value(ku_reverse(LeastFirst(n, base)), base) = n
<1> DEFINE Bad == {n \in Nat : Value(ku_reverse(LeastFirst(n, base)), base) # n}
<1> SUFFICES ASSUME Bad # {} PROVE FALSE
  OBVIOUS
<1>1. Bad \subseteq Nat
  OBVIOUS
<1>2. PICK n \in Bad : \A m \in Bad : n <= m
  BY <1>1, Least
<1> DEFINE e == LeastFirst(n, base)
           b == ku_reverse(e)
<1>3. n \in Nat /\ Value(b, base) # n
  OBVIOUS
<1>4. e \in Seq(Digits)
  BY <1>3, DigitsType
<1>5. b \in Seq(Digits) /\ Len(b) = Len(e) /\ \A k \in 1 .. Len(e) : b[k] = e[Len(e) + 1 - k]
  BY <1>4, Reversed
<1>6. /\ SumOf(b, base)[0] = 0
      /\ \A k \in 1 .. Len(b) : SumOf(b, base)[k] = SumOf(b, base)[k - 1] * base + ValueOf(b[k])
  BY <1>5, SumEquation
<1>7. Value(b, base) = SumOf(b, base)[Len(b)]
  BY ValueIsSum
<1>8. e = Longer(base, n, LeastFirst(n \div base, base))
  BY <1>3, DigitsEquation
<1> HIDE DEF Bad, e, b
<1>9. CASE n < base
  <2>1. n \in 0 .. 15
    BY <1>3, <1>9
  <2>2. e = <<DigitNames[n + 1]>>
    BY <1>8, <1>9 DEF Longer
  <2>3. Len(e) = 1 /\ e[1] = DigitNames[n + 1]
    BY <2>2
  <2>4. Len(b) = 1 /\ b[1] = DigitNames[n + 1]
    BY <1>5, <2>3
  <2>5. SumOf(b, base)[1] = 0 * base + ValueOf(b[1])
    BY <1>6, <2>4
  <2>6. ValueOf(b[1]) = n
    BY <2>1, <2>4, DigitValue
  <2>7. SumOf(b, base)[1] = n
    BY <1>3, <2>5, <2>6
  <2> QED
    BY <1>3, <1>7, <2>4, <2>7
<1>10. CASE ~(n < base)
  <2> DEFINE q == n \div base
             r == n % base
             rest == LeastFirst(q, base)
             a == ku_reverse(rest)
             x == DigitNames[r + 1]
  <2>1. n > 0
    BY <1>3, <1>10
  <2>2. q \in Nat /\ q < n /\ r \in 0 .. base - 1 /\ q * base + r = n
    BY <1>3, <2>1, Smaller
  <2>3. q \notin Bad
    BY <1>2, <1>3, <2>2
  <2>4. Value(a, base) = q
    BY <2>2, <2>3 DEF Bad
  <2>5. rest \in Seq(Digits)
    BY <2>2, DigitsType
  <2>6. r \in 0 .. 15
    <3> HIDE DEF r
    <3> QED
      BY <2>2
  <2>7. x \in Digits /\ ValueOf(x) = r
    BY <2>6, DigitsDistinct, DigitValue
  <2>8. e = <<x>> \o rest
    BY <1>8, <1>10 DEF Longer
  <2>9. /\ a \in Seq(Digits) /\ Len(a) = Len(rest)
        /\ \A k \in 1 .. Len(rest) : a[k] = rest[Len(rest) + 1 - k]
    BY <2>5, Reversed
  <2>10. Value(a, base) = SumOf(a, base)[Len(a)]
    BY ValueIsSum
  <2> HIDE DEF q, r, rest, a, x
  <2>11. /\ Len(rest) \in Nat /\ Len(e) = 1 + Len(rest) /\ e[1] = x
         /\ \A k \in 1 .. Len(rest) : e[k + 1] = rest[k]
    <3>1. <<x>> \in Seq(Digits) /\ Len(<<x>>) = 1 /\ <<x>>[1] = x /\ Len(rest) \in Nat
      BY <2>5, <2>7, LenProperties
    <3>2. /\ Len(e) = 1 + Len(rest)
          /\ \A k \in 1 .. 1 + Len(rest) : e[k] = IF k <= 1 THEN <<x>>[k] ELSE rest[k - 1]
      BY <2>5, <2>8, <3>1, ConcatProperties
    <3>3. e[1] = x
      BY <3>1, <3>2
    <3>4. ASSUME NEW k \in 1 .. Len(rest) PROVE e[k + 1] = rest[k]
      <4>1. k + 1 \in 1 .. 1 + Len(rest) /\ ~(k + 1 <= 1) /\ (k + 1) - 1 = k
        BY <3>1
      <4> QED
        BY <3>2, <4>1
    <3> QED
      BY <3>1, <3>2, <3>3, <3>4
  <2>12. Continues(a, b, 0)
    <3>1. ASSUME NEW k \in 1 .. Len(a) PROVE b[0 + k] = a[k]
      <4>1. /\ k \in 1 .. Len(e) /\ Len(rest) + 1 - k \in 1 .. Len(rest)
            /\ (Len(rest) + 1 - k) + 1 = Len(e) + 1 - k /\ 0 + k = k
        BY <2>9, <2>11
      <4>2. b[k] = e[Len(e) + 1 - k]
        BY <1>5, <4>1
      <4>3. e[(Len(rest) + 1 - k) + 1] = rest[Len(rest) + 1 - k]
        BY <2>11, <4>1
      <4>4. a[k] = rest[Len(rest) + 1 - k]
        BY <2>9
      <4> QED
        BY <4>1, <4>2, <4>3, <4>4
    <3>2. 0 + Len(a) <= Len(b)
      BY <1>5, <2>9, <2>11
    <3>3. \A k \in 1 .. 0 : b[k] = "0"
      OBVIOUS
    <3> QED
      BY <1>5, <2>9, <3>1, <3>2, <3>3 DEF Continues
  <2>13. SumOf(b, base)[Len(a)] = q
    <3>1. \A k \in 0 .. Len(a) : SumOf(b, base)[0 + k] = SumOf(a, base)[k]
      BY <2>12, NoughtsCountNothing
    <3>2. Len(a) \in 0 .. Len(a) /\ 0 + Len(a) = Len(a)
      BY <2>9, <2>11
    <3> QED
      BY <2>4, <2>10, <3>1, <3>2
  <2>14. b[Len(b)] = x
    <3>1. Len(e) \in 1 .. Len(e) /\ Len(e) + 1 - Len(e) = 1
      BY <2>11
    <3> QED
      BY <1>5, <2>11, <3>1
  <2>15. Len(b) \in 1 .. Len(b) /\ Len(b) - 1 = Len(a)
    BY <1>5, <2>9, <2>11
  <2>16. SumOf(b, base)[Len(b)] = q * base + r
    BY <1>6, <2>7, <2>13, <2>14, <2>15
  <2> QED
    BY <1>3, <1>7, <2>2, <2>16
<1> QED
  BY <1>9, <1>10

Conversions == {"i", "x", "b"}

\* Filled up with noughts, a number in hexadecimal is what it was.
LEMMA HexValue ==
  ASSUME NEW n \in Nat
  PROVE  /\ ku_uint64_to_hex_string(n) \in Seq(Digits) /\ ku_uint64_to_hex_string(n) # <<>>
         /\ Value(ku_uint64_to_hex_string(n), 16) = n
<1> DEFINE d == LeastFirst(n, 16)
           zeros == [k \in 1 .. 16 - Len(d) |-> "0"]
           p == IF Len(d) <= 16 THEN 16 - Len(d) ELSE 0
           e == d \o zeros
           a == ku_reverse(d)
           b == ku_reverse(e)
<1>1. 16 \in 2 .. 16
  OBVIOUS
<1>2. d \in Seq(Digits) /\ d # <<>> /\ Value(a, 16) = n
  BY <1>1, DigitsType, ReversedValue
<1>3. ku_uint64_to_hex_string(n) = b
  BY DEF ku_uint64_to_hex_string
<1> HIDE DEF d
<1>4. Len(d) \in Nat /\ Len(d) # 0
  BY <1>2, LenProperties, EmptySeq
<1>5. p \in Nat
  BY <1>4
<1>6. 1 .. 16 - Len(d) = 1 .. p
  BY <1>4
<1>7. zeros = [k \in 1 .. p |-> "0"]
  BY <1>6
<1> HIDE DEF p, zeros
<1>8. zeros \in [1 .. p -> Digits] /\ \A k \in 1 .. p : zeros[k] = "0"
  BY <1>7, DigitsDistinct
<1>9. zeros \in Seq(Digits) /\ Len(zeros) = p
  <2>1. zeros \in Seq(Digits) /\ DOMAIN zeros = 1 .. p
    BY <1>5, <1>8, SeqDef
  <2> QED
    BY <1>5, <2>1, LenProperties
<1>10. /\ e \in Seq(Digits) /\ Len(e) = Len(d) + p
       /\ \A k \in 1 .. Len(d) + p : e[k] = IF k <= Len(d) THEN d[k] ELSE zeros[k - Len(d)]
  BY <1>2, <1>9, ConcatProperties
<1> HIDE DEF e
<1>11. b \in Seq(Digits) /\ Len(b) = Len(e) /\ \A k \in 1 .. Len(e) : b[k] = e[Len(e) + 1 - k]
  BY <1>10, Reversed
<1>12. a \in Seq(Digits) /\ Len(a) = Len(d) /\ \A k \in 1 .. Len(d) : a[k] = d[Len(d) + 1 - k]
  BY <1>2, Reversed
<1>13. Value(a, 16) = SumOf(a, 16)[Len(a)] /\ Value(b, 16) = SumOf(b, 16)[Len(b)]
  BY ValueIsSum
<1> HIDE DEF a, b
<1>14. ASSUME NEW k \in 1 .. p PROVE b[k] = "0"
  <2> DEFINE j == Len(e) + 1 - k
  <2>1. /\ k \in 1 .. Len(e) /\ j \in 1 .. Len(d) + p /\ ~(j <= Len(d))
        /\ j - Len(d) \in 1 .. p
    BY <1>4, <1>5, <1>10
  <2>2. b[k] = e[j]
    BY <1>11, <2>1
  <2> HIDE DEF j
  <2>3. e[j] = zeros[j - Len(d)]
    BY <1>10, <2>1
  <2> QED
    BY <1>8, <2>1, <2>2, <2>3
<1>15. ASSUME NEW k \in 1 .. Len(a) PROVE b[p + k] = a[k]
  <2> DEFINE j == Len(d) + 1 - k
  <2>1. /\ p + k \in 1 .. Len(e) /\ j \in 1 .. Len(d) + p /\ j <= Len(d)
        /\ Len(e) + 1 - (p + k) = j /\ k \in 1 .. Len(d)
    BY <1>4, <1>5, <1>10, <1>12
  <2>2. b[p + k] = e[Len(e) + 1 - (p + k)]
    BY <1>11, <2>1
  <2>3. a[k] = d[j]
    BY <1>12, <2>1
  <2> HIDE DEF j
  <2>4. e[j] = d[j]
    BY <1>10, <2>1
  <2> QED
    BY <2>1, <2>2, <2>3, <2>4
<1>16. p + Len(a) <= Len(b) /\ p + Len(a) = Len(b) /\ Len(a) \in 0 .. Len(a) /\ Len(b) # 0
  BY <1>4, <1>5, <1>10, <1>11, <1>12
<1>17. Continues(a, b, p)
  BY <1>11, <1>12, <1>14, <1>15, <1>16 DEF Continues
<1>18. \A k \in 0 .. Len(a) : SumOf(b, 16)[p + k] = SumOf(a, 16)[k]
  BY <1>1, <1>5, <1>17, NoughtsCountNothing
<1>19. Value(b, 16) = n
  BY <1>2, <1>13, <1>16, <1>18
<1>20. b # <<>>
  BY <1>11, <1>16, EmptySeq
<1> QED
  BY <1>3, <1>11, <1>19, <1>20

\* The counts of digits, as get_num_length defines them.
IsCount(l) == l = [n \in Nat |-> IF n < 10 THEN 1 ELSE 1 + l[n \div 10]]

Counts == CHOOSE l : IsCount(l)

\* They exist, for the digits can be counted where they are found.
LEMMA CountEquation ==
  ASSUME NEW n \in Nat
  PROVE  get_num_length(n) = IF n < 10 THEN 1 ELSE 1 + get_num_length(n \div 10)
<1> DEFINE c == [k \in Nat |-> Len(LeastFirst(k, 10))]
<1>0. 10 \in 2 .. 16
  OBVIOUS
<1>1. ASSUME NEW k \in Nat PROVE c[k] = IF k < 10 THEN 1 ELSE 1 + c[k \div 10]
  <2> DEFINE rest == LeastFirst(k \div 10, 10)
  <2>1. k \div 10 \in Nat /\ k % 10 \in 0 .. 9
    BY <1>0, Smaller
  <2>2. LeastFirst(k, 10) = Longer(10, k, rest)
    BY <1>0, DigitsEquation
  <2>3. c[k] = Len(LeastFirst(k, 10)) /\ c[k \div 10] = Len(rest)
    BY <2>1
  <2>4. rest \in Seq(Digits)
    BY <1>0, <2>1, DigitsType
  <2> HIDE DEF rest, c
  <2>5. CASE k < 10
    BY <2>2, <2>3, <2>5 DEF Longer
  <2>6. CASE ~(k < 10)
    <3>1. DigitNames[(k % 10) + 1] \in Digits
      BY <2>1, DigitsDistinct
    <3>2. LeastFirst(k, 10) = <<DigitNames[(k % 10) + 1]>> \o rest
      BY <2>2, <2>6 DEF Longer
    <3> DEFINE x == DigitNames[(k % 10) + 1]
    <3> HIDE DEF x
    <3>3. <<x>> \in Seq(Digits) /\ Len(<<x>>) = 1
      BY <3>1 DEF x
    <3>4. Len(<<x>> \o rest) = 1 + Len(rest)
      BY <2>4, <3>3, ConcatProperties
    <3> QED
      BY <2>3, <2>6, <3>2, <3>4 DEF x
  <2> QED
    BY <2>5, <2>6
<1>2. IsCount(c)
  <2>1. c = [k \in Nat |-> c[k]]
    OBVIOUS
  <2> HIDE DEF c
  <2> QED
    BY <1>1, <2>1 DEF IsCount
<1> HIDE DEF c
<1>3. IsCount(Counts)
  BY <1>2 DEF Counts
<1>4. \A k : get_num_length(k) = Counts[k]
  BY DEF get_num_length, Counts, IsCount
<1>5. Counts[n] = IF n < 10 THEN 1 ELSE 1 + Counts[n \div 10]
  BY <1>3 DEF IsCount
<1> QED
  BY <1>4, <1>5

\* One loop counts as many digits as the other one finds.
LEMMA AsManyCounted == \A n \in Nat : get_num_length(n) = Len(LeastFirst(n, 10))
<1> DEFINE Bad == {n \in Nat : get_num_length(n) # Len(LeastFirst(n, 10))}
<1> SUFFICES ASSUME Bad # {} PROVE FALSE
  OBVIOUS
<1>0. 10 \in 2 .. 16 /\ Bad \subseteq Nat
  OBVIOUS
<1>1. PICK n \in Bad : \A m \in Bad : n <= m
  BY <1>0, Least
<1> DEFINE rest == LeastFirst(n \div 10, 10)
           x == DigitNames[(n % 10) + 1]
<1>2. n \in Nat /\ get_num_length(n) # Len(LeastFirst(n, 10))
  OBVIOUS
<1> HIDE DEF Bad
<1>3. LeastFirst(n, 10) = Longer(10, n, rest)
  BY <1>0, <1>2, DigitsEquation
<1>4. get_num_length(n) = IF n < 10 THEN 1 ELSE 1 + get_num_length(n \div 10)
  BY <1>2, CountEquation
<1>5. CASE n < 10
  BY <1>2, <1>3, <1>4, <1>5 DEF Longer
<1>6. CASE ~(n < 10)
  <2>1. n \div 10 \in Nat /\ n \div 10 < n /\ n % 10 \in 0 .. 9
    BY <1>0, <1>2, <1>6, Smaller
  <2>2. get_num_length(n \div 10) = Len(rest)
    BY <1>1, <1>2, <2>1 DEF Bad
  <2>3. rest \in Seq(Digits) /\ x \in Digits
    <3>1. n % 10 \in 0 .. 15
      BY <2>1
    <3>2. x \in Digits
      BY <3>1, DigitsDistinct
    <3>3. rest \in Seq(Digits)
      BY <1>0, <2>1, DigitsType
    <3> QED
      BY <3>2, <3>3
  <2>4. LeastFirst(n, 10) = <<x>> \o rest
    BY <1>3, <1>6 DEF Longer
  <2> HIDE DEF x, rest
  <2>5. <<x>> \in Seq(Digits) /\ Len(<<x>>) = 1
    BY <2>3
  <2>6. Len(<<x>> \o rest) = 1 + Len(rest)
    BY <2>3, <2>5, ConcatProperties
  <2> QED
    BY <1>2, <1>4, <1>6, <2>2, <2>4, <2>6
<1> QED
  BY <1>5, <1>6

\* A number below ten times m has one digit more than those below m may have.
LEMMA OneDigitMore ==
  ASSUME NEW m \in Nat, NEW d \in Nat, d >= 1,
         \A n \in Nat : n < m => get_num_length(n) <= d /\ get_num_length(n) \in Nat
  PROVE  \A n \in Nat : n < m * 10 => get_num_length(n) <= d + 1 /\ get_num_length(n) \in Nat
<1> SUFFICES ASSUME NEW n \in Nat, n < m * 10
             PROVE  get_num_length(n) <= d + 1 /\ get_num_length(n) \in Nat
  OBVIOUS
<1>1. n \div 10 \in Nat /\ (n \div 10) * 10 + (n % 10) = n /\ n % 10 \in 0 .. 9
  BY Smaller
<1>2. n \div 10 < m
  <2> DEFINE q == n \div 10
             r == n % 10
  <2>1. q \in Nat /\ r \in 0 .. 9 /\ q * 10 + r = n
    BY <1>1
  <2> HIDE DEF q, r
  <2>2. q < m
    BY <2>1
  <2> QED
    BY <2>2 DEF q
<1>3. get_num_length(n \div 10) <= d /\ get_num_length(n \div 10) \in Nat
  BY <1>1, <1>2
<1> DEFINE before == get_num_length(n \div 10)
<1>4. get_num_length(n) = IF n < 10 THEN 1 ELSE 1 + before
  BY CountEquation
<1> HIDE DEF before
<1> QED
  BY <1>3, <1>4 DEF before

\* Nine digits are enough below a thousand million.
LEMMA AtMostNine == \A n \in Nat : n < 1000000000 => get_num_length(n) <= 9
<1> DEFINE Below(m, d) == \A n \in Nat : n < m => get_num_length(n) <= d /\ get_num_length(n) \in Nat
<1>0. Below(10, 1)
  BY CountEquation
<1>1. ASSUME NEW m \in Nat, NEW d \in Nat, d >= 1, Below(m, d) PROVE Below(m * 10, d + 1)
  BY <1>1, OneDigitMore
<1> HIDE DEF Below
<1>2. Below(100, 2)
  BY <1>0, <1>1
<1>3. Below(1000, 3)
  BY <1>1, <1>2
<1>4. Below(10000, 4)
  BY <1>1, <1>3
<1>5. Below(100000, 5)
  BY <1>1, <1>4
<1>6. Below(1000000, 6)
  BY <1>1, <1>5
<1>7. Below(10000000, 7)
  BY <1>1, <1>6
<1>8. Below(100000000, 8)
  BY <1>1, <1>7
<1>9. Below(1000000000, 9)
  BY <1>1, <1>8
<1> QED
  BY <1>9 DEF Below

\* Filled from the end of the count, the digits are in order.
LEMMA FilledReversed ==
  ASSUME NEW n \in Nat
  PROVE  ku_uint64_to_string(n) = ku_reverse(LeastFirst(n, 10))
<1> DEFINE d == LeastFirst(n, 10)
<1>1. d \in Seq(Digits)
  <2>1. 10 \in 2 .. 16
    OBVIOUS
  <2> QED
    BY <2>1, DigitsType
<1>2. get_num_length(n) = Len(d)
  BY AsManyCounted
<1>3. ku_uint64_to_string(n)
        = [k \in 1 .. Len(d) |-> IF Len(d) + 1 - k \in DOMAIN d THEN d[Len(d) + 1 - k] ELSE "unset"]
  BY <1>2 DEF ku_uint64_to_string
<1> HIDE DEF d
<1>4. Len(d) \in Nat /\ DOMAIN d = 1 .. Len(d)
  BY <1>1, LenProperties
<1>5. \A k \in 1 .. Len(d) : Len(d) + 1 - k \in DOMAIN d
  BY <1>4
<1>6. ku_reverse(d) = [k \in 1 .. Len(d) |-> d[Len(d) + 1 - k]]
  BY <1>4 DEF ku_reverse
<1> QED
  BY <1>3, <1>5, <1>6 DEF d

\* What is cut off leaves digits.
LEMMA CutDigits ==
  ASSUME NEW s \in Seq(Digits)
  PROVE  Cut(s, 9) \in Seq(Digits) /\ (Len(s) <= 9 => Cut(s, 9) = s)
<1>1. Len(s) \in Nat
  BY LenProperties
<1>2. CASE Len(s) <= 9
  BY <1>2 DEF Cut
<1>3. CASE ~(Len(s) <= 9)
  <2>1. \A k \in 1 .. 9 : s[k] \in Digits
    <3>1. \A k \in 1 .. 9 : k \in 1 .. Len(s)
      BY <1>1, <1>3
    <3> QED
      BY <3>1, ElementOfSeq
  <2>2. SubSeq(s, 1, 9) \in Seq(Digits)
    BY <2>1, SubSeqProperties
  <2> QED
    BY <1>3, <2>2 DEF Cut
<1> QED
  BY <1>2, <1>3

\* Whatever the conversion, it makes digits that denote the number, in decimal as far
\* as the buffer goes.
LEMMA FormatValue ==
  ASSUME NEW f \in Conversions, NEW n \in Nat
  PROVE  /\ Format(f, n) \in Seq(Digits)
         /\ (f = "i" => n < 1000000000) =>
               Format(f, n) # <<>> /\ Value(Format(f, n), Base[f]) = n
<1>1. ASSUME NEW base \in 2 .. 16
      PROVE  /\ ku_reverse(LeastFirst(n, base)) \in Seq(Digits)
             /\ Len(ku_reverse(LeastFirst(n, base))) = Len(LeastFirst(n, base))
             /\ ku_reverse(LeastFirst(n, base)) # <<>>
             /\ Value(ku_reverse(LeastFirst(n, base)), base) = n
  <2>1. LeastFirst(n, base) \in Seq(Digits) /\ LeastFirst(n, base) # <<>>
    BY DigitsType
  <2>2. /\ ku_reverse(LeastFirst(n, base)) \in Seq(Digits)
        /\ Len(ku_reverse(LeastFirst(n, base))) = Len(LeastFirst(n, base))
    BY <2>1, Reversed
  <2>3. Len(LeastFirst(n, base)) # 0
    BY <2>1, EmptySeq
  <2>4. ku_reverse(LeastFirst(n, base)) # <<>>
    BY <2>2, <2>3, EmptySeq
  <2> QED
    BY <2>2, <2>4, ReversedValue
<1>2. CASE f = "i"
  <2> DEFINE r == ku_reverse(LeastFirst(n, 10))
  <2>1. Format(f, n) = Cut(r, 9) /\ Base[f] = 10 /\ 10 \in 2 .. 16
    BY <1>2, FilledReversed DEF Format, Base
  <2>2. r \in Seq(Digits) /\ Len(r) = Len(LeastFirst(n, 10)) /\ r # <<>> /\ Value(r, 10) = n
    BY <1>1, <2>1
  <2>3. n < 1000000000 => Len(r) <= 9
    BY <2>2, AtMostNine, AsManyCounted
  <2> HIDE DEF r
  <2>4. Cut(r, 9) \in Seq(Digits) /\ (Len(r) <= 9 => Cut(r, 9) = r)
    BY <2>2, CutDigits
  <2> QED
    BY <1>2, <2>1, <2>2, <2>3, <2>4
<1>3. CASE f = "b"
  <2>1. Format(f, n) = ku_reverse(LeastFirst(n, 2)) /\ Base[f] = 2 /\ 2 \in 2 .. 16
    BY <1>3 DEF Format, ku_uint64_to_binary_string, Base
  <2> QED
    BY <1>1, <2>1
<1>4. CASE f = "x"
  <2>1. Format(f, n) = ku_uint64_to_hex_string(n) /\ Base[f] = 16
    BY <1>4 DEF Format, Base
  <2> QED
    BY <2>1, HexValue
<1> QED
  BY <1>2, <1>3, <1>4 DEF Conversions

-----------------------------------------------------------------------------
(* The digits on their way to the serial port *)

\* What is told and what is still to be written are together the digits of the number.
ToldInv ==
    asked # Nothing /\ printing =>
       \E f \in Conversions, n \in Nat :
          /\ asked = <<f, n>>
          /\ told \in Seq(Digits) /\ out \in Seq(Digits) /\ told \o out = Format(f, n)

\* A character that is written goes from what is left to what is told.
LEMMA ToldWrites ==
  ASSUME ToldInv, write_character
  PROVE  ToldInv'
<1> SUFFICES ASSUME asked' # Nothing, printing' PROVE ToldInv'
  BY DEF ToldInv
<1>1. /\ asked # Nothing /\ printing /\ out # <<>> /\ told' = Append(told, Head(out))
      /\ out' = Tail(out) /\ asked' = asked
  BY DEF write_character
<1>2. PICK f \in Conversions, n \in Nat :
          /\ asked = <<f, n>>
          /\ told \in Seq(Digits) /\ out \in Seq(Digits) /\ told \o out = Format(f, n)
  BY <1>1 DEF ToldInv
<1>3. Head(out) \in Digits /\ Tail(out) \in Seq(Digits)
  BY <1>1, <1>2, HeadTailProperties
<1>4. Append(told, Head(out)) \in Seq(Digits) /\ Append(told, Head(out)) \o Tail(out) = told \o out
  <2> DEFINE h == Head(out)
             t == Tail(out)
             l == Append(told, h)
  <2>1. Len(told) \in Nat /\ Len(out) \in Nat /\ Len(out) # 0
    BY <1>1, <1>2, LenProperties, EmptySeq
  <2>2. Len(t) = Len(out) - 1 /\ (\A i \in 1 .. Len(t) : t[i] = out[i + 1]) /\ h = out[1]
    BY <1>1, <1>2, HeadTailProperties
  <2> HIDE DEF h, t
  <2>3. h \in Digits /\ t \in Seq(Digits)
    BY <1>3 DEF h, t
  <2>4. /\ l \in Seq(Digits) /\ Len(l) = Len(told) + 1 /\ l[Len(told) + 1] = h
        /\ \A i \in 1 .. Len(told) : l[i] = told[i]
    BY <1>2, <2>3, AppendProperties
  <2> HIDE DEF l
  <2>5. /\ l \o t \in Seq(Digits) /\ Len(l \o t) = Len(l) + Len(t)
        /\ \A i \in 1 .. Len(l) + Len(t) : (l \o t)[i] = IF i <= Len(l) THEN l[i] ELSE t[i - Len(l)]
    BY <2>3, <2>4, ConcatProperties
  <2>6. /\ told \o out \in Seq(Digits) /\ Len(told \o out) = Len(told) + Len(out)
        /\ \A i \in 1 .. Len(told) + Len(out) :
              (told \o out)[i] = IF i <= Len(told) THEN told[i] ELSE out[i - Len(told)]
    BY <1>2, ConcatProperties
  <2>7. Len(l \o t) = Len(told \o out) /\ Len(l) + Len(t) = Len(told) + Len(out)
    BY <2>1, <2>2, <2>4, <2>5, <2>6
  <2>8. ASSUME NEW i \in 1 .. Len(told) + Len(out) PROVE (l \o t)[i] = (told \o out)[i]
    <3>0. i \in Int
      OBVIOUS
    <3>1. CASE i <= Len(told)
      <4>1. i \in 1 .. Len(told) /\ i <= Len(l) /\ i \in 1 .. Len(l) + Len(t)
        BY <2>1, <2>4, <2>7, <3>1
      <4> QED
        BY <2>4, <2>5, <2>6, <3>1, <4>1
    <3>2. CASE i = Len(told) + 1
      <4>1. ~(i <= Len(told)) /\ i <= Len(l) /\ i - Len(told) = 1 /\ i \in 1 .. Len(l) + Len(t)
        BY <2>1, <2>4, <2>7, <3>2
      <4>2. (l \o t)[i] = l[i] /\ (told \o out)[i] = out[1]
        BY <2>5, <2>6, <4>1
      <4> QED
        BY <2>2, <2>4, <3>2, <4>2
    <3>3. CASE i > Len(told) + 1
      <4>1. /\ ~(i <= Len(told)) /\ ~(i <= Len(l)) /\ i - Len(l) \in 1 .. Len(t)
            /\ (i - Len(l)) + 1 = i - Len(told) /\ i \in 1 .. Len(l) + Len(t)
        BY <2>1, <2>2, <2>4, <2>7, <3>3
      <4>2. (l \o t)[i] = t[i - Len(l)] /\ (told \o out)[i] = out[i - Len(told)]
        BY <2>5, <2>6, <4>1
      <4>3. t[i - Len(l)] = out[(i - Len(l)) + 1]
        BY <2>2, <4>1
      <4> QED
        BY <4>1, <4>2, <4>3
    <3>4. i <= Len(told) \/ i = Len(told) + 1 \/ i > Len(told) + 1
      BY <2>1, <3>0
    <3> QED
      BY <3>1, <3>2, <3>3, <3>4
  <2>9. l \o t = told \o out
    BY <2>5, <2>6, <2>7, <2>8, SeqEqual
  <2> QED
    BY <2>4, <2>9 DEF l, h, t
<1> QED
  BY <1>1, <1>2, <1>3, <1>4 DEF ToldInv

\* No other step of the output tears the digits of a number apart.
LEMMA ToldStep == ToldInv /\ [Next]_vars => ToldInv'
<1> SUFFICES ASSUME ToldInv, [Next]_vars PROVE ToldInv'
  OBVIOUS
<1>1. ASSUME UNCHANGED printVars PROVE ToldInv'
  BY <1>1 DEF ToldInv, printVars
<1>2. ASSUME NEW t, Begin(t, Nothing) PROVE ToldInv'
  BY <1>2 DEF ToldInv, Begin
<1>3. ASSUME NEW f \in Conversions, NEW n \in Nat, Begin(Format(f, n), <<f, n>>) PROVE ToldInv'
  <2>1. Format(f, n) \in Seq(Digits)
    BY FormatValue
  <2>2. asked' = <<f, n>> /\ told' = <<>> /\ out' = Format(f, n)
    BY <1>3 DEF Begin
  <2>3. told' \in Seq(Digits) /\ told' \o out' = Format(f, n)
    BY <2>1, <2>2, ConcatEmptySeq
  <2> QED
    BY <2>1, <2>2, <2>3 DEF ToldInv
<1>4. CASE write_character
  BY <1>4, ToldWrites
<1>5. CASE write_any_text
  <2>1. asked' = asked /\ printing' = printing /\ printing /\ out # <<>> /\ Head(out) = "conv"
    BY <1>5 DEF write_any_text
  <2>2. asked # Nothing => Head(out) \in Digits
    BY <2>1, HeadTailProperties DEF ToldInv
  <2> QED
    BY <2>1, <2>2, DigitsDistinct DEF ToldInv
<1>6. CASE write_faults \/ printf_ends \/ k_ok_swaps
  BY <1>6 DEF write_faults, printf_ends, k_ok_swaps, ToldInv
<1>7. CASE \/ spinlock_aquire \/ init_font \/ clear_screen \/ read_fb_device \/ read_ps2_kb
           \/ echo_backspace \/ echo_enter \/ exception_handler \/ nested_exception \/ halt
  <2>1. UNCHANGED printVars
    BY <1>7 DEF spinlock_aquire, init_font, clear_screen, read_fb_device, read_ps2_kb,
       echo_backspace, echo_enter, exception_handler, nested_exception, halt
  <2> QED
    BY <1>1, <2>1
<1>14. CASE k_ok_releases
  BY <1>14 DEF k_ok_releases, ToldInv
<1>15. ASSUME NEW f \in Conversions, NEW n \in Numbers, NEW then, PrintNumber(f, n, then) PROVE ToldInv'
  <2>1. n \in Nat
    BY NumbersAssumption
  <2> QED
    BY <1>1, <1>3, <1>15, <2>1 DEF PrintNumber, BeginPrintf
<1>8. CASE boot_message \/ kmalloc_fails
  <2>1. \E n \in Numbers, f \in Conversions : \E then \in {"boot", "halting"} : PrintNumber(f, n, then)
    BY <1>8 DEF boot_message, kmalloc_fails, Conversions
  <2> QED
    BY <1>15, <2>1
<1>16. CASE k_ok
  BY <1>2, <1>16 DEF k_ok
<1>9. ASSUME NEW t, kstatusf(t) \/ write(t) PROVE ToldInv'
  BY <1>2, <1>9 DEF kstatusf, write, BeginPrintf
<1>10. ASSUME NEW n, write_fb_device(n) PROVE ToldInv'
  BY <1>1, <1>10 DEF write_fb_device
<1>11. ASSUME NEW ch, echo_character(ch) PROVE ToldInv'
  BY <1>1, <1>11 DEF echo_character
<1>12. CASE kpanic
  <2>1. \/ \E t : Begin(t, Nothing)
        \/ \E n \in Registers : Begin(Format("b", n), <<"b", n>>) \/ Begin(Format("x", n), <<"x", n>>)
    BY <1>12 DEF kpanic, BeginPrintf
  <2>2. Registers \subseteq Nat /\ "b" \in Conversions /\ "x" \in Conversions
    BY NumbersAssumption DEF Conversions
  <2> QED
    BY <1>2, <1>3, <2>1, <2>2
<1>13. CASE UNCHANGED vars
  BY <1>1, <1>13 DEF vars
<1> QED
  BY <1>4, <1>5, <1>6, <1>7, <1>8, <1>9, <1>10, <1>11, <1>12, <1>13, <1>14, <1>16 DEF Next, print

\* The digits of every number that is printed are sent whole and in order, and denote
\* it: in binary and filled up in hexadecimal for all numbers, in decimal up to nine
\* digits, which is as far as the buffer of printf_template goes.
THEOREM NumbersTold == Spec => []NumberTold
<1>1. Init => ToldInv
  BY DEF Init, ToldInv
<1>2. ToldInv => NumberTold
  <2> SUFFICES ASSUME ToldInv, asked # Nothing, printing, out = <<>>,
                      asked[1] = "i" => asked[2] < 1000000000
               PROVE  /\ told # <<>> /\ \A k \in DOMAIN told : told[k] \in Digits
                      /\ Value(told, Base[asked[1]]) = asked[2]
    BY DEF NumberTold
  <2>1. PICK f \in Conversions, n \in Nat :
          /\ asked = <<f, n>>
          /\ told \in Seq(Digits) /\ out \in Seq(Digits) /\ told \o out = Format(f, n)
    BY DEF ToldInv
  <2>2. told = Format(f, n)
    BY <2>1, ConcatEmptySeq
  <2>3. asked[1] = f /\ asked[2] = n
    BY <2>1
  <2>4. \A k \in DOMAIN told : told[k] \in Digits
    BY <2>1, LenProperties, ElementOfSeq
  <2> QED
    BY <2>2, <2>3, <2>4, FormatValue
<1> QED
  BY <1>1, <1>2, ToldStep, PTL DEF Spec

-----------------------------------------------------------------------------
(* The picture of a text *)

\* What is printed and typed.
Chars == Letters \union {"LF", "conv", "NUL"}

\* The height of a line, and the first row of pixels of line i from above.
LineRows  == CharSize + 1
Top(i) == 5 + (i - 1) * LineRows

Glyph(ch, j) == IF ch = " " THEN <<"dark", 0>> ELSE <<ch, j>>

\* Row j of the glyph in column col of line i, with the cursor at the end of the text.
Cell(t, i, col, j, cursor) ==
    IF col + 1 <= Len(t[i]) THEN Glyph(t[i][col + 1], j)
    ELSE IF cursor /\ i = Len(t) /\ col = Len(t[i]) THEN <<"white", 0>>
    ELSE <<"dark", 0>>

Picture(b, t, cursor) ==
    \A i \in 1 .. Len(t), col \in 0 .. Columns - 1, j \in 0 .. CharSize - 1 :
        b[At(Top(i) + j, col)] = Cell(t, i, col, j, cursor)

\* Nothing is below the last line.
Clean(b, t) ==
    \A row \in Top(Len(t)) + CharSize .. Height - 1, col \in 0 .. Columns - 1 :
        b[At(row, col)] = <<"dark", 0>>

TextOk(t) == t \in Seq(Seq(Chars)) /\ Len(t) \in 1 .. MaxLines

\* The back buffer shows the text, and the position is behind it.
Shows(k, t, cursor) ==
    /\ TextOk(t) /\ Len(t[Len(t)]) < Columns
    /\ k.bg = "dark" /\ k.y = Top(Len(t)) /\ k.col = Len(t[Len(t)])
    /\ Picture(k.back, t, cursor) /\ Clean(k.back, t)

\* As far as the back buffer goes.
Swapped(k) == \A c \in Visible : c \in Buffer => k.front[c] = k.back[c]

\* What a calm screen shows, also in the middle of a print, p, of which o is left; the
\* front buffer follows between prints.  With c somebody has typed n characters, all in
\* the last line, before its last column.
CalmText(k, t, p, o, c, n) ==
    /\ Shows(k, t, c)
    /\ ~p => Swapped(k)
    /\ p => ~c /\ o \in Seq(Chars)
    /\ c => n <= Len(t[Len(t)]) /\ Len(t[Len(t)]) < Columns - 1

\* When the screen is calm: with a font, after it was cleared; the background is dark
\* but in a panic.
CalmInv ==
    /\ printing \in BOOLEAN /\ reading \in BOOLEAN /\ font \in BOOLEAN
    /\ calm \in BOOLEAN /\ faulted \in BOOLEAN /\ len \in Nat
    /\ ~printing => out = <<>>
    /\ con.bg = "dark" \/ pc \in {"panic", "halted", "hung"}
    /\ pc \in {"boot", "spawn"} => ~reading
    /\ calm => pc \notin {"boot", "spawn", "panic", "halting"} /\ font

\* The inductive invariant behind ScreenIsText.
PictureInv ==
    /\ CalmInv
    /\ calm /\ ~faulted => CalmText(con, text, printing, out, reading, len)

LEMMA Times ==
  ASSUME NEW p \in Nat
  PROVE  /\ \A a, b \in Nat : a <= b => a * p <= b * p
         /\ \A a \in Nat : (a + 1) * p = a * p + p /\ a * p \in Nat
  OBVIOUS

LEMMA Quotient ==
  ASSUME NEW n \in Nat, NEW p \in Nat \ {0}
  PROVE  (n * p) \div p = n
  OBVIOUS

LEMMA Sizes ==
  /\ Pitch \in Nat \ {0} /\ Pitch >= Columns + 1 /\ Columns \in Nat /\ Columns >= 2
  /\ CharSize \in Nat /\ CharSize >= 1 /\ Height \in Nat /\ Height > CharSize + 5
  /\ LineRows = CharSize + 1 /\ LineRows \in Nat /\ LineRows >= 2
  BY ConsoleAssumption, PitchAssumption DEF PerRow, LineRows

LEMMA Remainder ==
  ASSUME NEW n \in Nat, NEW p \in Nat \ {0}, NEW r \in 0 .. p - 1
  PROVE  (n * p + r) % p = r
<1> DEFINE a == n * p + r
           q == a \div p
           m == a % p
<1>1. a \in Nat
  BY Times
<1> HIDE DEF a
<1>2. q \in Nat /\ m \in 0 .. p - 1 /\ a = p * q + m
  BY <1>1
<1> HIDE DEF q, m
<1> DEFINE x == n * p
           y == q * p
           v == (n + 1) * p
           w == (q + 1) * p
<1>3. /\ x \in Nat /\ y \in Nat /\ v = x + p /\ w = y + p
      /\ (n + 1 <= q => v <= y) /\ (q + 1 <= n => w <= x) /\ (n = q => x = y)
  BY <1>2, Times
<1>4. a = x + r /\ a = y + m
  <2>1. p * q = q * p
    BY <1>2
  <2> QED
    BY <1>2, <2>1 DEF a
<1> HIDE DEF x, y, v, w
<1>5. n = q
  BY <1>2, <1>3, <1>4
<1>6. m = r
  BY <1>2, <1>3, <1>4, <1>5
<1> QED
  BY <1>6 DEF m, a

\* A column is not of the padding.
LEMMA AtInWidth ==
  ASSUME NEW row \in Nat, NEW col \in 0 .. Columns - 1
  PROVE  InWidth(At(row, col))
<1>1. /\ Pitch \in Nat \ {0} /\ Columns \in Nat /\ col + 1 \in 0 .. Pitch - 1
      /\ col + 1 < PerRow
  BY Sizes DEF PerRow
<1> DEFINE c == col + 1
           x == row * Pitch
<1>2. (row * Pitch + c) % Pitch = c
  BY <1>1, Remainder
<1>3. At(row, col) = row * Pitch + c
  <2>1. x \in Nat /\ col \in Nat
    BY <1>1, Times
  <2>2. At(row, col) = x + col + 1
    BY DEF At
  <2> HIDE DEF x
  <2>3. At(row, col) = x + c
    BY <2>1, <2>2
  <2> QED
    BY <2>3 DEF x
<1>4. At(row, col) % Pitch = c
  BY <1>2, <1>3
<1> QED
  BY <1>1, <1>4 DEF InWidth

\* The cells of the columns are different ones, and those of the next line are
\* further by what the screen scrolls.
LEMMA AtCells ==
  ASSUME NEW row \in 0 .. Height, NEW col \in 0 .. Columns - 1
  PROVE  At(row, col) \in Cells /\ At(row, col) \in Int /\ (row < Height <=> At(row, col) \in Visible)
<1> DEFINE p == Pitch
           h == Height
<1>1. p \in Nat \ {0} /\ h \in Nat /\ Columns \in Nat /\ row \in Nat /\ col \in Nat /\ col + 1 < p
      /\ row <= h
  BY Sizes
<1>2. At(row, col) = row * p + col + 1
  BY DEF At
<1>3. row * p \in Nat /\ h * p \in Nat /\ row * p <= h * p /\ (h + 1) * p = h * p + p
  BY <1>1, Times
<1>4. row < h => (row + 1) * p <= h * p
  BY <1>1, Times
<1>5. (row + 1) * p = row * p + p
  BY <1>1, Times
<1>6. ~(row < h) => row = h
  BY <1>1
<1>7. Cells = 0 .. (h + 1) * p - 1 /\ Visible = 0 .. h * p - 1
  BY DEF Cells, Visible
<1> DEFINE x == row * p
           y == h * p
           z == (h + 1) * p
           w == (row + 1) * p
<1>8. /\ x \in Nat /\ y \in Nat /\ x <= y /\ z = y + p /\ (row < h => w <= y) /\ w = x + p
      /\ (~(row < h) => x = y)
  BY <1>3, <1>4, <1>5, <1>6
<1>9. At(row, col) = x + col + 1 /\ Cells = 0 .. z - 1 /\ Visible = 0 .. y - 1
  BY <1>2, <1>7
<1> HIDE DEF x, y, z, w, p, h
<1>10. row < Height <=> row < h
  BY DEF h
<1>11. At(row, col) \in Int /\ At(row, col) \in Cells
  BY <1>1, <1>8, <1>9
<1>12. row < h <=> At(row, col) \in Visible
  BY <1>1, <1>8, <1>9
<1> QED
  BY <1>10, <1>11, <1>12

LEMMA AtSame ==
  ASSUME NEW row \in Nat, NEW other \in Nat, NEW col \in 0 .. Columns - 1, NEW x \in 0 .. Columns - 1,
         At(row, col) = At(other, x)
  PROVE  row = other /\ col = x
<1> DEFINE p == Pitch
<1>1. p \in Nat /\ Columns \in Nat /\ col \in Nat /\ col + 1 < p /\ x \in Nat /\ x + 1 < p
  BY Sizes
<1>2. row * p + col + 1 = other * p + x + 1
  BY DEF At
<1>3. /\ row * p \in Nat /\ other * p \in Nat
      /\ (row + 1) * p = row * p + p /\ (other + 1) * p = other * p + p
      /\ (row + 1 <= other => (row + 1) * p <= other * p)
      /\ (other + 1 <= row => (other + 1) * p <= row * p)
  BY <1>1, Times
<1> DEFINE a == row * p
           b == other * p
           c == (row + 1) * p
           d == (other + 1) * p
<1>4. /\ a \in Nat /\ b \in Nat /\ c = a + p /\ d = b + p /\ a + col + 1 = b + x + 1
      /\ (row + 1 <= other => c <= b) /\ (other + 1 <= row => d <= a) /\ (row = other => a = b)
  BY <1>2, <1>3
<1> HIDE DEF a, b, c, d, p
<1>5. row = other
  BY <1>1, <1>4
<1> QED
  BY <1>1, <1>4, <1>5

LEMMA AtFurther ==
  ASSUME NEW row \in Nat, NEW col \in 0 .. Columns - 1, NEW n \in Nat
  PROVE  At(row, col) + n * Pitch = At(row + n, col)
<1>1. Pitch \in Nat /\ col \in Nat
  BY Sizes
<1>2. (row + n) * Pitch = row * Pitch + n * Pitch
  BY <1>1
<1>3. row * Pitch \in Nat /\ n * Pitch \in Nat
  BY <1>1
<1> QED
  BY <1>1, <1>2, <1>3 DEF At

\* What draw_char does to the columns.
LEMMA Drawn ==
  ASSUME NEW k, k.y \in Nat, k.y + CharSize <= Height, k.col \in 0 .. Columns - 1, NEW ch,
         NEW row \in 0 .. Height, NEW x \in 0 .. Columns - 1
  PROVE  draw_char(k, ch).back[At(row, x)] =
           IF x = k.col /\ row \in k.y .. k.y + CharSize - 1 THEN Mark(k, ch, row - k.y)
           ELSE k.back[At(row, x)]
<1> DEFINE slices == {At(k.y + j, k.col) : j \in 0 .. CharSize - 1}
           c == At(row, x)
<1>0. CharSize \in Nat /\ Height \in Nat /\ row \in Nat /\ Columns \in Nat
  BY Sizes
<1>1. draw_char(k, ch).back[c] =
        IF c \in slices THEN Mark(k, ch, (c - At(k.y, k.col)) \div Pitch) ELSE k.back[c]
  <2>1. c \in Cells
    BY AtCells
  <2> HIDE DEF c
  <2> QED
    BY <2>1 DEF draw_char, Screen
<1>2. CASE x = k.col /\ row \in k.y .. k.y + CharSize - 1
  <2> DEFINE j == row - k.y
  <2>1. j \in 0 .. CharSize - 1 /\ k.y + j = row /\ j \in Nat
    BY <1>0, <1>2
  <2> HIDE DEF j
  <2>2. c \in slices
    BY <1>2, <2>1
  <2>3. At(k.y, k.col) + j * Pitch = c
    BY <1>2, <2>1, AtFurther
  <2>4. At(k.y, k.col) \in Int /\ j * Pitch \in Nat /\ Pitch \in Nat \ {0}
    BY <1>0, <2>1, AtCells, Sizes, Times
  <2> DEFINE a == At(k.y, k.col)
             m == j * Pitch
  <2>5. a + m = c /\ a \in Int /\ m \in Nat
    BY <2>3, <2>4
  <2>6. m \div Pitch = j
    BY <2>1, <2>4, Quotient
  <2> HIDE DEF a, m, c, slices
  <2>7. c - a = m
    BY <2>5
  <2>8. (c - At(k.y, k.col)) \div Pitch = j
    BY <2>6, <2>7 DEF a
  <2> QED
    BY <1>1, <1>2, <2>2, <2>8 DEF c, j
<1>3. CASE ~(x = k.col /\ row \in k.y .. k.y + CharSize - 1)
  <2>1. ASSUME NEW j \in 0 .. CharSize - 1, c = At(k.y + j, k.col) PROVE FALSE
    <3>1. k.y + j \in Nat
      BY <1>0
    <3>2. row = k.y + j /\ x = k.col
      BY <1>0, <2>1, <3>1, AtSame
    <3> QED
      BY <1>0, <1>3, <3>2
  <2>2. c \notin slices
    BY <2>1
  <2> HIDE DEF slices, c
  <2> QED
    BY <1>1, <1>3, <2>2 DEF c
<1> QED
  BY <1>2, <1>3

\* What scroll_pixel does to the columns.
LEMMA Scrolled ==
  ASSUME NEW k, NEW row \in 0 .. Height, NEW x \in 0 .. Columns - 1
  PROVE  scroll_pixel(k).back[At(row, x)] =
           IF row + LineRows < Height THEN k.back[At(row + LineRows, x)] ELSE <<k.bg, 0>>
<1> DEFINE c == At(row, x)
           far == (CharSize + 1) * Pitch
<1>0. row \in Nat /\ Height \in Nat /\ LineRows \in Nat /\ LineRows = CharSize + 1
  BY Sizes
<1>1. c \in Cells /\ c \in Int
  BY AtCells
<1>2. c + far = At(row + LineRows, x)
  BY <1>0, AtFurther
<1>5. InWidth(c)
  BY <1>0, AtInWidth
<1>3. scroll_pixel(k).back[c] = IF c + far \in Visible THEN k.back[c + far] ELSE <<k.bg, 0>>
  <2> HIDE DEF c, far
  <2> QED
    BY <1>1, <1>5 DEF scroll_pixel, MovedUp, Painted, Screen, far
<1>4. row + LineRows < Height <=> At(row + LineRows, x) \in Visible
  <2>1. CASE row + LineRows <= Height
    <3>1. row + LineRows \in 0 .. Height
      BY <1>0, <2>1
    <3> QED
      BY <3>1, AtCells
  <2>2. CASE ~(row + LineRows <= Height)
    <3> DEFINE a == (row + LineRows) * Pitch
               b == Height * Pitch
    <3>1. Pitch \in Nat /\ x \in Nat /\ row + LineRows \in Nat /\ Height <= row + LineRows
      BY <1>0, <2>2, Sizes
    <3>2. a \in Nat /\ b \in Nat /\ b <= a
      BY <1>0, <3>1, Times
    <3>3. At(row + LineRows, x) = a + x + 1 /\ Visible = 0 .. b - 1
      BY DEF At, Visible
    <3> HIDE DEF a, b
    <3>4. At(row + LineRows, x) \notin Visible
      BY <3>1, <3>2, <3>3
    <3> QED
      BY <1>0, <2>2, <3>4
  <2> QED
    BY <1>0, <2>1, <2>2
<1> HIDE DEF c, far
<1> QED
  BY <1>2, <1>3, <1>4 DEF c

-----------------------------------------------------------------------------
(* Lines *)

LEMMA Division ==
  ASSUME NEW a \in Nat, NEW b \in Nat \ {0}
  PROVE  a \div b \in Nat /\ a % b \in 0 .. b - 1 /\ a = b * (a \div b) + (a % b)
  OBVIOUS

LEMMA Tops ==
  ASSUME NEW i \in Nat \ {0}
  PROVE  /\ Top(i) \in Nat /\ Top(i) >= 5 /\ Top(i + 1) = Top(i) + LineRows
         /\ \A j \in Nat : i < j => Top(i) + LineRows <= Top(j)
<1> DEFINE a == (i - 1) * LineRows
<1>1. LineRows \in Nat /\ i - 1 \in Nat /\ (i - 1) + 1 = i
  BY Sizes
<1>2. a \in Nat /\ i * LineRows = a + LineRows
  BY <1>1, Times
<1>3. Top(i) = 5 + a /\ Top(i + 1) = 5 + i * LineRows
  BY <1>1 DEF Top
<1>4. ASSUME NEW j \in Nat, i < j PROVE Top(i) + LineRows <= Top(j)
  <2> DEFINE b == (j - 1) * LineRows
             c == i * LineRows
  <2>1. j - 1 \in Nat /\ i <= j - 1
    BY <1>4
  <2>2. c <= b /\ b \in Nat
    BY <1>1, <2>1, Times
  <2>3. Top(j) = 5 + b /\ c = a + LineRows
    BY <1>2 DEF Top
  <2> HIDE DEF a, b, c
  <2> QED
    BY <1>1, <1>2, <1>3, <2>2, <2>3
<1> HIDE DEF a
<1> QED
  BY <1>1, <1>2, <1>3, <1>4

\* A line of the text is on the screen, and the one behind the last is not.
LEMMA LineFits ==
  ASSUME NEW i \in 1 .. MaxLines
  PROVE  /\ MaxLines \in Nat /\ i \in Nat \ {0}
         /\ Top(i) + CharSize < Height
         /\ Top(i) + LineRows >= Height - CharSize <=> i = MaxLines
<1> DEFINE room == Height - CharSize - 6
           p == LineRows
           q == room \div p
           r == room % p
<1>1. room \in Nat /\ p \in Nat \ {0} /\ p = CharSize + 1 /\ CharSize \in Nat /\ Height \in Nat
      /\ Height = room + CharSize + 6
  BY Sizes
<1> HIDE DEF room
<1>2. q \in Nat /\ r \in 0 .. p - 1 /\ room = p * q + r
  <2> HIDE DEF p
  <2> QED
    BY <1>1, Division
<1>3. MaxLines = q + 1
  BY <1>1 DEF MaxLines, room
<1> HIDE DEF q, r
<1>4. i \in Nat \ {0} /\ i <= q + 1 /\ q \in Nat /\ i - 1 \in Nat
  BY <1>2, <1>3
<1> DEFINE a == (i - 1) * p
           b == q * p
           c == i * p
           d == (q + 1) * p
<1>5. b = p * q /\ b \in Nat /\ a \in Nat /\ c = a + p /\ d = b + p
  BY <1>1, <1>4, Times
<1>6. a <= b /\ (i <= q => c <= b)
  BY <1>1, <1>4, Times
<1>7. i = q + 1 => a = b
  BY <1>4
<1>8. Top(i) = 5 + a
  BY DEF Top
<1> DEFINE m == p * q
<1>9. b = m /\ room = m + r
  BY <1>2, <1>5
<1> HIDE DEF a, b, c, d, m
<1>10. Top(i) + CharSize < Height
  BY <1>1, <1>2, <1>5, <1>6, <1>8, <1>9
<1>11. i = q + 1 => Top(i) + p >= Height - CharSize
  BY <1>1, <1>2, <1>4, <1>5, <1>7, <1>8, <1>9
<1>12. i <= q => ~(Top(i) + p >= Height - CharSize)
  BY <1>1, <1>2, <1>4, <1>5, <1>6, <1>8, <1>9
<1>13. Top(i) + p >= Height - CharSize <=> i = MaxLines
  BY <1>3, <1>4, <1>11, <1>12
<1>14. MaxLines \in Nat
  BY <1>3, <1>4
<1> HIDE DEF p
<1> QED
  BY <1>4, <1>10, <1>13, <1>14 DEF p

\* The rows of the lines are apart.
LEMMA RowsApart ==
  ASSUME NEW m \in 1 .. MaxLines, NEW i \in 1 .. m, NEW j \in 0 .. CharSize - 1
  PROVE  /\ i \in 1 .. MaxLines
         /\ Top(i) + j \in 0 .. Height /\ Top(i) + j < Height /\ Top(i) + j \in Nat
         /\ i # m => Top(i) + j < Top(m)
<1>1. MaxLines \in Nat /\ m \in Nat \ {0}
  BY LineFits
<1>2. i \in 1 .. MaxLines /\ i \in Nat /\ i # 0
  BY <1>1
<1>3. Top(i) + CharSize < Height /\ Top(i) \in Nat
  BY <1>2, LineFits, Tops
<1>4. i # m => Top(i) + LineRows <= Top(m)
  BY <1>1, <1>2, Tops
<1>5. Top(m) \in Nat
  BY <1>1, Tops
<1>6. CharSize \in Nat /\ Height \in Nat /\ LineRows = CharSize + 1 /\ j \in Nat /\ j < CharSize
  BY Sizes
<1> QED
  BY <1>2, <1>3, <1>4, <1>5, <1>6

\* A glyph in the last line changes the picture there and nowhere else.
LEMMA Redrawn ==
  ASSUME NEW k, NEW ch, NEW t, NEW u, NEW c \in BOOLEAN, NEW d \in BOOLEAN,
         Len(t) \in 1 .. MaxLines, Len(u) = Len(t), \A i \in 1 .. Len(t) - 1 : u[i] = t[i],
         k.y = Top(Len(t)), k.col \in 0 .. Columns - 1,
         Picture(k.back, t, c), Clean(k.back, t),
         \A x \in 0 .. Columns - 1, j \in 0 .. CharSize - 1 :
            Cell(u, Len(t), x, j, d) = IF x = k.col THEN Mark(k, ch, j) ELSE Cell(t, Len(t), x, j, c)
  PROVE  Picture(draw_char(k, ch).back, u, d) /\ Clean(draw_char(k, ch).back, u)
<1> DEFINE m == Len(t)
           b == draw_char(k, ch).back
<1>1. m \in Nat \ {0} /\ MaxLines \in Nat /\ Top(m) + CharSize < Height
  BY LineFits
<1>2. k.y \in Nat /\ k.y + CharSize < Height /\ CharSize \in Nat /\ Height \in Nat /\ k.y + CharSize <= Height
  <2>1. Top(m) \in Nat
    BY <1>1, Tops
  <2>2. CharSize \in Nat /\ Height \in Nat /\ k.y = Top(m)
    BY Sizes
  <2> HIDE DEF m, b
  <2> QED
    BY <1>1, <2>1, <2>2
<1>3. ASSUME NEW row \in 0 .. Height, NEW x \in 0 .. Columns - 1
      PROVE  b[At(row, x)] = IF x = k.col /\ row \in k.y .. k.y + CharSize - 1 THEN Mark(k, ch, row - k.y)
                             ELSE k.back[At(row, x)]
  BY <1>2, Drawn
<1> HIDE DEF b
<1>4. ASSUME NEW i \in 1 .. m, NEW x \in 0 .. Columns - 1, NEW j \in 0 .. CharSize - 1
      PROVE  b[At(Top(i) + j, x)] = Cell(u, i, x, j, d)
  <2> DEFINE row == Top(i) + j
  <2>1. row \in 0 .. Height /\ row \in Nat /\ (i # m => row < Top(m))
    BY RowsApart
  <2>2. b[At(row, x)] = IF x = k.col /\ row \in k.y .. k.y + CharSize - 1 THEN Mark(k, ch, row - k.y)
                        ELSE k.back[At(row, x)]
    BY <1>3, <2>1
  <2>3. k.back[At(row, x)] = Cell(t, i, x, j, c)
    BY DEF Picture
  <2>4. CASE i = m
    <3>1. row \in k.y .. k.y + CharSize - 1 /\ row - k.y = j
      BY <1>2, <2>4
    <3>2. Cell(u, i, x, j, d) = IF x = k.col THEN Mark(k, ch, j) ELSE Cell(t, i, x, j, c)
      BY <2>4
    <3> HIDE DEF row
    <3>3. b[At(row, x)] = Cell(u, i, x, j, d)
      BY <2>2, <2>3, <3>1, <3>2
    <3> QED
      BY <3>3 DEF row
  <2>5. CASE i # m
    <3>1. row \notin k.y .. k.y + CharSize - 1
      BY <1>2, <2>1, <2>5
    <3>2. u[i] = t[i] /\ i # Len(t) /\ i # Len(u)
      BY <1>1, <2>5
    <3>3. Cell(u, i, x, j, d) = Cell(t, i, x, j, c)
      BY <3>2 DEF Cell
    <3> HIDE DEF row
    <3>4. b[At(row, x)] = Cell(u, i, x, j, d)
      BY <2>2, <2>3, <3>1, <3>3
    <3> QED
      BY <3>4 DEF row
  <2> QED
    BY <2>4, <2>5
<1>5. ASSUME NEW row \in Top(m) + CharSize .. Height - 1, NEW x \in 0 .. Columns - 1
      PROVE  b[At(row, x)] = <<"dark", 0>>
  <2>1. row \in 0 .. Height /\ row \notin k.y .. k.y + CharSize - 1
    BY <1>2
  <2>2. k.back[At(row, x)] = <<"dark", 0>>
    BY DEF Clean
  <2> QED
    BY <1>3, <2>1, <2>2
<1>6. Picture(b, u, d)
  BY <1>4 DEF Picture
<1>7. Clean(b, u)
  BY <1>5 DEF Clean
<1> QED
  BY <1>6, <1>7 DEF b

\* The position of draw_char and new_line, and what they leave alone.
LEMMA DrawKeeps ==
  ASSUME NEW k, NEW ch
  PROVE  /\ draw_char(k, ch).col = k.col /\ draw_char(k, ch).y = k.y /\ draw_char(k, ch).bg = k.bg
         /\ draw_char(k, ch).front = k.front
  BY DEF draw_char, Screen

LEMMA MovedKeeps ==
  ASSUME NEW k, NEW col, NEW y
  PROVE  /\ Moved(k, col, y).col = col /\ Moved(k, col, y).y = y /\ Moved(k, col, y).bg = k.bg
         /\ Moved(k, col, y).back = k.back /\ Moved(k, col, y).front = k.front
  BY DEF Moved, Screen

LEMMA ColouredKeeps ==
  ASSUME NEW k, NEW bg
  PROVE  /\ Coloured(k, bg).col = k.col /\ Coloured(k, bg).y = k.y /\ Coloured(k, bg).bg = bg
         /\ Coloured(k, bg).back = k.back /\ Coloured(k, bg).front = k.front
  BY DEF Coloured, Screen

LEMMA SwapKeeps ==
  ASSUME NEW k
  PROVE  /\ swap_framebuffers(k).col = k.col /\ swap_framebuffers(k).y = k.y
         /\ swap_framebuffers(k).bg = k.bg /\ swap_framebuffers(k).back = k.back
         /\ Swapped(swap_framebuffers(k))
  BY DEF swap_framebuffers, Screen, Swapped

LEMMA ScrollKeeps ==
  ASSUME NEW k
  PROVE  /\ scroll_pixel(k).col = k.col /\ scroll_pixel(k).y = k.y /\ scroll_pixel(k).bg = k.bg
  BY DEF scroll_pixel, MovedUp, Painted, Screen

\* The text with its lines one further up.
LEMMA Upwards ==
  ASSUME NEW t, TextOk(t)
  PROVE  /\ Append(t, <<>>) \in Seq(Seq(Chars)) /\ Len(Append(t, <<>>)) = Len(t) + 1
         /\ \A i \in 1 .. Len(t) : Append(t, <<>>)[i] = t[i]
         /\ Append(t, <<>>)[Len(t) + 1] = <<>>
         /\ Append(Tail(t), <<>>) \in Seq(Seq(Chars)) /\ Len(Append(Tail(t), <<>>)) = Len(t)
         /\ \A i \in 1 .. Len(t) - 1 : Append(Tail(t), <<>>)[i] = t[i + 1]
         /\ Append(Tail(t), <<>>)[Len(t)] = <<>>
<1> DEFINE S == Seq(Chars)
           e == <<>>
           v == Tail(t)
           n == Len(t)
<1>1. t \in Seq(S) /\ n \in Nat /\ n >= 1 /\ t # <<>> /\ e \in S
  BY LineFits DEF TextOk
<1> HIDE DEF S, e
<1>2. v \in Seq(S) /\ Len(v) = n - 1 /\ \A i \in 1 .. n - 1 : v[i] = t[i + 1]
  BY <1>1
<1>3. /\ Append(t, e) \in Seq(S) /\ Len(Append(t, e)) = n + 1
      /\ \A i \in 1 .. n : Append(t, e)[i] = t[i]
      /\ Append(t, e)[n + 1] = e
  BY <1>1
<1> HIDE DEF v, n
<1>4. /\ Append(v, e) \in Seq(S) /\ Len(Append(v, e)) = n
      /\ \A i \in 1 .. n - 1 : Append(v, e)[i] = v[i]
      /\ Append(v, e)[n] = e
  BY <1>1, <1>2
<1>5. \A i \in 1 .. n - 1 : Append(v, e)[i] = t[i + 1]
  BY <1>2, <1>4
<1> QED
  BY <1>3, <1>4, <1>5 DEF S, e, v, n

\* The text without a cursor, its last line of any length.
Lined(k, t) ==
    /\ TextOk(t) /\ k.bg = "dark" /\ k.y = Top(Len(t))
    /\ Picture(k.back, t, FALSE) /\ Clean(k.back, t)

LEMMA NextLineEmpty ==
  ASSUME NEW k, NEW t, Lined(k, t), Len(t) # MaxLines
  PROVE  Shows(new_line(k), BeginLine(t), FALSE)
<1> DEFINE m == Len(t)
           u == Append(t, <<>>)
           n == Moved(k, 0, k.y + CharSize + 1)
<1>1. m \in 1 .. MaxLines /\ TextOk(t)
  BY DEF Lined, TextOk
<1>2. m \in Nat \ {0} /\ MaxLines \in Nat /\ ~(Top(m) + LineRows >= Height - CharSize)
  BY <1>1, LineFits
<1>3. /\ Top(m) \in Nat /\ Top(m + 1) = Top(m) + LineRows /\ LineRows = CharSize + 1 /\ CharSize \in Nat
      /\ Height \in Nat /\ Columns \in Nat /\ Columns >= 2
  BY <1>2, Tops, Sizes
<1>4. k.y = Top(m) /\ k.bg = "dark" /\ Picture(k.back, t, FALSE) /\ Clean(k.back, t)
  BY DEF Lined
<1>5. n.col = 0 /\ n.y = Top(m + 1) /\ n.bg = "dark" /\ n.back = k.back
  <2>1. k.y + CharSize + 1 = Top(m + 1)
    BY <1>3, <1>4
  <2> QED
    BY <1>4, <2>1, MovedKeeps
<1>6. ~(n.y >= Height - CharSize)
  BY <1>2, <1>3, <1>5
<1> HIDE DEF n
<1>7. new_line(k) = n
  BY <1>6 DEF new_line, n
<1>8. BeginLine(t) = u
  BY <1>1, <1>2 DEF BeginLine
<1>9. /\ u \in Seq(Seq(Chars)) /\ Len(u) = m + 1 /\ \A i \in 1 .. m : u[i] = t[i]
      /\ u[m + 1] = <<>>
  BY <1>1, Upwards
<1> HIDE DEF u
<1>10. m + 1 \in 1 .. MaxLines
  BY <1>1, <1>2
<1>11. Picture(n.back, u, FALSE)
  <2>1. ASSUME NEW i \in 1 .. m + 1, NEW x \in 0 .. Columns - 1, NEW j \in 0 .. CharSize - 1
        PROVE  k.back[At(Top(i) + j, x)] = Cell(u, i, x, j, FALSE)
    <3>1. CASE i = m + 1
      <4>1. Top(i) + j < Height /\ Top(i) + j \in Nat
        BY <1>10, RowsApart
      <4>2. Top(i) + j \in Top(m) + CharSize .. Height - 1
        BY <1>3, <3>1, <4>1
      <4>3. k.back[At(Top(i) + j, x)] = <<"dark", 0>>
        BY <1>4, <4>2 DEF Clean
      <4>4. Len(u[i]) = 0 /\ ~(x + 1 <= 0)
        BY <1>3, <1>9, <3>1
      <4> QED
        BY <4>3, <4>4 DEF Cell
    <3>2. CASE i # m + 1
      <4>1. i \in 1 .. m
        BY <1>2, <3>2
      <4>2. k.back[At(Top(i) + j, x)] = Cell(t, i, x, j, FALSE)
        BY <1>4, <4>1 DEF Picture
      <4>3. u[i] = t[i]
        BY <1>9, <4>1
      <4> QED
        BY <4>2, <4>3 DEF Cell
    <3> QED
      BY <3>1, <3>2
  <2>2. \A i \in 1 .. Len(u), x \in 0 .. Columns - 1, j \in 0 .. CharSize - 1 :
           k.back[At(Top(i) + j, x)] = Cell(u, i, x, j, FALSE)
    BY <1>9, <2>1
  <2>3. Picture(k.back, u, FALSE)
    BY <2>2 DEF Picture
  <2> QED
    BY <1>5, <2>3
<1>12. Clean(n.back, u)
  <2>1. ASSUME NEW row \in Top(m + 1) + CharSize .. Height - 1
        PROVE  row \in Top(m) + CharSize .. Height - 1
    BY <1>3
  <2> QED
    BY <1>4, <1>5, <1>9, <2>1 DEF Clean
<1>13. TextOk(u)
  BY <1>9, <1>10 DEF TextOk
<1>14. Len(u[Len(u)]) = 0
  BY <1>9
<1>15. 0 < Columns
  BY <1>3
<1>16. n.y = Top(Len(u)) /\ n.col = Len(u[Len(u)]) /\ n.bg = "dark" /\ Len(u[Len(u)]) < Columns
  BY <1>5, <1>9, <1>14, <1>15
<1> QED
  BY <1>7, <1>8, <1>11, <1>12, <1>13, <1>16 DEF Shows

LEMMA LastLineScrolls ==
  ASSUME NEW k, NEW t, Lined(k, t), Len(t) = MaxLines
  PROVE  Shows(new_line(k), BeginLine(t), FALSE)
<1> DEFINE m == Len(t)
           u == Append(Tail(t), <<>>)
           n == Moved(k, 0, k.y + CharSize + 1)
           s == scroll_pixel(n)
           r == scroll_line(n)
<1>1. m \in 1 .. MaxLines /\ TextOk(t)
  BY DEF Lined, TextOk
<1>2. m \in Nat \ {0} /\ MaxLines \in Nat /\ Top(m) + LineRows >= Height - CharSize
  BY <1>1, LineFits
<1>3. /\ Top(m) \in Nat /\ Top(m + 1) = Top(m) + LineRows /\ LineRows = CharSize + 1 /\ CharSize \in Nat
      /\ Height \in Nat /\ Columns \in Nat /\ Columns >= 2
  BY <1>2, Tops, Sizes
<1>4. k.y = Top(m) /\ k.bg = "dark" /\ Picture(k.back, t, FALSE) /\ Clean(k.back, t)
  BY DEF Lined
<1>5. n.col = 0 /\ n.y = Top(m) + LineRows /\ n.bg = "dark" /\ n.back = k.back
  <2>1. k.y + CharSize + 1 = Top(m) + LineRows
    BY <1>3, <1>4
  <2> QED
    BY <1>4, <2>1, MovedKeeps
<1>6. n.y >= Height - CharSize
  BY <1>2, <1>3, <1>5
<1> HIDE DEF n
<1>7. new_line(k) = r
  BY <1>6 DEF new_line, n
<1>8. BeginLine(t) = u
  BY <1>1, <1>2 DEF BeginLine
<1>9. /\ u \in Seq(Seq(Chars)) /\ Len(u) = m /\ \A i \in 1 .. m - 1 : u[i] = t[i + 1]
      /\ u[m] = <<>>
  BY <1>1, Upwards
<1> HIDE DEF u
<1>10. r.col = 0 /\ r.y = Top(m) /\ r.bg = "dark" /\ r.back = s.back
  <2> DEFINE v == Moved(s, n.col, n.y - (CharSize + 1))
  <2>1. s.bg = "dark"
    BY <1>5, ScrollKeeps
  <2> HIDE DEF s
  <2>2. v.col = n.col /\ v.y = n.y - (CharSize + 1) /\ v.bg = s.bg /\ v.back = s.back
    BY MovedKeeps
  <2>3. r = swap_framebuffers(v)
    BY DEF scroll_line, s
  <2> HIDE DEF v, r
  <2>4. r.col = v.col /\ r.y = v.y /\ r.bg = v.bg /\ r.back = v.back
    BY <2>3, SwapKeeps
  <2>5. n.y - (CharSize + 1) = Top(m)
    BY <1>3, <1>5
  <2> QED
    BY <1>5, <2>1, <2>2, <2>4, <2>5
<1>11. ASSUME NEW row \in 0 .. Height, NEW x \in 0 .. Columns - 1
       PROVE  s.back[At(row, x)] =
                IF row + LineRows < Height THEN k.back[At(row + LineRows, x)] ELSE <<"dark", 0>>
  BY <1>5, Scrolled
<1> HIDE DEF s, r
<1>12. ASSUME NEW row \in Top(m) .. Height, NEW x \in 0 .. Columns - 1
       PROVE  s.back[At(row, x)] = <<"dark", 0>>
  <2>1. row \in 0 .. Height
    BY <1>3
  <2>2. CASE row + LineRows < Height
    <3>1. row + LineRows \in Top(m) + CharSize .. Height - 1
      BY <1>3, <2>2
    <3>2. k.back[At(row + LineRows, x)] = <<"dark", 0>>
      BY <1>4, <3>1 DEF Clean
    <3> QED
      BY <1>11, <2>1, <2>2, <3>2
  <2>3. CASE ~(row + LineRows < Height)
    BY <1>11, <2>1, <2>3
  <2> QED
    BY <2>2, <2>3
<1>13. Picture(r.back, u, FALSE)
  <2>1. ASSUME NEW i \in 1 .. m, NEW x \in 0 .. Columns - 1, NEW j \in 0 .. CharSize - 1
        PROVE  s.back[At(Top(i) + j, x)] = Cell(u, i, x, j, FALSE)
    <3>0. Top(i) + j < Height /\ Top(i) + j \in 0 .. Height
      BY <1>1, RowsApart
    <3>1. CASE i = m
      <4>1. Top(i) + j \in Top(m) .. Height
        BY <1>3, <3>0, <3>1
      <4>2. s.back[At(Top(i) + j, x)] = <<"dark", 0>>
        BY <1>12, <4>1
      <4>3. Len(u[i]) = 0 /\ ~(x + 1 <= 0)
        BY <1>3, <1>9, <3>1
      <4> QED
        BY <4>2, <4>3 DEF Cell
    <3>2. CASE i # m
      <4>1. i \in 1 .. m - 1 /\ i + 1 \in 1 .. m /\ i \in Nat \ {0}
        BY <1>2, <3>2
      <4>2. Top(i + 1) + j < Height /\ Top(i + 1) = Top(i) + LineRows /\ Top(i) \in Nat
        BY <1>1, <4>1, RowsApart, Tops
      <4>3. Top(i) + j + LineRows = Top(i + 1) + j
        BY <1>3, <4>2
      <4>4. k.back[At(Top(i + 1) + j, x)] = Cell(t, i + 1, x, j, FALSE)
        BY <1>4, <4>1 DEF Picture
      <4>5. s.back[At(Top(i) + j, x)] = Cell(t, i + 1, x, j, FALSE)
        BY <1>11, <3>0, <4>2, <4>3, <4>4
      <4>6. u[i] = t[i + 1]
        BY <1>9, <4>1
      <4> QED
        BY <4>5, <4>6 DEF Cell
    <3> QED
      BY <3>1, <3>2
  <2>2. \A i \in 1 .. Len(u), x \in 0 .. Columns - 1, j \in 0 .. CharSize - 1 :
           s.back[At(Top(i) + j, x)] = Cell(u, i, x, j, FALSE)
    BY <1>9, <2>1
  <2>3. Picture(s.back, u, FALSE)
    BY <2>2 DEF Picture
  <2> QED
    BY <1>10, <2>3
<1>14. Clean(r.back, u)
  <2>1. ASSUME NEW row \in Top(m) + CharSize .. Height - 1
        PROVE  row \in Top(m) .. Height
    BY <1>3
  <2> QED
    BY <1>9, <1>10, <1>12, <2>1 DEF Clean
<1>15. TextOk(u)
  BY <1>1, <1>9 DEF TextOk
<1>16. Len(u[Len(u)]) = 0
  BY <1>9
<1>17. 0 < Columns
  BY <1>3
<1>18. r.y = Top(Len(u)) /\ r.col = Len(u[Len(u)]) /\ r.bg = "dark" /\ Len(u[Len(u)]) < Columns
  BY <1>9, <1>10, <1>16, <1>17
<1> QED
  BY <1>7, <1>8, <1>13, <1>14, <1>15, <1>18 DEF Shows

\* new_line begins the next line of the text, on a full screen too.
LEMMA NewLineShows ==
  ASSUME NEW k, NEW t, Lined(k, t)
  PROVE  Shows(new_line(k), BeginLine(t), FALSE)
  BY NextLineEmpty, LastLineScrolls

-----------------------------------------------------------------------------
(* Characters *)

LEMMA LastLine ==
  ASSUME NEW t, TextOk(t)
  PROVE  /\ Len(t) \in Nat \ {0} /\ Len(t) \in 1 .. MaxLines /\ t[Len(t)] \in Seq(Chars)
         /\ Len(t[Len(t)]) \in Nat /\ t # <<>> /\ t \in Seq(Seq(Chars))
<1> DEFINE S == Seq(Chars)
<1>1. Len(t) \in 1 .. MaxLines /\ t \in Seq(S)
  BY DEF TextOk
<1>2. Len(t) \in Nat \ {0}
  BY <1>1, LineFits
<1> HIDE DEF S
<1>3. t[Len(t)] \in S /\ t # <<>>
  BY <1>1, <1>2
<1> QED
  BY <1>1, <1>2, <1>3 DEF S

LEMMA LastLineEdited ==
  ASSUME NEW t, TextOk(t), NEW w \in Seq(Chars)
  PROVE  /\ TextOk([t EXCEPT ![Len(t)] = w]) /\ Len([t EXCEPT ![Len(t)] = w]) = Len(t)
         /\ \A i \in 1 .. Len(t) - 1 : [t EXCEPT ![Len(t)] = w][i] = t[i]
         /\ [t EXCEPT ![Len(t)] = w][Len(t)] = w
<1> DEFINE S == Seq(Chars)
           m == Len(t)
           u == [t EXCEPT ![m] = w]
<1>1. m \in 1 .. MaxLines /\ t \in Seq(S) /\ w \in S /\ m \in Nat \ {0}
  BY LastLine
<1> HIDE DEF S
<1>2. u \in Seq(S) /\ Len(u) = m /\ DOMAIN t = 1 .. m
  BY <1>1
<1>3. ASSUME NEW i \in 1 .. m - 1 PROVE u[i] = t[i]
  <2>1. i \in 1 .. m /\ i # m
    BY <1>1
  <2> QED
    BY <1>2, <2>1
<1>4. u[m] = w
  BY <1>1, <1>2
<1> HIDE DEF u
<1>5. TextOk(u)
  BY <1>1, <1>2 DEF TextOk, S
<1> QED
  BY <1>2, <1>3, <1>4, <1>5 DEF u

LEMMA ColumnFits ==
  ASSUME NEW k, NEW t, NEW c, Shows(k, t, c)
  PROVE  /\ k.col = Len(t[Len(t)]) /\ k.col \in 0 .. Columns - 1 /\ k.col \in Nat /\ k.col < Columns
         /\ Columns \in Nat
<1>1. TextOk(t) /\ k.col = Len(t[Len(t)]) /\ Len(t[Len(t)]) < Columns
  BY DEF Shows
<1>2. Len(t[Len(t)]) \in Nat
  BY <1>1, LastLine
<1>3. Columns \in Nat
  BY Sizes
<1> DEFINE l == Len(t[Len(t)])
<1> HIDE DEF l
<1> QED
  BY <1>1, <1>2, <1>3 DEF l

\* A character is drawn behind the text, over the cursor.
LEMMA DrawsNext ==
  ASSUME NEW k, NEW t, NEW c \in BOOLEAN, Shows(k, t, c), NEW ch \in Chars
  PROVE  Lined(draw_char(k, ch), [t EXCEPT ![Len(t)] = Append(@, ch)])
<1> DEFINE m == Len(t)
           l == t[m]
           w == Append(l, ch)
           u == [t EXCEPT ![m] = w]
           d == draw_char(k, ch)
<1>1. TextOk(t) /\ k.bg = "dark" /\ k.y = Top(m) /\ Picture(k.back, t, c) /\ Clean(k.back, t)
  BY DEF Shows
<1>2. k.col = Len(l) /\ k.col \in 0 .. Columns - 1 /\ k.col \in Nat /\ Columns \in Nat
  BY ColumnFits
<1>3. l \in Seq(Chars) /\ m \in 1 .. MaxLines
  BY <1>1, LastLine
<1> HIDE DEF l
<1>4. /\ w \in Seq(Chars) /\ Len(w) = k.col + 1 /\ w[k.col + 1] = ch
      /\ \A i \in 1 .. k.col : w[i] = l[i]
  BY <1>2, <1>3
<1> HIDE DEF w
<1>5. TextOk(u) /\ Len(u) = m /\ (\A i \in 1 .. m - 1 : u[i] = t[i]) /\ u[m] = w
  BY <1>1, <1>4, LastLineEdited
<1> HIDE DEF u
<1>6. ASSUME NEW x \in 0 .. Columns - 1, NEW j \in 0 .. CharSize - 1
      PROVE  Cell(u, m, x, j, FALSE) = IF x = k.col THEN Mark(k, ch, j) ELSE Cell(t, m, x, j, c)
  <2>1. CASE x < k.col
    <3>1. x + 1 \in 1 .. k.col /\ x + 1 <= Len(w) /\ x + 1 <= Len(l) /\ x # k.col
      BY <1>2, <1>4, <2>1
    <3>2. w[x + 1] = l[x + 1]
      BY <1>4, <3>1
    <3> QED
      BY <1>5, <3>1, <3>2 DEF Cell, l
  <2>2. CASE x = k.col
    <3>1. x + 1 <= Len(w) /\ w[x + 1] = ch
      BY <1>2, <1>4, <2>2
    <3>2. Glyph(ch, j) = Mark(k, ch, j)
      BY <1>1 DEF Glyph, Mark
    <3> QED
      BY <1>5, <2>2, <3>1, <3>2 DEF Cell
  <2>3. CASE x > k.col
    <3>1. ~(x + 1 <= Len(w)) /\ ~(x + 1 <= Len(l)) /\ x # Len(l) /\ x # k.col
      BY <1>2, <1>4, <2>3
    <3> QED
      BY <1>5, <3>1 DEF Cell, l
  <2>4. x < k.col \/ x = k.col \/ x > k.col
    BY <1>2
  <2> QED
    BY <2>1, <2>2, <2>3, <2>4
<1>7. Picture(d.back, u, FALSE) /\ Clean(d.back, u)
  <2> DEFINE none == FALSE
  <2>1. \A x \in 0 .. Columns - 1, j \in 0 .. CharSize - 1 :
           Cell(u, Len(t), x, j, none) = IF x = k.col THEN Mark(k, ch, j) ELSE Cell(t, Len(t), x, j, c)
    BY <1>6
  <2>2. none \in BOOLEAN
    OBVIOUS
  <2> HIDE DEF none
  <2>3. Picture(d.back, u, none) /\ Clean(d.back, u)
    BY <1>1, <1>2, <1>3, <1>5, <2>1, <2>2, Redrawn
  <2> HIDE DEF d
  <2> QED
    BY <2>3 DEF none
<1>8. d.bg = "dark" /\ d.y = Top(Len(u))
  BY <1>1, <1>5, DrawKeeps
<1> HIDE DEF d
<1>9. Lined(d, u)
  BY <1>5, <1>7, <1>8 DEF Lined
<1> QED
  BY <1>9 DEF d, u, w, l

\* A blank in the white of the cursor, or in the dark over it.
LEMMA DrawsCursor ==
  ASSUME NEW k, NEW t, NEW c \in BOOLEAN, NEW d \in BOOLEAN,
         TextOk(t), k.y = Top(Len(t)), k.col = Len(t[Len(t)]), k.col < Columns,
         Picture(k.back, t, c), Clean(k.back, t), k.bg = IF d THEN "white" ELSE "dark"
  PROVE  Picture(draw_char(k, " ").back, t, d) /\ Clean(draw_char(k, " ").back, t)
<1> DEFINE m == Len(t)
           l == t[m]
<1>1. m \in 1 .. MaxLines /\ k.col = Len(l) /\ k.col \in Nat /\ k.col \in 0 .. Columns - 1 /\ Columns \in Nat
  BY LastLine, Sizes
<1> HIDE DEF l
<1>2. ASSUME NEW x \in 0 .. Columns - 1, NEW j \in 0 .. CharSize - 1
      PROVE  Cell(t, m, x, j, d) = IF x = k.col THEN Mark(k, " ", j) ELSE Cell(t, m, x, j, c)
  <2>1. CASE x = k.col
    <3>1. ~(x + 1 <= Len(l))
      BY <1>1, <2>1
    <3>2. Mark(k, " ", j) = IF d THEN <<"white", 0>> ELSE <<"dark", 0>>
      BY DEF Mark
    <3> QED
      BY <1>1, <2>1, <3>1, <3>2 DEF Cell, l
  <2>2. CASE x # k.col
    BY <1>1, <2>2 DEF Cell, l
  <2> QED
    BY <2>1, <2>2
<1> QED
  BY <1>1, <1>2, Redrawn

LEMMA Shortened ==
  ASSUME NEW t, TextOk(t), Len(t[Len(t)]) >= 1
  PROVE  LET u == [t EXCEPT ![Len(t)] = SubSeq(@, 1, Len(@) - 1)] IN
         /\ TextOk(u) /\ Len(u) = Len(t) /\ Len(u[Len(t)]) + 1 = Len(t[Len(t)])
         /\ \A i \in 1 .. Len(t) - 1 : u[i] = t[i]
         /\ \A i \in 1 .. Len(u[Len(t)]) : u[Len(t)][i] = t[Len(t)][i]
<1> DEFINE m == Len(t)
           l == t[m]
           w == SubSeq(l, 1, Len(l) - 1)
           u == [t EXCEPT ![m] = w]
<1>1. l \in Seq(Chars) /\ Len(l) \in Nat /\ Len(l) >= 1
  BY LastLine
<1> HIDE DEF l
<1>2. /\ w \in Seq(Chars) /\ Len(w) = Len(l) - 1
      /\ \A i \in 1 .. Len(l) - 1 : w[i] = l[i]
  <2> DEFINE n == Len(l) - 1
             S == Chars
  <2>1. 1 \in Int /\ n \in Nat /\ n = Len(l) - 1 /\ \A i \in 1 .. n : l[i] \in S
    BY <1>1
  <2> HIDE DEF n, S
  <2>2. /\ SubSeq(l, 1, n) \in Seq(S) /\ Len(SubSeq(l, 1, n)) = IF 1 <= n THEN n - 1 + 1 ELSE 0
        /\ \A i \in 1 .. n - 1 + 1 : SubSeq(l, 1, n)[i] = l[1 + i - 1]
    BY ONLY <2>1, SubSeqProperties
  <2>3. n - 1 + 1 = n /\ (~(1 <= n) => n = 0) /\ \A i \in 1 .. n : 1 + i - 1 = i
    BY <2>1
  <2>4. SubSeq(l, 1, n) \in Seq(S) /\ Len(SubSeq(l, 1, n)) = n
        /\ \A i \in 1 .. n : SubSeq(l, 1, n)[i] = l[i]
    BY <2>2, <2>3
  <2> QED
    BY <2>4 DEF n, S
<1> HIDE DEF w
<1>3. TextOk(u) /\ Len(u) = m /\ (\A i \in 1 .. m - 1 : u[i] = t[i]) /\ u[m] = w
  BY <1>2, LastLineEdited
<1> HIDE DEF u
<1>4. Len(u[m]) + 1 = Len(l) /\ \A i \in 1 .. Len(u[m]) : u[m][i] = l[i]
  BY <1>1, <1>2, <1>3
<1> QED
  BY <1>3, <1>4 DEF u, w, l

\* A blank over the last character.
LEMMA DrawsErased ==
  ASSUME NEW k, NEW t, NEW u, TextOk(t), TextOk(u), Len(u) = Len(t),
         \A i \in 1 .. Len(t) - 1 : u[i] = t[i],
         \A i \in 1 .. Len(u[Len(t)]) : u[Len(t)][i] = t[Len(t)][i],
         Len(u[Len(t)]) + 1 = Len(t[Len(t)]),
         k.bg = "dark", k.y = Top(Len(t)), k.col = Len(u[Len(t)]), k.col \in 0 .. Columns - 1,
         Picture(k.back, t, FALSE), Clean(k.back, t)
  PROVE  Picture(draw_char(k, " ").back, u, FALSE) /\ Clean(draw_char(k, " ").back, u)
<1> DEFINE m == Len(t)
           l == t[m]
           w == u[m]
<1>1. /\ k.col \in Nat /\ Columns \in Nat /\ m \in 1 .. MaxLines /\ Len(w) = k.col
      /\ Len(l) = k.col + 1 /\ \A i \in 1 .. k.col : w[i] = l[i]
  BY LastLine, Sizes
<1> HIDE DEF l, w
<1>2. ASSUME NEW x \in 0 .. Columns - 1, NEW j \in 0 .. CharSize - 1
      PROVE  Cell(u, m, x, j, FALSE) = IF x = k.col THEN Mark(k, " ", j) ELSE Cell(t, m, x, j, FALSE)
  <2>1. CASE x < k.col
    <3>1. x + 1 \in 1 .. k.col /\ x + 1 <= Len(w) /\ x + 1 <= Len(l) /\ x # k.col
      BY <1>1, <2>1
    <3>2. w[x + 1] = l[x + 1]
      BY <1>1, <3>1
    <3>3. Cell(u, m, x, j, FALSE) = Glyph(w[x + 1], j)
      BY ONLY <3>1 DEF Cell, w
    <3>4. Cell(t, m, x, j, FALSE) = Glyph(l[x + 1], j)
      BY ONLY <3>1 DEF Cell, l
    <3> QED
      BY <3>1, <3>2, <3>3, <3>4
  <2>2. CASE x = k.col
    <3>1. ~(x + 1 <= Len(w))
      BY <1>1, <2>2
    <3>2. Mark(k, " ", j) = <<"dark", 0>>
      BY DEF Mark
    <3>3. Cell(u, m, x, j, FALSE) = <<"dark", 0>>
      BY ONLY <3>1 DEF Cell, w
    <3> QED
      BY <2>2, <3>2, <3>3
  <2>3. CASE x > k.col
    <3>1. ~(x + 1 <= Len(w)) /\ ~(x + 1 <= Len(l)) /\ x # k.col
      BY <1>1, <2>3
    <3>2. Cell(u, m, x, j, FALSE) = <<"dark", 0>>
      BY ONLY <3>1 DEF Cell, w
    <3>3. Cell(t, m, x, j, FALSE) = <<"dark", 0>>
      BY ONLY <3>1 DEF Cell, l
    <3> QED
      BY <3>1, <3>2, <3>3
  <2>4. x < k.col \/ x = k.col \/ x > k.col
    BY <1>1
  <2> QED
    BY <2>1, <2>2, <2>3, <2>4
<1> DEFINE none == FALSE
           blank == " "
           e == draw_char(k, blank)
<1>3. \A x \in 0 .. Columns - 1, j \in 0 .. CharSize - 1 :
         Cell(u, Len(t), x, j, none) = IF x = k.col THEN Mark(k, blank, j) ELSE Cell(t, Len(t), x, j, none)
  BY <1>2
<1>4. none \in BOOLEAN /\ Picture(k.back, t, none)
  OBVIOUS
<1> HIDE DEF none, blank
<1>5. Picture(e.back, u, none) /\ Clean(e.back, u)
  BY <1>1, <1>3, <1>4, Redrawn
<1> QED
  BY <1>5 DEF none, blank

\* A character of a print, or a key over the cursor, is added to the text, and ends
\* its line when that is full.
LEMMA WriteShows ==
  ASSUME NEW k, NEW t, NEW c \in BOOLEAN, Shows(k, t, c), NEW ch \in Chars, ch = "LF" => ~c
  PROVE  Shows(write_char(k, ch), Typed(t, ch), FALSE)
<1> DEFINE m == Len(t)
           l == t[m]
           u == [t EXCEPT ![m] = Append(@, ch)]
           g == draw_char(k, ch)
           d == Moved(g, k.col + 1, k.y)
<1>1. TextOk(t) /\ t # <<>> /\ l \in Seq(Chars) /\ m \in 1 .. MaxLines
  BY LastLine DEF Shows
<1>2. CASE ch = "LF"
  <2>1. Lined(k, t)
    BY <1>2 DEF Shows, Lined
  <2>2. write_char(k, ch) = new_line(k) /\ Typed(t, ch) = BeginLine(t)
    BY <1>1, <1>2 DEF write_char, Typed
  <2> QED
    BY <2>1, <2>2, NewLineShows
<1>3. CASE ch # "LF"
  <2>1. /\ k.col = Len(l) /\ k.col \in 0 .. Columns - 1 /\ k.col \in Nat /\ k.col < Columns
        /\ Columns \in Nat /\ k.y = Top(m)
    BY ColumnFits DEF Shows
  <2>2. Lined(g, u)
    BY DrawsNext
  <2>3. Len(u) = m /\ Len(u[m]) = k.col + 1 /\ TextOk(u)
    <3> DEFINE w == Append(l, ch)
               v == [t EXCEPT ![m] = w]
    <3>1. u = v
      OBVIOUS
    <3> HIDE DEF l
    <3>2. w \in Seq(Chars) /\ Len(w) = k.col + 1
      BY <1>1, <2>1
    <3> HIDE DEF w
    <3>3. Len(v) = m /\ v[m] = w /\ TextOk(v)
      BY <1>1, <3>2, LastLineEdited
    <3> HIDE DEF v, u, m
    <3> QED
      BY <3>1, <3>2, <3>3
  <2>4. d.col = k.col + 1 /\ d.y = k.y /\ d.bg = g.bg /\ d.back = g.back
    <3> HIDE DEF g
    <3> QED
      BY MovedKeeps
  <2>5. Typed(t, ch) = IF Len(u[Len(u)]) = Columns THEN BeginLine(u) ELSE u
    BY <1>1, <1>3 DEF Typed
  <2>6. write_char(k, ch) = IF d.col >= Columns \/ d.col < 0 THEN new_line(d) ELSE d
    BY <1>3 DEF write_char
  <2> HIDE DEF u, g, d, l
  <2>7. Lined(d, u)
    <3>1. d.y = Top(Len(u)) /\ d.bg = "dark" /\ d.back = g.back
      BY <2>1, <2>2, <2>3, <2>4 DEF Lined
    <3> QED
      BY <2>2, <3>1 DEF Lined
  <2>8. CASE k.col + 1 = Columns
    <3>1. write_char(k, ch) = new_line(d) /\ Typed(t, ch) = BeginLine(u)
      BY <2>1, <2>3, <2>4, <2>5, <2>6, <2>8
    <3> QED
      BY <2>7, <3>1, NewLineShows
  <2>9. CASE k.col + 1 # Columns
    <3>1. ~(d.col >= Columns \/ d.col < 0) /\ Len(u[Len(u)]) # Columns
      BY <2>1, <2>3, <2>4, <2>9
    <3>2. write_char(k, ch) = d /\ Typed(t, ch) = u
      BY <2>5, <2>6, <3>1
    <3>3. Len(u[Len(u)]) < Columns /\ d.col = Len(u[Len(u)])
      BY <2>1, <2>3, <2>4, <2>9
    <3>4. Shows(d, u, FALSE)
      BY <2>7, <3>3 DEF Lined, Shows
    <3> QED
      BY <3>2, <3>4
  <2> QED
    BY <2>8, <2>9
<1> QED
  BY <1>2, <1>3

\* The blank of write_char before the last column of a line moves only the column.
LEMMA WritesBlank ==
  ASSUME NEW k, k.col \in Nat, k.col + 1 < Columns
  PROVE  /\ write_char(k, " ").back = draw_char(k, " ").back
         /\ write_char(k, " ").col = k.col + 1 /\ write_char(k, " ").y = k.y
         /\ write_char(k, " ").bg = k.bg
<1> DEFINE g == draw_char(k, " ")
           d == Moved(g, k.col + 1, k.y)
<1>1. g.bg = k.bg
  BY DrawKeeps
<1>2. d.col = k.col + 1 /\ d.y = k.y /\ d.bg = g.bg /\ d.back = g.back
  <2> HIDE DEF g
  <2> QED
    BY MovedKeeps
<1>3. write_char(k, " ") = IF d.col >= Columns \/ d.col < 0 THEN new_line(d) ELSE d
  BY DEF write_char
<1> HIDE DEF d
<1> HIDE DEF g
<1>4. ~(d.col >= Columns \/ d.col < 0)
  <2>1. d.col = k.col + 1 /\ Columns \in Nat
    BY <1>2, Sizes
  <2> QED
    BY <2>1
<1>5. write_char(k, " ") = d
  BY <1>3, <1>4
<1> QED
  BY <1>1, <1>2, <1>5 DEF g

LEMMA LeftKeeps ==
  ASSUME NEW k, NEW n
  PROVE  /\ Left(k, n).col = k.col - n /\ Left(k, n).y = k.y /\ Left(k, n).bg = k.bg
         /\ Left(k, n).back = k.back /\ Left(k, n).front = k.front
  BY MovedKeeps DEF Left

\* The cursor, drawn behind the text,
LEMMA CursorShows ==
  ASSUME NEW k, NEW t, Shows(k, t, FALSE), Len(t[Len(t)]) < Columns - 1
  PROVE  Shows(draw_cursor(k), t, TRUE) /\ Swapped(draw_cursor(k))
<1> DEFINE w == Coloured(k, "white")
           b == write_char(w, " ")
           g == Coloured(b, k.bg)
           e == Left(g, 1)
           d == draw_cursor(k)
<1>1. /\ TextOk(t) /\ k.bg = "dark" /\ k.y = Top(Len(t)) /\ k.col = Len(t[Len(t)])
      /\ Picture(k.back, t, FALSE) /\ Clean(k.back, t)
  BY DEF Shows
<1>2. k.col \in Nat /\ k.col < Columns /\ k.col + 1 < Columns
  <2>1. k.col \in Nat /\ Columns \in Nat /\ k.col < Columns - 1
    BY <1>1, ColumnFits
  <2> QED
    BY <2>1
<1>3. w.bg = "white" /\ w.back = k.back /\ w.y = k.y /\ w.col = k.col
  BY ColouredKeeps
<1> HIDE DEF w
<1>4. Picture(draw_char(w, " ").back, t, TRUE) /\ Clean(draw_char(w, " ").back, t)
  <2> DEFINE yes == TRUE
             no == FALSE
  <2>1. yes \in BOOLEAN /\ no \in BOOLEAN /\ w.bg = (IF yes THEN "white" ELSE "dark")
        /\ Picture(w.back, t, no) /\ Clean(w.back, t)
    BY <1>1, <1>3
  <2> HIDE DEF yes, no
  <2>2. w.y = Top(Len(t)) /\ w.col = Len(t[Len(t)]) /\ w.col < Columns
    BY <1>1, <1>2, <1>3
  <2>3. Picture(draw_char(w, " ").back, t, yes) /\ Clean(draw_char(w, " ").back, t)
    BY <1>1, <2>1, <2>2, DrawsCursor
  <2> QED
    BY <2>3 DEF yes
<1>5. b.back = draw_char(w, " ").back /\ b.col = k.col + 1 /\ b.y = k.y
  BY <1>2, <1>3, WritesBlank
<1> HIDE DEF b
<1>6. g.back = b.back /\ g.col = b.col /\ g.y = b.y /\ g.bg = k.bg
  BY ColouredKeeps
<1> HIDE DEF g
<1>7. e.back = g.back /\ e.col = g.col - 1 /\ e.y = g.y /\ e.bg = g.bg
  BY LeftKeeps
<1>8. d = swap_framebuffers(e)
  BY DEF draw_cursor, b, g, w
<1> HIDE DEF e, d
<1>9. d.back = e.back /\ d.col = e.col /\ d.y = e.y /\ d.bg = e.bg /\ Swapped(d)
  BY <1>8, SwapKeeps
<1>10. d.col = k.col
  <2>1. e.col = (k.col + 1) - 1
    BY <1>5, <1>6, <1>7
  <2> QED
    BY <1>2, <1>9, <2>1
<1>11. d.y = k.y /\ d.bg = k.bg /\ d.back = draw_char(w, " ").back
  BY <1>5, <1>6, <1>7, <1>9
<1>12. Shows(d, t, TRUE)
  <2>1. Len(t[Len(t)]) < Columns
    BY <1>1, <1>2
  <2> QED
    BY <1>1, <1>4, <1>10, <1>11, <2>1 DEF Shows
<1> QED
  BY <1>9, <1>12 DEF d

LEMMA PrintedKeeps ==
  ASSUME NEW k, NEW ch
  PROVE  /\ Printed(k, ch).back = write_char(k, ch).back /\ Printed(k, ch).col = write_char(k, ch).col
         /\ Printed(k, ch).y = write_char(k, ch).y /\ Printed(k, ch).bg = write_char(k, ch).bg
         /\ Swapped(Printed(k, ch))
  BY SwapKeeps DEF Printed

\* is covered up by a blank,
LEMMA CoverShows ==
  ASSUME NEW k, NEW t, Shows(k, t, TRUE), Len(t[Len(t)]) < Columns - 1
  PROVE  LET d == Left(Printed(k, " "), 1) IN
         Shows(d, t, FALSE) /\ Swapped(d) /\ Printed(k, " ").col = k.col + 1
<1> DEFINE p == Printed(k, " ")
           d == Left(p, 1)
<1>1. /\ TextOk(t) /\ k.bg = "dark" /\ k.y = Top(Len(t)) /\ k.col = Len(t[Len(t)])
      /\ Picture(k.back, t, TRUE) /\ Clean(k.back, t)
  BY DEF Shows
<1>2. k.col \in Nat /\ k.col < Columns /\ k.col + 1 < Columns
  <2>1. k.col \in Nat /\ Columns \in Nat /\ k.col < Columns - 1
    BY <1>1, ColumnFits
  <2> QED
    BY <2>1
<1>3. Picture(draw_char(k, " ").back, t, FALSE) /\ Clean(draw_char(k, " ").back, t)
  <2> DEFINE yes == TRUE
             no == FALSE
  <2>1. yes \in BOOLEAN /\ no \in BOOLEAN /\ k.bg = (IF no THEN "white" ELSE "dark")
        /\ Picture(k.back, t, yes) /\ Clean(k.back, t)
    BY <1>1
  <2> HIDE DEF yes, no
  <2>2. Picture(draw_char(k, " ").back, t, no) /\ Clean(draw_char(k, " ").back, t)
    BY <1>1, <1>2, <2>1, DrawsCursor
  <2> QED
    BY <2>2 DEF no
<1>4. p.back = draw_char(k, " ").back /\ p.col = k.col + 1 /\ p.y = k.y /\ p.bg = k.bg /\ Swapped(p)
  <2>1. /\ write_char(k, " ").back = draw_char(k, " ").back
        /\ write_char(k, " ").col = k.col + 1 /\ write_char(k, " ").y = k.y
        /\ write_char(k, " ").bg = k.bg
    BY <1>2, WritesBlank
  <2> QED
    BY <2>1, PrintedKeeps
<1> HIDE DEF p
<1>5. d.back = p.back /\ d.col = p.col - 1 /\ d.y = p.y /\ d.bg = p.bg /\ d.front = p.front
  BY LeftKeeps
<1> HIDE DEF d
<1>6. d.col = k.col
  <2>1. d.col = (k.col + 1) - 1
    BY <1>4, <1>5
  <2> QED
    BY <1>2, <2>1
<1>7. Swapped(d)
  BY <1>4, <1>5 DEF Swapped
<1>8. Shows(d, t, FALSE)
  <2>1. Len(t[Len(t)]) < Columns
    BY <1>1, <1>2
  <2> QED
    BY <1>1, <1>3, <1>4, <1>5, <1>6, <2>1 DEF Shows
<1> QED
  BY <1>4, <1>7, <1>8 DEF d, p

\* and goes back over the last character.
LEMMA EraseShows ==
  ASSUME NEW k, NEW t, NEW u, Shows(k, t, TRUE), Len(t[Len(t)]) < Columns - 1, Len(t[Len(t)]) >= 1,
         u = [t EXCEPT ![Len(t)] = SubSeq(@, 1, Len(@) - 1)]
  PROVE  /\ Shows(Erased(k), u, TRUE) /\ Swapped(Erased(k))
         /\ Len(u[Len(u)]) + 1 = Len(t[Len(t)])
<1> DEFINE m == Len(t)
           p == Printed(k, " ")
           l == Left(p, 1)
           a == Left(p, 2)
           q == Printed(a, " ")
           e == Left(q, 1)
<1>1. Shows(l, t, FALSE) /\ p.col = k.col + 1
  BY CoverShows
<1>2. k.col \in Nat /\ Columns \in Nat /\ k.col = Len(t[m]) /\ TextOk(t)
  BY ColumnFits DEF Shows
<1>3. /\ TextOk(u) /\ Len(u) = m /\ Len(u[m]) + 1 = k.col
      /\ \A i \in 1 .. m - 1 : u[i] = t[i]
      /\ \A i \in 1 .. Len(u[m]) : u[m][i] = t[m][i]
  BY <1>2, Shortened
<1>4. Len(u[m]) \in Nat
  BY <1>3, LastLine
<1> HIDE DEF p
<1>5. l.back = p.back /\ l.y = p.y /\ l.bg = p.bg /\ a.back = p.back /\ a.y = p.y /\ a.bg = p.bg
      /\ a.col = p.col - 2
  BY LeftKeeps
<1> HIDE DEF l, a
<1>6. a.col = Len(u[m]) /\ a.col \in Nat /\ a.col + 1 < Columns /\ a.col \in 0 .. Columns - 1
  <2> DEFINE n == Len(u[m])
             o == Len(t[m])
  <2>1. n \in Nat /\ o = k.col /\ n + 1 = k.col /\ o < Columns - 1
    BY <1>2, <1>3, <1>4
  <2> HIDE DEF n, o
  <2>2. a.col = n /\ n + 1 < Columns
    BY <1>1, <1>2, <1>5, <2>1
  <2>3. a.col \in Nat /\ a.col + 1 < Columns /\ a.col \in 0 .. Columns - 1
    BY <1>2, <2>1, <2>2
  <2> QED
    BY <2>2, <2>3 DEF n
<1>7. /\ a.bg = "dark" /\ a.y = Top(m) /\ Picture(a.back, t, FALSE) /\ Clean(a.back, t)
  BY <1>1, <1>5 DEF Shows
<1>8. Picture(draw_char(a, " ").back, u, FALSE) /\ Clean(draw_char(a, " ").back, u)
  <2>1. Len(u[m]) + 1 = Len(t[m])
    BY <1>2, <1>3
  <2> QED
    BY <1>2, <1>3, <1>6, <1>7, <2>1, DrawsErased
<1>9. q.back = draw_char(a, " ").back /\ q.col = a.col + 1 /\ q.y = a.y /\ q.bg = a.bg
  <2>1. /\ write_char(a, " ").back = draw_char(a, " ").back
        /\ write_char(a, " ").col = a.col + 1 /\ write_char(a, " ").y = a.y
        /\ write_char(a, " ").bg = a.bg
    BY <1>6, WritesBlank
  <2> QED
    BY <2>1, PrintedKeeps
<1> HIDE DEF q
<1>10. e.back = q.back /\ e.col = q.col - 1 /\ e.y = q.y /\ e.bg = q.bg
  BY LeftKeeps
<1>11. Erased(k) = draw_cursor(e)
  BY DEF Erased, p, a, q
<1> HIDE DEF e
<1>12. e.col = Len(u[m]) /\ Len(u[m]) < Columns - 1 /\ Len(u[m]) < Columns
  <2>1. e.col = (a.col + 1) - 1
    BY <1>9, <1>10
  <2>2. e.col = a.col /\ a.col < Columns - 1 /\ a.col < Columns
    BY <1>2, <1>6, <2>1
  <2> QED
    BY <1>6, <2>2
<1>13. Shows(e, u, FALSE)
  BY <1>3, <1>7, <1>8, <1>9, <1>10, <1>12 DEF Shows
<1>14. Shows(draw_cursor(e), u, TRUE) /\ Swapped(draw_cursor(e))
  BY <1>3, <1>12, <1>13, CursorShows
<1> QED
  BY <1>2, <1>3, <1>11, <1>14

-----------------------------------------------------------------------------
(* The text on the screen *)

LEMMA NewLineColour ==
  ASSUME NEW k
  PROVE  new_line(k).bg = k.bg
  BY DEF new_line, scroll_line, scroll_pixel, MovedUp, swap_framebuffers, Painted, Moved, Screen

LEMMA WriteColour ==
  ASSUME NEW k, NEW ch
  PROVE  write_char(k, ch).bg = k.bg
<1> DEFINE d == Moved(draw_char(k, ch), k.col + 1, k.y)
<1>1. d.bg = k.bg
  BY DrawKeeps, MovedKeeps
<1>2. write_char(k, ch) \in {new_line(k), new_line(d), d}
  BY DEF write_char
<1> HIDE DEF d
<1> QED
  BY <1>1, <1>2, NewLineColour

LEMMA PrintedColour ==
  ASSUME NEW k, NEW ch
  PROVE  Printed(k, ch).bg = k.bg
  BY PrintedKeeps, WriteColour

LEMMA CursorColour ==
  ASSUME NEW k
  PROVE  draw_cursor(k).bg = k.bg
<1> DEFINE w == write_char(Coloured(k, "white"), " ")
           g == Coloured(w, k.bg)
           e == Left(g, 1)
<1>1. g.bg = k.bg
  BY ColouredKeeps
<1> HIDE DEF g
<1>2. e.bg = g.bg
  BY LeftKeeps
<1>3. draw_cursor(k) = swap_framebuffers(e)
  BY DEF draw_cursor, g
<1> HIDE DEF e
<1> QED
  BY <1>1, <1>2, <1>3, SwapKeeps

LEMMA ErasedColour ==
  ASSUME NEW k
  PROVE  Erased(k).bg = k.bg
<1> DEFINE p == Printed(k, " ")
           a == Left(p, 2)
           q == Printed(a, " ")
           e == Left(q, 1)
<1>1. p.bg = k.bg
  BY PrintedColour
<1> HIDE DEF p
<1>2. a.bg = p.bg
  BY LeftKeeps
<1> HIDE DEF a
<1>3. q.bg = a.bg
  BY PrintedColour
<1> HIDE DEF q
<1>4. e.bg = q.bg
  BY LeftKeeps
<1>5. Erased(k) = draw_cursor(e)
  BY DEF Erased, p, a, q
<1> HIDE DEF e
<1> QED
  BY <1>1, <1>2, <1>3, <1>4, <1>5, CursorColour

LEMMA FilledKeeps ==
  ASSUME NEW k, NEW mark, NEW cells
  PROVE  /\ Filled(k, mark, cells).bg = k.bg
         /\ \A c \in Cells : Filled(k, mark, cells).back[c] = IF c \in cells THEN mark ELSE k.back[c]
  BY DEF Filled, Painted, Screen

\* At boot nothing is calm.
LEMMA PictureInit == Init => PictureInv
<1> SUFFICES ASSUME Init PROVE PictureInv
  OBVIOUS
<1>1. con.bg = "dark"
  BY DEF Init, Cleared, Screen
<1> QED
  BY <1>1 DEF Init, PictureInv, CalmInv

LEMMA CalmStep == CalmInv /\ [Next]_vars => CalmInv'
<1> SUFFICES ASSUME CalmInv, [Next]_vars PROVE CalmInv'
  OBVIOUS
<1>1. CASE write_character
  <2>1. con'.bg = con.bg
    BY <1>1, WriteColour DEF write_character
  <2> QED
    BY <1>1, <2>1 DEF write_character, CalmInv, readVars
<1>2. CASE write_any_text
  BY <1>2 DEF write_any_text, CalmInv, readVars, histVars
<1>3. CASE write_faults
  BY <1>3 DEF write_faults, CalmInv, readVars
<1>4. CASE printf_ends \/ k_ok_swaps
  <2>1. con'.bg = con.bg
    BY <1>4, SwapKeeps DEF printf_ends, k_ok_swaps, Shown
  <2> QED
    <3>1. /\ out = <<>> /\ out' = out /\ printing' = FALSE /\ font' = font /\ pc' = pc
          /\ UNCHANGED <<readVars, histVars>>
      BY <1>4 DEF printf_ends, k_ok_swaps
    <3> QED
      BY <2>1, <3>1 DEF CalmInv, readVars, histVars
<1>5. CASE spinlock_aquire \/ k_ok_releases
  BY <1>5 DEF spinlock_aquire, k_ok_releases, CalmInv, readVars, histVars, printVars
<1>6. ASSUME NEW n, NEW f, NEW then, PrintNumber(f, n, then)
      PROVE  /\ printing' \in BOOLEAN /\ (~printing' => out' = <<>>)
             /\ pc' \in {then, "astray"}
  BY <1>6 DEF PrintNumber, BeginPrintf, Begin, Idle, CalmInv, printVars
<1>21. CASE boot_message
  <2>1. printing' \in BOOLEAN /\ (~printing' => out' = <<>>) /\ pc' \in {"boot", "astray"}
    BY <1>6, <1>21 DEF boot_message
  <2> QED
    BY <1>21, <2>1 DEF boot_message, CalmInv, readVars, histVars
<1>22. CASE kmalloc_fails
  <2>1. printing' \in BOOLEAN /\ (~printing' => out' = <<>>) /\ pc' \in {"halting", "astray"}
    BY <1>6, <1>22 DEF kmalloc_fails
  <2> QED
    BY <1>22, <2>1 DEF kmalloc_fails, Forget, CalmInv, readVars
<1>23. CASE k_ok
  BY <1>23 DEF k_ok, Begin, CalmInv, readVars, histVars
<1>7. CASE init_font
  <2>1. PICK l \in Keys : con' = IF font' THEN write_char(write_char(con, l), "LF") ELSE con
    BY <1>7 DEF init_font
  <2>2. write_char(write_char(con, l), "LF").bg = con.bg
    BY WriteColour
  <2>3. con'.bg = con.bg
    BY <2>1, <2>2
  <2> QED
    BY <1>7, <2>3 DEF init_font, Idle, CalmInv, readVars, histVars, printVars
<1>8. CASE clear_screen
  <2> DEFINE f == Filled(con, <<con.bg, 0>>, {c \in Visible : InWidth(c)})
             e == Moved(f, 0, 5)
  <2>1. f.bg = con.bg
    BY FilledKeeps
  <2> HIDE DEF f
  <2>2. e.bg = f.bg
    BY MovedKeeps
  <2>3. con' = swap_framebuffers(e)
    BY <1>8 DEF clear_screen, f
  <2> HIDE DEF e
  <2>4. con'.bg = con.bg
    BY <2>1, <2>2, <2>3, SwapKeeps
  <2> QED
    BY <1>8, <2>4 DEF clear_screen, Idle, CalmInv, readVars, printVars
<1>9. ASSUME NEW t, kstatusf(t) PROVE CalmInv'
  BY <1>9 DEF kstatusf, BeginPrintf, Begin, Idle, CalmInv, readVars, histVars
<1>10. ASSUME NEW t, write(t) PROVE CalmInv'
  BY <1>10 DEF write, BeginPrintf, Begin, Idle, Forget, CalmInv, readVars
<1>11. ASSUME NEW n, write_fb_device(n) PROVE CalmInv'
  <2> DEFINE f == Filled(con, <<"picture", 0>>, 0 .. n - 1)
  <2>1. f.bg = con.bg
    BY FilledKeeps
  <2>2. con' = swap_framebuffers(f)
    BY <1>11 DEF write_fb_device
  <2> HIDE DEF f
  <2>3. con'.bg = con.bg
    BY <2>1, <2>2, SwapKeeps
  <2> QED
    BY <1>11, <2>3 DEF write_fb_device, Forget, CalmInv, readVars, printVars
<1>12. CASE read_fb_device
  <2>1. con'.bg = con.bg
    BY <1>12, SwapKeeps DEF read_fb_device
  <2> QED
    BY <1>12, <2>1 DEF read_fb_device, CalmInv, readVars, printVars, histVars
<1>13. CASE read_ps2_kb
  <2>1. con'.bg = con.bg
    BY <1>13, CursorColour DEF read_ps2_kb
  <2> QED
    <3>1. pc = "run" /\ con.bg = "dark" /\ ~printing /\ out = <<>>
      BY <1>13 DEF read_ps2_kb, CalmInv
    <3>2. /\ printing' = printing /\ out' = out /\ font' = font /\ faulted' = faulted
          /\ calm' \in BOOLEAN /\ (calm' => calm)
      BY <1>13 DEF read_ps2_kb, Forget, printVars
    <3>3. CASE font
      <4>1. reading' = TRUE /\ len' = 0 /\ pc' = pc
        BY <1>13, <3>3 DEF read_ps2_kb
      <4> QED
        BY <2>1, <3>1, <3>2, <3>3, <4>1 DEF CalmInv
    <3>4. CASE ~font
      <4>1. reading' = reading /\ len' = len /\ pc' = "astray"
        BY <1>13, <3>4 DEF read_ps2_kb, readVars
      <4> QED
        BY <2>1, <3>1, <3>2, <3>4, <4>1 DEF CalmInv
    <3> QED
      BY <3>3, <3>4
<1>14. ASSUME NEW ch, echo_character(ch) PROVE CalmInv'
  <2>1. con'.bg = con.bg
    BY <1>14, CursorColour, PrintedColour DEF echo_character
  <2> QED
    BY <1>14, <2>1 DEF echo_character, Forget, Runs, CalmInv, printVars
<1>15. CASE echo_backspace
  <2>1. con'.bg = con.bg
    BY <1>15, ErasedColour DEF echo_backspace
  <2> QED
    BY <1>15, <2>1 DEF echo_backspace, Runs, CalmInv, printVars
<1>16. CASE echo_enter
  <2>1. con'.bg = con.bg
    <3> DEFINE p == Printed(con, " ")
    <3>1. p.bg = con.bg /\ con' = Left(p, 1)
      BY <1>16, PrintedColour DEF echo_enter
    <3> HIDE DEF p
    <3> QED
      BY <3>1, LeftKeeps
  <2> QED
    BY <1>16, <2>1 DEF echo_enter, Runs, CalmInv, printVars, histVars
<1>17. CASE exception_handler
  BY <1>17 DEF exception_handler, Forget, CalmInv, printVars, readVars
<1>18. CASE kpanic
  BY <1>18 DEF kpanic, BeginPrintf, Begin, CalmInv, readVars, histVars
<1>19. CASE nested_exception \/ halt
  BY <1>19 DEF nested_exception, halt, CalmInv, readVars, histVars, printVars
<1>20. CASE UNCHANGED vars
  BY <1>20 DEF vars, CalmInv, readVars, histVars, printVars
<1> QED
  BY <1>1, <1>2, <1>3, <1>4, <1>5, <1>6, <1>7, <1>8, <1>9, <1>10, <1>11, <1>12, <1>13, <1>14, <1>15,
     <1>16, <1>17, <1>18, <1>19, <1>20, <1>21, <1>22, <1>23 DEF Next, print

LEMMA SwapShows ==
  ASSUME NEW k, NEW t, NEW c, Shows(k, t, c)
  PROVE  Shows(swap_framebuffers(k), t, c) /\ Swapped(swap_framebuffers(k))
<1> DEFINE s == swap_framebuffers(k)
<1>1. s.col = k.col /\ s.y = k.y /\ s.bg = k.bg /\ s.back = k.back /\ Swapped(s)
  BY SwapKeeps
<1> HIDE DEF s
<1>2. Shows(s, t, c)
  BY <1>1 DEF Shows
<1> QED
  BY <1>1, <1>2 DEF s

\* The cleared screen shows one empty line.
LEMMA ClearShows ==
  ASSUME NEW k, k.bg = "dark"
  PROVE  LET e == swap_framebuffers(Moved(Filled(k, <<k.bg, 0>>, {c \in Visible : InWidth(c)}), 0, 5)) IN
         Shows(e, <<<<>>>>, FALSE) /\ Swapped(e)
<1> DEFINE f == Filled(k, <<k.bg, 0>>, {c \in Visible : InWidth(c)})
           m == Moved(f, 0, 5)
           e == swap_framebuffers(m)
           t == <<<<>>>>
<1>1. f.bg = "dark" /\ \A c \in Cells : c \in Visible /\ InWidth(c) => f.back[c] = <<"dark", 0>>
  BY FilledKeeps
<1> HIDE DEF f
<1>2. m.bg = f.bg /\ m.back = f.back /\ m.col = 0 /\ m.y = 5
  BY MovedKeeps
<1> HIDE DEF m
<1>3. e.bg = m.bg /\ e.back = m.back /\ e.col = m.col /\ e.y = m.y /\ Swapped(e)
  BY SwapKeeps
<1> HIDE DEF e
<1>4. 1 \in 1 .. MaxLines
  <2> DEFINE room == Height - CharSize - 6
             q == room \div LineRows
  <2>1. room \in Nat /\ LineRows \in Nat \ {0} /\ LineRows = CharSize + 1
    BY Sizes
  <2>2. q \in Nat
    <3> HIDE DEF room
    <3> QED
      BY <2>1, Division
  <2>3. MaxLines = q + 1
    BY <2>1 DEF MaxLines
  <2> HIDE DEF q
  <2> QED
    BY <2>2, <2>3
<1>5. t \in Seq(Seq(Chars)) /\ Len(t) = 1 /\ t[1] = <<>> /\ Len(t[1]) = 0
  <2> DEFINE none == <<>>
             S == Seq(Chars)
  <2>1. none \in S /\ Len(none) = 0
    OBVIOUS
  <2> HIDE DEF none, S
  <2>2. <<none>> \in Seq(S) /\ Len(<<none>>) = 1 /\ <<none>>[1] = none
    BY <2>1
  <2> QED
    BY <2>1, <2>2 DEF none, S
<1> HIDE DEF t
<1>6. Top(1) = 5 /\ Columns \in Nat /\ Columns >= 2 /\ Height \in Nat /\ CharSize \in Nat
  BY Sizes DEF Top
<1>7. ASSUME NEW row \in 0 .. Height, row < Height, NEW x \in 0 .. Columns - 1
      PROVE  e.back[At(row, x)] = <<"dark", 0>>
  <2>1. At(row, x) \in Cells /\ At(row, x) \in Visible /\ InWidth(At(row, x))
    BY <1>6, <1>7, AtCells, AtInWidth
  <2> QED
    BY <1>1, <1>2, <1>3, <2>1
<1>8. Picture(e.back, t, FALSE)
  <2>1. ASSUME NEW i \in 1 .. Len(t), NEW x \in 0 .. Columns - 1, NEW j \in 0 .. CharSize - 1
        PROVE  e.back[At(Top(i) + j, x)] = Cell(t, i, x, j, FALSE)
    <3>1. i = 1
      BY <1>5
    <3>2. Top(i) + j \in 0 .. Height /\ Top(i) + j < Height
      BY <1>4, <3>1, RowsApart
    <3>3. ~(x + 1 <= Len(t[i]))
      BY <1>5, <1>6, <3>1
    <3>4. Cell(t, i, x, j, FALSE) = <<"dark", 0>>
      BY <3>3 DEF Cell
    <3> QED
      BY <1>7, <3>2, <3>4
  <2> QED
    BY <2>1 DEF Picture
<1>9. Clean(e.back, t)
  <2>1. ASSUME NEW row \in Top(Len(t)) + CharSize .. Height - 1
        PROVE  row \in 0 .. Height /\ row < Height
    BY <1>5, <1>6
  <2> QED
    BY <1>7, <2>1 DEF Clean
<1>10. TextOk(t)
  BY <1>4, <1>5 DEF TextOk
<1>11. Len(t[Len(t)]) = 0 /\ 0 < Columns
  BY <1>5, <1>6
<1>12. e.bg = "dark" /\ e.y = Top(Len(t)) /\ e.col = Len(t[Len(t)]) /\ Len(t[Len(t)]) < Columns
  BY <1>1, <1>2, <1>3, <1>5, <1>6, <1>11
<1>13. Shows(e, t, FALSE)
  BY <1>8, <1>9, <1>10, <1>12 DEF Shows
<1> QED
  BY <1>3, <1>13 DEF e, t, m, f

\* A key is added to the last line, in which there is room for it and the cursor.
LEMMA TypedLonger ==
  ASSUME NEW t, TextOk(t), NEW ch \in Chars, ch # "LF", Len(t[Len(t)]) < Columns - 1
  PROVE  LET u == Typed(t, ch) IN Len(u[Len(u)]) = Len(t[Len(t)]) + 1
<1> DEFINE m == Len(t)
           l == t[m]
           w == Append(l, ch)
           v == [t EXCEPT ![m] = w]
<1>1. l \in Seq(Chars) /\ t # <<>> /\ Len(l) \in Nat /\ Columns \in Nat /\ Len(l) < Columns - 1
  BY LastLine, Sizes
<1>2. Typed(t, ch) = IF Len(v[Len(v)]) = Columns THEN BeginLine(v) ELSE v
  BY <1>1 DEF Typed
<1> HIDE DEF l
<1>3. w \in Seq(Chars) /\ Len(w) = Len(l) + 1
  BY <1>1
<1> HIDE DEF w
<1>4. Len(v) = m /\ v[m] = w
  BY <1>3, LastLineEdited
<1> HIDE DEF v
<1>5. Len(v[Len(v)]) = Len(l) + 1 /\ Len(v[Len(v)]) # Columns
  BY <1>1, <1>3, <1>4
<1>6. Typed(t, ch) = v
  BY <1>2, <1>5
<1> QED
  BY <1>5, <1>6 DEF l

\* A key with its cursor.
LEMMA EchoShows ==
  ASSUME NEW k, NEW t, Shows(k, t, TRUE), Len(t[Len(t)]) < Columns - 1,
         NEW ch \in Chars, ch # "LF", ~AtLineEnd(Printed(k, ch))
  PROVE  LET u == Typed(t, ch) IN
         /\ Shows(draw_cursor(Printed(k, ch)), u, TRUE) /\ Swapped(draw_cursor(Printed(k, ch)))
         /\ Len(u[Len(u)]) = Len(t[Len(t)]) + 1 /\ Len(u[Len(u)]) < Columns - 1
<1> DEFINE u == Typed(t, ch)
           p == Printed(k, ch)
           yes == TRUE
<1>1. yes \in BOOLEAN /\ Shows(k, t, yes)
  OBVIOUS
<1> HIDE DEF yes
<1>2. Shows(write_char(k, ch), u, FALSE)
  BY <1>1, WriteShows
<1>3. Shows(p, u, FALSE)
  BY <1>2, SwapShows DEF Printed
<1>4. TextOk(t) /\ Len(t[Len(t)]) \in Nat /\ Columns \in Nat
  BY LastLine, Sizes DEF Shows
<1>5. Len(u[Len(u)]) = Len(t[Len(t)]) + 1
  BY <1>4, TypedLonger
<1> HIDE DEF u
<1>6. p.col = Len(u[Len(u)])
  BY <1>3 DEF Shows
<1>7. p.col # Columns - 1
  BY DEF AtLineEnd
<1>8. Len(u[Len(u)]) < Columns - 1
  BY <1>4, <1>5, <1>6, <1>7
<1> HIDE DEF p
<1>9. Shows(draw_cursor(p), u, TRUE) /\ Swapped(draw_cursor(p))
  BY <1>3, <1>8, CursorShows
<1> QED
  BY <1>5, <1>8, <1>9 DEF p, u

\* As long as nothing spoils the picture every action keeps it.
LEMMA TextStep ==
  ASSUME PictureInv, [Next]_vars, calm', ~faulted'
  PROVE  CalmText(con, text, printing, out, reading, len)'
<1> DEFINE Now == CalmText(con, text, printing, out, reading, len)
<1> USE DEF CalmText
<1>0. CalmInv /\ (calm /\ ~faulted => Now)
  BY DEF PictureInv
<1> HIDE DEF Now
<1>1. CASE write_character
  <2>1. calm /\ ~faulted /\ font /\ printing /\ printing' = printing /\ reading' = reading /\ len' = len
    BY <1>0, <1>1 DEF write_character, CalmInv, readVars
  <2>2. Shows(con, text, reading) /\ ~reading /\ out \in Seq(Chars) /\ reading \in BOOLEAN
    BY <1>0, <2>1 DEF Now, CalmInv
  <2>3. out # <<>> /\ out' = Tail(out)
    BY <1>1 DEF write_character
  <2>4. Head(out) \in Chars /\ out' \in Seq(Chars)
    <3> DEFINE S == Chars
    <3> HIDE DEF S
    <3>1. out \in Seq(S)
      BY <2>2 DEF S
    <3>2. Head(out) \in S /\ Tail(out) \in Seq(S)
      BY <2>3, <3>1
    <3> QED
      BY <2>3, <3>2 DEF S
  <2>5. con' = write_char(con, Head(out)) /\ text' = Typed(text, Head(out))
    BY <1>1, <2>1 DEF write_character
  <2>6. Shows(write_char(con, Head(out)), Typed(text, Head(out)), FALSE)
    BY <2>2, <2>4, WriteShows
  <2>7. Shows(con', text', FALSE)
    BY <2>5, <2>6
  <2> QED
    BY <2>1, <2>2, <2>4, <2>7
<1>2. CASE write_any_text
  <2>1. /\ calm /\ ~faulted /\ con' = con /\ text' = text /\ printing' = printing /\ reading' = reading
        /\ len' = len /\ printing
    BY <1>2 DEF write_any_text, histVars, readVars
  <2>2. Now
    BY <1>0, <2>1
  <2>3. out \in Seq(Chars) /\ out # <<>>
    BY <1>2, <2>1, <2>2 DEF Now, write_any_text
  <2>4. PICK w \in {<<>>} \union {<<l>> : l \in Keys} : out' = w \o Tail(out)
    BY <1>2 DEF write_any_text
  <2>5. w \in Seq(Chars)
    <3>1. Keys \subseteq Chars
      BY ConsoleAssumption DEF Chars
    <3> DEFINE S == Chars
    <3> HIDE DEF S
    <3>2. Keys \subseteq S
      BY <3>1 DEF S
    <3>3. ASSUME NEW l \in Keys PROVE <<l>> \in Seq(S)
      BY <3>2
    <3>4. <<>> \in Seq(S)
      OBVIOUS
    <3>5. w \in Seq(S)
      BY <3>3, <3>4
    <3> QED
      BY <3>5 DEF S
  <2>6. out' \in Seq(Chars)
    <3> DEFINE S == Chars
    <3> HIDE DEF S
    <3>1. out \in Seq(S) /\ w \in Seq(S) /\ out # <<>>
      BY <2>3, <2>5 DEF S
    <3>2. Tail(out) \in Seq(S)
      BY <3>1
    <3>3. w \o Tail(out) \in Seq(S)
      BY ONLY <3>1, <3>2, ConcatProperties
    <3> QED
      BY <2>4, <3>3 DEF S
  <2> QED
    BY <2>1, <2>2, <2>6 DEF Now
<1>3. CASE write_faults
  BY <1>3 DEF write_faults
<1>4. CASE printf_ends \/ k_ok_swaps
  <2>1. /\ calm /\ ~faulted /\ text' = text /\ printing /\ ~printing' /\ reading' = reading
        /\ len' = len /\ font
    BY <1>0, <1>4 DEF printf_ends, k_ok_swaps, histVars, readVars, CalmInv
  <2>2. con' = swap_framebuffers(con)
    BY <1>4, <2>1 DEF printf_ends, k_ok_swaps, Shown
  <2>3. Shows(con, text, reading) /\ ~reading
    BY <1>0, <2>1 DEF Now
  <2>4. Shows(con', text, reading) /\ Swapped(con')
    BY <2>2, <2>3, SwapShows
  <2> QED
    BY <2>1, <2>3, <2>4
<1>5. ASSUME UNCHANGED <<con, text, printing, out, reading, len>>, calm, ~faulted
      PROVE  CalmText(con, text, printing, out, reading, len)'
  BY <1>0, <1>5 DEF Now
<1>6. CASE spinlock_aquire \/ k_ok_releases
  BY <1>5, <1>6 DEF spinlock_aquire, k_ok_releases, printVars, readVars, histVars
<1>7. CASE boot_message \/ k_ok \/ init_font \/ kpanic \/ nested_exception \/ halt
  <2>1. ~calm /\ calm' = calm
    BY <1>0, <1>7 DEF boot_message, k_ok, init_font, kpanic, nested_exception, halt, CalmInv, histVars
  <2> QED
    BY <2>1
<1>8. CASE clear_screen
  <2>1. con.bg = "dark" /\ ~reading /\ reading' = reading /\ ~printing' /\ text' = <<<<>>>>
    BY <1>0, <1>8 DEF clear_screen, CalmInv, readVars, printVars, Idle
  <2>2. con' = swap_framebuffers(Moved(Filled(con, <<con.bg, 0>>, {c \in Visible : InWidth(c)}), 0, 5))
    BY <1>8 DEF clear_screen
  <2>3. Shows(con', <<<<>>>>, FALSE) /\ Swapped(con')
    BY <2>1, <2>2, ClearShows
  <2>4. reading' = FALSE
    BY <1>0, <2>1 DEF CalmInv
  <2> QED
    BY <2>1, <2>3, <2>4
<1>9. ASSUME NEW t \in Texts, kstatusf(t) PROVE FALSE
  BY <1>0, <1>9 DEF kstatusf, CalmInv, histVars
<1>10. ASSUME NEW t \in Texts, write(t) PROVE CalmText(con, text, printing, out, reading, len)'
  <2>1. /\ calm /\ ~faulted /\ ~reading /\ printing' /\ con' = con /\ text' = text /\ reading' = reading
        /\ len' = len /\ out' = t
    BY <1>10 DEF write, BeginPrintf, Begin, Forget, readVars
  <2>2. t \in Seq(Chars)
    <3> DEFINE S == Chars
               R == Letters \union {"LF", "conv"}
    <3>1. R \subseteq S
      BY DEF Chars
    <3>2. t \in Seq(R)
      BY ConsoleAssumption
    <3> HIDE DEF S, R
    <3>3. t \in Seq(S)
      BY <3>1, <3>2
    <3> QED
      BY <3>3 DEF S
  <2>3. Shows(con, text, reading)
    BY <1>0, <2>1 DEF Now
  <2> QED
    BY <2>1, <2>2, <2>3
<1>11. ASSUME NEW n, write_fb_device(n) PROVE FALSE
  BY <1>11 DEF write_fb_device, Forget
<1>12. CASE read_fb_device
  <2>1. /\ calm /\ ~faulted /\ text' = text /\ printing' = printing /\ ~printing /\ reading' = reading
        /\ len' = len /\ con' = swap_framebuffers(con)
    BY <1>12 DEF read_fb_device, histVars, readVars, printVars
  <2>2. Now
    BY <1>0, <2>1
  <2>3. Shows(con', text, reading) /\ Swapped(con')
    BY <2>1, <2>2, SwapShows DEF Now
  <2> QED
    BY <2>1, <2>2, <2>3 DEF Now
<1>13. CASE read_ps2_kb
  <2>1. /\ calm /\ ~faulted /\ text' = text /\ printing' = printing /\ ~printing /\ ~reading
        /\ ~AtLineEnd(con) /\ font
    BY <1>0, <1>13 DEF read_ps2_kb, Forget, printVars, CalmInv
  <2>2. con' = draw_cursor(con) /\ reading' = TRUE /\ len' = 0
    BY <1>13, <2>1 DEF read_ps2_kb
  <2>3. Shows(con, text, FALSE)
    <3>1. reading = FALSE
      BY <1>0, <2>1 DEF CalmInv
    <3>2. Shows(con, text, reading)
      BY <1>0, <2>1 DEF Now
    <3> QED
      BY <3>1, <3>2
  <2> DEFINE n == Len(text[Len(text)])
  <2>4. con.col = n /\ con.col \in Nat /\ con.col < Columns /\ Columns \in Nat
    BY <2>3, ColumnFits
  <2> HIDE DEF n
  <2>5. n < Columns - 1 /\ 0 <= n
    BY <2>1, <2>4 DEF AtLineEnd
  <2>6. Shows(con', text, TRUE) /\ Swapped(con')
    BY <2>2, <2>3, <2>5, CursorShows DEF n
  <2> QED
    BY <2>1, <2>2, <2>5, <2>6 DEF n
<1>14. ASSUME NEW ch \in Keys \union {"NUL"}, echo_character(ch)
       PROVE  CalmText(con, text, printing, out, reading, len)'
  <2>1. /\ calm /\ ~faulted /\ printing' = printing /\ ~printing /\ reading /\ reading' = reading
        /\ ~AtLineEnd(Printed(con, ch)) /\ len' = len + 1 /\ con' = draw_cursor(Printed(con, ch))
        /\ len \in Nat /\ reading \in BOOLEAN
    BY <1>0, <1>14 DEF echo_character, Forget, Runs, Idle, printVars, CalmInv
  <2>2. text' = Typed(text, ch)
    BY <1>14, <2>1 DEF echo_character
  <2>3. ch \in Chars /\ ch # "LF"
    BY ConsoleAssumption DEF Chars
  <2>4. Shows(con, text, TRUE) /\ len <= Len(text[Len(text)]) /\ Len(text[Len(text)]) < Columns - 1
    <3>1. reading = TRUE
      BY <2>1
    <3>2. Now
      BY <1>0, <2>1
    <3> QED
      BY <2>1, <3>1, <3>2 DEF Now
  <2> DEFINE u == Typed(text, ch)
             n == Len(text[Len(text)])
             m == Len(u[Len(u)])
  <2>5. Shows(con', u, TRUE) /\ Swapped(con') /\ m = n + 1 /\ m < Columns - 1
    BY <2>1, <2>3, <2>4, EchoShows
  <2>6. n \in Nat
    BY <2>4, LastLine DEF Shows
  <2>7. len <= n /\ text' = u
    BY <2>2, <2>4
  <2> HIDE DEF n, u
  <2>8. len' <= m
    BY <2>1, <2>5, <2>6, <2>7
  <2>9. reading' = TRUE /\ ~printing'
    BY <2>1
  <2> QED
    BY <2>5, <2>7, <2>8, <2>9
<1>15. CASE echo_backspace
  <2>1. /\ calm /\ ~faulted /\ printing' = printing /\ ~printing /\ reading /\ reading' = reading
        /\ len' = len - 1 /\ con' = Erased(con) /\ len > 0 /\ len \in Nat /\ reading \in BOOLEAN
    BY <1>0, <1>15 DEF echo_backspace, Runs, Idle, printVars, CalmInv
  <2>2. text' = [text EXCEPT ![Len(text)] = SubSeq(@, 1, Len(@) - 1)]
    BY <1>15, <2>1 DEF echo_backspace
  <2>3. Shows(con, text, TRUE) /\ len <= Len(text[Len(text)]) /\ Len(text[Len(text)]) < Columns - 1
    <3>1. reading = TRUE
      BY <2>1
    <3>2. Now
      BY <1>0, <2>1
    <3> QED
      BY <2>1, <3>1, <3>2 DEF Now
  <2> DEFINE u == [text EXCEPT ![Len(text)] = SubSeq(@, 1, Len(@) - 1)]
             n == Len(text[Len(text)])
             m == Len(u[Len(u)])
  <2>4. n \in Nat
    BY <2>3, LastLine DEF Shows
  <2>5. n >= 1
    <3>1. len <= n
      BY <2>3
    <3> HIDE DEF n
    <3> QED
      BY <2>1, <2>4, <3>1
  <2>6. Shows(con', u, TRUE) /\ Swapped(con') /\ m + 1 = n
    BY <2>1, <2>3, <2>5, EraseShows
  <2>7. TextOk(u)
    BY <2>6 DEF Shows
  <2>8. m \in Nat
    BY <2>7, LastLine
  <2>9. len <= n /\ text' = u /\ n < Columns - 1 /\ Columns \in Nat
    BY <2>2, <2>3, Sizes
  <2> HIDE DEF n, m, u
  <2>10. len' <= m /\ m < Columns - 1
    BY <2>1, <2>4, <2>6, <2>8, <2>9
  <2>11. reading' = TRUE /\ ~printing'
    BY <2>1
  <2> QED
    BY <2>6, <2>9, <2>10, <2>11 DEF m
<1>16. CASE echo_enter
  <2>1. /\ calm /\ ~faulted /\ printing' = printing /\ ~printing /\ reading /\ reading' = FALSE
        /\ con' = Left(Printed(con, " "), 1) /\ text' = text /\ reading \in BOOLEAN
    BY <1>0, <1>16 DEF echo_enter, Runs, Idle, printVars, histVars, CalmInv
  <2>2. Shows(con, text, TRUE) /\ Len(text[Len(text)]) < Columns - 1
    <3>1. reading = TRUE
      BY <2>1
    <3>2. Now
      BY <1>0, <2>1
    <3> QED
      BY <2>1, <3>1, <3>2 DEF Now
  <2>3. Shows(con', text, FALSE) /\ Swapped(con')
    BY <2>1, <2>2, CoverShows
  <2> QED
    BY <2>1, <2>3
<1>17. CASE exception_handler \/ kmalloc_fails
  BY <1>17 DEF exception_handler, kmalloc_fails, Forget
<1>18. CASE UNCHANGED vars
  BY <1>5, <1>18 DEF vars, printVars, readVars, histVars
<1> QED
  BY <1>1, <1>2, <1>3, <1>4, <1>6, <1>7, <1>8, <1>9, <1>10, <1>11, <1>12, <1>13, <1>14, <1>15, <1>16,
     <1>17, <1>18 DEF Next, print

LEMMA PictureStep == PictureInv /\ [Next]_vars => PictureInv'
<1> SUFFICES ASSUME PictureInv, [Next]_vars PROVE PictureInv'
  OBVIOUS
<1>1. CalmInv'
  BY CalmStep DEF PictureInv
<1>2. calm' /\ ~faulted' => CalmText(con, text, printing, out, reading, len)'
  BY TextStep
<1> QED
  BY <1>1, <1>2 DEF PictureInv

\* The lines counted from below are those counted from above.
LEMMA PictureSeen == PictureInv => ScreenIsText
<1> SUFFICES ASSUME PictureInv, Packed, calm, ~faulted, ~printing, pc = "run"
             PROVE  /\ con.col = Len(text[Len(text)])
                    /\ \A n \in 0 .. Len(text) - 1 : LineShown(n)
  BY DEF ScreenIsText
<1>1. Shows(con, text, reading) /\ Swapped(con)
  BY DEF PictureInv, CalmText
<1>2. con.bg = "dark" /\ con.y = Top(Len(text)) /\ con.col = Len(text[Len(text)]) /\ TextOk(text)
      /\ Picture(con.back, text, reading)
  BY <1>1 DEF Shows
<1>3. Len(text) \in 1 .. MaxLines /\ Len(text) \in Nat \ {0}
  BY <1>2, LastLine
<1>4. ASSUME NEW n \in 0 .. Len(text) - 1 PROVE LineShown(n)
  <2> DEFINE i == Len(text) - n
             line == text[i]
  <2>1. i \in 1 .. Len(text) /\ i \in Nat \ {0} /\ n \in Nat /\ i + n = Len(text) /\ (i = Len(text) <=> n = 0)
    BY <1>3
  <2>2. con.y - n * (CharSize + 1) = Top(i)
    <3> DEFINE a == (i - 1) * LineRows
               b == n * LineRows
               c == (Len(text) - 1) * LineRows
    <3>1. LineRows \in Nat /\ LineRows = CharSize + 1 /\ i - 1 \in Nat /\ Len(text) - 1 = (i - 1) + n
      <4> DEFINE m == Len(text)
      <4>1. LineRows \in Nat /\ LineRows = CharSize + 1 /\ m \in Nat
        BY <1>3, Sizes
      <4>2. i \in Nat \ {0} /\ n \in Nat /\ i + n = m
        BY <2>1
      <4> HIDE DEF m, i, a, b, c
      <4>3. i - 1 \in Nat /\ m - 1 = (i - 1) + n
        BY <4>1, <4>2
      <4> QED
        BY <4>1, <4>3 DEF m
    <3>2. a \in Nat /\ b \in Nat /\ c = a + b
      <4> DEFINE p == LineRows
                 e == i - 1
      <4>1. p \in Nat /\ e \in Nat /\ n \in Nat /\ Len(text) - 1 = e + n
        BY <2>1, <3>1
      <4> HIDE DEF p, e
      <4>2. e * p \in Nat /\ n * p \in Nat /\ (e + n) * p = e * p + n * p
        BY <4>1
      <4> QED
        BY <4>1, <4>2 DEF p, e
    <3>3. con.y = 5 + c /\ Top(i) = 5 + a /\ n * (CharSize + 1) = b
      BY <1>2, <3>1 DEF Top
    <3> HIDE DEF a, b, c, i
    <3> QED
      BY <3>2, <3>3
  <2>3. ASSUME NEW col \in 0 .. Columns - 1, NEW j \in 0 .. CharSize - 1
        PROVE  con.front[At(Top(i) + j, col)] =
                 IF col + 1 <= Len(line) THEN Mark(con, line[col + 1], j)
                 ELSE IF n = 0 /\ reading /\ col = Len(line) THEN <<"white", 0>>
                 ELSE <<"dark", 0>>
    <3>1. Top(i) + j \in 0 .. Height /\ Top(i) + j < Height
      BY <1>3, <2>1, RowsApart
    <3>2. At(Top(i) + j, col) \in Visible /\ Buffer = Visible
      BY <3>1, AtCells DEF Packed, Buffer, Visible
    <3>3. con.front[At(Top(i) + j, col)] = con.back[At(Top(i) + j, col)]
      BY <1>1, <3>2 DEF Swapped
    <3>4. con.back[At(Top(i) + j, col)] = Cell(text, i, col, j, reading)
      BY <1>2, <2>1 DEF Picture
    <3>5. \A ch : Mark(con, ch, j) = Glyph(ch, j)
      BY <1>2 DEF Mark, Glyph
    <3>6. Cell(text, i, col, j, reading) =
            IF col + 1 <= Len(line) THEN Glyph(line[col + 1], j)
            ELSE IF n = 0 /\ reading /\ col = Len(line) THEN <<"white", 0>>
            ELSE <<"dark", 0>>
      BY <2>1 DEF Cell
    <3> QED
      BY <3>3, <3>4, <3>5, <3>6
  <2> QED
    BY <2>2, <2>3 DEF LineShown
<1> QED
  BY <1>2, <1>4

\* The screen shows the last lines of what was printed and typed, whole and in their
\* places through every scroll, line end and correction, and the cursor of a read behind
\* them, on a screen of any size whose rows are not padded and with a font of any size.
THEOREM TextShown == Spec => []ScreenIsText
<1> QED BY PictureInit, PictureStep, PictureSeen, PTL DEF Spec
=============================================================================
