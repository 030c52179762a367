------------------------------- MODULE Console -------------------------------
(***************************************************************************)
(* The text on the screen: printf and its lock (utils/printf.c), the        *)
(* drawing of characters with its line ends and scrolling                   *)
(* (drivers/renderfont.c), the double buffer (drivers/framebuffer.c), the   *)
(* cursor and the echo of the keyboard's line editor (drivers/keyboard.c)   *)
(* and the panic (kernel/panic.c).                                          *)
(*                                                                         *)
(* A character is 8 pixels wide and the first column begins at pixel 5; the *)
(* width is a multiple of 8.  So a row of pixels is Columns + 1 cells of 8, *)
(* of which the one before column 0 is the margin, and x is 5 + 8 * col.    *)
(* An x below 0 is a large number in the code: column -1 is the margin, and *)
(* column -2 is the last cell of the row of pixels above.  A cell holds one *)
(* slice of a glyph.  The machine may pad its rows: they are Pitch cells    *)
(* apart, while the back buffer has room for Height rows without padding.   *)
(* All of this runs with interrupts off: a print under way is not           *)
(* interrupted, but may fault.                                              *)
(***************************************************************************)
EXTENDS Integers, Sequences

CONSTANTS
    Columns,    \* characters in a line
    Pitch,      \* cells from one row of pixels to the next
    Height,     \* rows of pixels
    CharSize,   \* rows of a glyph
    Letters,    \* the glyphs of the font beside digits
    Keys,       \* bound: the letters that are typed
    Texts,      \* bound: what programs and the kernel print
    Numbers,    \* bound: the numbers that are printed
    Registers,  \* bound: the numbers in a panic
    MaxLine,    \* bound: buffer_size of a read
    MaxSteps    \* bound: prints, keys and pictures after the boot

ASSUME ConsoleAssumption ==
    /\ Columns \in Nat \ {0, 1} /\ CharSize \in Nat \ {0} /\ {MaxLine, MaxSteps} \subseteq Nat
    /\ Height \in Nat /\ Height > CharSize + 5
    \* Enter is no letter: echo_enter handles it.
    /\ "LF" \notin Letters /\ Keys \subseteq Letters /\ Texts \subseteq Seq(Letters \union {"LF", "conv"})

ASSUME NumbersAssumption == Numbers \subseteq Nat /\ Registers \subseteq Nat

DigitNames ==
    <<"0", "1", "2", "3", "4", "5", "6", "7", "8", "9", "A", "B", "C", "D", "E", "F">>
\* The back buffer (framebuffer_size), the rows of the screen, and one row behind them.
PerRow  == Columns + 1
Buffer  == 0 .. Height * PerRow - 1
Visible == 0 .. Height * Pitch - 1
Cells   == 0 .. (Height + 1) * Pitch - 1

ASSUME PitchAssumption == Pitch \in Nat /\ Pitch >= PerRow

\* The machine does not pad its rows.
Packed == Pitch = PerRow

VARIABLES
    con,        \* ch_X as a column, ch_Y, bg_colour, the back and the front buffer
    font,       \* kernel.font_avaliable
    lock,       \* serial_lock
    printing,   \* a print is under way
    ok,         \* it is k_ok
    out,        \* what it has still to write
    asked,      \* history: the conversion and the number it tells
    told,       \* history: the digits it has sent to the serial port
    pc,         \* what the kernel is doing
    stage,      \* which print of the panic is next
    reading,    \* somebody reads D:/stdin
    len,        \* input_len
    faulted,    \* history: a print has ended in a page fault
    calm,       \* history: nothing has happened that spoils the picture
    text,       \* history: the last lines of the text, while calm
    steps       \* bound: how many of MaxSteps were taken

printVars == <<lock, printing, ok, out, asked, told>>
readVars  == <<reading, len>>
histVars  == <<faulted, calm, text>>
vars == <<con, font, printVars, pc, stage, readVars, histVars, steps>>

-----------------------------------------------------------------------------
(* Drawing *)

Screen(col, y, bg, back, front, stray) ==
    [col |-> col, y |-> y, bg |-> bg, back |-> back, front |-> front, stray |-> stray]

Moved(k, col, y) == Screen(col, y, k.bg, k.back, k.front, k.stray)
Coloured(k, bg)  == Screen(k.col, k.y, bg, k.back, k.front, k.stray)
Painted(k, back) == Screen(k.col, k.y, k.bg, back, k.front, k.stray)

At(y, col) == y * Pitch + col + 1

\* The cell is of a column of the screen, not of the padding of its row.
InWidth(c) == c % Pitch < PerRow

\* A slice of the glyph is drawn beyond the back buffer.
Strays(k) == \E j \in 0 .. CharSize - 1 : At(k.y + j, k.col) \notin Buffer

\* Blank is a glyph of the background only.
Mark(k, ch, j) == IF ch = " " THEN <<k.bg, 0>> ELSE <<ch, j>>

\* The slices of the glyph, one in each row of pixels.
draw_char(k, ch) ==
    LET slices == {At(k.y + j, k.col) : j \in 0 .. CharSize - 1}
    IN  Screen(k.col, k.y, k.bg,
               [c \in Cells |-> IF c \in slices THEN Mark(k, ch, (c - At(k.y, k.col)) \div Pitch)
                                ELSE k.back[c]],
               k.front, k.stray \/ Strays(k))

\* As much as the back buffer has room for, which is not all of a padded screen.
swap_framebuffers(k) ==
    Screen(k.col, k.y, k.bg, k.back,
           [c \in Visible |-> IF c \in Buffer THEN k.back[c] ELSE k.front[c]], k.stray)

\* The rows move up.  The loop includes the row behind the last one.
MovedUp(k, rows) ==
    LET far == rows * Pitch IN
    Painted(k, [c \in Cells |->
                  IF ~InWidth(c) THEN k.back[c]
                  ELSE IF c + far \in Visible THEN k.back[c + far]
                  ELSE <<k.bg, 0>>])

\* Variant: by the height of a glyph, without the row between lines.
scroll_pixel_less(k) == MovedUp(k, CharSize)

scroll_pixel(k) == MovedUp(k, CharSize + 1)

scroll_line(k) == swap_framebuffers(Moved(scroll_pixel(k), k.col, k.y - (CharSize + 1)))

\* Variant: the last row is taken for one more line.
new_line_late(k) ==
    LET n == Moved(k, 0, k.y + CharSize + 1) IN
    IF n.y > Height THEN scroll_line(n) ELSE n

new_line(k) ==
    LET n == Moved(k, 0, k.y + CharSize + 1) IN
    IF n.y >= Height - CharSize THEN scroll_line(n) ELSE n

\* The line is full, or ch_X is below zero.
write_char(k, ch) ==
    IF ch = "LF" THEN new_line(k)
    ELSE LET d == Moved(draw_char(k, ch), k.col + 1, k.y) IN
         IF d.col >= Columns \/ d.col < 0 THEN new_line(d) ELSE d

Left(k, n) == Moved(k, k.col - n, k.y)

draw_cursor(k) ==
    swap_framebuffers(Left(Coloured(write_char(Coloured(k, "white"), " "), k.bg), 1))

\* printf of one character.
Printed(k, ch) == swap_framebuffers(write_char(k, ch))

Filled(k, mark, cells) == Painted(k, [c \in Cells |-> IF c \in cells THEN mark ELSE k.back[c]])

-----------------------------------------------------------------------------
(* Numbers *)

\* Variant: no digit for zero.
LeastFirst_noZero(num, base) ==
    LET d[n \in Nat] == IF n = 0 THEN <<>> ELSE <<DigitNames[(n % base) + 1]>> \o d[n \div base]
    IN  d[num]

\* The digits in the order they are found.
LeastFirst(num, base) ==
    LET d[n \in Nat] == IF n < base THEN <<DigitNames[n + 1]>>
                        ELSE <<DigitNames[(n % base) + 1]>> \o d[n \div base]
    IN  d[num]

ku_reverse(s) == [n \in DOMAIN s |-> s[Len(s) + 1 - n]]

\* Variant: counted while something is left, which is nothing for zero.
get_num_length_while(num) ==
    LET l[n \in Nat] == IF n = 0 THEN 0 ELSE 1 + l[n \div 10] IN l[num]

\* The loop that counts the digits, apart from the one that finds them.
get_num_length(num) ==
    LET l[n \in Nat] == IF n < 10 THEN 1 ELSE 1 + l[n \div 10] IN l[num]

\* Filled from the end of what was counted.
ku_uint64_to_string(num) ==
    LET d == LeastFirst(num, 10)
        l == get_num_length(num)
    IN  [n \in 1 .. l |-> IF l + 1 - n \in DOMAIN d THEN d[l + 1 - n] ELSE "unset"]

ku_uint64_to_binary_string(num) == ku_reverse(LeastFirst(num, 2))

\* Filled up to 16 digits.
ku_uint64_to_hex_string(num) ==
    LET d == LeastFirst(num, 16) IN ku_reverse(d \o [n \in 1 .. 16 - Len(d) |-> "0"])

\* A zero is put behind the first digits.
Cut(s, digits) == IF Len(s) <= digits THEN s ELSE SubSeq(s, 1, digits)

\* Of %i the first nine digits are written.
Format(conversion, num) ==
    CASE conversion = "i" -> Cut(ku_uint64_to_string(num), 9)
      [] conversion = "b" -> ku_uint64_to_binary_string(num)
      [] conversion = "x" -> ku_uint64_to_hex_string(num)

\* With its zero, a number of ten digits does not fit in the ten bytes of the buffer.
Overruns(conversion, num) == conversion = "i" /\ get_num_length(num) + 1 > 10

Nothing == <<"none", 0>>

-----------------------------------------------------------------------------
(* printf *)

\* How many lines fit, and the text after one more character.
MaxLines == (Height - CharSize - 6) \div (CharSize + 1) + 1

BeginLine(t) == IF Len(t) < MaxLines THEN Append(t, <<>>) ELSE Append(Tail(t), <<>>)

Typed(t, ch) ==
    IF t = <<>> THEN t
    ELSE IF ch = "LF" THEN BeginLine(t)
    ELSE LET n == [t EXCEPT ![Len(t)] = Append(@, ch)] IN
         IF Len(n[Len(n)]) = Columns THEN BeginLine(n) ELSE n

Forget(unless) == calm' = (calm /\ unless)

Idle == ~printing /\ ~lock

\* One more of what is bounded.
Spend == steps < MaxSteps /\ steps' = steps + 1

\* spinlock_aquire succeeds.
Begin(message, number) ==
    /\ Idle
    /\ lock' = TRUE /\ printing' = TRUE
    /\ out' = message /\ asked' = number /\ told' = <<>>

\* printf, or kstatusf and its kin, of which the macro takes the lock before the call.
BeginPrintf(message, number) == Begin(message, number) /\ UNCHANGED ok

\* Somebody prints, and the lock will never be released: interrupts are off.
spinlock_aquire ==
    /\ ~printing /\ lock
    /\ pc \in {"boot", "spawn", "run", "panic"}
    /\ pc' = "hung"
    /\ UNCHANGED <<con, font, printVars, stage, readVars, histVars, steps>>

\* One character, to the serial port and to the screen.
write_character ==
    /\ printing /\ out # <<>> /\ Head(out) # "conv"
    /\ told' = IF asked # Nothing THEN Append(told, Head(out)) ELSE told
    /\ con' = IF font THEN write_char(con, Head(out)) ELSE con
    /\ text' = IF calm THEN Typed(text, Head(out)) ELSE <<>>
    /\ out' = Tail(out)
    /\ UNCHANGED <<font, lock, printing, ok, asked, pc, stage, readVars, faulted, calm, steps>>

\* The text of %s.  A program's text is the format: there is no argument for its %s,
\* and what is taken for one leads to some text or none,
write_any_text ==
    /\ printing /\ out # <<>> /\ Head(out) = "conv"
    /\ \E w \in {<<>>} \union {<<l>> : l \in Keys} : out' = w \o Tail(out)
    /\ UNCHANGED <<con, font, lock, printing, ok, asked, told, pc, stage, readVars, histVars, steps>>

\* or to an exception, which ends the task where it is.
write_faults ==
    /\ pc = "run" /\ printing /\ out # <<>> /\ Head(out) = "conv"
    /\ printing' = FALSE /\ out' = <<>>
    /\ faulted' = TRUE
    /\ UNCHANGED <<con, font, lock, ok, asked, told, pc, stage, readVars, calm, text, steps>>

Shown == con' = IF font THEN swap_framebuffers(con) ELSE con

\* printf_template swaps the buffers and releases the lock.
printf_ends ==
    /\ printing /\ out = <<>> /\ ~ok
    /\ Shown
    /\ lock' = FALSE /\ printing' = FALSE /\ asked' = Nothing /\ told' = <<>>
    /\ UNCHANGED <<ok, out, font, pc, stage, readVars, histVars, steps>>

\* k_ok releases it first,
k_ok_releases ==
    /\ printing /\ out = <<>> /\ ok /\ lock
    /\ lock' = FALSE
    /\ UNCHANGED <<con, font, printing, ok, out, asked, told, pc, stage, readVars, histVars, steps>>

\* and swaps then.
k_ok_swaps ==
    /\ printing /\ out = <<>> /\ ok /\ ~lock
    /\ Shown
    /\ printing' = FALSE /\ ok' = FALSE
    /\ UNCHANGED <<lock, out, asked, told, font, pc, stage, readVars, histVars, steps>>

-----------------------------------------------------------------------------
(* Boot *)

\* The cleared back buffer, somebody's memory behind it, and the first position.
Cleared ==
    Screen(0, 5, "dark",
           [c \in Cells |-> IF c \in Buffer THEN <<"black", 0>> ELSE <<"foreign", 0>>],
           [c \in Visible |-> <<"black", 0>>], FALSE)

Init ==
    /\ con = Cleared /\ font = FALSE
    /\ lock = FALSE /\ printing = FALSE /\ ok = FALSE
    /\ out = <<>> /\ asked = Nothing /\ told = <<>>
    /\ pc = "boot" /\ stage = "none" /\ reading = FALSE /\ len = 0
    /\ faulted = FALSE /\ calm = FALSE /\ text = <<>> /\ steps = 0

\* A print of a number.  What a number that overruns the buffer destroys is the
\* caller's, and the print goes on or anything happens.
PrintNumber(f, n, then) ==
    \/ BeginPrintf(Format(f, n), <<f, n>>) /\ pc' = then
    \/ Idle /\ Overruns(f, n) /\ pc' = "astray" /\ UNCHANGED printVars

\* The messages of the initialisers with their numbers; the screen has none yet.
boot_message ==
    /\ pc = "boot"
    /\ \E n \in Numbers, f \in {"i", "x", "b"} : PrintNumber(f, n, "boot")
    /\ UNCHANGED <<con, font, stage, readVars, histVars, steps>>

\* The font is found or not; its greeting is written without the lock.
init_font ==
    /\ pc = "boot" /\ Idle
    /\ pc' = "spawn"
    /\ font' \in BOOLEAN
    /\ \E l \in Keys :
         con' = IF font' THEN write_char(write_char(con, l), "LF") ELSE con
    /\ UNCHANGED <<printVars, stage, readVars, histVars, steps>>

\* The kernel's other messages,
kstatusf(t) ==
    /\ pc \in {"boot", "spawn"}
    /\ BeginPrintf(t, Nothing)
    /\ Spend
    /\ UNCHANGED <<con, font, pc, stage, readVars, histVars>>

\* and the one that an initialiser ends with.
k_ok ==
    /\ pc \in {"boot", "spawn"}
    /\ \E l \in Keys : Begin(<<l, "LF">>, Nothing)
    /\ ok' = TRUE
    /\ Spend
    /\ UNCHANGED <<con, font, pc, stage, readVars, histVars>>

clear_screen ==
    /\ pc = "spawn" /\ Idle
    /\ con' = swap_framebuffers(Moved(Filled(con, <<con.bg, 0>>, {c \in Visible : InWidth(c)}), 0, 5))
    /\ pc' = "run"
    /\ calm' = font /\ text' = <<<<>>>>
    /\ UNCHANGED <<font, printVars, stage, readVars, faulted, steps>>

-----------------------------------------------------------------------------
(* Programs *)

Runs == pc = "run" /\ Idle

\* write to stdout or stderr.  Output in the middle of a line that is being typed
\* is not told apart from it.
write(t) ==
    /\ pc = "run" /\ BeginPrintf(t, Nothing)
    /\ Forget(~reading)
    /\ Spend
    /\ UNCHANGED <<con, font, pc, stage, readVars, faulted, text>>

\* A picture is copied to the back buffer, whole or in part,
write_fb_device(n) ==
    /\ pc = "run" /\ ~printing
    /\ con' = swap_framebuffers(Filled(con, <<"picture", 0>>, 0 .. n - 1))
    /\ Forget(FALSE) /\ text' = <<>>
    /\ Spend
    /\ UNCHANGED <<font, printVars, pc, stage, readVars, faulted>>

\* or read from there, which also shows what is in it.
read_fb_device ==
    /\ pc = "run" /\ ~printing
    /\ con' = swap_framebuffers(con)
    /\ Spend
    /\ UNCHANGED <<font, printVars, pc, stage, readVars, histVars>>

\* The cursor goes to the next line with the column before the first.
AtLineEnd(k) == k.col = Columns - 1

\* Without a font there is no glyph to draw, and the address of one is near zero.
read_ps2_kb ==
    /\ pc = "run" /\ ~printing /\ ~reading
    /\ IF font
       THEN /\ con' = draw_cursor(con)
            /\ reading' = TRUE /\ len' = 0
            /\ UNCHANGED pc
       ELSE pc' = "astray" /\ UNCHANGED <<con, readVars>>
    /\ Forget(~AtLineEnd(con))
    /\ Spend
    /\ UNCHANGED <<font, printVars, stage, faulted, text>>

\* There is no memory for what a program maps: kmalloc prints how many pages were
\* asked for, any number that the program likes, and the machine halts.
kmalloc_fails ==
    /\ pc = "run"
    /\ \E n \in Numbers : PrintNumber("i", n, "halting")
    /\ Forget(FALSE) /\ text' = <<>>
    /\ Spend
    /\ UNCHANGED <<con, font, stage, readVars, faulted>>

-----------------------------------------------------------------------------
(* The echo of the line editor *)

\* A key with a character, or one for which the tables have 0: Ctrl, the arrow keys and
\* others, and Backspace on an empty line.
echo_character(ch) ==
    /\ Runs /\ reading /\ len < MaxLine
    /\ con' = draw_cursor(Printed(con, ch))
    /\ len' = len + 1
    /\ Forget(~AtLineEnd(Printed(con, ch)))
    /\ text' = IF calm THEN Typed(text, ch) ELSE <<>>
    /\ Spend
    /\ UNCHANGED <<font, printVars, pc, stage, reading, faulted>>

Erased(k) == draw_cursor(Left(Printed(Left(Printed(k, " "), 2), " "), 1))

echo_backspace ==
    /\ Runs /\ reading /\ len > 0
    /\ con' = Erased(con)
    /\ len' = len - 1
    /\ text' = IF calm THEN [text EXCEPT ![Len(text)] = SubSeq(@, 1, Len(@) - 1)] ELSE <<>>
    /\ Spend
    /\ UNCHANGED <<font, printVars, pc, stage, reading, faulted, calm>>

\* Enter, or any key when the buffer is full: the cursor is covered up.
echo_enter ==
    /\ Runs /\ reading
    /\ con' = Left(Printed(con, " "), 1)
    /\ reading' = FALSE /\ len' = 0
    /\ UNCHANGED <<font, printVars, pc, stage, histVars, steps>>

-----------------------------------------------------------------------------
(* Panic *)

\* An exception outside of a task, in boot or in the search for one.
exception_handler ==
    /\ pc \in {"boot", "spawn", "run"} /\ ~printing
    /\ pc' = "panic" /\ stage' = "message"
    /\ Forget(FALSE) /\ text' = <<>>
    /\ Spend
    /\ UNCHANGED <<con, font, printVars, readVars, faulted>>

\* What kpanic prints: the message in its own colours, the error code, the registers, and the return
\* addresses of the stack, of which there may be any number.
kpanic ==
    /\ pc = "panic"
    /\ con' = Coloured(con, IF stage = "message" THEN "yellow" ELSE "dark")
    /\ \/ /\ stage = "message" /\ stage' = "code"
          /\ \E l \in Keys : BeginPrintf(<<"LF", l, "LF">>, Nothing)
       \/ /\ stage = "code" /\ stage' = "registers"
          /\ \E n \in Registers : BeginPrintf(Format("b", n), <<"b", n>>)
       \/ /\ stage = "registers" /\ stage' = "trace"
          /\ \E n \in Registers : BeginPrintf(Format("x", n), <<"x", n>>)
       \/ /\ stage = "trace" /\ stage' \in {"trace", "end"}
          /\ \E n \in Registers : BeginPrintf(Format("x", n), <<"x", n>>)
    /\ UNCHANGED <<font, pc, readVars, histVars, steps>>

\* The trace follows a saved base pointer to nowhere: the exception within.
nested_exception ==
    /\ pc = "panic" /\ stage = "trace" /\ ~printing
    /\ pc' = "halted"
    /\ UNCHANGED <<con, font, printVars, stage, readVars, histVars, steps>>

halt ==
    /\ (pc = "panic" /\ stage = "end") \/ pc = "halting"
    /\ Idle
    /\ pc' = "halted"
    /\ UNCHANGED <<con, font, printVars, stage, readVars, histVars, steps>>

-----------------------------------------------------------------------------
print ==
    \/ write_character \/ write_any_text \/ write_faults
    \/ printf_ends \/ k_ok_releases \/ k_ok_swaps

Next ==
    \/ print \/ spinlock_aquire
    \/ boot_message \/ k_ok \/ init_font \/ clear_screen
    \/ \E t \in Texts : kstatusf(t) \/ write(t)
    \/ \E n \in {PerRow, Height * PerRow} : write_fb_device(n)
    \/ read_fb_device \/ kmalloc_fails
    \/ read_ps2_kb \/ echo_backspace \/ echo_enter
    \/ \E ch \in Keys \union {"NUL"} : echo_character(ch)
    \/ exception_handler \/ kpanic \/ nested_exception \/ halt

Spec == Init /\ [][Next]_vars

-----------------------------------------------------------------------------
(* Properties *)

\* Every glyph lies in the back buffer, whatever is printed, typed, erased across
\* the ends of lines and scrolled, on a machine that does not pad its rows: on one
\* that does, the lower rows lie behind the buffer.  This is about glyphs: each scroll
\* also fills one row behind the buffer of every machine.
DrawnInside == Packed => ~con.stray

\* What the screen has in line n from below, with the cursor of a read.
LineShown(n) ==
    LET line == text[Len(text) - n] IN
    \A col \in 0 .. Columns - 1, j \in 0 .. CharSize - 1 :
        con.front[At(con.y - n * (CharSize + 1) + j, col)] =
            IF col + 1 <= Len(line) THEN Mark(con, line[col + 1], j)
            ELSE IF n = 0 /\ reading /\ col = Len(line) THEN <<"white", 0>>
            ELSE <<"dark", 0>>

\* The screen shows the last lines of what was printed and typed, with corrections,
\* in whole glyphs through every scroll; the cursor at the end while somebody reads
\* and nowhere else.  Not after a picture, a print that faulted, output during a
\* read, or a cursor at the end of a line; nor in a panic, nor with padded rows.
ScreenIsText ==
    Packed /\ calm /\ ~faulted /\ ~printing /\ pc = "run" =>
        /\ con.col = Len(text[Len(text)])
        /\ \A n \in 0 .. Len(text) - 1 : LineShown(n)

Digits == {DigitNames[v + 1] : v \in 0 .. 15}

\* The digits that are printed denote the number.
Value(digits, base) ==
    LET value(d) == CHOOSE v \in 0 .. 15 : DigitNames[v + 1] = d
        sum[n \in 0 .. Len(digits)] ==
            IF n = 0 THEN 0 ELSE sum[n - 1] * base + value(digits[n])
    IN  sum[Len(digits)]

Base == [i |-> 10, b |-> 2, x |-> 16]

\* The serial port gets the digits of the number that was passed, in order, whether
\* it is zero, a power of the base or one less, and all of them although they are
\* counted by one loop and found by another.  A decimal number of ten digits or more
\* is cut, and overruns its buffer: of that nothing is claimed.
NumberTold ==
    asked # Nothing /\ printing /\ out = <<>> /\ (asked[1] = "i" => asked[2] < 1000000000) =>
        /\ told # <<>>
        /\ \A n \in DOMAIN told : told[n] \in Digits
        /\ Value(told, Base[asked[1]]) = asked[2]
=============================================================================
