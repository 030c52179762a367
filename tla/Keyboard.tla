------------------------------- MODULE Keyboard -------------------------------
(***************************************************************************)
(* The PS/2 keyboard (drivers/keyboard.c): the line editor that runs in the *)
(* interrupt handler, and the tasks that read D:/stdin.                     *)
(*                                                                         *)
(* All open files of the device share one inode, whose private field points *)
(* to the KeyboardData of the last open; spawn opens the device for every   *)
(* new task.  A reader leaves the address of its buffer there, makes it     *)
(* current_input_data, and spins with interrupts on.  The handler writes    *)
(* through that address in whatever page tree is loaded: when the key       *)
(* interrupts another task than the reader it writes that task's memory, or *)
(* faults, which ends that task inside the handler.                         *)
(*                                                                         *)
(* When nobody reads, when there is no scan code and when a write faults    *)
(* the interrupt is not acknowledged: vector 33 stays in service, and the   *)
(* timers' vectors 32 and 40 are of the same priority class, so neither     *)
(* keys nor ticks are delivered any more.                                   *)
(***************************************************************************)
EXTENDS Naturals, Sequences

CONSTANTS
    Tasks,       \* the tasks that are present
    Cells,       \* heap cells for KeyboardData
    Characters,  \* what the keys with a character may stand for
    MaxRoom,     \* bound: the largest max_len that is passed to read
    Nobody       \* no task, no cell, no key

ASSUME RoomAssumption == MaxRoom \in Nat

\* What the handler tells apart: Backspace, Enter, "other" of no consequence for the
\* line (Shift, Caps Lock, every release), "blank" for which the tables have 0 (Ctrl,
\* Alt, Esc, the function and arrow keys), and "empty", an interrupt without a scan
\* code.  Which of its characters a key stands for is settled when it is typed.
Special == {"other", "blank", "backspace", "enter", "empty"}
Keys    == Characters \union Special

ASSUME NobodyAssumption == Nobody \notin Tasks \union Cells \union Keys
ASSUME CharactersAssumption == Characters \intersect Special = {}

\* What a byte of a buffer may be: a character, NUL, or what the program has left there.
NUL   == "NUL"
Typed == Characters \union {NUL}
Bytes == Typed \union {"unknown"}

\* Outside of a read the program does with its buffer what it likes.
Untouched == [n \in 0 .. MaxRoom - 1 |-> "unknown"]

VARIABLES
    private,   \* Inode.private of D:/stdin
    kb,        \* the KeyboardData cells
    live,      \* cells that are allocated
    current,   \* current_input_data
    rd,        \* where each task is in read_ps2_kb
    data,      \* kb_data of each task's read
    room,      \* max_len of each task's read
    mem,       \* each task's buffer
    cur,       \* the current task, Nobody when one was ended inside the handler
    port,      \* the scan code in the controller's output buffer
    stuck,     \* vector 33 is in service and nobody will acknowledge it
    misuse,    \* history: what has happened that the driver is not made for
    past,      \* history: the handler has written at an index beyond a buffer
    spoiled,   \* history: tasks whose line has had a key handled in another tree
    typed      \* history: the line of each cell as it was typed

taskVars == <<rd, data, room>>
histVars == <<misuse, past, spoiled, typed>>
vars     == <<private, kb, live, current, taskVars, mem, cur, port, stuck, histVars>>

\* What open_ps2_kb leaves in a cell.
Zeroed == [input_len |-> 0, currently_reading |-> FALSE, current_buffer |-> Nobody, buffer_size |-> 0]

\* The init process has been spawned, and with it the device opened once.
Init ==
    /\ \E c \in Cells : private = c /\ live = {c}
    /\ kb = [c \in Cells |-> Zeroed]
    /\ current = Nobody
    /\ rd = [t \in Tasks |-> "none"]
    /\ data = [t \in Tasks |-> Nobody]
    /\ room = [t \in Tasks |-> 0]
    /\ mem = [t \in Tasks |-> Untouched]
    /\ cur \in Tasks
    /\ port = Nobody /\ stuck = FALSE
    /\ misuse = {} /\ past = FALSE /\ spoiled = {} /\ typed = [c \in Cells |-> <<>>]

Noted(m, p) == IF p THEN {m} ELSE {}

-----------------------------------------------------------------------------
(* The tasks *)

\* The current task executes its program, it is in no system call.
InProgram == cur # Nobody /\ rd[cur] = "none"

\* Variant: the data of the open before is used again.
open_ps2_kb_reused ==
    /\ InProgram
    /\ kb' = [kb EXCEPT ![private] = Zeroed]
    /\ UNCHANGED <<private, live, current, taskVars, mem, cur, port, stuck, histVars>>

\* spawn opens the device for the new task.
open_ps2_kb ==
    /\ InProgram
    /\ \E c \in Cells \ live :
        /\ private' = c
        /\ live' = live \union {c}
        /\ kb' = [kb EXCEPT ![c] = Zeroed]
    /\ UNCHANGED <<current, taskVars, mem, cur, port, stuck, histVars>>

\* A program closes its file descriptor 0.
close_ps2_kb ==
    /\ InProgram
    /\ live' = live \ {private}
    /\ misuse' = misuse \union {"closed"}
    /\ UNCHANGED <<private, kb, current, taskVars, mem, cur, port, stuck, past, spoiled, typed>>

\* Variant: the whole length is taken for characters.
BufferSizeFull(n) == n

\* max_len - 1 in 64 bits: for 0 it is larger than any input_len.
BufferSize(n) == IF n = 0 THEN MaxRoom + 2 ELSE n - 1

\* Up to the loop.  input_len is left as it is.
read_ps2_kb ==
    /\ InProgram
    /\ \E n \in 0 .. MaxRoom :
        /\ kb' = [kb EXCEPT ![private].currently_reading = TRUE,
                            ![private].current_buffer = cur,
                            ![private].buffer_size = BufferSize(n)]
        /\ room' = [room EXCEPT ![cur] = n]
        /\ misuse' = misuse
             \union Noted("no room", n = 0)
             \union Noted("overlap", \E t \in Tasks : rd[t] # "none")
             \union Noted("shared", \E t \in Tasks : rd[t] # "none" /\ data[t] = private)
    /\ current' = private
    /\ rd' = [rd EXCEPT ![cur] = "spin"]
    /\ data' = [data EXCEPT ![cur] = private]
    /\ typed' = [typed EXCEPT ![private] = <<>>]
    /\ spoiled' = spoiled \ {cur}
    /\ UNCHANGED <<private, live, mem, cur, port, stuck, past>>

\* The loop ends.
read_line_entered ==
    /\ cur # Nobody /\ rd[cur] = "spin"
    /\ ~kb[data[cur]].currently_reading
    /\ rd' = [rd EXCEPT ![cur] = "clear"]
    /\ UNCHANGED <<private, kb, live, current, data, room, mem, cur, port, stuck, histVars>>

\* The locals of the read are gone, and the line is the program's.
Return ==
    /\ rd' = [rd EXCEPT ![cur] = "none"]
    /\ data' = [data EXCEPT ![cur] = Nobody]
    /\ room' = [room EXCEPT ![cur] = 0]
    /\ mem' = [mem EXCEPT ![cur] = Untouched]
    /\ typed' = [typed EXCEPT ![data[cur]] = <<>>]
    /\ UNCHANGED <<private, live, current, cur, port, stuck, misuse, past, spoiled>>

\* Variant: the length of the line is kept.
read_returns_kept ==
    /\ cur # Nobody /\ rd[cur] = "clear"
    /\ kb' = [kb EXCEPT ![data[cur]].current_buffer = Nobody]
    /\ Return

\* The two assignments after the loop.
read_returns ==
    /\ cur # Nobody /\ rd[cur] = "clear"
    /\ kb' = [kb EXCEPT ![data[cur]].current_buffer = Nobody,
                        ![data[cur]].input_len = 0]
    /\ Return

\* The timer, as long as it gets through, gives another task the processor.
task_switch(t) ==
    /\ ~stuck
    /\ cur' = t
    /\ UNCHANGED <<private, kb, live, current, taskVars, mem, port, stuck, histVars>>

-----------------------------------------------------------------------------
(* The keyboard *)

\* The controller raises its interrupt when a scan code becomes available, and
\* takes the next one when it has been read.
key(k) ==
    /\ port = Nobody
    /\ port' = k
    /\ UNCHANGED <<private, kb, live, current, taskVars, mem, cur, stuck, histVars>>

Served == port # Nobody /\ ~stuck

Reading == current # Nobody /\ kb[current].currently_reading

\* The three returns before the scan code is read: no end_of_interrupt.
isr_ignores ==
    /\ Served
    /\ ~Reading \/ port = "empty"
    /\ stuck' = TRUE
    /\ UNCHANGED <<private, kb, live, current, taskVars, mem, cur, port, histVars>>

Handles(keys) == Served /\ Reading /\ port \in keys /\ port' = Nobody

\* Releases, Caps Lock and the Shift keys.
isr_other ==
    /\ Handles({"other"})
    /\ UNCHANGED <<private, kb, live, current, taskVars, mem, cur, stuck, histVars>>

\* Whose address the handler writes to, and whether the loaded tree is another one.
Reader == kb[current].current_buffer
Away   == Reader # cur

\* current_buffer[n] = ch.  In another task's tree this is some byte of that task,
\* in the buffer of a read of its own or elsewhere: that buffer is not known any more.
Store(n, ch) ==
    /\ past' = (past \/ Reader = Nobody \/ n >= room[Reader])
    /\ mem' = IF Away THEN [mem EXCEPT ![cur] = Untouched]
              ELSE IF n < room[cur] THEN [mem EXCEPT ![cur][n] = ch]
              ELSE mem
    /\ spoiled' = IF Away THEN spoiled \union {Reader, cur} ELSE spoiled

Writing == Keys \ {"other", "empty"}

Erases == port = "backspace" /\ kb[current].input_len > 0

LineErased == [typed EXCEPT ![current] = SubSeq(@, 1, Len(@) - 1)]

\* input_len is decremented before the write.
isr_backspace ==
    /\ Handles(Writing) /\ Erases
    /\ kb' = [kb EXCEPT ![current].input_len = @ - 1]
    /\ Store(kb[current].input_len - 1, NUL)
    /\ typed' = LineErased
    /\ UNCHANGED <<private, live, current, taskVars, cur, stuck, misuse>>

EndsLine == port = "enter" \/ kb[current].buffer_size = kb[current].input_len

\* Variant: the reader is not told.
isr_enter_untold ==
    /\ Handles(Writing) /\ ~Erases
    /\ EndsLine
    /\ Store(kb[current].input_len, NUL)
    /\ UNCHANGED <<private, kb, live, current, taskVars, cur, stuck, misuse, typed>>

\* Enter, or any other key that would add to a full line.
isr_enter ==
    /\ Handles(Writing) /\ ~Erases
    /\ EndsLine
    /\ kb' = [kb EXCEPT ![current].currently_reading = FALSE]
    /\ Store(kb[current].input_len, NUL)
    /\ UNCHANGED <<private, live, current, taskVars, cur, stuck, misuse, typed>>

\* The tables have 0 for the blank keys, and for Backspace, which gets here when the
\* line is empty.
Character == IF port \in Characters THEN port ELSE NUL

isr_character ==
    /\ Handles(Writing) /\ ~Erases
    /\ ~EndsLine
    /\ kb' = [kb EXCEPT ![current].input_len = @ + 1]
    /\ Store(kb[current].input_len, Character)
    /\ typed' = [typed EXCEPT ![current] = Append(@, Character)]
    /\ UNCHANGED <<private, live, current, taskVars, cur, stuck, misuse>>

\* The address is not mapped in the tree of the task that was interrupted.  The page
\* fault ends that task: it spins in syscall_exit, inside the handler.
isr_faults ==
    /\ Handles(Writing) /\ Away
    /\ kb' = IF Erases THEN [kb EXCEPT ![current].input_len = @ - 1] ELSE kb
    /\ typed' = IF Erases THEN LineErased ELSE typed
    /\ spoiled' = spoiled \union {Reader, cur}
    /\ cur' = Nobody
    /\ stuck' = TRUE
    /\ UNCHANGED <<private, live, current, taskVars, mem, misuse, past>>

keyboard_isr ==
    isr_ignores \/ isr_other \/ isr_backspace \/ isr_enter \/ isr_character \/ isr_faults

-----------------------------------------------------------------------------
read_progress == read_line_entered \/ read_returns

Next ==
    \/ open_ps2_kb \/ close_ps2_kb \/ read_ps2_kb \/ read_progress
    \/ \E t \in Tasks : task_switch(t)
    \/ \E k \in Keys : key(k)
    \/ keyboard_isr

Spec == Init /\ [][Next]_vars

\* As long as vector 33 is acknowledged ticks and keys are delivered: the round robin
\* starves no task and its slices are long enough for one turn of a reader's loop.
\* The user types Enter in the end.
Fairness ==
    /\ \A t \in Tasks : SF_vars(cur = t /\ read_progress) /\ SF_vars(cur # t /\ task_switch(t))
    /\ WF_vars(keyboard_isr)
    /\ SF_vars(key("enter"))

FairSpec == Spec /\ Fairness

-----------------------------------------------------------------------------
KeyboardData ==
    [input_len : Nat, currently_reading : BOOLEAN,
     current_buffer : Tasks \union {Nobody}, buffer_size : Nat]

TypeOK ==
    /\ private \in Cells /\ live \subseteq Cells /\ current \in Cells \union {Nobody}
    /\ kb \in [Cells -> KeyboardData]
    /\ rd \in [Tasks -> {"none", "spin", "clear"}]
    /\ data \in [Tasks -> Cells \union {Nobody}]
    /\ room \in [Tasks -> 0 .. MaxRoom]
    /\ mem \in [Tasks -> [0 .. MaxRoom - 1 -> Bytes]]
    /\ cur \in Tasks \union {Nobody} /\ port \in Keys \union {Nobody} /\ stuck \in BOOLEAN
    /\ misuse \subseteq {"closed", "no room", "shared", "overlap"}
    /\ past \in BOOLEAN /\ spoiled \subseteq Tasks \union {Nobody}
    /\ typed \in [Cells -> Seq(Typed)]

\* The device is not closed, no read has length 0, and none begins on the data of one
\* that has not returned.  From where this ends the code really does overrun buffers,
\* nothing is claimed, and the search of the states goes no further.
Modest == misuse \intersect {"closed", "no room", "shared"} = {}

\* Nor does a read begin while another task is in one.
Orderly == Modest /\ "overlap" \notin misuse

\* The end of the buffer is found in time: while programs are modest every index that
\* the handler writes at is below the length that the reader has given, whatever is
\* typed and erased and however reads on different data and timer ticks interleave.
\* This is about the index; a key that interrupts another task is written at that
\* index in the other task's tree.
NoOverrun == Modest => ~past

\* Opening the device for new tasks does not take the keyboard from the task that
\* reads it, although every open replaces the data that the file points to.
KeepsKeyboard ==
    Orderly =>
        \A t \in Tasks : rd[t] = "spin" => data[t] = current /\ kb[current].current_buffer = t

\* What a read of a modest program returns is the line that was typed for it, with
\* its corrections and with NUL for every key that has no character, and ends within
\* the buffer; also when other tasks read on data of their own at the same time.  Only
\* for a read during which every key found the reader, and none for another
\* reader found this task, on the processor: no other line is spoiled by such a key.
LineIntact ==
    Modest => \A t \in Tasks \ spoiled : rd[t] = "clear" =>
        LET line == typed[data[t]] IN
        /\ Len(line) < room[t]
        /\ \A n \in 1 .. Len(line) : mem[t][n - 1] = line[n]
        /\ mem[t][Len(line)] = NUL

\* What makes these invariants inductive.  Among modest programs no two tasks read on
\* the same data; the data of a reader are allocated and describe its buffer; all
\* other data are idle, with an empty line.
OwnData ==
    /\ private \in live /\ current \in live \union {Nobody}
    /\ \A t, u \in Tasks : rd[t] # "none" /\ rd[u] # "none" /\ data[t] = data[u] => t = u
    /\ \A t \in Tasks : rd[t] # "none" =>
         /\ data[t] \in live
         /\ kb[data[t]].current_buffer = t
         /\ kb[data[t]].buffer_size + 1 = room[t]
         /\ kb[data[t]].input_len < room[t]
    /\ \A t \in Tasks : rd[t] = "clear" => ~kb[data[t]].currently_reading
    /\ \A c \in Cells : kb[c].currently_reading => \E t \in Tasks : rd[t] = "spin" /\ data[t] = c
    /\ \A c \in Cells : kb[c].input_len > 0 => \E t \in Tasks : rd[t] # "none" /\ data[t] = c

\* Among orderly ones there is one reader, and the handler works for it.
OneReader ==
    /\ \A t, u \in Tasks : rd[t] # "none" /\ rd[u] # "none" => t = u
    /\ \A t \in Tasks : rd[t] # "none" => data[t] = current

\* The line so far, also while it is being typed.
LineSoFar ==
    \A t \in Tasks \ spoiled : rd[t] # "none" =>
        LET line == typed[data[t]] IN
        /\ Len(line) = kb[data[t]].input_len
        /\ \A n \in 1 .. Len(line) : mem[t][n - 1] = line[n]
        /\ ~kb[data[t]].currently_reading => mem[t][Len(line)] = NUL

IInv ==
    /\ TypeOK
    /\ cur = Nobody => stuck
    /\ Modest => ~past /\ OwnData /\ LineSoFar
    /\ Orderly => OneReader

\* A read of an orderly program ends once Enter is typed: no tick, open or other key
\* in between makes it wait for ever.  Unless the interrupt is left unacknowledged,
\* by a key that comes when nobody reads, one without a scan code or one whose write
\* faults in another task's tree: then nothing is delivered any more.
ReadEnds ==
    \A t \in Tasks :
        rd[t] = "spin" ~> rd[t] = "none" \/ stuck \/ ~Orderly
=============================================================================
