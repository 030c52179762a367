---------------------------- MODULE KeyboardProofs ----------------------------
(***************************************************************************)
(* The line editor for any tasks, any number of opens, any characters and   *)
(* buffers of any size.                                                     *)
(***************************************************************************)
EXTENDS Keyboard, SequenceTheorems, TLAPS

USE RoomAssumption, NobodyAssumption, CharactersAssumption

\* Facts about the records of the keyboard's data.
LEMMA ZeroedData == Zeroed \in KeyboardData
  BY DEF Zeroed, KeyboardData

LEMMA DataFields ==
  ASSUME NEW d \in KeyboardData
  PROVE  /\ d.input_len \in Nat /\ d.buffer_size \in Nat
         /\ d.currently_reading \in BOOLEAN
         /\ d.current_buffer \in Tasks \union {Nobody}
  BY DEF KeyboardData

LEMMA DataUpdate ==
  ASSUME NEW d \in KeyboardData,
         NEW l \in Nat, NEW r \in BOOLEAN, NEW b \in Tasks \union {Nobody}, NEW n \in Nat
  PROVE  /\ [d EXCEPT !.input_len = l] \in KeyboardData
         /\ [d EXCEPT !.currently_reading = r] \in KeyboardData
         /\ [d EXCEPT !.current_buffer = b] \in KeyboardData
         /\ [d EXCEPT !.buffer_size = n] \in KeyboardData
  BY DEF KeyboardData

LEMMA InitIInv == Init => IInv
<1> SUFFICES ASSUME Init PROVE IInv
  OBVIOUS
<1>1. TypeOK
  <2>1. mem \in [Tasks -> [0 .. MaxRoom - 1 -> Bytes]]
    BY DEF Init, Untouched, Bytes, Typed
  <2>2. room \in [Tasks -> 0 .. MaxRoom]
    BY DEF Init
  <2>3. kb \in [Cells -> KeyboardData]
    BY DEF Init, Zeroed, KeyboardData
  <2>4. typed \in [Cells -> Seq(Typed)]
    BY DEF Init
  <2> QED
    BY <2>1, <2>2, <2>3, <2>4 DEF Init, TypeOK
<1>2. ~past /\ OwnData /\ OneReader /\ LineSoFar
  BY DEF Init, OwnData, OneReader, LineSoFar, Zeroed
<1>3. cur # Nobody
  BY DEF Init
<1> QED
  BY <1>1, <1>2, <1>3 DEF IInv

\* The conjuncts of TypeOK in four groups.
DeviceTypes ==
    /\ private \in Cells /\ live \subseteq Cells /\ current \in Cells \union {Nobody}
    /\ kb \in [Cells -> KeyboardData]

TaskTypes ==
    /\ rd \in [Tasks -> {"none", "spin", "clear"}]
    /\ data \in [Tasks -> Cells \union {Nobody}]
    /\ room \in [Tasks -> 0 .. MaxRoom]
    /\ mem \in [Tasks -> [0 .. MaxRoom - 1 -> Bytes]]
    /\ cur \in Tasks \union {Nobody}

PortTypes == port \in Keys \union {Nobody} /\ stuck \in BOOLEAN

HistoryTypes ==
    /\ misuse \subseteq {"closed", "no room", "shared", "overlap"}
    /\ past \in BOOLEAN /\ spoiled \subseteq Tasks \union {Nobody}
    /\ typed \in [Cells -> Seq(Typed)]

LEMMA Groups == TypeOK <=> DeviceTypes /\ TaskTypes /\ PortTypes /\ HistoryTypes
  BY DEF TypeOK, DeviceTypes, TaskTypes, PortTypes, HistoryTypes

LEMMA EmptyLine == <<>> \in Seq(Typed)
  OBVIOUS

LEMMA SizeType == \A n \in 0 .. MaxRoom : BufferSize(n) \in Nat
  BY DEF BufferSize

LEMMA OpenTypes ==
  ASSUME TypeOK, open_ps2_kb
  PROVE  TypeOK'
<1>1. PICK c \in Cells \ live :
        /\ private' = c
        /\ live' = live \union {c}
        /\ kb' = [kb EXCEPT ![c] = Zeroed]
  BY DEF open_ps2_kb
<1>2. DeviceTypes'
  BY <1>1, Groups, ZeroedData DEF open_ps2_kb, DeviceTypes
<1>3. TaskTypes' /\ PortTypes' /\ HistoryTypes'
  BY Groups DEF open_ps2_kb, taskVars, histVars, TaskTypes, PortTypes, HistoryTypes
<1> QED
  BY <1>2, <1>3 DEF TypeOK, DeviceTypes, TaskTypes, PortTypes, HistoryTypes

LEMMA CloseTypes ==
  ASSUME TypeOK, close_ps2_kb
  PROVE  TypeOK'
<1>1. DeviceTypes'
  BY Groups DEF close_ps2_kb, DeviceTypes
<1>2. TaskTypes' /\ PortTypes'
  BY Groups DEF close_ps2_kb, taskVars, TaskTypes, PortTypes
<1>3. HistoryTypes'
  BY Groups DEF close_ps2_kb, HistoryTypes
<1> QED
  BY <1>1, <1>2, <1>3 DEF TypeOK, DeviceTypes, TaskTypes, PortTypes, HistoryTypes

LEMMA ReadTypes ==
  ASSUME TypeOK, read_ps2_kb
  PROVE  TypeOK'
<1>1. PICK n \in 0 .. MaxRoom :
        /\ kb' = [kb EXCEPT ![private].currently_reading = TRUE,
                            ![private].current_buffer = cur,
                            ![private].buffer_size = BufferSize(n)]
        /\ room' = [room EXCEPT ![cur] = n]
        /\ misuse' = misuse \union Noted("no room", n = 0)
                            \union Noted("overlap", \E t \in Tasks : rd[t] # "none")
                            \union Noted("shared", \E t \in Tasks : rd[t] # "none" /\ data[t] = private)
  BY DEF read_ps2_kb
<1>2. DeviceTypes'
  <2>1. private \in Cells /\ cur \in Tasks /\ kb \in [Cells -> KeyboardData]
    BY Groups DEF DeviceTypes, TaskTypes, read_ps2_kb, InProgram
  <2>2. kb' \in [Cells -> KeyboardData]
    BY <1>1, <2>1, SizeType, DataUpdate
  <2> QED
    BY <2>1, <2>2, Groups DEF read_ps2_kb, DeviceTypes
<1>3. TaskTypes'
  <2>1. private \in Cells
    BY Groups DEF DeviceTypes
  <2> QED
    BY <1>1, <2>1, Groups DEF read_ps2_kb, TaskTypes
<1>4. PortTypes'
  BY Groups DEF read_ps2_kb, PortTypes
<1>5. HistoryTypes'
  BY <1>1, Groups, EmptyLine DEF read_ps2_kb, Noted, HistoryTypes
<1> QED
  BY <1>2, <1>3, <1>4, <1>5 DEF TypeOK, DeviceTypes, TaskTypes, PortTypes, HistoryTypes

LEMMA ReturnTypes ==
  ASSUME TypeOK, read_returns
  PROVE  TypeOK'
<1>1. DeviceTypes'
  <2>1. kb \in [Cells -> KeyboardData]
    BY Groups DEF DeviceTypes
  <2>2. kb' \in [Cells -> KeyboardData]
    <3>1. CASE data[cur] \in Cells
      BY <2>1, <3>1, DataUpdate DEF read_returns
    <3>2. CASE data[cur] \notin Cells
      BY <2>1, <3>2 DEF read_returns
    <3> QED
      BY <3>1, <3>2
  <2> QED
    BY <2>2, Groups DEF read_returns, Return, DeviceTypes
<1>2. TaskTypes'
  <2>1. Untouched \in [0 .. MaxRoom - 1 -> Bytes] /\ 0 \in 0 .. MaxRoom
    BY DEF Untouched, Bytes
  <2> QED
    BY <2>1, Groups DEF read_returns, Return, TaskTypes
<1>3. PortTypes' /\ HistoryTypes'
  BY Groups, EmptyLine DEF read_returns, Return, PortTypes, HistoryTypes
<1> QED
  BY <1>1, <1>2, <1>3 DEF TypeOK, DeviceTypes, TaskTypes, PortTypes, HistoryTypes

LEMMA OtherTaskTypes ==
  ASSUME TypeOK,
         \/ read_line_entered
         \/ \E t \in Tasks : task_switch(t)
         \/ \E k \in Keys : key(k)
  PROVE  TypeOK'
<1> USE DEF taskVars, histVars
<1>1. DeviceTypes'
  BY Groups DEF read_line_entered, task_switch, key, DeviceTypes
<1>2. TaskTypes'
  BY Groups DEF read_line_entered, task_switch, key, TaskTypes
<1>3. PortTypes' /\ HistoryTypes'
  BY Groups DEF read_line_entered, task_switch, key, PortTypes, HistoryTypes
<1> QED
  BY <1>1, <1>2, <1>3 DEF TypeOK, DeviceTypes, TaskTypes, PortTypes, HistoryTypes

\* What the handler stores is a byte of a buffer, or nothing is kept.
LEMMA StoreTypes ==
  ASSUME TypeOK, cur \in Tasks, Reading,
         NEW n \in Nat, NEW ch \in Bytes, Store(n, ch)
  PROVE  /\ mem' \in [Tasks -> [0 .. MaxRoom - 1 -> Bytes]]
         /\ past' \in BOOLEAN
         /\ spoiled' \subseteq Tasks \union {Nobody}
<1>0. /\ current \in Cells /\ kb[current] \in KeyboardData
      /\ Reader \in Tasks \union {Nobody}
  BY Groups, DataFields DEF Reading, DeviceTypes, Reader
<1>1. past' \in BOOLEAN /\ spoiled' \subseteq Tasks \union {Nobody}
  BY <1>0, Groups DEF Store, HistoryTypes
<1>2. CASE Away
  <2>1. Untouched \in [0 .. MaxRoom - 1 -> Bytes]
    BY DEF Untouched, Bytes
  <2> QED
    BY <1>0, <1>1, <1>2, <2>1, Groups DEF Store, TaskTypes
<1>3. CASE ~Away /\ n < room[cur]
  <2>1. room[cur] \in 0 .. MaxRoom
    BY Groups DEF TaskTypes
  <2>2. n \in 0 .. MaxRoom - 1
    BY <1>3, <2>1
  <2>3. mem' = [mem EXCEPT ![cur][n] = ch]
    BY <1>3 DEF Store
  <2> QED
    BY <1>1, <2>2, <2>3, Groups DEF TaskTypes
<1>4. CASE ~Away /\ ~(n < room[cur])
  BY <1>1, <1>4, Groups DEF Store, TaskTypes
<1> QED
  BY <1>2, <1>3, <1>4

\* A line without its last character.
LEMMA Erasing ==
  ASSUME NEW s \in Seq(Typed)
  PROVE  /\ SubSeq(s, 1, Len(s) - 1) \in Seq(Typed)
         /\ Len(s) > 0 => /\ Len(SubSeq(s, 1, Len(s) - 1)) = Len(s) - 1
                          /\ \A n \in 1 .. Len(s) - 1 : SubSeq(s, 1, Len(s) - 1)[n] = s[n]
<1> DEFINE last == Len(s) - 1
<1>1. Len(s) \in Nat /\ \A n \in 1 .. Len(s) : s[n] \in Typed
  BY LenProperties, ElementOfSeq
<1>2. last \in Int /\ 1 \in Int /\ \A n \in 1 .. last : s[n] \in Typed
  BY <1>1
<1>3. /\ SubSeq(s, 1, last) \in Seq(Typed)
      /\ Len(SubSeq(s, 1, last)) = (IF 1 <= last THEN last - 1 + 1 ELSE 0)
      /\ \A n \in 1 .. last - 1 + 1 : SubSeq(s, 1, last)[n] = s[1 + n - 1]
  <2> HIDE DEF last
  <2> QED
    BY <1>2, SubSeqProperties
<1>4. ASSUME Len(s) > 0
      PROVE  /\ Len(SubSeq(s, 1, last)) = last
             /\ \A n \in 1 .. last : SubSeq(s, 1, last)[n] = s[n]
  <2>1. last \in Nat
    BY <1>1, <1>4
  <2> HIDE DEF last
  <2>2. (IF 1 <= last THEN last - 1 + 1 ELSE 0) = last
    BY <2>1
  <2>3. ASSUME NEW n \in 1 .. last PROVE SubSeq(s, 1, last)[n] = s[n]
    <3>1. n \in 1 .. last - 1 + 1 /\ 1 + n - 1 = n
      BY <2>1
    <3> QED
      BY <1>3, <3>1
  <2> QED
    BY <1>3, <2>2, <2>3
<1> QED
  BY <1>3, <1>4

LEMMA HandlerTypes ==
  ASSUME TypeOK, cur = Nobody => stuck, keyboard_isr
  PROVE  TypeOK'
<1> USE DEF taskVars, histVars
<1>1. CASE isr_ignores
  BY <1>1 DEF isr_ignores, TypeOK
<1>2. CASE isr_other
  BY <1>2 DEF isr_other, Handles, TypeOK
<1>3. ASSUME Handles(Writing)
      PROVE  /\ kb[current] \in KeyboardData /\ current \in Cells /\ cur \in Tasks /\ Reading
             /\ kb[current].input_len \in Nat /\ typed[current] \in Seq(Typed)
             /\ Reader \in Tasks \union {Nobody} /\ port' \in Keys \union {Nobody}
  BY <1>3, DataFields DEF Handles, Served, Reading, TypeOK, Reader
<1>4. ASSUME Handles(Writing) PROVE LineErased \in [Cells -> Seq(Typed)]
  BY <1>3, <1>4, Erasing DEF LineErased, TypeOK
<1>5. CASE isr_backspace
  <2>0. Handles(Writing)
    BY <1>5 DEF isr_backspace
  <2>1. kb[current].input_len - 1 \in Nat
    BY <1>3, <1>5, <2>0 DEF isr_backspace, Erases
  <2>2. kb' \in [Cells -> KeyboardData]
    BY <1>3, <1>5, <2>0, <2>1, DataUpdate DEF isr_backspace, TypeOK
  <2>3. /\ mem' \in [Tasks -> [0 .. MaxRoom - 1 -> Bytes]] /\ past' \in BOOLEAN
        /\ spoiled' \subseteq Tasks \union {Nobody}
    BY <1>3, <1>5, <2>0, <2>1, StoreTypes DEF isr_backspace, Bytes, Typed
  <2> QED
    BY <1>3, <1>4, <1>5, <2>0, <2>2, <2>3 DEF isr_backspace, TypeOK
<1>6. CASE isr_enter
  <2>0. Handles(Writing)
    BY <1>6 DEF isr_enter
  <2>2. kb' \in [Cells -> KeyboardData]
    BY <1>3, <1>6, <2>0, DataUpdate DEF isr_enter, TypeOK
  <2>3. /\ mem' \in [Tasks -> [0 .. MaxRoom - 1 -> Bytes]] /\ past' \in BOOLEAN
        /\ spoiled' \subseteq Tasks \union {Nobody}
    BY <1>3, <1>6, <2>0, StoreTypes DEF isr_enter, Bytes, Typed
  <2> QED
    BY <1>3, <1>6, <2>0, <2>2, <2>3 DEF isr_enter, TypeOK
<1>7. CASE isr_character
  <2>0. Handles(Writing)
    BY <1>7 DEF isr_character
  <2>1. kb[current].input_len + 1 \in Nat /\ Character \in Typed
    BY <1>3, <2>0 DEF Character, Typed
  <2>2. kb' \in [Cells -> KeyboardData]
    BY <1>3, <1>7, <2>0, <2>1, DataUpdate DEF isr_character, TypeOK
  <2>3. /\ mem' \in [Tasks -> [0 .. MaxRoom - 1 -> Bytes]] /\ past' \in BOOLEAN
        /\ spoiled' \subseteq Tasks \union {Nobody}
    BY <1>3, <1>7, <2>0, <2>1, StoreTypes DEF isr_character, Bytes
  <2>4. typed' \in [Cells -> Seq(Typed)]
    <3>1. Append(typed[current], Character) \in Seq(Typed)
      BY <1>3, <2>0, <2>1, AppendProperties
    <3> QED
      BY <1>7, <3>1 DEF isr_character, TypeOK
  <2> QED
    BY <1>3, <1>7, <2>0, <2>2, <2>3, <2>4 DEF isr_character, TypeOK
<1>8. CASE isr_faults
  <2>0. Handles(Writing)
    BY <1>8 DEF isr_faults
  <2>1. kb' \in [Cells -> KeyboardData]
    <3>1. CASE Erases
      <4>1. kb[current].input_len - 1 \in Nat
        BY <1>3, <2>0, <3>1 DEF Erases
      <4> QED
        BY <1>3, <1>8, <2>0, <3>1, <4>1, DataUpdate DEF isr_faults, TypeOK
    <3>2. CASE ~Erases
      BY <1>8, <3>2 DEF isr_faults, TypeOK
    <3> QED
      BY <3>1, <3>2
  <2>2. typed' \in [Cells -> Seq(Typed)] /\ spoiled' \subseteq Tasks \union {Nobody}
    BY <1>3, <1>4, <1>8, <2>0 DEF isr_faults, TypeOK
  <2> QED
    BY <1>3, <1>8, <2>0, <2>1, <2>2 DEF isr_faults, TypeOK
<1> QED
  BY <1>1, <1>2, <1>5, <1>6, <1>7, <1>8 DEF keyboard_isr

\* What every one of the following lemmas uses of the types.
LEMMA Facts ==
  ASSUME TypeOK
  PROVE  /\ DeviceTypes /\ TaskTypes /\ HistoryTypes
         /\ \A c \in Cells : /\ kb[c].input_len \in Nat /\ kb[c].buffer_size \in Nat
                             /\ kb[c].currently_reading \in BOOLEAN
                             /\ typed[c] \in Seq(Typed)
         /\ Nobody \notin Cells /\ Nobody \notin Tasks
<1>1. DeviceTypes /\ TaskTypes /\ HistoryTypes
  BY Groups
<1>2. \A c \in Cells : kb[c] \in KeyboardData /\ typed[c] \in Seq(Typed)
  BY <1>1 DEF DeviceTypes, HistoryTypes
<1>3. Nobody \notin Cells /\ Nobody \notin Tasks
  OBVIOUS
<1> QED
  BY <1>1, <1>2, <1>3, DataFields

TaskStep ==
    \/ open_ps2_kb \/ read_ps2_kb \/ read_line_entered \/ read_returns
    \/ \E t \in Tasks : task_switch(t)
    \/ \E k \in Keys : key(k)

\* What a read that begins on idle data leaves: its own cell and its own task.
LEMMA ReadBegins ==
  ASSUME TypeOK, OwnData, Modest', read_ps2_kb
  PROVE  /\ cur \in Tasks /\ private \in Cells /\ rd[cur] = "none"
         /\ \A t \in Tasks : rd[t] # "none" => data[t] # private
         /\ \E n \in 0 .. MaxRoom : n # 0 /\ room' = [room EXCEPT ![cur] = n]
                                          /\ kb'[private].buffer_size + 1 = n
         /\ kb[private].input_len = 0 /\ kb'[private].input_len = 0
         /\ kb'[private].currently_reading = TRUE
         /\ kb'[private].current_buffer = cur
         /\ \A d \in Cells : d # private => kb'[d] = kb[d]
         /\ rd'[cur] = "spin" /\ data'[cur] = private
         /\ \A t \in Tasks : t # cur => rd'[t] = rd[t] /\ data'[t] = data[t] /\ room'[t] = room[t]
         /\ current' = private /\ UNCHANGED <<private, live, past, mem, cur, stuck>>
         /\ typed'[private] = <<>>
         /\ \A d \in Cells : d # private => typed'[d] = typed[d]
         /\ spoiled' = spoiled \ {cur}
<1>0. /\ DeviceTypes /\ TaskTypes /\ HistoryTypes
      /\ \A c \in Cells : kb[c].input_len \in Nat
  BY Facts
<1>1. PICK n \in 0 .. MaxRoom :
        /\ kb' = [kb EXCEPT ![private].currently_reading = TRUE,
                            ![private].current_buffer = cur,
                            ![private].buffer_size = BufferSize(n)]
        /\ room' = [room EXCEPT ![cur] = n]
        /\ misuse' = misuse \union Noted("no room", n = 0)
                            \union Noted("overlap", \E t \in Tasks : rd[t] # "none")
                            \union Noted("shared", \E t \in Tasks : rd[t] # "none" /\ data[t] = private)
  BY DEF read_ps2_kb
<1>2. n # 0 /\ \A t \in Tasks : rd[t] # "none" => data[t] # private
  BY <1>1 DEF Modest, Noted
<1>3. cur \in Tasks /\ private \in Cells /\ rd[cur] = "none"
  BY <1>0 DEF read_ps2_kb, InProgram, DeviceTypes, TaskTypes
<1>4. BufferSize(n) + 1 = n
  BY <1>2 DEF BufferSize
<1>5. /\ \A d \in Cells : d # private => kb'[d] = kb[d]
      /\ kb'[private].current_buffer = cur
      /\ kb'[private].currently_reading = TRUE
      /\ kb'[private].buffer_size = BufferSize(n)
      /\ kb'[private].input_len = kb[private].input_len
  BY <1>0, <1>1, <1>3 DEF DeviceTypes, KeyboardData
<1>6. kb[private].input_len = 0
  BY <1>0, <1>2, <1>3 DEF OwnData
<1>7. /\ rd'[cur] = "spin" /\ data'[cur] = private
      /\ \A t \in Tasks : t # cur => rd'[t] = rd[t] /\ data'[t] = data[t] /\ room'[t] = room[t]
  BY <1>0, <1>1, <1>3 DEF read_ps2_kb, TaskTypes
<1>8. /\ current' = private /\ UNCHANGED <<private, live, past, mem, cur, stuck>>
      /\ typed'[private] = <<>>
      /\ \A d \in Cells : d # private => typed'[d] = typed[d]
      /\ spoiled' = spoiled \ {cur}
  BY <1>0, <1>3 DEF read_ps2_kb, HistoryTypes
<1> QED
  BY <1>1, <1>2, <1>3, <1>4, <1>5, <1>6, <1>7, <1>8

\* What a read that returns leaves.
LEMMA ReadReturned ==
  ASSUME TypeOK, OwnData, read_returns
  PROVE  /\ cur \in Tasks /\ rd[cur] = "clear" /\ data[cur] \in Cells
         /\ \A d \in Cells : d # data[cur] => kb'[d] = kb[d] /\ typed'[d] = typed[d]
         /\ kb'[data[cur]].input_len = 0
         /\ kb'[data[cur]].currently_reading = kb[data[cur]].currently_reading
         /\ rd'[cur] = "none"
         /\ \A t \in Tasks : t # cur =>
              rd'[t] = rd[t] /\ data'[t] = data[t] /\ room'[t] = room[t] /\ mem'[t] = mem[t]
         /\ UNCHANGED <<private, live, current, past, spoiled, cur, stuck>>
<1>0. DeviceTypes /\ TaskTypes /\ HistoryTypes
  BY Facts
<1>1. cur \in Tasks /\ rd[cur] = "clear" /\ data[cur] \in Cells
  BY <1>0 DEF read_returns, OwnData, DeviceTypes, TaskTypes
<1>2. /\ \A d \in Cells : d # data[cur] => kb'[d] = kb[d]
      /\ kb'[data[cur]].input_len = 0
      /\ kb'[data[cur]].currently_reading = kb[data[cur]].currently_reading
  BY <1>0, <1>1 DEF read_returns, DeviceTypes, KeyboardData
<1>3. \A d \in Cells : d # data[cur] => typed'[d] = typed[d]
  BY <1>0 DEF read_returns, Return, HistoryTypes
<1>4. /\ rd'[cur] = "none"
      /\ \A t \in Tasks : t # cur =>
           rd'[t] = rd[t] /\ data'[t] = data[t] /\ room'[t] = room[t] /\ mem'[t] = mem[t]
      /\ UNCHANGED <<private, live, current, past, spoiled, cur, stuck>>
  BY <1>0, <1>1 DEF read_returns, Return, TaskTypes
<1> QED
  BY <1>1, <1>2, <1>3, <1>4

\* An open takes a cell that nobody uses.
LEMMA Opened ==
  ASSUME TypeOK, OwnData, open_ps2_kb
  PROVE  \E c \in Cells \ live :
           /\ private' = c /\ live' = live \union {c}
           /\ kb'[c] = Zeroed
           /\ \A d \in Cells : d # c => kb'[d] = kb[d]
           /\ current # c /\ \A t \in Tasks : rd[t] # "none" => data[t] # c
           /\ UNCHANGED <<current, rd, data, room, mem, cur, stuck, misuse, past, spoiled, typed>>
<1>0. DeviceTypes /\ TaskTypes /\ Nobody \notin Cells
  BY Facts
<1>1. PICK c \in Cells \ live :
        /\ private' = c
        /\ live' = live \union {c}
        /\ kb' = [kb EXCEPT ![c] = Zeroed]
  BY DEF open_ps2_kb
<1>2. kb'[c] = Zeroed /\ \A d \in Cells : d # c => kb'[d] = kb[d]
  BY <1>0, <1>1 DEF DeviceTypes
<1>3. current # c /\ \A t \in Tasks : rd[t] # "none" => data[t] # c
  BY <1>0, <1>1 DEF OwnData
<1>4. UNCHANGED <<current, rd, data, room, mem, cur, stuck, misuse, past, spoiled, typed>>
  BY DEF open_ps2_kb, taskVars, histVars
<1> QED
  BY <1>1, <1>2, <1>3, <1>4

\* Every reader on its own data, for the steps of the tasks.
LEMMA TaskOwns ==
  ASSUME TypeOK, OwnData, Modest', TaskStep
  PROVE  OwnData' /\ past' = past
<1> USE DEF taskVars, histVars
<1>0. /\ DeviceTypes /\ TaskTypes /\ Nobody \notin Cells /\ Nobody \notin Tasks
      /\ \A c \in Cells : kb[c].input_len \in Nat
  BY Facts
<1>1. CASE open_ps2_kb
  <2>1. PICK c \in Cells \ live :
           /\ private' = c /\ live' = live \union {c}
           /\ kb'[c] = Zeroed
           /\ \A d \in Cells : d # c => kb'[d] = kb[d]
           /\ current # c /\ \A t \in Tasks : rd[t] # "none" => data[t] # c
           /\ UNCHANGED <<current, rd, data, room, mem, cur, stuck, misuse, past, spoiled, typed>>
    BY <1>1, Opened
  <2>2. ~kb'[c].currently_reading /\ ~(kb'[c].input_len > 0)
    BY <2>1 DEF Zeroed
  <2>3. \A t \in Tasks : rd[t] # "none" => data[t] \in Cells /\ kb'[data[t]] = kb[data[t]]
    BY <1>0, <2>1 DEF OwnData, DeviceTypes
  <2>4. /\ \A d \in Cells : kb'[d].currently_reading => \E t \in Tasks : rd[t] = "spin" /\ data[t] = d
        /\ \A d \in Cells : kb'[d].input_len > 0 => \E t \in Tasks : rd[t] # "none" /\ data[t] = d
    BY <2>1, <2>2 DEF OwnData
  <2>5. \A t \in Tasks : rd[t] # "none" =>
          /\ data[t] \in live'
          /\ kb'[data[t]].current_buffer = t
          /\ kb'[data[t]].buffer_size + 1 = room[t]
          /\ kb'[data[t]].input_len < room[t]
    BY <2>1, <2>3 DEF OwnData
  <2>6. \A t \in Tasks : rd[t] = "clear" => ~kb'[data[t]].currently_reading
    BY <2>3 DEF OwnData
  <2>7. private' \in live' /\ current' \in live' \union {Nobody}
    BY <2>1 DEF OwnData
  <2> QED
    BY <2>1, <2>4, <2>5, <2>6, <2>7 DEF OwnData
<1>2. CASE read_ps2_kb
  <2>1. /\ cur \in Tasks /\ private \in Cells /\ rd[cur] = "none"
        /\ \A t \in Tasks : rd[t] # "none" => data[t] # private
        /\ kb'[private].input_len = 0
        /\ kb'[private].currently_reading = TRUE
        /\ kb'[private].current_buffer = cur
        /\ \A d \in Cells : d # private => kb'[d] = kb[d]
        /\ rd'[cur] = "spin" /\ data'[cur] = private
        /\ \A t \in Tasks : t # cur => rd'[t] = rd[t] /\ data'[t] = data[t] /\ room'[t] = room[t]
        /\ current' = private /\ UNCHANGED <<private, live, past>>
    BY <1>2, ReadBegins
  <2>2. kb'[private].buffer_size + 1 = room'[cur] /\ kb'[private].input_len < room'[cur]
    <3>1. PICK n \in 0 .. MaxRoom : n # 0 /\ room' = [room EXCEPT ![cur] = n]
                                          /\ kb'[private].buffer_size + 1 = n
      BY <1>2, ReadBegins
    <3>2. room'[cur] = n
      BY <1>0, <2>1, <3>1 DEF TaskTypes
    <3> QED
      BY <2>1, <3>1, <3>2
  <2>3. \A t \in Tasks : rd[t] # "none" => data[t] \in Cells
    BY <1>0 DEF OwnData, DeviceTypes
  <2>4. \A c \in Cells : kb'[c].currently_reading => \E t \in Tasks : rd'[t] = "spin" /\ data'[t] = c
    <3> SUFFICES ASSUME NEW c \in Cells, kb'[c].currently_reading
                 PROVE  \E t \in Tasks : rd'[t] = "spin" /\ data'[t] = c
      OBVIOUS
    <3>1. CASE c = private
      BY <2>1, <3>1
    <3>2. CASE c # private
      <4>1. PICK t \in Tasks : rd[t] = "spin" /\ data[t] = c
        BY <2>1, <3>2 DEF OwnData
      <4> QED
        BY <2>1, <4>1
    <3> QED
      BY <3>1, <3>2
  <2>5. \A c \in Cells : kb'[c].input_len > 0 => \E t \in Tasks : rd'[t] # "none" /\ data'[t] = c
    <3> SUFFICES ASSUME NEW c \in Cells, kb'[c].input_len > 0
                 PROVE  \E t \in Tasks : rd'[t] # "none" /\ data'[t] = c
      OBVIOUS
    <3>1. c # private
      BY <2>1
    <3>2. PICK t \in Tasks : rd[t] # "none" /\ data[t] = c
      BY <2>1, <3>1 DEF OwnData
    <3> QED
      BY <2>1, <3>2
  <2>6. \A t \in Tasks : rd'[t] # "none" =>
          /\ data'[t] \in live
          /\ kb'[data'[t]].current_buffer = t
          /\ kb'[data'[t]].buffer_size + 1 = room'[t]
          /\ kb'[data'[t]].input_len < room'[t]
    BY <2>1, <2>2, <2>3 DEF OwnData
  <2>7. /\ \A t, u \in Tasks : rd'[t] # "none" /\ rd'[u] # "none" /\ data'[t] = data'[u] => t = u
        /\ \A t \in Tasks : rd'[t] = "clear" => ~kb'[data'[t]].currently_reading
    BY <2>1, <2>3 DEF OwnData
  <2> QED
    BY <2>1, <2>4, <2>5, <2>6, <2>7 DEF OwnData
<1>3. CASE read_line_entered
  BY <1>0, <1>3 DEF read_line_entered, OwnData, TaskTypes
<1>4. CASE read_returns
  <2>1. /\ cur \in Tasks /\ rd[cur] = "clear" /\ data[cur] \in Cells
        /\ \A d \in Cells : d # data[cur] => kb'[d] = kb[d]
        /\ kb'[data[cur]].input_len = 0
        /\ kb'[data[cur]].currently_reading = kb[data[cur]].currently_reading
        /\ rd'[cur] = "none"
        /\ \A t \in Tasks : t # cur => rd'[t] = rd[t] /\ data'[t] = data[t] /\ room'[t] = room[t]
        /\ UNCHANGED <<private, live, current, past>>
    BY <1>4, ReadReturned
  <2>2. \A t \in Tasks : rd'[t] # "none" => t # cur /\ data[t] # data[cur] /\ data[t] \in Cells
    BY <1>0, <2>1 DEF OwnData, DeviceTypes
  <2>3. \A c \in Cells : kb'[c].currently_reading => \E t \in Tasks : rd'[t] = "spin" /\ data'[t] = c
    <3> SUFFICES ASSUME NEW c \in Cells, kb'[c].currently_reading
                 PROVE  \E t \in Tasks : rd'[t] = "spin" /\ data'[t] = c
      OBVIOUS
    <3>1. c # data[cur]
      BY <2>1 DEF OwnData
    <3>2. PICK t \in Tasks : rd[t] = "spin" /\ data[t] = c
      BY <2>1, <3>1 DEF OwnData
    <3> QED
      BY <2>1, <3>1, <3>2
  <2>4. \A c \in Cells : kb'[c].input_len > 0 => \E t \in Tasks : rd'[t] # "none" /\ data'[t] = c
    <3> SUFFICES ASSUME NEW c \in Cells, kb'[c].input_len > 0
                 PROVE  \E t \in Tasks : rd'[t] # "none" /\ data'[t] = c
      OBVIOUS
    <3>1. c # data[cur]
      BY <2>1
    <3>2. PICK t \in Tasks : rd[t] # "none" /\ data[t] = c
      BY <2>1, <3>1 DEF OwnData
    <3> QED
      BY <2>1, <3>1, <3>2
  <2> QED
    BY <2>1, <2>2, <2>3, <2>4 DEF OwnData
<1>5. CASE \E t \in Tasks : task_switch(t)
  BY <1>5 DEF task_switch, OwnData
<1>6. CASE \E k \in Keys : key(k)
  BY <1>6 DEF key, OwnData
<1> QED
  BY <1>1, <1>2, <1>3, <1>4, <1>5, <1>6 DEF TaskStep

\* Among modest programs the data that the handler uses describe the buffer of a
\* task that reads on them.
LEMMA TheReader ==
  ASSUME TypeOK, OwnData, Reading
  PROVE  /\ current \in Cells /\ Reader \in Tasks
         /\ rd[Reader] = "spin" /\ data[Reader] = current
         /\ kb[current].input_len \in Nat /\ kb[current].buffer_size \in Nat
         /\ kb[current].buffer_size + 1 = room[Reader]
         /\ kb[current].input_len < room[Reader]
         /\ room[Reader] \in 0 .. MaxRoom
         /\ typed[current] \in Seq(Typed)
         /\ \A u \in Tasks : rd[u] # "none" /\ data[u] = current => u = Reader
<1>0. DeviceTypes /\ TaskTypes
  BY Facts
<1>1. current \in Cells /\ kb[current].currently_reading
  BY <1>0 DEF Reading, DeviceTypes
<1>2. PICK t \in Tasks : rd[t] = "spin" /\ data[t] = current
  BY <1>1 DEF OwnData
<1>3. /\ kb[current].current_buffer = t
      /\ kb[current].buffer_size + 1 = room[t]
      /\ kb[current].input_len < room[t]
      /\ \A u \in Tasks : rd[u] # "none" /\ data[u] = current => u = t
  BY <1>2 DEF OwnData
<1>4. /\ kb[current].input_len \in Nat /\ kb[current].buffer_size \in Nat
      /\ typed[current] \in Seq(Typed) /\ room[t] \in 0 .. MaxRoom
  BY <1>0, <1>1, Facts DEF TaskTypes
<1> QED
  BY <1>1, <1>2, <1>3, <1>4 DEF Reader

\* The handler changes the length and the state of the line, of the cell it uses.
LEMMA CellEdited ==
  ASSUME TypeOK, OwnData, Reading,
         kb'[current].current_buffer = kb[current].current_buffer,
         kb'[current].buffer_size = kb[current].buffer_size,
         kb'[current].input_len < room[Reader],
         \A d \in Cells : d # current => kb'[d] = kb[d],
         UNCHANGED <<private, live, current, rd, data, room>>
  PROVE  OwnData'
<1>0. /\ current \in Cells /\ Reader \in Tasks
      /\ rd[Reader] = "spin" /\ data[Reader] = current
      /\ kb[current].buffer_size + 1 = room[Reader]
      /\ \A u \in Tasks : rd[u] # "none" /\ data[u] = current => u = Reader
  BY TheReader
<1>1. \A t \in Tasks : rd[t] # "none" => data[t] \in Cells
  BY Facts DEF OwnData, DeviceTypes
<1>2. ASSUME NEW t \in Tasks, rd[t] # "none"
      PROVE  /\ data[t] \in live
             /\ kb'[data[t]].current_buffer = t
             /\ kb'[data[t]].buffer_size + 1 = room[t]
             /\ kb'[data[t]].input_len < room[t]
  <2>1. CASE data[t] = current
    BY <1>0, <1>2, <2>1 DEF OwnData, Reader
  <2>2. CASE data[t] # current
    BY <1>1, <1>2, <2>2 DEF OwnData
  <2> QED
    BY <2>1, <2>2
<1>3. ASSUME NEW t \in Tasks, rd[t] = "clear"
      PROVE  ~kb'[data[t]].currently_reading
  <2>1. data[t] # current
    BY <1>0, <1>3
  <2> QED
    BY <1>1, <1>3, <2>1 DEF OwnData
<1>4. /\ \A c \in Cells : kb'[c].currently_reading => \E t \in Tasks : rd[t] = "spin" /\ data[t] = c
      /\ \A c \in Cells : kb'[c].input_len > 0 => \E t \in Tasks : rd[t] # "none" /\ data[t] = c
  BY <1>0 DEF OwnData
<1> QED
  BY <1>2, <1>3, <1>4 DEF OwnData

\* What the handlers do to the cell.
Kept ==
    /\ kb'[current].current_buffer = kb[current].current_buffer
    /\ kb'[current].buffer_size = kb[current].buffer_size
    /\ \A d \in Cells : d # current => kb'[d] = kb[d]

LEMMA BackspaceCell ==
  ASSUME TypeOK, Reading, isr_backspace
  PROVE  /\ Kept
         /\ kb'[current].input_len = kb[current].input_len - 1
         /\ kb'[current].currently_reading = kb[current].currently_reading
<1>1. current \in Cells /\ DeviceTypes
  BY Facts DEF Reading, DeviceTypes
<1> QED
  BY <1>1 DEF isr_backspace, DeviceTypes, KeyboardData, Kept

LEMMA EnterCell ==
  ASSUME TypeOK, Reading, isr_enter
  PROVE  Kept /\ kb'[current].input_len = kb[current].input_len
<1>1. current \in Cells /\ DeviceTypes
  BY Facts DEF Reading, DeviceTypes
<1> QED
  BY <1>1 DEF isr_enter, DeviceTypes, KeyboardData, Kept

LEMMA CharacterCell ==
  ASSUME TypeOK, Reading, isr_character
  PROVE  /\ Kept
         /\ kb'[current].input_len = kb[current].input_len + 1
         /\ kb'[current].currently_reading = kb[current].currently_reading
<1>1. current \in Cells /\ DeviceTypes
  BY Facts DEF Reading, DeviceTypes
<1> QED
  BY <1>1 DEF isr_character, DeviceTypes, KeyboardData, Kept

LEMMA FaultCell ==
  ASSUME TypeOK, Reading, isr_faults
  PROVE  Kept /\ kb'[current].input_len = IF Erases THEN kb[current].input_len - 1
                                          ELSE kb[current].input_len
<1>1. current \in Cells /\ DeviceTypes
  BY Facts DEF Reading, DeviceTypes
<1>2. CASE Erases
  BY <1>1, <1>2 DEF isr_faults, DeviceTypes, KeyboardData, Kept
<1>3. CASE ~Erases
  BY <1>1, <1>3 DEF isr_faults, Kept
<1> QED
  BY <1>2, <1>3

\* Every reader on its own data, and no index beyond its buffer, for the handler.
LEMMA HandlerOwns ==
  ASSUME TypeOK, OwnData, ~past, keyboard_isr
  PROVE  OwnData' /\ ~past'
<1> USE DEF taskVars, histVars
<1>1. CASE isr_ignores
  BY <1>1 DEF isr_ignores, OwnData
<1>2. CASE isr_other
  BY <1>2 DEF isr_other, OwnData
<1>3. CASE Reading /\ (isr_backspace \/ isr_enter \/ isr_character \/ isr_faults)
  <2>1. /\ current \in Cells /\ Reader \in Tasks
        /\ kb[current].input_len \in Nat /\ kb[current].buffer_size \in Nat
        /\ kb[current].buffer_size + 1 = room[Reader]
        /\ kb[current].input_len < room[Reader]
        /\ room[Reader] \in 0 .. MaxRoom
    BY <1>3, TheReader
  <2>2. UNCHANGED <<private, live, current, rd, data, room>>
    BY <1>3 DEF isr_backspace, isr_enter, isr_character, isr_faults
  <2>3. ASSUME NEW n \in Nat, n < room[Reader], NEW ch, Store(n, ch)
        PROVE  ~past'
    <3>1. Reader # Nobody /\ ~(n >= room[Reader])
      BY <2>1, <2>3
    <3> QED
      BY <2>3, <3>1 DEF Store
  <2>4. ASSUME Kept, kb'[current].input_len < room[Reader] PROVE OwnData'
    BY <1>3, <2>2, <2>4, CellEdited DEF Kept
  <2>5. CASE isr_backspace
    <3>1. kb[current].input_len > 0 /\ Store(kb[current].input_len - 1, NUL)
      BY <2>5 DEF isr_backspace, Erases
    <3>2. kb[current].input_len - 1 \in Nat /\ kb[current].input_len - 1 < room[Reader]
      BY <2>1, <3>1
    <3>3. ~past'
      BY <2>3, <3>1, <3>2
    <3>4. Kept /\ kb'[current].input_len < room[Reader]
      BY <1>3, <2>5, <3>2, BackspaceCell
    <3> QED
      BY <2>4, <3>3, <3>4
  <2>6. CASE isr_enter
    <3>1. ~past'
      BY <2>1, <2>3, <2>6 DEF isr_enter
    <3>2. Kept /\ kb'[current].input_len < room[Reader]
      BY <1>3, <2>1, <2>6, EnterCell
    <3> QED
      BY <2>4, <3>1, <3>2
  <2>7. CASE isr_character
    <3>1. ~past'
      BY <2>1, <2>3, <2>7 DEF isr_character
    <3>2. kb[current].buffer_size # kb[current].input_len
      BY <2>7 DEF isr_character, EndsLine
    <3>3. kb[current].input_len + 1 < room[Reader]
      BY <2>1, <3>2
    <3>4. Kept /\ kb'[current].input_len < room[Reader]
      BY <1>3, <2>7, <3>3, CharacterCell
    <3> QED
      BY <2>4, <3>1, <3>4
  <2>8. CASE isr_faults
    <3>1. past' = past
      BY <2>8 DEF isr_faults
    <3>2. (IF Erases THEN kb[current].input_len - 1 ELSE kb[current].input_len) < room[Reader]
      BY <2>1
    <3>3. Kept /\ kb'[current].input_len < room[Reader]
      BY <1>3, <2>8, <3>2, FaultCell
    <3> QED
      BY <2>4, <3>1, <3>3
  <2> QED
    BY <1>3, <2>5, <2>6, <2>7, <2>8
<1> QED
  BY <1>1, <1>2, <1>3
  DEF keyboard_isr, isr_backspace, isr_enter, isr_character, isr_faults, Handles

\* Among orderly programs the reader is alone, and the handler works for it.
LEMMA AloneKept ==
  ASSUME TypeOK, OwnData, OneReader, Orderly', TaskStep \/ keyboard_isr
  PROVE  OneReader'
<1> USE DEF taskVars, histVars
<1>0. TaskTypes
  BY Facts
<1>1. CASE read_ps2_kb
  <2>1. \A t \in Tasks : rd[t] = "none"
    BY <1>1 DEF read_ps2_kb, Orderly, Noted
  <2>2. Modest'
    BY DEF Orderly
  <2>3. /\ cur \in Tasks /\ data'[cur] = private /\ current' = private
        /\ \A t \in Tasks : t # cur => rd'[t] = rd[t]
    BY <1>1, <2>2, ReadBegins
  <2> QED
    BY <2>1, <2>3 DEF OneReader
<1>2. CASE read_returns
  <2>1. /\ cur \in Tasks /\ rd'[cur] = "none" /\ UNCHANGED current
        /\ \A t \in Tasks : t # cur => rd'[t] = rd[t] /\ data'[t] = data[t]
    BY <1>2, ReadReturned
  <2> QED
    BY <2>1 DEF OneReader
<1>3. CASE read_line_entered
  BY <1>0, <1>3 DEF read_line_entered, OneReader, TaskTypes
<1>4. CASE open_ps2_kb \/ (\E t \in Tasks : task_switch(t)) \/ (\E k \in Keys : key(k))
  BY <1>4 DEF open_ps2_kb, task_switch, key, OneReader
<1>5. CASE keyboard_isr
  BY <1>5 DEF keyboard_isr, isr_ignores, isr_other, isr_backspace, isr_enter, isr_character,
              isr_faults, OneReader
<1> QED
  BY <1>1, <1>2, <1>3, <1>4, <1>5 DEF TaskStep

\* The line of one reader, as LineSoFar says it.
LineHeld(t) ==
    /\ Len(typed[data[t]]) = kb[data[t]].input_len
    /\ \A n \in 1 .. Len(typed[data[t]]) : mem[t][n - 1] = typed[data[t]][n]
    /\ ~kb[data[t]].currently_reading => mem[t][Len(typed[data[t]])] = NUL

LEMMA Lines == LineSoFar <=> \A t \in Tasks \ spoiled : rd[t] # "none" => LineHeld(t)
  BY DEF LineSoFar, LineHeld

LEMMA SameLine ==
  ASSUME NEW t \in Tasks, LineHeld(t),
         kb'[data[t]] = kb[data[t]], typed'[data[t]] = typed[data[t]],
         mem'[t] = mem[t], data'[t] = data[t]
  PROVE  LineHeld(t)'
  BY DEF LineHeld

\* The lines of the readers, for the steps of the tasks.
LEMMA TaskLine ==
  ASSUME TypeOK, OwnData, LineSoFar, Modest', TaskStep
  PROVE  LineSoFar'
<1> USE DEF taskVars, histVars
<1>0. /\ DeviceTypes /\ TaskTypes /\ Nobody \notin Cells
      /\ \A t \in Tasks : rd[t] # "none" => data[t] \in Cells
      /\ \A t \in Tasks \ spoiled : rd[t] # "none" => LineHeld(t)
  BY Facts, Lines DEF OwnData, DeviceTypes
<1> SUFFICES ASSUME NEW t \in Tasks, t \notin spoiled', rd'[t] # "none"
             PROVE  LineHeld(t)'
  BY DEF LineSoFar, LineHeld
<1>1. CASE open_ps2_kb
  <2>1. /\ UNCHANGED <<rd, data, mem, spoiled, typed>>
        /\ rd[t] # "none" => kb'[data[t]] = kb[data[t]]
    BY <1>0, <1>1, Opened
  <2> QED
    BY <1>0, <2>1, SameLine
<1>2. CASE read_ps2_kb
  <2>1. CASE t = cur
    <3>1. /\ data'[t] = private /\ kb'[private].input_len = 0
          /\ kb'[private].currently_reading = TRUE /\ typed'[private] = <<>>
      BY <1>2, <2>1, ReadBegins
    <3>2. Len(typed'[private]) = 0
      BY <3>1
    <3> QED
      BY <3>1, <3>2 DEF LineHeld
  <2>2. CASE t # cur
    <3>1. /\ rd'[t] = rd[t] /\ data'[t] = data[t] /\ mem' = mem /\ spoiled' = spoiled \ {cur}
          /\ rd[t] # "none" => data[t] # private
          /\ \A d \in Cells : d # private => kb'[d] = kb[d] /\ typed'[d] = typed[d]
      BY <1>2, <2>2, ReadBegins
    <3>2. LineHeld(t) /\ kb'[data[t]] = kb[data[t]] /\ typed'[data[t]] = typed[data[t]]
      BY <1>0, <2>2, <3>1
    <3> QED
      BY <3>1, <3>2, SameLine
  <2> QED
    BY <2>1, <2>2
<1>3. CASE read_line_entered
  <2>1. /\ UNCHANGED <<kb, data, mem, spoiled, typed>> /\ rd[t] # "none"
    BY <1>0, <1>3 DEF read_line_entered, TaskTypes
  <2> QED
    BY <1>0, <2>1, SameLine
<1>4. CASE read_returns
  <2>1. /\ cur \in Tasks /\ rd'[cur] = "none" /\ rd[cur] = "clear"
        /\ \A d \in Cells : d # data[cur] => kb'[d] = kb[d] /\ typed'[d] = typed[d]
        /\ t # cur => rd'[t] = rd[t] /\ data'[t] = data[t] /\ mem'[t] = mem[t]
        /\ spoiled' = spoiled
    BY <1>4, ReadReturned
  <2>2. t # cur /\ rd[t] # "none" /\ data[t] # data[cur]
    BY <2>1 DEF OwnData
  <2>3. LineHeld(t) /\ kb'[data[t]] = kb[data[t]] /\ typed'[data[t]] = typed[data[t]]
    BY <1>0, <2>1, <2>2
  <2> QED
    BY <2>1, <2>2, <2>3, SameLine
<1>5. CASE \E u \in Tasks : task_switch(u)
  BY <1>0, <1>5, SameLine DEF task_switch
<1>6. CASE \E k \in Keys : key(k)
  BY <1>0, <1>6, SameLine DEF key
<1> QED
  BY <1>1, <1>2, <1>3, <1>4, <1>5, <1>6 DEF TaskStep

\* What a write into the reader's own tree does to its buffer.
LEMMA Stored ==
  ASSUME TypeOK, OwnData, Reading, ~Away,
         NEW n \in Nat, n < room[Reader], NEW ch, Store(n, ch)
  PROVE  /\ mem'[Reader][n] = ch
         /\ \A k \in Nat : k < room[Reader] /\ k # n => mem'[Reader][k] = mem[Reader][k]
<1>0. TaskTypes /\ Reader \in Tasks /\ room[Reader] \in 0 .. MaxRoom
  BY Facts, TheReader
<1>1. mem' = [mem EXCEPT ![Reader][n] = ch]
  BY DEF Store, Away
<1>2. n \in 0 .. MaxRoom - 1
  BY <1>0
<1>3. mem[Reader] \in [0 .. MaxRoom - 1 -> Bytes]
  BY <1>0 DEF TaskTypes
<1> QED
  BY <1>0, <1>1, <1>2, <1>3 DEF TaskTypes

EditStep == isr_backspace \/ isr_enter \/ isr_character \/ isr_faults

\* A key is of no consequence for the tasks that it is not for, but the one it
\* is written into.
LEMMA OtherLine ==
  ASSUME TypeOK, OwnData, Reading, EditStep,
         NEW t \in Tasks, t \notin spoiled', rd[t] # "none", t # Reader, LineHeld(t)
  PROVE  LineHeld(t)'
<1> USE DEF taskVars, histVars
<1>0. /\ DeviceTypes /\ TaskTypes /\ HistoryTypes /\ current \in Cells /\ data[t] \in Cells
      /\ data[t] # current
  BY Facts, TheReader DEF OwnData, DeviceTypes
<1>1. kb'[data[t]] = kb[data[t]] /\ data' = data
  BY <1>0, BackspaceCell, EnterCell, CharacterCell, FaultCell
  DEF EditStep, Kept, isr_backspace, isr_enter, isr_character, isr_faults
<1>2. typed'[data[t]] = typed[data[t]]
  BY <1>0 DEF EditStep, isr_backspace, isr_enter, isr_character, isr_faults, LineErased,
              HistoryTypes
<1>3. ASSUME NEW n, NEW ch, Store(n, ch) PROVE mem'[t] = mem[t]
  <2>1. CASE Away
    <3>1. t # cur /\ mem' = [mem EXCEPT ![cur] = Untouched]
      BY <1>3, <2>1 DEF Store
    <3> QED
      BY <1>0, <3>1 DEF TaskTypes
  <2>2. CASE ~Away
    <3>1. t # cur /\ (mem' = mem \/ mem' = [mem EXCEPT ![cur][n] = ch])
      BY <1>3, <2>2 DEF Store, Away
    <3> QED
      BY <1>0, <3>1 DEF TaskTypes
  <2> QED
    BY <2>1, <2>2
<1>4. mem'[t] = mem[t]
  BY <1>3 DEF EditStep, isr_backspace, isr_enter, isr_character, isr_faults
<1> QED
  BY <1>1, <1>2, <1>4, SameLine

\* The line of the reader itself, when the key has found it on the processor.
LEMMA OwnLine ==
  ASSUME TypeOK, OwnData, Reading, EditStep, Reader \notin spoiled', LineHeld(Reader)
  PROVE  data'[Reader] = current /\ LineHeld(Reader)'
<1> USE DEF taskVars, histVars
<1> DEFINE t == Reader  s == typed[current]  l == kb[current].input_len
<1>0. /\ HistoryTypes /\ current \in Cells /\ t \in Tasks
      /\ data[t] = current /\ l \in Nat /\ l < room[t] /\ room[t] \in 0 .. MaxRoom
      /\ kb[current].buffer_size \in Nat /\ kb[current].buffer_size + 1 = room[t]
      /\ s \in Seq(Typed)
  BY Facts, TheReader
<1>1. ~Away /\ ~isr_faults
  BY DEF EditStep, isr_backspace, isr_enter, isr_character, isr_faults, Store
<1>2. data' = data
  BY DEF EditStep, isr_backspace, isr_enter, isr_character, isr_faults
<1>3. /\ Len(s) = l /\ \A n \in 1 .. Len(s) : mem[t][n - 1] = s[n]
      /\ kb[current].currently_reading
  BY <1>0 DEF LineHeld, Reading
<1>4. ASSUME NEW n \in Nat, n < room[t], NEW ch, Store(n, ch)
      PROVE  /\ mem'[t][n] = ch
             /\ \A k \in Nat : k < room[t] /\ k # n => mem'[t][k] = mem[t][k]
  BY <1>1, <1>4, Stored
<1>5. ASSUME Len(typed'[current]) = kb'[current].input_len,
             \A n \in 1 .. Len(typed'[current]) : mem'[t][n - 1] = typed'[current][n],
             ~kb'[current].currently_reading => mem'[t][Len(typed'[current])] = NUL
      PROVE  LineHeld(Reader)'
  <2>1. Reader' = Reader
    BY <1>0, BackspaceCell, EnterCell, CharacterCell, FaultCell
    DEF EditStep, Kept, Reader, isr_backspace, isr_enter, isr_character, isr_faults
  <2>2. data'[t] = current
    BY <1>0, <1>2
  <2> QED
    BY <1>5, <2>1, <2>2 DEF LineHeld
<1>6. CASE isr_backspace
  <2>1. l > 0 /\ Store(l - 1, NUL) /\ typed' = LineErased
    BY <1>6 DEF isr_backspace, Erases
  <2>2. kb'[current].input_len = l - 1 /\ kb'[current].currently_reading
    BY <1>3, <1>6, BackspaceCell
  <2>3. typed'[current] = SubSeq(s, 1, Len(s) - 1)
    BY <1>0, <2>1 DEF LineErased, HistoryTypes
  <2> HIDE DEF s, l, t
  <2>4. /\ Len(typed'[current]) = l - 1
        /\ \A n \in 1 .. l - 1 : typed'[current][n] = s[n]
    BY <1>0, <1>3, <2>1, <2>3, Erasing
  <2>5. l - 1 \in Nat /\ l - 1 < room[t]
    BY <1>0, <2>1
  <2>6. \A k \in Nat : k < room[t] /\ k # l - 1 => mem'[t][k] = mem[t][k]
    BY <1>4, <2>1, <2>5
  <2>7. \A n \in 1 .. Len(typed'[current]) : mem'[t][n - 1] = typed'[current][n]
    <3> SUFFICES ASSUME NEW n \in 1 .. l - 1 PROVE mem'[t][n - 1] = typed'[current][n]
      BY <2>4
    <3>1. n \in 1 .. Len(s) /\ n - 1 \in Nat /\ n - 1 < room[t] /\ n - 1 # l - 1
      BY <1>0, <1>3
    <3> QED
      BY <1>3, <2>4, <2>6, <3>1
  <2>8. Len(typed'[current]) = kb'[current].input_len
    BY <2>2, <2>4
  <2> QED
    BY <1>0, <1>2, <1>5, <2>2, <2>7, <2>8 DEF t
<1>7. CASE isr_enter
  <2>1. Store(l, NUL) /\ typed'[current] = s
    BY <1>7 DEF isr_enter
  <2>2. kb'[current].input_len = l
    BY <1>7, EnterCell
  <2> HIDE DEF s, l, t
  <2>3. mem'[t][l] = NUL /\ \A k \in Nat : k < room[t] /\ k # l => mem'[t][k] = mem[t][k]
    BY <1>0, <1>4, <2>1
  <2>4. \A n \in 1 .. Len(s) : mem'[t][n - 1] = s[n]
    <3> SUFFICES ASSUME NEW n \in 1 .. Len(s) PROVE mem'[t][n - 1] = s[n]
      OBVIOUS
    <3>1. n - 1 \in Nat /\ n - 1 < room[t] /\ n - 1 # l
      BY <1>0, <1>3
    <3> QED
      BY <1>3, <2>3, <3>1
  <2> QED
    BY <1>0, <1>2, <1>3, <1>5, <2>1, <2>2, <2>3, <2>4 DEF t
<1>8. CASE isr_character
  <2>0. Character \in Typed
    BY DEF Character, Typed
  <2>1. Store(l, Character)
    BY <1>8 DEF isr_character
  <2>2. kb'[current].input_len = l + 1 /\ kb'[current].currently_reading
    BY <1>3, <1>8, CharacterCell
  <2>3. typed'[current] = Append(s, Character)
    BY <1>0, <1>8 DEF isr_character, HistoryTypes
  <2> HIDE DEF s, l, t
  <2>4. /\ Len(typed'[current]) = Len(s) + 1
        /\ \A n \in 1 .. Len(s) : typed'[current][n] = s[n]
        /\ typed'[current][Len(s) + 1] = Character
    BY <1>0, <2>0, <2>3, AppendProperties
  <2>5. /\ mem'[t][l] = Character
        /\ \A k \in Nat : k < room[t] /\ k # l => mem'[t][k] = mem[t][k]
    BY <1>0, <1>4, <2>1
  <2>6. \A n \in 1 .. Len(typed'[current]) : mem'[t][n - 1] = typed'[current][n]
    <3> SUFFICES ASSUME NEW n \in 1 .. Len(s) + 1
                 PROVE  mem'[t][n - 1] = typed'[current][n]
      BY <2>4
    <3>1. CASE n = Len(s) + 1
      BY <1>0, <1>3, <2>4, <2>5, <3>1
    <3>2. CASE n # Len(s) + 1
      <4>1. n \in 1 .. Len(s) /\ n - 1 \in Nat /\ n - 1 < room[t] /\ n - 1 # l
        BY <1>0, <1>3, <3>2
      <4> QED
        BY <1>3, <2>4, <2>5, <4>1
    <3> QED
      BY <3>1, <3>2
  <2>7. Len(typed'[current]) = kb'[current].input_len
    BY <1>3, <2>2, <2>4
  <2> QED
    BY <1>0, <1>2, <1>5, <2>2, <2>6, <2>7 DEF t
<1> QED
  BY <1>1, <1>6, <1>7, <1>8 DEF EditStep

\* The lines of the readers, for the handler.
LEMMA HandlerLine ==
  ASSUME TypeOK, OwnData, LineSoFar, keyboard_isr
  PROVE  LineSoFar'
<1> USE DEF taskVars, histVars
<1>1. CASE isr_ignores
  BY <1>1 DEF isr_ignores, LineSoFar
<1>2. CASE isr_other
  BY <1>2 DEF isr_other, LineSoFar
<1>3. CASE Reading /\ EditStep
  <2>1. spoiled \subseteq spoiled' /\ rd' = rd
    BY <1>3 DEF EditStep, isr_backspace, isr_enter, isr_character, isr_faults, Store
  <2> SUFFICES ASSUME NEW t \in Tasks, t \notin spoiled', rd'[t] # "none"
               PROVE  LineHeld(t)'
    BY DEF LineSoFar, LineHeld
  <2>2. LineHeld(t)
    BY <2>1, Lines
  <2>3. CASE t # Reader
    BY <1>3, <2>1, <2>2, <2>3, OtherLine
  <2>4. CASE t = Reader
    <3>1. Reader' = Reader
      <4>1. current' = current /\ Kept
        BY <1>3, BackspaceCell, EnterCell, CharacterCell, FaultCell
        DEF EditStep, isr_backspace, isr_enter, isr_character, isr_faults
      <4> QED
        BY <4>1 DEF Reader, Kept
    <3>2. LineHeld(Reader)'
      BY <1>3, <2>2, <2>4, OwnLine
    <3> QED
      BY <2>4, <3>1, <3>2 DEF LineHeld
  <2> QED
    BY <2>3, <2>4
<1> QED
  BY <1>1, <1>2, <1>3
  DEF keyboard_isr, EditStep, isr_backspace, isr_enter, isr_character, isr_faults, Handles

\* Nothing that was noted is forgotten.
LEMMA MisuseGrows ==
  ASSUME Next
  PROVE  misuse \subseteq misuse'
  BY DEF Next, open_ps2_kb, close_ps2_kb, read_ps2_kb, read_progress, read_line_entered,
         read_returns, Return, task_switch, key, keyboard_isr, isr_ignores, isr_other,
         isr_backspace, isr_enter, isr_character, isr_faults, histVars

\* A task is on the processor as long as the interrupt is acknowledged.
LEMMA Present ==
  ASSUME TypeOK, cur = Nobody => stuck, Next
  PROVE  cur' = Nobody => stuck'
  BY DEF Next, open_ps2_kb, close_ps2_kb, read_ps2_kb, read_progress, read_line_entered,
         read_returns, Return, task_switch, key, keyboard_isr, isr_ignores, isr_other,
         isr_backspace, isr_enter, isr_character, isr_faults

\* The inductive invariant of the keyboard.
THEOREM KeyboardInvariant == Spec => []IInv
<1>1. IInv /\ [Next]_vars => IInv'
  <2> SUFFICES ASSUME IInv, [Next]_vars PROVE IInv'
    OBVIOUS
  <2>1. CASE UNCHANGED vars
    <3>1. TypeOK'
      BY <2>1 DEF IInv, TypeOK, vars, taskVars, histVars
    <3>2. /\ (Modest <=> Modest') /\ (Orderly <=> Orderly') /\ (OneReader <=> OneReader')
          /\ (LineSoFar <=> LineSoFar') /\ (OwnData <=> OwnData')
      BY <2>1 DEF Modest, Orderly, OneReader, LineSoFar, OwnData, vars, taskVars, histVars
    <3> QED
      BY <2>1, <3>1, <3>2 DEF IInv, vars, histVars
  <2>2. CASE Next
    <3>1. TypeOK'
      BY <2>2, OpenTypes, CloseTypes, ReadTypes, ReturnTypes, OtherTaskTypes, HandlerTypes
      DEF IInv, Next, read_progress
    <3>2. (Modest' => Modest) /\ (Orderly' => Orderly /\ Modest')
      BY <2>2, MisuseGrows DEF Modest, Orderly
    <3>3. Modest' => TaskStep \/ keyboard_isr
      BY <2>2 DEF Next, read_progress, TaskStep, close_ps2_kb, Modest
    <3>4. Modest' => ~past' /\ OwnData' /\ LineSoFar'
      BY <3>2, <3>3, TaskOwns, HandlerOwns, TaskLine, HandlerLine DEF IInv
    <3>5. Orderly' => OneReader'
      BY <3>2, <3>3, AloneKept DEF IInv
    <3>6. cur' = Nobody => stuck'
      BY <2>2, Present DEF IInv
    <3> QED
      BY <3>1, <3>4, <3>5, <3>6 DEF IInv
  <2> QED
    BY <2>1, <2>2
<1> QED
  BY <1>1, InitIInv, PTL DEF Spec

\* Every index that the handler writes at is within the length the reader has given,
\* while no read begins on the data of another one.
THEOREM BufferRespected == Spec => []NoOverrun
<1>1. IInv => NoOverrun
  BY DEF IInv, NoOverrun
<1> QED
  BY <1>1, KeyboardInvariant, PTL

\* An open never takes the keyboard from the task that reads.
THEOREM KeyboardKept == Spec => []KeepsKeyboard
<1>1. IInv => KeepsKeyboard
  BY DEF IInv, OneReader, OwnData, Orderly, KeepsKeyboard
<1> QED
  BY <1>1, KeyboardInvariant, PTL

\* A read returns the line that was typed for it, when its keys found it on the
\* processor, also among reads of other tasks on other data.
THEOREM LineDelivered == Spec => []LineIntact
<1>1. IInv => LineIntact
  <2> SUFFICES ASSUME IInv, Modest, NEW t \in Tasks \ spoiled, rd[t] = "clear"
               PROVE  /\ Len(typed[data[t]]) < room[t]
                      /\ \A n \in 1 .. Len(typed[data[t]]) : mem[t][n - 1] = typed[data[t]][n]
                      /\ mem[t][Len(typed[data[t]])] = NUL
    BY DEF LineIntact
  <2>1. OwnData /\ LineSoFar
    BY DEF IInv
  <2>2. LineHeld(t)
    BY <2>1, Lines
  <2>3. ~kb[data[t]].currently_reading /\ kb[data[t]].input_len < room[t]
    BY <2>1 DEF OwnData
  <2> QED
    BY <2>2, <2>3 DEF LineHeld
<1> QED
  BY <1>1, KeyboardInvariant, PTL
=============================================================================
