-------------------------------- MODULE Shell --------------------------------
(***************************************************************************)
(* The finsh shell of src/components/finsh/shell.c on the console of the   *)
(* board: the receive interrupt of the serial device stores characters and *)
(* calls finsh_rx_ind, which releases rx_sem; the shell thread takes       *)
(* rx_sem, reads characters and edits the command line with them.          *)
(*                                                                         *)
(* The ring of the serial driver is the queue that module Uart implements. *)
(* What a line holds of a character is one of Glyph: the letters are       *)
(* themselves, everything else is Other.                                   *)
(***************************************************************************)
EXTENDS Ipc

CONSTANTS
    Shell,                  \* the shell thread
    Key,                    \* the characters received
    Letter,                 \* those the properties tell apart in a line
    RxCapacity,             \* characters the serial driver holds
    Burst,                  \* bound: characters one interrupt takes in
    MaxUnits,               \* bound: releases the shell is behind
    FINSH_CMD_SIZE, FINSH_HISTORY_LINES,
    Names                   \* the names list_prefix finds in its tables

Special == {"ESC", "[", "A", "B", "C", "D", "CR", "LF", "TAB", "BS"}
Other   == "other"
Glyph   == Letter \union {Other}
NUL     == "NUL"

ShellAssumption ==
    /\ Shell \in Booted \ {Idle}
    /\ Key \subseteq Letter \union Special
    /\ Letter \intersect (Special \union {Other, NUL}) = {}
    /\ \A n \in {RxCapacity, Burst, FINSH_CMD_SIZE, FINSH_HISTORY_LINES} :
          n \in Nat \ {0}
    /\ \A n \in Names : Len(n) \in 1 .. FINSH_CMD_SIZE - 1

VARIABLES
    value, live, units,     \* rx_sem, as in Semaphore
    rx,                     \* characters received and not read
    taken,                  \* characters the interrupt handler has taken in
    ind,                    \* device->rx_indicate is finsh_rx_ind
    at,                     \* where the loop of the shell is
    sh,                     \* struct finsh_shell
    over,                   \* history: a long line was discarded
    untold                  \* history: characters that came without a call of
                            \* finsh_rx_ind of their own

sem  == <<value, live, units>>
port == <<rx, taken, ind>>
edit == <<sh, over>>
vars == <<k, pc, sem, port, at, edit, untold>>

Sem == INSTANCE Semaphore WITH
    Flag <- "FIFO", SemMax <- 65535,
    Calls <- {"take", "isr_release"}, Times <- {RT_WAITING_FOREVER}

Column == 0 .. FINSH_CMD_SIZE - 1
Lines  == [Column -> Glyph \union {NUL}]
Blank  == [i \in Column |-> NUL]

TypeOK ==
    /\ Sem!TypeOK
    /\ rx \in Seq(Key) /\ Len(rx) <= RxCapacity
    /\ taken \in 0 .. Burst /\ ind \in BOOLEAN
    /\ at \in {"start", "take", "read", "cr"}
    /\ sh \in [stat : {"NORMAL", "SPEC_KEY", "FUNC_KEY"},
               line : Lines, position : Column, curpos : Column,
               history : [0 .. FINSH_HISTORY_LINES - 1 -> Lines],
               count : 0 .. FINSH_HISTORY_LINES,
               current : 0 .. FINSH_HISTORY_LINES]
    /\ over \in BOOLEAN /\ untold \in Nat

Fresh ==
    [stat |-> "NORMAL", line |-> Blank, position |-> 0, curpos |-> 0,
     history |-> [i \in 0 .. FINSH_HISTORY_LINES - 1 |-> Blank],
     count |-> 0, current |-> 0]

\* finsh_system_init.
Init ==
    /\ Sem!Init /\ value = 0
    /\ rx = <<>> /\ taken = 0 /\ ind = FALSE
    /\ at = "start"
    /\ sh = Fresh /\ over = FALSE /\ untold = 0

-----------------------------------------------------------------------------
(* The command line: what each key does to s, a struct finsh_shell.        *)

\* strlen of a line. One without a NUL is read past its end, and the model
\* does not go on from there.
Terminated(l) == \E i \in Column : l[i] = NUL
strlen(l) == Min({i \in Column : l[i] = NUL})

Text(l) == [i \in 1 .. strlen(l) |-> l[i - 1]]

\* A text takes the place of the line, or of its beginning.
Placed(s, l) ==
    [s EXCEPT !.line = l, !.position = strlen(l), !.curpos = strlen(l)]

\* shell_push_history
shell_push_history(s) ==
    LET l == [i \in Column |-> IF i < s.position THEN s.line[i] ELSE NUL]
        n == FINSH_HISTORY_LINES
        p == IF s.position = 0 THEN s
             ELSE IF s.count >= n
             THEN [s EXCEPT !.history = [i \in 0 .. n - 1 |->
                                           IF i < n - 1 THEN @[i + 1] ELSE l],
                            !.count = n]
             ELSE [s EXCEPT !.history[s.count] = l, !.count = @ + 1]
    IN  [p EXCEPT !.current = p.count]

Recalled(s, i) == [Placed(s, s.history[i]) EXCEPT !.current = i]

UpKey(s)   == IF s.current > 0 THEN Recalled(s, s.current - 1) ELSE s
DownKey(s) == IF s.count = 0 THEN s
              ELSE Recalled(s, Min({s.current + 1, s.count - 1}))

LeftKey(s)  == [s EXCEPT !.curpos = IF @ > 0 THEN @ - 1 ELSE @]
RightKey(s) == [s EXCEPT !.curpos = IF @ < s.position THEN @ + 1 ELSE @]

\* list_prefix: what the names that start with the line have in common.
Completed(s) ==
    LET x == Text(s.line)
        M == {n \in Names : Len(x) <= Len(n) /\ SubSeq(n, 1, Len(x)) = x}
        j == Max({i \in 0 .. FINSH_CMD_SIZE - 1 : \A m, n \in M :
                    /\ i <= Len(m)
                    /\ i <= Len(n)
                    /\ SubSeq(m, 1, i) = SubSeq(n, 1, i)})
        n == CHOOSE m \in M : TRUE
    IN  IF x = <<>> \/ M = {} THEN s.line
        ELSE [i \in Column |-> IF i < j THEN n[i + 1] ELSE s.line[i]]

TabKey(s) == Placed(s, Completed(s))

Backspace(s) ==
    LET p == s.position - 1
        q == s.curpos - 1
    IN  IF s.curpos = 0 THEN s
        ELSE [s EXCEPT !.position = p, !.curpos = q,
                       !.line = [i \in Column |->
                                   IF i = p THEN NUL
                                   ELSE IF i \in q .. p - 1 THEN @[i + 1] ELSE @[i]]]

\* Mutant: the rest of the line is not moved.
OverwritesCharacter(s, g) ==
    LET p == IF s.position >= FINSH_CMD_SIZE THEN 0 ELSE s.position
        n == IF p + 1 >= FINSH_CMD_SIZE THEN [pos |-> 0, cur |-> 0]
             ELSE [pos |-> p + 1, cur |-> s.curpos + 1]
    IN  [s EXCEPT !.position = n.pos, !.curpos = n.cur, !.line[s.curpos] = g]

\* A normal character, at the cursor. A line that gets as long as its array
\* starts again at 0; its characters stay.
Character(s, g) ==
    LET p == IF s.position >= FINSH_CMD_SIZE THEN 0 ELSE s.position
        q == IF s.curpos < p THEN s.curpos ELSE p
        n == IF p + 1 >= FINSH_CMD_SIZE THEN [pos |-> 0, cur |-> 0]
             ELSE [pos |-> p + 1, cur |-> s.curpos + 1]
    IN  [s EXCEPT !.position = n.pos, !.curpos = n.cur,
                  !.line = [i \in Column |->
                              IF i = q THEN g
                              ELSE IF i \in q + 1 .. p THEN @[i - 1] ELSE @[i]]]

\* The end of the line. The parser runs s.line; then it is cleared.
EndOfLine(s) ==
    [shell_push_history(s) EXCEPT !.line = Blank, !.position = 0, !.curpos = 0]

Discards(s) == s.position + 1 >= FINSH_CMD_SIZE

-----------------------------------------------------------------------------
(* The loop of finsh_thread_entry.                                         *)

Runs(l) == At(Shell, "run") /\ taken = 0 /\ at = l

\* The device is opened and gets its rx_indicate.
Opens ==
    /\ Runs("start")
    /\ ind' = TRUE /\ at' = "take"
    /\ UNCHANGED <<k, pc, sem, rx, taken, edit, untold>>

\* rt_sem_take(&shell->rx_sem, RT_WAITING_FOREVER)
Takes ==
    /\ Runs("take") /\ Sem!rt_sem_take(Shell)
    /\ at' = "read"
    /\ UNCHANGED <<port, edit, untold>>

TakeReturns ==
    /\ taken = 0 /\ Sem!TakeReturns(Shell)
    /\ at' = IF k.err[Shell] = "EOK" THEN "read" ELSE "take"
    /\ UNCHANGED <<port, edit, untold>>

\* The character c was read, behind the tests for keys of more than one.
Types(s, c) ==
    \/ /\ c \in {"CR", "LF"}
       /\ sh' = EndOfLine(s) /\ over' = FALSE /\ at' = "take"
    \/ /\ c \notin {"CR", "LF"}
       /\ sh' = Character(s, IF c \in Letter THEN c ELSE Other)
       /\ over' = (over \/ Discards(s)) /\ at' = "read"

\* The inner loop goes on with s; a line that was called back replaces all of
\* the line that there was.
Continues(s, whole) == sh' = s /\ over' = (over /\ ~whole) /\ at' = "read"

\* The tests that a character goes through once no escape sequence is open.
Handles(s, c) ==
    \/ c = "CR" /\ sh' = s /\ over' = over /\ at' = "cr"
    \/ /\ c = "TAB" /\ Terminated(s.line) /\ Terminated(Completed(s))
       /\ Continues(TabKey(s), FALSE)
    \/ c = "BS" /\ Continues(Backspace(s), FALSE)
    \/ c \notin {"CR", "TAB", "BS"} /\ Types(s, c)

\* rt_device_read finds the character c.
ReadsKey(c) ==
    LET n == [sh EXCEPT !.stat = "NORMAL"]
    IN  IF c = "ESC" THEN Continues([sh EXCEPT !.stat = "SPEC_KEY"], FALSE)
        ELSE IF sh.stat = "SPEC_KEY" /\ c = "["
        THEN Continues([sh EXCEPT !.stat = "FUNC_KEY"], FALSE)
        ELSE IF sh.stat = "FUNC_KEY" /\ c \in {"A", "B", "C", "D"}
        THEN \/ c = "A" /\ Continues(UpKey(n), n.current > 0)
             \/ c = "B" /\ Continues(DownKey(n), n.count > 0)
             \/ c = "C" /\ Continues(RightKey(n), FALSE)
             \/ c = "D" /\ Continues(LeftKey(n), FALSE)
        ELSE Handles(n, c)

Reads ==
    /\ Runs("read") /\ rx # <<>>
    /\ ReadsKey(Head(rx)) /\ rx' = Tail(rx)
    /\ UNCHANGED <<k, pc, sem, taken, ind, untold>>

\* The character behind a CR takes its place.
ReadsNext ==
    /\ Runs("cr") /\ rx # <<>>
    /\ Types(sh, Head(rx)) /\ rx' = Tail(rx)
    /\ UNCHANGED <<k, pc, sem, taken, ind, untold>>

FindsNone ==
    /\ rx = <<>> /\ untold' = 0
    /\ \/ Runs("read") /\ at' = "take" /\ UNCHANGED edit
       \/ Runs("cr") /\ Types(sh, "CR")
    /\ UNCHANGED <<k, pc, sem, port>>

-----------------------------------------------------------------------------
(* rt_hw_serial_isr: it stores characters as long as there are any, then   *)
(* calls rx_indicate. No thread and no tick comes in between.              *)

Receives ==
    /\ ~k.isr /\ taken < Burst /\ units < MaxUnits
    /\ \E c \in Key :
          rx' = Append(IF Len(rx) = RxCapacity THEN Tail(rx) ELSE rx, c)
    /\ taken' = taken + 1
    /\ untold' = IF taken = 0 /\ ind THEN untold
                 ELSE Min({untold + 1, RxCapacity})
    /\ UNCHANGED <<k, pc, sem, ind, at, edit>>

\* Mutant: only the first character in the ring is told of.
ToldOnce ==
    /\ taken > 0 /\ taken' = 0
    /\ IF ind /\ Len(rx) = taken THEN Sem!IsrRelease ELSE UNCHANGED <<k, pc, sem>>
    /\ UNCHANGED <<rx, ind, at, edit, untold>>

finsh_rx_ind ==
    /\ taken > 0 /\ taken' = 0
    /\ IF ind THEN Sem!IsrRelease ELSE UNCHANGED <<k, pc, sem>>
    /\ UNCHANGED <<rx, ind, at, edit, untold>>

Next ==
    \/ Opens \/ Takes \/ TakeReturns \/ Reads \/ ReadsNext \/ FindsNone
    \/ Receives \/ finsh_rx_ind
    \/ taken = 0 /\ Background /\ UNCHANGED <<sem, port, at, edit, untold>>

Spec == Init /\ [][Next]_vars

-----------------------------------------------------------------------------
(* Properties.                                                             *)

\* The shell does not wait for rx_sem while characters lie in the ring, but
\* for as many as came without a release of their own: before the device got
\* its rx_indicate, or behind another one in the same interrupt. The loop
\* leaves characters behind at the end of each line, and there are releases
\* for which it finds none.
NoKeyLeft ==
    Shell \in Range(k.susp["sem"]) /\ taken = 0 => Len(rx) <= untold

\* The line, its cursor and the history are those of an editor: what the
\* parser gets, up to the NUL, is the text that was typed.
Editor == INSTANCE LineEditor WITH
    Size <- FINSH_CMD_SIZE, Depth <- FINSH_HISTORY_LINES,
    text <- IF over THEN <<>> ELSE Text(sh.line),
    cursor <- IF over THEN 0 ELSE sh.curpos,
    history <- [i \in 1 .. sh.count |-> Text(sh.history[i - 1])],
    recalled <- sh.current

IsEditor == Editor!Spec
=============================================================================
