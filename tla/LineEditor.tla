----------------------------- MODULE LineEditor -----------------------------
(***************************************************************************)
(* What the command line of a shell promises the person who types: a text  *)
(* with a cursor in it, and the last Depth texts that were entered, which  *)
(* can be called back.  A text that reaches Size characters is given up;   *)
(* after that nothing is promised until the line starts anew.  Module      *)
(* Shell implements it.                                                    *)
(***************************************************************************)
EXTENDS Naturals, Sequences, SequencesExt

CONSTANTS
    Glyph,       \* the characters of a text
    Size, Depth,
    Names        \* the texts that the Tab key completes to

VARIABLES
    text, cursor,
    history,     \* the texts entered, oldest first
    recalled,    \* how many of them are older than the one called back
    over         \* the text was given up

line == <<text, cursor>>
past == <<history, recalled>>
vars == <<line, past, over>>

Init == text = <<>> /\ cursor = 0 /\ history = <<>> /\ recalled = 0 /\ over = FALSE

Insert ==
    /\ Len(text) + 1 < Size
    /\ \E c \in Glyph : text' = InsertAt(text, cursor + 1, c)
    /\ cursor' = cursor + 1
    /\ UNCHANGED <<past, over>>

GiveUp == Len(text) + 1 = Size /\ over' /\ UNCHANGED past

Erase ==
    /\ cursor > 0
    /\ text' = RemoveAt(text, cursor) /\ cursor' = cursor - 1
    /\ UNCHANGED <<past, over>>

Move ==
    /\ cursor' \in {cursor - 1, cursor + 1} \intersect (0 .. Len(text))
    /\ UNCHANGED <<text, past, over>>

Complete ==
    /\ cursor' = Len(text')
    /\ \/ text' = text
       \/ text # <<>> /\ \E n \in Names : IsPrefix(text, text') /\ IsPrefix(text', n)
    /\ UNCHANGED <<past, over>>

Recall ==
    /\ recalled' \in {recalled - 1, recalled + 1, Len(history) - 1}
    /\ recalled' \in 0 .. Len(history) - 1
    /\ text' = history[recalled' + 1] /\ cursor' = Len(text')
    /\ UNCHANGED <<history, over>>

Enter ==
    /\ history' = IF text = <<>> THEN history
                  ELSE IF Len(history) = Depth THEN Append(Tail(history), text)
                  ELSE Append(history, text)
    /\ recalled' = Len(history')
    /\ text' = <<>> /\ cursor' = 0
    /\ UNCHANGED over

Spec ==
    Init /\ [][over \/ Insert \/ GiveUp \/ Erase \/ Move \/ Complete \/ Recall \/ Enter]_vars
=============================================================================
