------------------------------ MODULE TextLog -------------------------------
(***************************************************************************)
(* The log on the screen: Print() and ClearLog() of screen_ui.cpp write    *)
(* into a ring of rows.  A row is an array of characters with NUL after    *)
(* the last one; what was in it before stays behind that.  (text_top is    *)
(* kept by the code, but nothing reads it.)                                *)
(***************************************************************************)
EXTENDS Integers, SequencesExt

CONSTANTS
    LogRows, LogCols,   \* log_text_rows, log_text_cols
    Messages            \* what is printed: sequences of characters

NUL == "nul"
NewlineChar == "nl"

VARIABLES
    log,            \* text, text_col, text_row
    printed         \* history: the last LogRows lines that were printed
lvars == <<log, printed>>

LogInit ==
    /\ log = [text |-> [r \in 0 .. LogRows - 1 |-> [c \in 0 .. LogCols |-> NUL]], col |-> 0, row |-> 0]
    /\ printed = << << >> >>

-----------------------------------------------------------------------------
Ended(l) == [l EXCEPT !.text[l.row][l.col] = NUL]
NextRow(l) == [Ended(l) EXCEPT !.col = 0, !.row = (l.row + 1) % LogRows]

PutChar(l, c) ==
    LET at == IF c = NewlineChar \/ l.col >= LogCols THEN NextRow(l) ELSE l IN
    IF c = NewlineChar THEN at ELSE [at EXCEPT !.text[at.row][at.col] = c, !.col = @ + 1]

LeftOpen(l) == l
Closed(l) == Ended(l)

(* The lines as they should be, without a ring: a line that is full is     *)
(* continued on the next.                                                  *)
PutLine(lines, c) ==
    LET at == IF c = NewlineChar \/ Len(Last(lines)) = LogCols THEN Append(lines, << >>) ELSE lines
        kept == IF Len(at) > LogRows THEN Tail(at) ELSE at IN
    IF c = NewlineChar THEN kept ELSE [kept EXCEPT ![Len(kept)] = Append(@, c)]

UIPrint(msg) ==
    /\ log' = Closed(FoldLeft(PutChar, log, msg))
    /\ printed' = FoldLeft(PutLine, printed, msg)

ClearLog ==
    /\ log' = [text |-> [r \in 0 .. LogRows - 1 |-> [c \in 0 .. LogCols |-> NUL]], col |-> 0, row |-> 0]
    /\ printed' = << << >> >>

LogNext == (\E msg \in Messages : UIPrint(msg)) \/ ClearLog

-----------------------------------------------------------------------------
Shown(r) ==
    LET end == CHOOSE c \in 0 .. LogCols :
                  log.text[r][c] = NUL /\ \A d \in 0 .. c - 1 : log.text[r][d] # NUL IN
    [c \in 1 .. end |-> log.text[r][c - 1]]

(* What the rows show, from the current one back around the ring, are the  *)
(* last lines that were printed, however they were cut into messages, and  *)
(* nothing of what the rows held the last time around.                     *)
LastLinesShown ==
    \A k \in 0 .. Len(printed) - 1 :
        Shown((log.row - k) % LogRows) = printed[Len(printed) - k]

=============================================================================
