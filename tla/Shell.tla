------------------------------- MODULE Shell -------------------------------
(***************************************************************************)
(* The shell: jsh.rs's loop over the line editor and the number printer of *)
(* the user library (lib.rs), and the row of the terminal the user sees.   *)
(*                                                                         *)
(* read_byte, print and wait_child each submit one request and wait for    *)
(* it, so they are single steps here (module Jring is about what they do). *)
(* Of a command's output only the number print_dec shows is kept.  The     *)
(* terminal is wide enough for the prompt and a line.                      *)
(***************************************************************************)
EXTENDS Sequences, Loops

CONSTANTS MAX_LINE,     \* 128 in the code
          Glyphs,       \* printable bytes
          Commands,     \* lines that do more than print: "spawn" or "stop"
          Width,        \* bits of an i64
          DecBuf,       \* bytes of print_dec's buffer, 20 for 64 bits
          Codes         \* exit codes

Blank == "blank"
Minus == -1   \* the sign, among digits

VARIABLES pc,           \* where the shell is
          line, len,    \* read_line's buffer, reused for every line
          row, cursor,  \* the terminal's row after the prompt
          entered,      \* what the row showed when Enter was pressed
          code, report  \* a child's exit code, and the digits reported for it; the
                        \* last three only until the next prompt

vars == <<pc, line, len, row, cursor, entered, code, report>>

Init ==
    /\ pc = "prompt"
    /\ line = [i \in 1..MAX_LINE |-> Blank] /\ len = 0
    /\ row = [i \in 1..MAX_LINE + 1 |-> Blank] /\ cursor = 1
    /\ entered = <<>> /\ code = 0 /\ report = <<>>

-----------------------------------------------------------------------------
(* The terminal: a row of cells and a cursor.                              *)

Screen == [row |-> row, cursor |-> cursor]
Put(s, c) == [row |-> [s.row EXCEPT ![s.cursor] = c], cursor |-> s.cursor + 1]
Left(s) == [s EXCEPT !.cursor = IF @ > 1 THEN @ - 1 ELSE @]
Show(s) == row' = s.row /\ cursor' = s.cursor

\* The text in the row.
Shown == SubSeq(row, 1, Largest({0} \union {i \in DOMAIN row : row[i] # Blank}))

\* Mutant of RubOut: the cursor is not brought back.
RubOutOnce(s) == Put(Left(s), Blank)

\* print("\x08 \x08")
RubOut(s) == Left(Put(Left(s), Blank))

-----------------------------------------------------------------------------
(* read_line.                                                              *)

\* print("jsh> "), and read_line starts with an empty line.
Prompt ==
    /\ pc = "prompt"
    /\ pc' = "reading" /\ len' = 0
    /\ Show([row |-> [i \in DOMAIN row |-> Blank], cursor |-> 1])
    /\ entered' = <<>> /\ code' = 0 /\ report' = <<>>
    /\ UNCHANGED line

Glyph(c) ==
    /\ pc = "reading"
    /\ IF len < MAX_LINE
       THEN /\ line' = [line EXCEPT ![len + 1] = c]
            /\ len' = len + 1
            /\ Show(Put(Screen, c))
       ELSE UNCHANGED <<line, len, row, cursor>>
    /\ UNCHANGED <<pc, entered, code, report>>

Backspace ==
    /\ pc = "reading"
    /\ IF len > 0 THEN len' = len - 1 /\ Show(RubOut(Screen))
                  ELSE UNCHANGED <<len, row, cursor>>
    /\ UNCHANGED <<pc, line, entered, code, report>>

Enter ==
    /\ pc = "reading"
    /\ pc' = "dispatch"
    /\ entered' = Shown
    /\ UNCHANGED <<line, len, row, cursor, code, report>>

-----------------------------------------------------------------------------
(* print_dec.                                                              *)

\* Mutant of Magnitude: the sign is dropped by a signed negation, which overflows.
MagnitudeSigned(n) == IF n < 0 THEN (-n) % 2 ^ (Width - 1) ELSE n

\* (!(n as u64)).wrapping_add(1) of a negative n.
Magnitude(n) ==
    IF n < 0 THEN (2 ^ Width - 1 - (n % 2 ^ Width) + 1) % 2 ^ Width ELSE n

\* The loop fills the buffer from its end.
Digits[v \in 0..2 ^ Width - 1] ==
    (IF v \div 10 = 0 THEN <<>> ELSE Digits[v \div 10]) \o <<v % 10>>

PrintDec(n) == (IF n < 0 THEN <<Minus>> ELSE <<>>) \o Digits[Magnitude(n)]

-----------------------------------------------------------------------------
(* dispatch.                                                               *)

\* &line[..len]
Argument == SubSeq(line, 1, len)

Does(what) ==
    /\ pc = "dispatch"
    /\ what = IF Argument \in DOMAIN Commands THEN Commands[Argument] ELSE "print"

\* An empty line does nothing; help, spam and an unknown command print.
Say ==
    /\ Does("print")
    /\ pc' = "prompt"
    /\ UNCHANGED <<line, len, row, cursor, entered, code, report>>

\* SYS_EXIT, or the data abort that has the shell killed.
Stop ==
    /\ Does("stop")
    /\ pc' = "stopped"
    /\ UNCHANGED <<line, len, row, cursor, entered, code, report>>

\* spawn: a handle, and then the child's exit code; or a negative error.
Spawn ==
    /\ Does("spawn")
    /\ pc' = "prompt"
    /\ \/ \E c \in Codes : code' = c /\ report' = PrintDec(c)
       \/ UNCHANGED <<code, report>>
    /\ UNCHANGED <<line, len, row, cursor, entered>>

Next ==
    \/ Prompt \/ Backspace \/ Enter
    \/ \E c \in Glyphs : Glyph(c)
    \/ Say \/ Stop \/ Spawn

Spec == Init /\ [][Next]_vars

-----------------------------------------------------------------------------
(* Properties.                                                             *)

(***************************************************************************)
(* The command the shell runs is the text the user saw when they pressed   *)
(* Enter: echo, rub-outs, a full line that takes no more, and the buffer   *)
(* reused from a longer line never make the two differ.                    *)
(***************************************************************************)
RunsWhatIsShown == pc = "dispatch" => Argument = entered

(***************************************************************************)
(* The number reported for a child is its exit code, the least one of the  *)
(* type included, and fits print_dec's buffer.                             *)
(***************************************************************************)
ReportsExitCode ==
    report # <<>> =>
        LET digits == SelectSeq(report, LAMBDA d : d # Minus)
            value  == Loop(LAMBDA v, d : 10 * v + d, 0, digits)
        IN  /\ Len(report) <= DecBuf
            /\ code = IF Head(report) = Minus THEN -value ELSE value
=============================================================================
