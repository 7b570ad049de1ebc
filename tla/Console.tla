------------------------------ MODULE Console ------------------------------
(***************************************************************************)
(* The console of the demo applications: rows of characters that tasks     *)
(* write to the polled UART of the board (src/src/boards/*/board.c) while  *)
(* they hold a binary semaphore, uart_lock.  What a row says is left out:  *)
(* the characters of a task are numbered, and the last one is the newline. *)
(***************************************************************************)
EXTENDS Semaphore

CONSTANTS
    uart_lock,  \* the semaphore
    RowLength   \* the characters of a row

ASSUME ConsoleAssumption ==
    /\ uart_lock \in Semaphores
    /\ RowLength \in Nat \ {0}
    /\ NULL \notin Slots \X (1 .. RowLength)

VARIABLES
    at,     \* the statement of its function each task executes next
    rows,   \* the row a task writes: characters still to write, and whether
            \* it has seen the data register empty
    dr,     \* the data register of the UART, NULL while TXE is set
    wire    \* history: the characters sent since the last newline, the newline
            \* itself until the next character

consoleVars == <<rows, dr, wire>>

NoRow == [left |-> 0, polled |-> FALSE]

Row(t) == [i \in 1 .. RowLength |-> <<t, i>>]

IsNewline(c) == c[2] = RowLength

ConsoleInit ==
    /\ SemInit
    /\ sem[uart_lock] = [count |-> 1, max |-> 1]
    /\ rows = [t \in Slots |-> NoRow]
    /\ dr = NULL
    /\ wire = <<>>

-----------------------------------------------------------------------------
(* Task t goes from one statement to another, which it executes when its   *)
(* kernel call, if the statement is one, has returned.                     *)
Statement(t, from, to) == At(t, "app") /\ at[t] = from /\ at' = [at EXCEPT ![t] = to]

(* Fault: the take does not wait. *)
TakeConsole_NoWait(t, from) ==
    /\ Statement(t, from, "row")
    /\ \/ artos_semaphore_take(t, uart_lock, 0)
       \/ sem[uart_lock].count = 0 /\ UNCHANGED <<schedVars, semVars>>
    /\ rows' = [rows EXCEPT ![t] = [left |-> RowLength, polled |-> FALSE]]
    /\ UNCHANGED <<dr, wire>>

(* The result of the take is not looked at. *)
TakeConsole(t, from) ==
    /\ Statement(t, from, "row")
    /\ artos_semaphore_take(t, uart_lock, ARTOS_DELAY_INFINITY)
    /\ rows' = [rows EXCEPT ![t] = [left |-> RowLength, polled |-> FALSE]]
    /\ UNCHANGED <<dr, wire>>

(* board_uart_write_char: the loop ends when the data register is empty ... *)
PollTXE(t) ==
    /\ Statement(t, "row", "row")
    /\ rows[t].left # 0 /\ ~rows[t].polled
    /\ dr = NULL
    /\ rows' = [rows EXCEPT ![t].polled = TRUE]
    /\ UNCHANGED <<schedVars, semVars, dr, wire>>

(* ... and the character is stored, over one that is still there.          *)
StoreDR(t) ==
    /\ Statement(t, "row", "row")
    /\ rows[t].polled
    /\ dr' = Row(t)[RowLength + 1 - rows[t].left]
    /\ rows' = [rows EXCEPT ![t] = [left |-> @.left - 1, polled |-> FALSE]]
    /\ UNCHANGED <<schedVars, semVars, wire>>

SignalConsole(t, to) ==
    /\ Statement(t, "row", to)
    /\ rows[t].left = 0
    /\ artos_semaphore_signal(t, uart_lock)
    /\ UNCHANGED consoleVars

(* The UART sends the character in its data register. *)
Transmit ==
    /\ dr # NULL
    /\ wire' = IF wire # <<>> /\ IsNewline(Last(wire)) THEN <<dr>> ELSE Append(wire, dr)
    /\ dr' = NULL
    /\ UNCHANGED <<schedVars, semVars, at, rows>>

-----------------------------------------------------------------------------
(* Complete, non-interleaved log rows (README.md:243): what is on the wire *)
(* since the last newline is the beginning of the row of one task, with no *)
(* character of it lost, whoever preempts the task between seeing the data *)
(* register empty and storing the next character.                          *)
RowsIntact == \E t \in Slots : IsPrefix(wire, Row(t))
=============================================================================
