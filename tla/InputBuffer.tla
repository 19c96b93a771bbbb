----------------------------- MODULE InputBuffer -----------------------------
(***************************************************************************)
(* The console input buffer of kernel/src/input.rs over the receive side   *)
(* of the UART (uart.rs): a circular array with one slot given up to tell  *)
(* full from empty.  Each operation runs with IRQs masked and the lock     *)
(* held, so each is one step; they are operators here, and actions of      *)
(* module Interrupts.                                                      *)
(***************************************************************************)
EXTENDS Loops, Sequences

CONSTANTS INPUT_BUF_SIZE,   \* 256 in the code
          Keys,             \* the bytes that may be typed
          Backlog           \* bytes the host keeps back for the UART, a bound

VARIABLES buf, head, tail,  \* struct InputBuf
          device,           \* bytes typed and not read from UARTDR
          rxOn              \* RXIM in UARTIMSC

inputVars == <<buf, head, tail, device, rxOn>>

InitInput ==
    /\ buf = [i \in 0..INPUT_BUF_SIZE - 1 |-> 0]
    /\ head = 0 /\ tail = 0
    /\ device = <<>> /\ rxOn = FALSE

\* The index that follows i.
After(i) == (i + 1) % INPUT_BUF_SIZE

IsEmpty == head = tail

\* Mutant of IsFull: the wrap is forgotten.
IsFullUnwrapped(t) == t + 1 = head

\* is_full, for a tail of t.
IsFull(t) == After(t) = head

\* The host passes a byte on; it holds further ones back while the UART has one.
Type ==
    /\ Len(device) < Backlog
    /\ \E b \in Keys : device' = Append(device, b)
    /\ UNCHANGED <<buf, head, tail, rxOn>>

\* One turn of drain_uart's loop, on the buffer, its tail and the number of bytes read:
\* a full buffer ends the loop.
TakeByte(d, byte) ==
    IF IsFull(d.tail)
    THEN d
    ELSE [buf |-> [d.buf EXCEPT ![d.tail] = byte], tail |-> After(d.tail), read |-> d.read + 1]

Drained == Loop(TakeByte, [buf |-> buf, tail |-> tail, read |-> 0], device)

\* drain_uart: until the buffer is full, which masks the interrupt, or the UART empty.
DrainUart ==
    LET d == Drained IN
    /\ buf' = d.buf /\ tail' = d.tail
    /\ device' = SubSeq(device, d.read + 1, Len(device))
    /\ rxOn' = (rxOn /\ ~IsFull(d.tail))
    /\ UNCHANGED head

\* pop, of a byte that is there.
Pop ==
    /\ ~IsEmpty
    /\ head' = After(head)
    /\ rxOn' = (rxOn \/ IsFull(tail))
    /\ UNCHANGED <<buf, tail, device>>

\* The buffered bytes, oldest first.
Buffered ==
    [i \in 1..((tail + INPUT_BUF_SIZE - head) % INPUT_BUF_SIZE) |->
        buf[(head + i - 1) % INPUT_BUF_SIZE]]

(***************************************************************************)
(* The circular buffer implements the bounded queue: across every wrap of  *)
(* head and tail no byte is lost, repeated or reordered, a full buffer is  *)
(* never taken for an empty one, and receive interrupts are off exactly    *)
(* while it is full (is_full, drain_uart's early return, pop's was_full).  *)
(***************************************************************************)
Queue == INSTANCE InputQueue WITH queue <- Buffered, Cap <- INPUT_BUF_SIZE - 1

ImplementsInputQueue == Queue!Spec
==============================================================================
