---------------------------- MODULE MemRoutines ----------------------------
(***************************************************************************)
(* The memory routines of kernel/src/mem.rs, byte loop by byte loop, as    *)
(* functions of the memory (a function from addresses to bytes).  The      *)
(* compiler emits calls to them for struct and slice copies, comparisons   *)
(* and zeroing.  memcpy's ranges are disjoint, memmove's may overlap.      *)
(***************************************************************************)
EXTENDS Loops

\* The values of i in a loop from 0 up to n - 1, and in one from n - 1 down to 0.
Upward(n) == [k \in 1..n |-> k - 1]
Downward(n) == [k \in 1..n |-> n - k]

\* *dest.add(i) = *src.add(i)
CopyByte(mem, of, i) == [mem EXCEPT ![of.dest + i] = mem[of.src + i]]

CopyBytes(mem, of, turns) == Loop(LAMBDA m, i : CopyByte(m, of, i), mem, turns)

Forward(mem, dest, src, n) == CopyBytes(mem, [dest |-> dest, src |-> src], Upward(n))

Backward(mem, dest, src, n) == CopyBytes(mem, [dest |-> dest, src |-> src], Downward(n))

Memcpy(mem, dest, src, n) == Forward(mem, dest, src, n)

\* *dest.add(i) = byte
SetByte(mem, of, i) == [mem EXCEPT ![of.dest + i] = of.value]

SetBytes(mem, of, turns) == Loop(LAMBDA m, i : SetByte(m, of, i), mem, turns)

Memset(mem, dest, value, n) == SetBytes(mem, [dest |-> dest, value |-> value], Upward(n))

\* Mutant of Memmove: the direction is chosen the wrong way round.
MemmoveSwapped(mem, dest, src, n) ==
    IF src < dest THEN Forward(mem, dest, src, n) ELSE Backward(mem, dest, src, n)

Memmove(mem, dest, src, n) ==
    IF src < dest THEN Backward(mem, dest, src, n) ELSE Forward(mem, dest, src, n)

\* The result so far: 0, or the difference that ended the loop.
CompareByte(res, of, i) == IF res # 0 THEN res ELSE of.mem[of.a + i] - of.mem[of.b + i]

CompareBytes(of, turns) == Loop(LAMBDA res, i : CompareByte(res, of, i), 0, turns)

\* The difference of the first bytes that differ, or 0.
Memcmp(mem, a, b, n) == CompareBytes([mem |-> mem, a |-> a, b |-> b], Upward(n))

-----------------------------------------------------------------------------
(***************************************************************************)
(* What C says of the routines, for every pair of ranges of a memory of    *)
(* size bytes: memmove, whatever the overlap, and memcpy, for disjoint     *)
(* ranges, leave in the destination what the source held before and every  *)
(* other byte as it was; memcmp is zero exactly for equal ranges and       *)
(* otherwise has the sign of the lexicographic order of unsigned bytes.    *)
(***************************************************************************)
RoutinesCorrect(mem, size) ==
    \A n \in 0..size : \A a, b \in 0..(size - n) :
        LET copied == [x \in 0..size - 1 |-> IF x \in a..a + n - 1 THEN mem[b + x - a] ELSE mem[x]]
            SameUpTo(i) == \A j \in 0..i - 1 : mem[a + j] = mem[b + j]
            less == \E i \in 0..n - 1 : mem[a + i] < mem[b + i] /\ SameUpTo(i)
        IN  /\ Memmove(mem, a, b, n) = copied
            /\ a + n <= b \/ b + n <= a => Memcpy(mem, a, b, n) = copied
            /\ Memcmp(mem, a, b, n) < 0 <=> less
            /\ Memcmp(mem, a, b, n) = 0 <=> SameUpTo(n)
=============================================================================
