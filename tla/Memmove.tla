------------------------------ MODULE Memmove -------------------------------
(***************************************************************************)
(* memmove of prac.cpp, as a program that calls it again and again on one  *)
(* region of memory, in which source and destination may overlap.  One     *)
(* step copies one byte.                                                   *)
(***************************************************************************)
EXTENDS Integers

CONSTANTS
  Size,               \* the region is the addresses 0 to Size - 1
  Byte

MemmoveAssumption == Size \in Nat /\ Byte # {}

Address == 0..(Size - 1)

VARIABLES
  memory,
  ptr, dst,           \* where the loop reads and writes
  count,              \* the bytes still to copy
  call                \* auxiliary: the arguments, and the memory at the call

vars == <<memory, ptr, dst, count, call>>

Init ==
  /\ memory = [b \in Address |-> CHOOSE x \in Byte : TRUE]
  /\ ptr = 0 /\ dst = 0 /\ count = 0
  /\ call = [dest |-> 0, src |-> 0, count |-> 0, memory |-> memory]

\* Faulty variant: forwards whatever the overlap.
never_backwards(dest, src) == FALSE

\* dst > ptr: the end of the source would be overwritten before it is read.
backwards(dest, src) == dest > src

\* Both ranges lie in the region.  A null pointer, or dest = src, moves nothing;
\* backwards the loop starts at the ends.
Call(dest, src, k) ==
  /\ count = 0
  /\ dest + k <= Size /\ src + k <= Size
  /\ call' = [dest |-> dest, src |-> src, count |-> k, memory |-> memory]
  /\ count' = IF dest = src THEN 0 ELSE k
  /\ ptr' = IF backwards(dest, src) THEN src + k ELSE src
  /\ dst' = IF backwards(dest, src) THEN dest + k ELSE dest
  /\ UNCHANGED memory

\* *dst = *ptr; ptr++; dst++
Forward ==
  /\ count > 0 /\ ~backwards(call.dest, call.src)
  /\ memory' = [memory EXCEPT ![dst] = memory[ptr]]
  /\ ptr' = ptr + 1 /\ dst' = dst + 1
  /\ count' = count - 1
  /\ UNCHANGED call

\* *--dst = *--ptr
Backward ==
  /\ count > 0 /\ backwards(call.dest, call.src)
  /\ memory' = [memory EXCEPT ![dst - 1] = memory[ptr - 1]]
  /\ ptr' = ptr - 1 /\ dst' = dst - 1
  /\ count' = count - 1
  /\ UNCHANGED call

\* Between calls the program writes what it likes.
Write(b, x) ==
  /\ count = 0
  /\ memory' = [memory EXCEPT ![b] = x]
  /\ call' = [dest |-> 0, src |-> 0, count |-> 0, memory |-> memory']
  /\ UNCHANGED <<ptr, dst, count>>

Next ==
  \/ \E dest, src \in Address, k \in 1..Size : Call(dest, src, k)
  \/ Forward \/ Backward
  \/ \E b \in Address, x \in Byte : Write(b, x)

Spec == Init /\ [][Next]_vars

-----------------------------------------------------------------------------
\* What the call is to leave at address b.
Due(b) ==
  IF b \in call.dest..(call.dest + call.count - 1)
    THEN call.memory[call.src + (b - call.dest)]
    ELSE call.memory[b]

\* The destination has what the source had at the call, however the two overlap,
\* and the rest of the memory is as it was.
Moves == count = 0 => \A b \in Address : memory[b] = Due(b)
=============================================================================
