---- MODULE StdBufferArray ----
(***************************************************************************)
(* std_kit/std_buffer_array.c, in which the ARM64 reader and writer keep   *)
(* the bytes of the instructions.  They put one instruction at a time,     *)
(* which is the unit here.                                                 *)
(***************************************************************************)
EXTENDS StdValues, Naturals, Sequences

CONSTANTS
  Capacity,    \* at first: 64 / 4
  MaxSize      \* bound: instructions put between two clears

ASSUME BufferAssumption == Capacity \in Nat \ {0}

VARIABLES
  data,        \* what is written, up to size
  size, capacity,
  overrun      \* a put wrote behind the end

bufferVars == <<data, size, capacity, overrun>>

\* Mutant: only a buffer that has overflowed grows
TooSmall_Late(length) == size > capacity

TooSmall(length) == size + length > capacity

Store(v) ==
  /\ data' = Append(data, v)
  /\ size' = size + 1
  /\ overrun' = (overrun \/ size' > capacity')

buffer_array_put(v) ==
  /\ size < MaxSize
  /\ capacity' = IF TooSmall(1) THEN 2 * capacity ELSE capacity
  /\ Store(v)

\* realloc fails: the put returns, and the instruction is missing
PutNoRoom == TooSmall(1) /\ UNCHANGED bufferVars

buffer_array_clear ==
  /\ size' = 0 /\ data' = << >>
  /\ UNCHANGED <<capacity, overrun>>

\* buffer_array_create
BufferInit ==
  /\ data = << >> /\ size = 0 /\ capacity = Capacity
  /\ overrun = FALSE

BufferNext ==
  \/ \E v \in Values : buffer_array_put(v)
  \/ PutNoRoom
  \/ buffer_array_clear

(***************************************************************************)
(* One doubling is enough for what the reader and the writer put: nothing  *)
(* is written behind the end of the buffer.  About buffer_array_put, which *)
(* doubles once however long the data is.                                  *)
(***************************************************************************)
DoublingSuffices == ~overrun /\ size <= capacity
====
