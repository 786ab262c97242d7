------------------------------ MODULE StdinReader ------------------------------
(***************************************************************************)
(* read_stdin() of main.c: standard input goes, character by character,    *)
(* into a buffer that grows step by step.                                  *)
(***************************************************************************)
EXTENDS Integers, Sequences

CONSTANTS
  Chars,         \* what getchar may return, EOF apart
  BufferStep,    \* 1024
  MaxInput       \* bound: characters on standard input

ASSUME BufferAssumption == BufferStep \in Nat \ {0} /\ MaxInput \in Nat

VARIABLES
  typed,         \* what has been read
  buffer,        \* what has been written to the buffer; its length is i
  buffer_size,
  room,          \* the bytes that are allocated
  reader         \* control point

input == <<typed, buffer, buffer_size, room, reader>>

ReaderInit ==
  /\ typed = << >> /\ buffer = << >>
  /\ buffer_size = BufferStep /\ room = 0
  /\ reader = "calloc"

Allocate ==
  /\ reader = "calloc"
  /\ room' = buffer_size + 1
  /\ reader' = "getchar"
  /\ UNCHANGED <<typed, buffer, buffer_size>>

AllocateFails ==
  /\ reader = "calloc"
  /\ reader' = "NULL"
  /\ UNCHANGED <<typed, buffer, buffer_size, room>>

GetChar ==
  /\ reader = "getchar" /\ Len(typed) < MaxInput
  /\ \E c \in Chars : typed' = Append(typed, c)
  /\ reader' = "store"
  /\ UNCHANGED <<buffer, buffer_size, room>>

Full == Len(buffer) = buffer_size

(* Mutant: the byte for the zero is forgotten.                             *)
RoomForgetful(size) == size

(* Room for the buffer and the zero that ends it.                          *)
Room(size) == size + 1

Grow ==
  /\ reader = "store" /\ Full
  /\ buffer_size' = buffer_size + BufferStep
  /\ room' = Room(buffer_size')
  /\ UNCHANGED <<typed, buffer, reader>>

(* The buffer is freed.                                                    *)
GrowFails ==
  /\ reader = "store" /\ Full
  /\ buffer_size' = buffer_size + BufferStep
  /\ room' = 0
  /\ reader' = "NULL"
  /\ UNCHANGED <<typed, buffer>>

Store ==
  /\ reader = "store" /\ ~ Full
  /\ buffer' = Append(buffer, typed[Len(typed)])
  /\ reader' = "getchar"
  /\ UNCHANGED <<typed, buffer_size, room>>

(* EOF.  The zero is written at i.                                         *)
Terminate ==
  /\ reader = "getchar"
  /\ reader' = "buffer"
  /\ UNCHANGED <<typed, buffer, buffer_size, room>>

ReadStdin == Allocate \/ AllocateFails \/ GetChar \/ Grow \/ GrowFails \/ Store \/ Terminate

ReaderSpec == ReaderInit /\ [][ReadStdin]_input

-------------------------------------------------------------------------------
ReaderTypes ==
  /\ typed \in Seq(Chars) /\ buffer \in Seq(Chars)
  /\ buffer_size \in Nat /\ room \in Nat
  /\ reader \in {"calloc", "getchar", "store", "buffer", "NULL", "freed"}

(***************************************************************************)
(* The buffer holds what was typed, but for the character in hand, and     *)
(* always has the room for one more: for that character and for the zero,  *)
(* also when the input ends exactly where the buffer is full.              *)
(***************************************************************************)
KeepsInput ==
  /\ reader \in {"getchar", "buffer"} => buffer = typed
  /\ reader = "store" => typed # << >> /\ typed = Append(buffer, typed[Len(typed)])
  /\ reader \in {"getchar", "buffer"} => Len(buffer) < room
===============================================================================
