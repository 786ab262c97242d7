------------------------------- MODULE Memory -------------------------------
(***************************************************************************)
(* The memory a parse works with.  mpc_input_t carries a pool of small     *)
(* cells that dies with the input (mpc_input_delete); what does not fit,   *)
(* and what korlessa's own functions allocate, comes from the C library.   *)
(* A value that is to outlive the input must be moved out of the pool      *)
(* (mpc_export), and a cell of the pool must never reach free().           *)
(*                                                                         *)
(* A heap is a value: the live blocks, the name the next block gets (names *)
(* are never used twice, so that a dangling pointer stays recognisable),   *)
(* and the history of the pointers that were freed or read when they must  *)
(* not be.  A block has a kind, some data and the pointers it holds.       *)
(***************************************************************************)
EXTENDS Integers, Sequences, SequencesExt, FiniteSets

CONSTANT MPC_INPUT_MEM_NUM   \* the cells of the pool: 512

ASSUME PoolAssumption == MPC_INPUT_MEM_NUM \in Nat

Null == 0

EmptyHeap == [blocks |-> << >>, next |-> 1, misused |-> {}]

Live(h) == DOMAIN h.blocks
Pooled(h) == {b \in Live(h) : h.blocks[b].pool}

Block(kind, data, refs) == [kind |-> kind, data |-> data, refs |-> refs]

(* Operators that allocate return the heap and the pointer.                *)
Result(h, x) == [heap |-> h, value |-> x]

(* A heap with one more block.                                             *)
Place(h, block, pool) ==
  LET placed == [kind |-> block.kind, data |-> block.data, refs |-> block.refs, pool |-> pool]
  IN  Result([h EXCEPT !.next = @ + 1,
                       !.blocks = [b \in Live(h) \cup {h.next} |-> IF b = h.next THEN placed ELSE @[b]]],
             h.next)

(* malloc, calloc *)
Calloc(h, block) == Place(h, block, FALSE)

CallocInt(h, n) == Calloc(h, Block("int", n, << >>))
CallocChars(h, s) == Calloc(h, Block("chars", s, << >>))

(* A cell of the pool while there is one.                                  *)
MpcMalloc(h, block) == Place(h, block, Cardinality(Pooled(h)) < MPC_INPUT_MEM_NUM)

(* Several pointers, a function from where they come from, are given back. *)
(* NULL is fine; what may not be freed, and what is freed twice, is not.   *)
Release(h, xs, freeable) ==
  LET wrong == {k \in DOMAIN xs : xs[k] \notin freeable \/ xs[k] \in {xs[j] : j \in DOMAIN xs \ {k}}}
  IN  [h EXCEPT !.blocks = [b \in Live(h) \ (freeable \cap ToSet(xs)) |-> @[b]],
                !.misused = @ \cup ({xs[k] : k \in wrong} \ {Null})]

(* free() must not be given the cells of the pool; mpc_free() knows which  *)
(* allocator a block is from.                                              *)
FreeAll(h, xs)    == Release(h, xs, Live(h) \ Pooled(h))
MpcFreeAll(h, xs) == Release(h, xs, Live(h))

Free(h, b)    == FreeAll(h, <<b>>)
MpcFree(h, b) == MpcFreeAll(h, <<b>>)

(* Mutant: the cell goes back to the pool, but the pointer is kept.        *)
ExportAllInPlace(h, xs) == Result(h, xs)

(* mpc_export() of several: what is in the pool is copied out of it.       *)
ExportAll(h, xs) ==
  LET moved == {k \in DOMAIN xs : xs[k] \in Pooled(h)}
      Copy(k) == h.next + k - 1
      copies == {Copy(k) : k \in moved}
      left == Live(h) \ {xs[k] : k \in moved}
  IN  Result([h EXCEPT !.next = @ + Len(xs),
                       !.blocks = [b \in left \cup copies |->
                                     IF b \in left THEN @[b]
                                     ELSE [@[xs[b - h.next + 1]] EXCEPT !.pool = FALSE]]],
             [k \in DOMAIN xs |-> IF k \in moved THEN Copy(k) ELSE xs[k]])

MpcExport(h, b) == LET out == ExportAll(h, <<b>>) IN Result(out.heap, out.value[1])

(* Reading or writing through a pointer; NULL is as wrong as a freed one.  *)
TouchAll(h, xs) == [h EXCEPT !.misused = @ \cup (ToSet(xs) \ Live(h))]
Touch(h, b) == TouchAll(h, <<b>>)

Kind(h, b) == IF b = Null THEN "null" ELSE IF b \in Live(h) THEN h.blocks[b].kind ELSE "freed"
Data(h, b, default) == IF b \in Live(h) THEN h.blocks[b].data ELSE default
Refs(h, b) == IF b \in Live(h) THEN h.blocks[b].refs ELSE << >>

Update(h, b, data) == IF b \in Live(h) THEN [h EXCEPT !.blocks[b].data = data] ELSE Touch(h, b)

(***************************************************************************)
(* Who owns a block: one of the roots, or another block.  The roots are a  *)
(* function from whatever holds a pointer.                                 *)
(***************************************************************************)
Pointers(h, roots, owner) == IF owner = Null THEN roots ELSE h.blocks[owner].refs

Places(h, roots) ==
  UNION {{<<c, i>> : i \in {j \in DOMAIN Pointers(h, roots, c) : Pointers(h, roots, c)[j] # Null}} :
         c \in Live(h) \cup {Null}}

Pointed(h, roots) == {Pointers(h, roots, place[1])[place[2]] : place \in Places(h, roots)}

(* Every pointer is NULL or goes to a live block that no other goes to:    *)
(* nothing dangles, nothing is owned twice.                                *)
OwnedOnce(h, roots) ==
  /\ Pointed(h, roots) \subseteq Live(h)
  /\ Cardinality(Places(h, roots)) = Cardinality(Pointed(h, roots))

(* Nothing leaks.                                                          *)
NoneLost(h, roots) == Live(h) \subseteq Pointed(h, roots)
=============================================================================
