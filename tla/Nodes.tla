-------------------------------- MODULE Nodes --------------------------------
(***************************************************************************)
(* The functions of parser.c that make the syntax tree of what has been    *)
(* read, and free it.                                                      *)
(*                                                                         *)
(* A node of the tree is a block whose kind is its type and which points   *)
(* to what the union u points to and to the array of its children, each    *)
(* NULL when it has none.                                                  *)
(***************************************************************************)
EXTENDS Memory, Numbers

(* The types of nodes, but for that of the root.                           *)
NodeKinds == {"BPM", "NOTE", "REST", "INTERVAL", "SHEET", "LEGATO", "TIE", "DIVIDER", "REFERENCE",
              "CONTROLLER", "PROGRAM", "EOF"}

(***************************************************************************)
(* The functions that make nodes.                                          *)
(***************************************************************************)
Chars(h, x) == Data(h, x, << >>)
IntAt(h, x) == Data(h, x, 0)

(* A node with nothing but its type, as calloc leaves it.                  *)
Bare(h, type) == Calloc(h, Block(type, 0, <<Null, Null>>))

(* A node and what its union points to; the strings it was made of, but    *)
(* for those the payload keeps, are freed.                                 *)
Made(h, xs, type, payload, freed) ==
  LET u == Calloc(TouchAll(h, xs), payload)
      n == Calloc(u.heap, Block(type, 0, <<u.value, Null>>))
  IN  Result(FreeAll(n.heap, freed), n.value)

BpmFold(h, xs) ==
  Made(h, xs, "BPM", Block("bpm", Unsigned(Chars(h, xs[1])), << >>), xs)

NoteFold(h, xs) ==
  Made(h, xs, "NOTE",
       Block("note", [channel |-> IntAt(h, xs[1]), letter |-> Chars(h, xs[2]),
                      octave |-> IntAt(h, xs[4]), velocity |-> IntAt(h, xs[5])], <<xs[3]>>),
       [xs EXCEPT ![3] = Null])

IntervalFold(h, xs) ==
  LET value == AsInt(Unsigned(Chars(h, xs[2])))
  IN  Made(h, xs, "INTERVAL",
           Block("interval", IF Chars(h, xs[1]) = <<"-">> THEN AsInt(- value) ELSE value, << >>), xs)

ControllerFold(h, xs) ==
  Made(h, xs, "CONTROLLER",
       Block("controller", [param |-> Unsigned(Chars(h, xs[2])), value |-> IntAt(h, xs[4])], << >>), xs)

ProgramFold(h, xs) ==
  Made(h, xs, "PROGRAM", Block("program", AsInt(Unsigned(Chars(h, xs[2]))), << >>), xs)

ReferenceFold(h, xs) ==
  Made(h, xs, "REFERENCE", Block("reference", IntAt(h, xs[2]), <<xs[1]>>), <<xs[2]>>)

(* The crate that the elements were folded into becomes the sheet.  The    *)
(* duration has come as units:duration.                                    *)
SheetFold(h, xs) ==
  LET ratio == Chars(h, xs[2])
      after == SelectInSeq(ratio, LAMBDA c : c = ":") + 1
      u == Calloc(TouchAll(h, xs),
                  Block("sheet", [units |-> Number(ratio),
                                  duration |-> Number(SubSeq(ratio, after, Len(ratio))),
                                  repeat_count |-> IntAt(h, xs[4])], <<xs[1]>>))
      crate == [u.heap EXCEPT !.blocks[xs[3]].kind = "SHEET", !.blocks[xs[3]].refs[1] = u.value]
  IN  Result(FreeAll(crate, <<xs[2], xs[4]>>), xs[3])

(* Comments have left a NULL.                                              *)
NotNull(xs) ==
  LET kept[k \in 0 .. Len(xs)] ==
        IF k = 0 THEN << >> ELSE IF xs[k] = Null THEN kept[k - 1] ELSE Append(kept[k - 1], xs[k])
  IN  kept[Len(xs)]

NodeFold(h, xs) ==
  LET nodes == Calloc(h, Block("nodes", 0, NotNull(xs)))
  IN  Calloc(nodes.heap, Block("CRATE", 0, <<Null, nodes.value>>))

DurationFold(h, xs) ==
  LET d == CallocChars(TouchAll(h, xs), Chars(h, xs[1]) \o <<":">> \o Chars(h, xs[3]))
  IN  Result(FreeAll(d.heap, xs), d.value)

RepeaterFold(h, xs) ==
  LET count == CallocInt(TouchAll(h, xs), Number(Chars(h, xs[2])))
  IN  Result(FreeAll(count.heap, xs), count.value)

Fold(h, f, xs) ==
  CASE f = "bpm_fold"        -> BpmFold(h, xs)
    [] f = "note_fold"       -> NoteFold(h, xs)
    [] f = "interval_fold"   -> IntervalFold(h, xs)
    [] f = "sheet_fold"      -> SheetFold(h, xs)
    [] f = "node_fold"       -> NodeFold(h, xs)
    [] f = "reference_fold"  -> ReferenceFold(h, xs)
    [] f = "duration_fold"   -> DurationFold(h, xs)
    [] f = "repeater_fold"   -> RepeaterFold(h, xs)
    [] f = "controller_fold" -> ControllerFold(h, xs)
    [] f = "program_fold"    -> ProgramFold(h, xs)

-------------------------------------------------------------------------------
Then(made, x) == Result(Free(made.heap, x), made.value)

ApplyEof(h, x) ==
  LET eof == Bare(Touch(h, x), "EOF")
  IN  Result([eof.heap EXCEPT !.blocks[Refs(h, x)[2]].refs = Append(@, eof.value)], x)

ApplyFunction(h, f, x) ==
  CASE f = "apply_rest"        -> Then(Bare(h, "REST"), x)
    [] f = "apply_tie"         -> Then(Bare(h, "TIE"), x)
    [] f = "apply_divider"     -> Then(Bare(h, "DIVIDER"), x)
    [] f = "apply_eof"         -> ApplyEof(h, x)
    [] f = "apply_as_duration" -> Then(CallocChars(Touch(h, x), <<"1", ":">> \o Chars(h, x)), x)
    [] f = "apply_loop"        -> Then(CallocInt(h, -1), x)
    [] f = "apply_off"         -> Then(CallocInt(h, 0), x)
    [] f = "apply_legato"      -> Result([Touch(h, x) EXCEPT !.blocks[x].kind = "LEGATO"], x)

Constructor(h, lf) == CallocInt(h, IF lf = "ctor_one" THEN 1 ELSE -1)

-------------------------------------------------------------------------------
(***************************************************************************)
(* free_node: the payload with the string it keeps, the children, the      *)
(* array and the node.                                                     *)
(***************************************************************************)
(* Mutant: a legato is freed like a leaf.                                  *)
ParentsButLegato == {"SHEET", "CRATE"}

Parents == {"SHEET", "LEGATO", "CRATE"}

(* Which of its pointers free_node follows from a block: not the children  *)
(* of a node whose type has none.                                          *)
Followed(h, b) == IF Kind(h, b) \in NodeKinds \ Parents THEN {1} ELSE DOMAIN Refs(h, b)

(* The blocks it comes to from x.                                          *)
Below(h, x) ==
  LET Next(B) == (UNION {{Refs(h, b)[k] : k \in Followed(h, b)} : b \in B}) \ {Null}
      reached[n \in 0 .. Cardinality(Live(h))] ==
        IF n = 0 THEN {x} ELSE LET B == reached[n - 1] IN B \cup Next(B)
  IN  reached[Cardinality(Live(h))]

(* What it frees: x and what each of the pointers that it follows goes to. *)
FreeNode(h, x) ==
  LET followed == UNION {{<<b, k>> : k \in Followed(h, b)} : b \in Below(h, x)}
      given == [p \in {<<Null, 0>>} \cup followed |-> IF p = <<Null, 0>> THEN x ELSE Refs(h, p[1])[p[2]]]
  IN  IF x = Null THEN h ELSE FreeAll(h, given)

Destructor(h, d, x) == IF d = "free_node" THEN FreeNode(h, x) ELSE h

(* parse() turns an error into a string at once and deletes it;            *)
(* free_parse_result frees the tree.                                       *)
FreeParseResult(h, ok, x) == IF ok THEN FreeNode(h, x) ELSE Free(h, x)
==============================================================================
