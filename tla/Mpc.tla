--------------------------------- MODULE Mpc ---------------------------------
(***************************************************************************)
(* lib/mpc.c: mpc_parse_run, the engine that runs a parser on an input,    *)
(* between mpc_parse_input's first and last line.                          *)
(*                                                                         *)
(* mpc_parse_run calls itself for the parsers a parser is made of.  Here   *)
(* an activation that waits for a child is a frame on the stack, and the   *)
(* control alternates between "call" (a parser is about to be run) and     *)
(* "return" (it has succeeded or failed).  Parsers that take characters    *)
(* are one step.                                                           *)
(*                                                                         *)
(* The input is a string in memory or a file that is read with fgetc and   *)
(* fseek; the position in the state and that of the file are kept apart.   *)
(* Row and column are left out, they follow from the position.             *)
(***************************************************************************)
EXTENDS Memory, Numbers

CONSTANTS
  Texts, Sources,            \* the inputs: what is read, and from a string or a file
  Roots,                     \* the parsers to run on them
  Grammar,                   \* what the retained parsers are defined to be
  MaxDepth,                  \* MPC_MAX_RECURSION_DEPTH, 1000
  MPC_INPUT_MARKS_MIN,       \* 32
  MPC_PARSE_STACK_MIN,       \* 4
  UserFold(_, _, _), UserApply(_, _, _), UserDtor(_, _, _), UserCtor(_, _)

ASSUME SourcesAssumption == Sources \subseteq {"string", "file"}
ASSUME EngineAssumption ==
  /\ MaxDepth \in Nat \ {0}
  /\ MPC_INPUT_MARKS_MIN \in Nat \ {0}
  /\ MPC_PARSE_STACK_MIN \in Nat \ {0}

VARIABLES
  text, source, root,
  state,        \* i->state and i->last: where the parse is
  file,         \* the offset of the file
  marks,        \* where it may have to go back to
  slots,        \* the room for marks
  suppress,     \* inside how many EXPECTs
  heap,
  error,        \* *e: what was expected where the parse got furthest
  stack,        \* the activations of mpc_parse_run that wait for a child
  ctl,          \* "call", "return" or "done"
  arg,          \* the parser to run
  ok, result,   \* what it has returned: a value or an error
  reported,     \* history: every expectation that was not met, with its place
  limited       \* history: whether the limit on the depth was met

vars == <<text, source, root, state, file, marks, slots, suppress, heap, error, stack,
          ctl, arg, ok, result, reported, limited>>

Top == Last(stack)
Definition(p) == IF p.type = "NAMED" THEN Grammar[p.name] ELSE p

-------------------------------------------------------------------------------
(***************************************************************************)
(* Errors.  One block stands for an error with its strings, and a message  *)
(* for its prefix and the names in it: their order is left out.            *)
(***************************************************************************)
NoFailure == ""
Message(prefix, names) == [prefix |-> prefix, names |-> names]
ErrorBlock(pos, expected, failure) ==
  Block("err", [pos |-> pos, expected |-> expected, failure |-> failure], << >>)

ErrNew(h, level, message) ==
  IF level > 0 THEN Result(h, Null)
  ELSE MpcMalloc(h, ErrorBlock(state.pos, {Message("", {message})}, NoFailure))

ErrFail(h, failure) ==
  IF suppress > 0 THEN Result(h, Null)
  ELSE MpcMalloc(h, ErrorBlock(state.pos, {}, failure))

(* Mutant: the error of the alternative tried last wins.                   *)
FurthestIsLast(h, x, y) == {IF y # Null THEN y ELSE x}

(* Of two errors those that got furthest.                                  *)
FurthestErrors(h, x, y) ==
  LET given == {x, y} \ {Null}
  IN  {e \in given : \A other \in given : h.blocks[other].data.pos <= h.blocks[e].data.pos}

(* mpc_err_merge: one error in the place of two.  The expectations of      *)
(* those that got furthest are put together, but an outright failure hides *)
(* what comes after it.                                                    *)
ErrMerge(h, x, y) ==
  LET far == FurthestErrors(h, x, y)
      first == h.blocks[IF x \in far THEN x ELSE y].data
      last == h.blocks[IF y \in far THEN y ELSE x].data
      heard == IF first.failure # NoFailure THEN {} ELSE {e \in far : h.blocks[e].data.failure = NoFailure}
      merged == ErrorBlock(first.pos, UNION {h.blocks[e].data.expected : e \in heard},
                           IF first.failure # NoFailure THEN first.failure ELSE last.failure)
      e == MpcMalloc(h, merged)
  IN  IF {x, y} = {Null} THEN Result(h, Null) ELSE Result(MpcFreeAll(e.heap, <<x, y>>), e.value)

(* mpc_err_repeat: all that was expected becomes one expectation, which of *)
(* an error without any is empty.                                          *)
ErrMany1(h, x) ==
  IF x = Null THEN h
  ELSE LET expected == h.blocks[x].data.expected
           repeated == IF expected = {} THEN Message("", {""})
                       ELSE Message("one or more of", UNION {m.names : m \in expected})
       IN  Update(h, x, [h.blocks[x].data EXCEPT !.expected = {repeated}])

Initially == MpcMalloc(EmptyHeap, ErrorBlock(-1, {}, "Unknown Error"))

EndChar == "\\0"

Init ==
  /\ text \in Texts /\ source \in Sources /\ root \in Roots
  /\ state = [pos |-> 0, term |-> FALSE, last |-> EndChar]
  /\ file = 0
  /\ marks = << >> /\ slots = MPC_INPUT_MARKS_MIN
  /\ suppress = 0
  /\ heap = Initially.heap /\ error = Initially.value
  /\ stack = << >> /\ ctl = "call" /\ arg = root
  /\ ok = FALSE /\ result = Null
  /\ reported = {} /\ limited = FALSE

-------------------------------------------------------------------------------
(***************************************************************************)
(* The input.                                                              *)
(***************************************************************************)
(* The k-th character from here, which for a file is the k-th that fgetc   *)
(* would deliver.                                                          *)
CharAt(k) ==
  LET at == (IF source = "file" THEN file ELSE state.pos) + k
  IN  IF at <= Len(text) THEN text[at] ELSE EndChar

Terminated == CharAt(1) = EndChar

Moved(k) == [state EXCEPT !.pos = @ + k, !.last = CharAt(k)]

(* Mutant: the character that did not fit is not put back.                 *)
NotPutBack(at) == at

(* mpc_input_failure: fseek(-1).                                           *)
PutBack(at) == at - 1

(* The room for marks grows and shrinks with them.                         *)
SlotsForMark(n) == IF n > slots THEN n + n \div 2 ELSE slots

(* Mutant: shrinks to the marks there were.                                *)
SlotsShrunkTooFar(n, s) == IF s > n + n \div 2 /\ s > MPC_INPUT_MARKS_MIN THEN n - 1 ELSE s

SlotsAfterUnmark(n, s) ==
  IF s > n + n \div 2 /\ s > MPC_INPUT_MARKS_MIN
  THEN IF n > MPC_INPUT_MARKS_MIN THEN n ELSE MPC_INPUT_MARKS_MIN
  ELSE s

Mark ==
  /\ marks' = Append(marks, state)
  /\ slots' = SlotsForMark(Len(marks) + 1)

Unmark ==
  /\ marks' = Front(marks)
  /\ slots' = SlotsAfterUnmark(Len(marks) - 1, slots)

(* Mutant: the mark is dropped, but the input stays where it is.           *)
NotRewound == Unmark /\ UNCHANGED <<state, file>>

Rewind ==
  /\ state' = Last(marks)
  /\ file' = IF source = "file" THEN Last(marks).pos ELSE file
  /\ Unmark

-------------------------------------------------------------------------------
(***************************************************************************)
(* The parsers that take characters.                                       *)
(***************************************************************************)
Called(types) ==
  /\ ctl = "call"
  /\ Len(stack) < MaxDepth
  /\ Definition(arg).type \in types

Return(good, value, h) ==
  /\ ctl' = "return"
  /\ ok' = good /\ result' = value
  /\ heap' = h

setting == <<text, source, root>>
place   == <<state, file>>
marking == <<marks, slots>>
history == <<reported, limited>>

(* An expectation that is not met goes into the history, unless an EXPECT  *)
(* around it speaks for it.                                                *)
Report(level, message) ==
  /\ reported' = IF level > 0 THEN reported ELSE reported \cup {<<state.pos, message>>}
  /\ UNCHANGED limited

(* Beyond the limit no parser is run at all.                               *)
TooDeep ==
  /\ ctl = "call" /\ Len(stack) = MaxDepth
  /\ LET e == ErrFail(heap, "Maximum recursion depth exceeded!") IN Return(FALSE, e.value, e.heap)
  /\ limited' = TRUE
  /\ UNCHANGED <<setting, place, marking, suppress, error, stack, arg, reported>>

UndefinedFails ==
  /\ Called({"UNDEFINED"})
  /\ LET e == ErrFail(heap, "Parser Undefined!") IN Return(FALSE, e.value, e.heap)
  /\ UNCHANGED <<setting, place, marking, suppress, error, stack, arg, history>>

Accepts(p, c) ==
  \/ p.type = "SINGLE" /\ c = p.char
  \/ p.type = "ONEOF"  /\ c \in p.chars
  \/ p.type = "NONEOF" /\ c \notin p.chars

TakeChar ==
  /\ Called({"SINGLE", "ONEOF", "NONEOF"})
  /\ ~ Terminated /\ Accepts(Definition(arg), CharAt(1))
  /\ LET c == MpcMalloc(heap, Block("chars", <<CharAt(1)>>, << >>)) IN Return(TRUE, c.value, c.heap)
  /\ state' = Moved(1)
  /\ file' = file + 1
  /\ UNCHANGED <<setting, marking, suppress, error, stack, arg, history>>

RefuseChar ==
  /\ Called({"SINGLE", "ONEOF", "NONEOF"})
  /\ Terminated \/ ~ Accepts(Definition(arg), CharAt(1))
  /\ file' = IF Terminated \/ source = "string" THEN file ELSE PutBack(file + 1)
  /\ Return(FALSE, Null, heap)
  /\ UNCHANGED <<setting, state, marking, suppress, error, stack, arg, history>>

(* mpc_input_string marks the input before it compares.                    *)
ReadsString == LET s == Definition(arg).string IN \A k \in 1 .. Len(s) : CharAt(k) = s[k]

MarkAndUnmark ==
  /\ slots' = SlotsAfterUnmark(Len(marks), SlotsForMark(Len(marks) + 1))
  /\ UNCHANGED marks

TakeString ==
  /\ Called({"STRING"}) /\ ReadsString
  /\ LET s == Definition(arg).string
         c == MpcMalloc(heap, Block("chars", s, << >>))
     IN  /\ Return(TRUE, c.value, c.heap)
         /\ state' = Moved(Len(s))
         /\ file' = file + Len(s)
  /\ MarkAndUnmark
  /\ UNCHANGED <<setting, suppress, error, stack, arg, history>>

RefuseString ==
  /\ Called({"STRING"}) /\ ~ ReadsString
  /\ Return(FALSE, Null, heap)
  /\ file' = IF source = "file" THEN state.pos ELSE file
  /\ MarkAndUnmark
  /\ UNCHANGED <<setting, state, suppress, error, stack, arg, history>>

StartOfInput ==
  /\ Called({"SOI"})
  /\ Return(state.last = EndChar, Null, heap)
  /\ UNCHANGED <<setting, place, marking, suppress, error, stack, arg, history>>

(* Mutant: the rest of the input is not looked at.                         *)
EndOfAnyInput ==
  /\ Called({"EOI"})
  /\ Return(TRUE, Null, heap)
  /\ UNCHANGED <<setting, place, marking, suppress, error, stack, arg, history>>

(* The end can be taken once only.                                         *)
EndOfInput ==
  /\ Called({"EOI"})
  /\ LET ended == ~ state.term /\ Terminated
     IN  /\ Return(ended, Null, heap)
         /\ state' = [state EXCEPT !.term = @ \/ ended]
  /\ UNCHANGED <<setting, file, marking, suppress, error, stack, arg, history>>

-------------------------------------------------------------------------------
(***************************************************************************)
(* The functions mpc applies to results.                                   *)
(***************************************************************************)
NthFree(h, xs, n) == Result(MpcFreeAll(h, [xs EXCEPT ![n] = Null]), xs[n])

(* Into the first string; the others are given back.                       *)
Strfold(h, xs) ==
  IF xs = << >> THEN MpcMalloc(h, Block("chars", << >>, << >>))
  ELSE LET joined == FlattenSeq([k \in DOMAIN xs |-> Data(h, xs[k], << >>)])
       IN  NthFree(Update(TouchAll(h, xs), xs[1], joined), xs, 1)

(* What korlessa's own folds are given is out of the pool.                 *)
ParseFold(h, f, xs) ==
  LET out == ExportAll(h, xs)
  IN  CASE f = "mpcf_fst"      -> Result(h, xs[1])
        [] f = "mpcf_snd"      -> Result(h, xs[2])
        [] f = "mpcf_fst_free" -> NthFree(h, xs, 1)
        [] f = "mpcf_snd_free" -> NthFree(h, xs, 2)
        [] f = "mpcf_strfold"  -> Strfold(h, xs)
        [] f = "mpcf_all_free" -> Result(FreeAll(out.heap, out.value), Null)
        [] OTHER               -> UserFold(out.heap, f, out.value)

MpcfInt(h, x) ==
  LET y == CallocInt(Touch(h, x), Number(Data(h, x, << >>))) IN Result(Free(y.heap, x), y.value)

ParseApply(h, f, x) ==
  LET out == MpcExport(h, x)
  IN  CASE f = "mpcf_free" -> Result(MpcFree(h, x), Null)
        [] f = "mpcf_int"  -> MpcfInt(out.heap, out.value)
        [] OTHER           -> UserApply(out.heap, f, out.value)

ParseDtor(h, d, x) ==
  LET out == MpcExport(h, x)
  IN  CASE d = "free"           -> MpcFree(h, x)
        [] d = "mpcf_dtor_null" -> out.heap
        [] OTHER                -> UserDtor(out.heap, d, out.value)

Ctor(h, lf) == IF lf = "mpcf_ctor_str" THEN CallocChars(h, << >>) ELSE UserCtor(h, lf)

-------------------------------------------------------------------------------
(***************************************************************************)
(* The parsers that are made of parsers.                                   *)
(***************************************************************************)
(* The results of a long OR or AND do not fit on the C stack.              *)
Room(h, p) ==
  IF p.type \in {"OR", "AND"} /\ Len(p.xs) > MPC_PARSE_STACK_MIN
  THEN MpcMalloc(h, Block("results", 0, << >>)) ELSE Result(h, Null)

Open(p, child) ==
  /\ LET room == Room(heap, p)
     IN  /\ stack' = Append(stack, [p |-> p, j |-> 1, results |-> << >>,
                                    room |-> room.value, entry |-> state])
         /\ heap' = room.heap
  /\ arg' = child
  /\ UNCHANGED <<setting, place, error, ctl, ok, result, history>>

OpenOne ==
  /\ Called({"APPLY", "MAYBE", "MANY", "MANY1"})
  /\ Open(Definition(arg), Definition(arg).x)
  /\ UNCHANGED <<marking, suppress>>

OpenExpect ==
  /\ Called({"EXPECT"})
  /\ Open(Definition(arg), Definition(arg).x)
  /\ suppress' = suppress + 1
  /\ UNCHANGED marking

OpenOr ==
  /\ Called({"OR"})
  /\ Open(Definition(arg), Definition(arg).xs[1])
  /\ UNCHANGED <<marking, suppress>>

OpenAnd ==
  /\ Called({"AND"})
  /\ Open(Definition(arg), Definition(arg).xs[1])
  /\ Mark
  /\ UNCHANGED suppress

Returned(types, good) ==
  /\ ctl = "return" /\ stack # << >>
  /\ Top.p.type \in types
  /\ ok = good

(* The activation on top returns.                                          *)
Leave(good, value, h) ==
  /\ stack' = Front(stack)
  /\ Return(good, value, h)
  /\ UNCHANGED <<setting, arg>>

(* The activation on top runs its next child.                              *)
Run(child, frame) ==
  /\ stack' = [stack EXCEPT ![Len(stack)] = frame]
  /\ ctl' = "call" /\ arg' = child
  /\ UNCHANGED <<setting, place, marking, suppress, ok, result, history>>

ApplySucceeds ==
  /\ Returned({"APPLY"}, TRUE)
  /\ LET a == ParseApply(heap, Top.p.f, result) IN Leave(TRUE, a.value, a.heap)
  /\ UNCHANGED <<place, marking, suppress, error, history>>

ApplyFails ==
  /\ Returned({"APPLY"}, FALSE)
  /\ Leave(FALSE, result, heap)
  /\ UNCHANGED <<place, marking, suppress, error, history>>

ExpectSucceeds ==
  /\ Returned({"EXPECT"}, TRUE)
  /\ Leave(TRUE, result, heap)
  /\ suppress' = suppress - 1
  /\ UNCHANGED <<place, marking, error, history>>

ExpectFails ==
  /\ Returned({"EXPECT"}, FALSE)
  /\ LET e == ErrNew(heap, suppress - 1, Top.p.message) IN Leave(FALSE, e.value, e.heap)
  /\ suppress' = suppress - 1
  /\ Report(suppress - 1, Top.p.message)
  /\ UNCHANGED <<place, marking, error>>

MaybeTakes ==
  /\ Returned({"MAYBE"}, TRUE)
  /\ Leave(TRUE, result, heap)
  /\ UNCHANGED <<place, marking, suppress, error, history>>

MaybeLifts ==
  /\ Returned({"MAYBE"}, FALSE)
  /\ LET m == ErrMerge(heap, error, result)
         c == Ctor(m.heap, Top.p.lf)
     IN  Leave(TRUE, c.value, c.heap) /\ error' = m.value
  /\ UNCHANGED <<place, marking, suppress, history>>

(* Once more, moving the results off the C stack when they fill it.        *)
ManyGoesOn ==
  /\ Returned({"MANY", "MANY1"}, TRUE)
  /\ LET results == Append(Top.results, result)
         room == IF Len(results) = MPC_PARSE_STACK_MIN
                 THEN MpcMalloc(heap, Block("results", 0, << >>)) ELSE Result(heap, Top.room)
     IN  /\ heap' = room.heap
         /\ Run(Top.p.x, [Top EXCEPT !.results = results, !.room = room.value])
  /\ UNCHANGED error

ManyEnds ==
  /\ Returned({"MANY", "MANY1"}, FALSE)
  /\ Top.p.type = "MANY" \/ Top.results # << >>
  /\ LET m == ErrMerge(heap, error, result)
         f == ParseFold(m.heap, Top.p.f, Top.results)
     IN  Leave(TRUE, f.value, MpcFree(f.heap, Top.room)) /\ error' = m.value
  /\ UNCHANGED <<place, marking, suppress, history>>

(* Mutant: the failure of an EXPECT is known by its error, which is NULL   *)
(* inside another EXPECT.                                                  *)
Many1NeedsError ==
  /\ Returned({"MANY1"}, FALSE) /\ Top.results = << >>
  /\ IF result = Null /\ Top.p.x.type = "EXPECT"
     THEN Run(Top.p.x, Top) /\ UNCHANGED heap
     ELSE /\ Leave(FALSE, result, ErrMany1(heap, result))
          /\ UNCHANGED <<place, marking, suppress, history>>
  /\ UNCHANGED error

Many1Fails ==
  /\ Returned({"MANY1"}, FALSE) /\ Top.results = << >>
  /\ Leave(FALSE, result, ErrMany1(heap, result))
  /\ UNCHANGED <<place, marking, suppress, error, history>>

OrTakes ==
  /\ Returned({"OR"}, TRUE)
  /\ Leave(TRUE, result, MpcFree(heap, Top.room))
  /\ UNCHANGED <<place, marking, suppress, error, history>>

OrTriesNext ==
  /\ Returned({"OR"}, FALSE) /\ Top.j < Len(Top.p.xs)
  /\ LET m == ErrMerge(heap, error, result) IN heap' = m.heap /\ error' = m.value
  /\ Run(Top.p.xs[Top.j + 1], [Top EXCEPT !.j = @ + 1])

OrFails ==
  /\ Returned({"OR"}, FALSE) /\ Top.j = Len(Top.p.xs)
  /\ LET m == ErrMerge(heap, error, result)
     IN  Leave(FALSE, Null, MpcFree(m.heap, Top.room)) /\ error' = m.value
  /\ UNCHANGED <<place, marking, suppress, history>>

AndGoesOn ==
  /\ Returned({"AND"}, TRUE) /\ Top.j < Len(Top.p.xs)
  /\ Run(Top.p.xs[Top.j + 1], [Top EXCEPT !.j = @ + 1, !.results = Append(@, result)])
  /\ UNCHANGED <<heap, error>>

AndSucceeds ==
  /\ Returned({"AND"}, TRUE) /\ Top.j = Len(Top.p.xs)
  /\ LET f == ParseFold(heap, Top.p.f, Append(Top.results, result))
     IN  Leave(TRUE, f.value, MpcFree(f.heap, Top.room))
  /\ Unmark
  /\ UNCHANGED <<place, suppress, error, history>>

(* What the first n parts have returned goes to their destructors, one     *)
(* after the other.                                                        *)
DestroyFirst(h, p, results, n) ==
  LET left[k \in 0 .. n] == IF k = 0 THEN h ELSE ParseDtor(left[k - 1], p.dxs[k], results[k])
  IN  left[n]

(* Mutant: all but the part before the failing one.                        *)
DestroyedButLast(h, p, results) ==
  DestroyFirst(h, p, results, IF results = << >> THEN 0 ELSE Len(results) - 1)

Destroyed(h, p, results) == DestroyFirst(h, p, results, Len(results))

AndFails ==
  /\ Returned({"AND"}, FALSE)
  /\ Rewind
  /\ Leave(FALSE, result, MpcFree(Destroyed(heap, Top.p, Top.results), Top.room))
  /\ UNCHANGED <<suppress, error, history>>

(* The end of mpc_parse_input, and mpc_input_delete.                       *)
Finish ==
  /\ ctl = "return" /\ stack = << >>
  /\ LET m == ErrMerge(heap, error, result)
         out == IF ok THEN MpcExport(MpcFree(heap, error), result) ELSE MpcExport(m.heap, m.value)
     IN  heap' = out.heap /\ result' = out.value
  /\ error' = Null
  /\ ctl' = "done"
  /\ UNCHANGED <<setting, place, marking, suppress, stack, arg, ok, history>>

Finished == ctl = "done" /\ UNCHANGED vars

Next ==
  \/ TooDeep \/ UndefinedFails
  \/ TakeChar \/ RefuseChar \/ TakeString \/ RefuseString \/ StartOfInput \/ EndOfInput
  \/ OpenOne \/ OpenExpect \/ OpenOr \/ OpenAnd
  \/ ApplySucceeds \/ ApplyFails \/ ExpectSucceeds \/ ExpectFails \/ MaybeTakes \/ MaybeLifts
  \/ ManyGoesOn \/ ManyEnds \/ Many1Fails
  \/ OrTakes \/ OrTriesNext \/ OrFails \/ AndGoesOn \/ AndSucceeds \/ AndFails
  \/ Finish \/ Finished

(* The program goes on while it can.  This is WF_vars(Next), with the      *)
(* states in which Next can take a step written out: that it can until the *)
(* parse is done is what the deadlock check of the runs shows.             *)
Fairness == []<>(ctl = "done") \/ []<><<Next>>_vars

Spec == Init /\ [][Next]_vars /\ Fairness

-------------------------------------------------------------------------------
(***************************************************************************)
(* Properties.                                                             *)
(***************************************************************************)
InputStates(t) == [pos : 0 .. Len(t), term : BOOLEAN, last : ToSet(t) \cup {EndChar}]

(* How many of the d outermost activations are of a type.                  *)
Among(frames, type, d) == Cardinality({c \in 1 .. d : frames[c].p.type = type})

(* The state of the input is in the text, fgetc reads the character it is  *)
(* at, and errors are held back exactly while an EXPECT is under way.      *)
TypeOK ==
  /\ state \in InputStates(text)
  /\ source = "file" => file = state.pos
  /\ suppress = Among(stack, "EXPECT", Len(stack))
  /\ ctl \in {"call", "return", "done"} /\ ok \in BOOLEAN
  /\ Len(stack) <= MaxDepth

(* Each AND that is under way has its mark, an inner one above an outer    *)
(* one, and it is the place where that AND began: what a rewind goes back  *)
(* to.  The array that shrinks and grows with the marks holds them all.    *)
MarksFollowStack ==
  /\ Len(marks) = Among(stack, "AND", Len(stack))
  /\ \A d \in DOMAIN stack :
       stack[d].p.type = "AND" => marks[Among(stack, "AND", d)] = stack[d].entry
  /\ Len(marks) <= slots

(* Whatever holds a pointer between two steps: the error, the result, and  *)
(* each activation, its k-th result and the room for its results.          *)
Holders ==
  {<<0, 0>>} \cup (IF ctl = "call" THEN {} ELSE {<<0, 1>>})
             \cup UNION {{d} \X (0 .. Len(stack[d].results)) : d \in DOMAIN stack}

RootPointers ==
  [holder \in Holders |->
     LET d == holder[1]
         k == holder[2]
     IN  IF d = 0 THEN IF k = 0 THEN error ELSE result
         ELSE IF k = 0 THEN stack[d].room ELSE stack[d].results[k]]

(* Between any two steps every block belongs to the error, the result, one *)
(* result of one activation or one node: what a failing AND has gathered   *)
(* is destroyed, what a fold has used is given back or kept, errors that   *)
(* are merged or replaced are freed.  Nothing is freed twice or by the     *)
(* wrong allocator, and nothing is used through NULL or after it was freed. *)
(* The limit on the depth costs a block: mpc_tok has no destructor for its *)
(* token, as the blank after it cannot fail but there.                     *)
Owned ==
  /\ heap.misused = {}
  /\ OwnedOnce(heap, RootPointers)
  /\ limited \/ NoneLost(heap, RootPointers)

(* mpc_input_delete frees the pool: neither the result nor the error may   *)
(* have kept a cell of it.                                                 *)
ResultOutlivesInput == ctl = "done" => Pooled(heap) = {}

(* The error that a failing parse returns is about the furthest place at   *)
(* which something was expected, and names all that was expected there,    *)
(* however many alternatives, options and repetitions lay in between.      *)
FurthestError ==
  ctl = "done" /\ ~ ok /\ reported # {} /\ heap.blocks[result].data.failure = NoFailure =>
    LET e == heap.blocks[result].data
        furthest == Max({r[1] : r \in reported})
    IN  /\ e.pos = furthest
        /\ UNION {m.names : m \in e.expected} = {r[2] : r \in {q \in reported : q[1] = furthest}}

(* A parser that fails leaves the input as it has found it, which is what  *)
(* OR, MAYBE and MANY rely on: only AND and STRING mark and rewind.        *)
FailureRestores ==
  [][ctl' = "return" /\ ~ ok' =>
       state' = IF Len(stack') < Len(stack) THEN Top.entry ELSE state]_vars

(* Every parse comes to an end.                                            *)
Terminates == <>(ctl = "done")
=============================================================================
