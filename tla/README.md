# Korlessa in TLA+

Korlessa is a command line MIDI sequencer. It parses a score in a notation of
its own, translates the syntax tree to a list of MIDI events, and feeds the list
to a queue of the ALSA sequencer, batch by batch, until the piece is over or the
user presses Ctrl+C.

This directory holds the specification of that program: TLA+ modules, the TLC
configurations that check them on small instances, and TLAPS proofs.
`PROJECT.json` maps every definition to the lines it models and lists runs,
mutants, findings, hazards and theorems.

```
tlc -config MCScheduler.cfg MCScheduler      # check a run
tlapm SchedulerProofs.tla                    # check the proofs of a module
```

## Inventory

| Component | State | Operations | Hard behaviour | What makes it correct |
|---|---|---|---|---|
| **Scheduler** `scheduler.c`: `run`, `drain_events`, `loop`, `sig_handler`, `clear_queue`, `set_tempo` | `drain_context` (current, index, offset), `running`, disposition of SIGINT, the locals of `drain_events`; outside: output buffer, kernel queue, input of port groove-in | start, output an event, slip in a USR1, drain, poll, handle USR0/USR1/TEMPO, clear, signal | the kernel and the signal handler run at the same time as the client; batches are requested by events inside the batches; every ALSA call can fail | all events performed, once per pass, in order; the chain of USR1s does not break; the pool is not overrun; loops keep their period; Ctrl+C ends it |
| **Event list** `translator.h`, `prepare_list` | entries, their `next` pointers, loop flags | link the end of a loop to its start | a list becomes a ring | what the scheduler relies on (`Playable`) |
| **Session** `main`, `schedule_and_loop`, `break_cycle` | ALSA handle, ports, connection, queue; parser, result, input, event list | acquire, fail, release, break the ring, free | any call fails at any rung; a ring is walked and freed | releases exactly what it holds, in order; nothing left at exit; nothing freed twice; ends |
| **Command line** `parse_opt` | `struct arguments` | one per option, one at the end | options in any order, repeated, contradicting | the connection goes to the client and the port named last |
| **Standard input** `read_stdin` | buffer, size, index | allocate, read, grow, store, terminate | boundary at multiples of 1024, failing allocations | all that was typed is kept; no write beyond the buffer |
| **Listing** `listing.c` | ALSA handle, info structures, the place of the queries | open, query clients and ports, print, free | a ladder of its own; clients come and go between two queries | who stays is listed, completely, once, in order |
| **Translator** `translator.c` | `struct context`: offset, divider, octave/channel/velocity, namespace, sheets, last_note, prev_tone, flags; the lists under construction | one case of `_translate` per node type; cut after a loop | recursion with global state; aliases into lists that own and free their entries; unsigned arithmetic | tick order, ownership, context restored, result playable |
| **Parser** `parser.c` | the tree, half-built nodes, the parser objects | grammar, folds, `free_node`, `free_parser` | ordered choice (`4{c} off:4{d}`, `cc9:` as label or controller), ownership in folds and destructors | texts read as meant; every byte given back once |
| **Combinators** `lib/mpc` | place in the input, stack of marks, pool of small cells, errors, results of the activations | `mpc_parse_run` for each type of parser; undefine, clean up | backtracking over strings and files, a pool that dies with the input, merging of errors, the depth limit, parsers that refer to each other in circles | a failing parser puts the input back; it accepts what its parser means; the error is about the furthest place; nothing leaks |
| **Linked list** `list.c` | `next` | append, find, apply, apply_ctx, drop, sort, goto, insert_after | walks that change what they walk on | no entry missed or freed twice |
| **Debug output** `print_ast`, `print_events` | - | format | - | - |
| **Tests** `tests/` | | | | their cases are run on the models (`TestsPass`, `ReadsAsMeant`) |

How they interact: `main` calls `parse`, `translate` and `schedule_and_loop` one
after the other and owns what they return. The parser gives its grammar and its
folds to lib/mpc, which calls them back while it parses. Parser and translator
share the tree (the translator writes into it), translator and scheduler share the
event list (the scheduler closes it to a ring and opens it again). Client and
kernel share the queue: the client writes events, the kernel delivers them, to the
synthesiser or back to the client's port groove-in. The signal handler and the
event loop share `running`.

## Modules

| Module | Models | Uses |
|---|---|---|
| `EventList` | the list, `prepare_list`'s links, `Playable` | |
| `Playback` | the promise to the listener: an abstract specification | `EventList` |
| `Scheduler` | `run`, `drain_events`, `loop`, the signal handler, the kernel queue | `EventList`, instance of `Playback` |
| `CommandLine` | `parse_opt` | |
| `StdinReader` | `read_stdin` | |
| `Listing` | `list_devices` | |
| `Session` | `main`, `schedule_and_loop`, the walks over the list | composes `CommandLine`, `StdinReader`, `Listing` with `EventList` |
| `Translator` | `translate`, `_translate` | `EventList` |
| `Combinators` | the parsers korlessa builds from lib/mpc, as data | |
| `Memory` | the heap and the pool of `mpc_input_t` | |
| `Numbers` | `strtol`, `strtoul`, which saturate, and conversion to `int`, which does not | |
| `Mpc` | `mpc_parse_run`: the engine, with marks, errors and memory | `Memory`, `Combinators`, `Numbers` |
| `MpcKinds` | what a grammar must be: closed, and its functions given the kinds of value they are made for | `Mpc` |
| `Signatures` | the kinds of value that the parsers of a grammar return, for the instances | `Combinators` |
| `Peg` | what a parser means: the abstract counterpart of `Mpc` | `MpcKinds` |
| `Lifecycle` | `mpc_undefine`, `mpc_delete`, `mpc_cleanup` | `Combinators` |
| `Nodes` | the folds, applied functions and constructors of `parser.c`, `free_node` | `Memory`, `Numbers` |
| `Parser` | korlessa's grammar | `Nodes`, instance of `Lifecycle` |
| `KorlessaKinds` | what a grammar must be for the functions of `Nodes` | `MpcKinds`, `Nodes` |
| `MCScheduler`, `MCSession`, `MCTranslator`, `MCTranslatorTests`, `MCMpc`, `MCParser` | the instances for TLC; `MCMpc` unfolds the equations of `Peg`, `MCParser` joins `Mpc`, `Parser` and `KorlessaKinds` | |
| `EventListProofs` | lemmas about linked lists | |
| `SchedulerProofs` | theorems about `Scheduler`: types and refills, order and pool, the refinement | |
| `SessionProofs` | theorems about `StdinReader` and `Listing`, and about `Session` | |
| `TranslatorProofs` | theorems about `Translator`: its lists, what it returns, its context | |
| `MpcProofs`, `MpcHeapProofs` | theorems about `Mpc`, the second extending the first: its control; its memory and its errors | |
| `PegProofs` | theorems about `Mpc` and `Peg`: what is accepted, and what is returned | |
| `ParserProofs` | theorems about `Mpc` with the functions of `Nodes` | |

`EventList` is the interface between translator and scheduler: `Scheduler` and
`Session` assume `Playable` of every list they are given (`PiecesAssumption`), and
`Translator` is checked and proved to produce such lists (`ResultPlayable`), but for
the defects listed below.

### Scheduler

The client's control point is `pc`: `start`, `fill` (the loop of `drain_events`),
`flush` (`snd_seq_drain_output`), `install` (`signal`), `arm` (`running = 1`),
`check` (`while (running)`), `poll`, `handle` (the do-while over the fetched
events), `clear`, `sleep`, `returned`; `killed` when SIGINT meets the default
disposition. `current`, `index`, `offset` are `ctx->...`, `entry`, `i`, `k`, `n` the
locals of `drain_events`. One iteration of its loop is one action, with or without
a USR1 (`OutputMarkerAndEvent`, `OutputEvent`); the end of the loop is `WriteBack`.
Each call that can fail has an action for its failure.

`signal()`, `running = 1`, `while (running)` and `poll` are separate steps because
a signal may come between any two of them.

The environment is modelled from how the code uses it: `outbuf` is alsa-lib's
output buffer; `pool` are the cells of the kernel queue, delivered in tick order,
equal ticks first come first served; a delivered note keeps its cell until its
note-off; USR0, USR1 and TEMPO go to `inq`. A drain moves one event at a time and
waits while the pool is full. The kernel may deliver between any two steps of
the client, including half-way through a drain.

`Playback` has three variables: the piece, the event performed last, and the
outcome. `Promise` instantiates it with `at` and an expression of `pc`, `status`
and `handler`. Playing counts as `finished` when `run` succeeds without a Ctrl+C,
which `Playback` allows only when no event is left.

### Session and its parts

A sequential program with one action per call. `Calls` is the table of the calls
of `schedule_and_loop` with what each one acquires and the label it jumps to;
`Releases` is what the code at `FAIL_1` ... `FAIL_5` releases. `list_apply` is
modelled pointer by pointer (`walk`), because `break_cycle` and `free` change the
list while it is walked. Parsing and translating are one step each, and `run`
either returns success or failure; what they do are the modules `Parser`,
`Translator` and `Scheduler`. A Ctrl+C that kills the process before the handler is
installed is left out, as the kernel then takes everything back.

`CommandLine`, `StdinReader` and `Listing` have variables and actions of their own;
`Session` extends them, and the step of `main` that calls one of them lets it take
its steps (`ParseArguments`, `ReadStdinGoesOn`, `ListClientsGoesOn`). While
`list_devices` runs, the other clients may come and go between any two of its calls
(`Environment`).

### Translator

The recursion of `_translate` is a stack of frames, one for each node with
children, and three modes: pick the next child, translate it, take the part it
has returned. Each `case` of the switch is an action, a case with children has
an opening action, and the loops are `NextKid`, `AppendPart`, `FreePart` and the two
`Leave` actions. Sheet and reference share the frame, as their code does the same
with `r->node` in place of `n`. Events live on `heap` (never reused) with `live`
the allocated ones, since `last_note` and `prev_tone` are aliases.

Abstractions: `octave` stands for channel, octave and velocity, which the code
treats alike; `CONTROL` for controller and program change; a divider is an exact
fraction where the code has a double; letters and accidentals are one number;
`WordSize` (2^16 in the runs) is one more than the largest unsigned int. Memory
never runs out: the code leaves most allocations unchecked.

Two history variables isolate defects: `stale` collects freed events that were
used, and `stray` events changed by a sheet that has no say in them. Properties
of what comes later assume that neither has happened, because they cannot hold
afterwards; the runs that end in a violation show how each of them happens.

### Mpc, Parser and what lies between

`mpc_parse_run` calls itself for the parsers a parser is made of. In `Mpc` each
activation that waits for a child is a frame on `stack`, and control alternates
between `call` and `return`; what the code does before, between and after the
children of each `case` are the `Open...`, `...GoesOn` and closing actions. A
primitive that takes characters is one step. `state`, `file`, `marks` and `slots` are
the fields of `mpc_input_t`: `state.pos` its place, `file` what `fgetc` will read
next (a file knows its place on its own), `slots` how many marks the array has
room for.

Memory is a value (`Memory`): the live blocks with the pointers they hold, and the
history of misuse (freed twice, freed by the wrong allocator, read after it was
freed). Cells of the pool are told from blocks of the C library. Folds, applied
functions, constructors and destructors are operators on that value; those of
lib/mpc are in `Mpc`, those of `parser.c` in `Parser`, handed over as constants.

Errors keep their place and what they expected; their wording is left out. Sizes
of blocks are left out too: whatever lib/mpc allocates for a string or an error
goes to the pool if a cell is free, where the code looks at the size as well.

C has only `void *` for results, and nothing but the order of arguments says what a
fold is given. `MpcKinds` writes down what makes a grammar fit: `Yields(p)` are the kinds
of value a parser may return, and `Fits` says of each parser that the functions around it
are made for those of its parts (a part that is dropped by `mpcf_fst` returns NULL, what
is freed by `free` holds no pointers, and so on). `Signatures` computes the kinds of a
grammar from those of its named parsers; `MCMpc` and `MCParser` show that theirs are fit.

`Peg` says what the same parsers mean, without marks, frames, errors or memory: a
parsing expression grammar. The meaning is a pair of constants, `Match` and `MatchFrom` (what
a parser does from its j-th part on), and `MeaningAssumption` is the equation each type of parser
has to satisfy, since a named parser may mean itself. The equations always have a solution: a
third answer, "endless", stands for what never comes to another, each equation passes it on, and
so the least solution is reached by unfolding. `MCMpc` unfolds 60 times, more than its grammars
need (where left recursion is endless), and TLC finds the assumption satisfied.
`AgreesWithMeaning` compares the two: what is accepted and where it ends (`AcceptsAsMeant`), and the
string that is returned. It is about parses that the limit on the depth has not touched.

`Lifecycle` models the parsers as memory: the blocks `new_parser` allocates, and the
order in which `mpc_cleanup` reads and frees them.

## Runs

| Run | Checks | States | Shows |
|---|---|---|---|
| `MCScheduler` | `TypeOK`, `RefillPending`, `PoolSuffices`, `LookAhead`, `InTickOrder`, `LoopPeriod`, `TempoNotAhead`, `PerformsInOrder` | 47,000 | safety and the refinement of `Playback`, with all failures and Ctrl+C |
| `MCSchedulerLive` | `NeverStalls`, `LoopGoesOn`, `CtrlCReturns` | 50,000 | finite pieces are played to the end, loops go on, Ctrl+C stops them |
| `MCSchedulerCtrlC` | `CtrlCStops` (violated) | | the lost Ctrl+C |
| `MCSession` | `TypeOK`, `ReleasedInOrder`, `NothingLeft`, `ConnectsWhereTold`, `KeepsInput`, `ListsWhatStays`, `ChainRestored`, `FreedOnceUnlessLoopFails`, `Exits` | 338,000 | every command line, every input, every coming and going of clients, every failing call |
| `MCSessionDoubleFree` | `FreedOnce` (violated) | | the ring that is freed |
| `MCTranslator` | `TypeOK`, `Owned`, `InTickOrder`, `ToneMeetsOffset`, `TopLevelUndisturbed`, `NamespaceFollows`, `ResultPlayable`, `TestsPass`, `Terminates` | 326,000 | 10,184 songs and the 21 cases of `tests/translator_test.c` |
| `MCTranslatorUseAfterFree` | `NoUseAfterFree` (violated) | | `a:8{c -}off {a}` |
| `MCTranslatorOff` | `OffIsSilent` (violated) | | `8{c} a:8{- c}off` |
| `MCTranslatorLoopEnds` | `LoopEndsWithItsSheet` (violated) | | `8{c} 8{.}loop`, `8{c cc1:2}loop` |
| `MCMpc` | `TypeOK`, `MarksFollowStack`, `Owned`, `ResultOutlivesInput`, `FurthestError`, `AgreesWithMeaning`, `FailureRestores`, `Terminates` | 67,000 | the engine on small grammars of every shape |
| `MCParser` | `ReadsAsMeant`, `AllFreed`, `ParsersFreed` | 321,000 | korlessa's grammar and folds on that engine |
| `MCParserLabel` | `LabelsAreLabels` (violated) | | `4{c} offbeat:4{b}` |

Deadlock is not checked for the scheduler, the session and the translator: these
programs end, and the queue is only watched up to `Horizon`. It is checked for the
engine, whose end is a step of its own (`Finished`).

### Bounds

* `QueueSize = 5`, `DrainSize = 3` for 128 and 96. What the code depends on is kept: a
  first batch is longer than a later one, but shorter than two, and not a multiple.
  The sizes are so small that pieces of nine notes take several refills and USR1s
  fall on every place in a batch and in a loop. The proofs are for all sizes.
* `Horizon`: the last tick at which the queue delivers; 20 for safety, 22 for liveness,
  14 for the lost Ctrl+C. It bounds endless loops after three or more passes,
  several of them in one batch, and lies beyond the end of every piece that ends.
* Pieces: no note, one note, a piece shorter and longer than the first batch, notes
  longer than their slot, several events on a tick, tempo changes; loops over one
  entry, over all and over the end of the list, with two starts.
* Session: two options (`MaxOptions`), so that each may override each, also `--port`
  one half of an address; client numbers 0 (none, or not a number), 1 and 2, ports 0 and 1; a buffer that grows by 2 instead of 1024
  and up to 5 characters, so that the input ends before, at and after a boundary;
  three other clients, one of them a korlessa with a number between the others, one
  without ports, and the own client among them. Lists of one to four entries, flat
  or with a ring over all, the end or one entry. The proofs are for all of these.
* Songs: a labelled sheet with two elements, of which one may be a legato, a triplet
  or another sheet (labelled, off, looped, or so fine that slots are shorter than
  four ticks), repeated, off or looped, followed by
  another sheet, a reference or a bpm. Each pair of a dry run, a loop, a tie, a
  rest and a reference meets in some of them.
* `MCMpc`: all texts of up to three characters over two letters, from a string and from
  a file; every combinator over every other, nested twice, a recursive rule, a left
  recursive one and an undefined one. The constants are small enough to be met:
  `MaxDepth` 16 for 1000, a pool of 3 cells for 512, and 1 for the least number of
  marks, so that marks and pool overflow and shrink.
* `MCParser`: 134 texts. The cases of `tests/parser_test.c`; sheets in which each of
  fourteen elements follows each, program changes and comments among them, and songs in which each of eight
  statements does; words written close together; a text with all of the grammar in it, cut off
  at every place. The constants are those of the code, but for numbers: an `int` has 2^12
  values and a `long` 2^24 (`IntSize`, `LongSize`; TLC's own numbers end at 2^31), which leaves
  room for the numbers in the texts. `NumbersAtTheLimits` tries what lies at and beyond the ends.

### Fairness

`Scheduler`: the client goes on (`WF(Client)`), the queue runs (`WF(Deliver)`), and
there is no fairness for failures or for Ctrl+C. `SF(PollInput)` says that polls do
not fail for ever while there is input: `loop` retries after an error ("not going to stop
here"), so the input is fetched as soon as one poll succeeds. `Session` and
`Translator` are sequential programs: `WF(Step)`. Standard input ends
(`MaxInput`), and so do the changes of clients that matter to `list_devices`, whose
queries only go upwards. `Mpc` has the weak fairness of its next-state relation
written out (`Fairness`): it takes another step unless it is done.

## Proofs

Assumptions: `SizesAssumption` (`2 <= DrainSize < QueueSize < 2 * DrainSize`; 96 and
128 satisfy it), `PiecesAssumption` (every list is playable), `BoundsAssumption`
and the corresponding ones of the parts of `Session` (`OptionsAssumption`,
`BufferAssumption`, `ClientsAssumption`), which only say what kind of thing a
constant is; for `Translator` `SongsAssumption` (the trees are crates with an EOF as
their last child and nest as the grammar lets them, `Elements`: references stand at
the top, a legato holds tones and dividers only and at least one of them, a sheet has
at most one label; sheets have a length, `bpm` is not negative) and `NumbersAssumption`.

Every safety property that the runs of `Scheduler`, `Session` and `Translator` check is
proved, but for the comparison with the unit tests (`TestsPass`): for lists of any
length, all batch sizes, any command line, any input, any set of clients, and trees
of any shape and depth. Of `Mpc`, the control and the ownership of memory are proved for
any grammar, what it accepts and returns, and what its errors say; for korlessa's grammar and functions, that in the end everything
is freed. The arguments:

* `EventListProofs`: `LatestExists` (a non-empty set of positions has a last one;
  from the well-foundedness of `<`) and `LinkType` (the links of a playable list
  stay inside it).
* `TypeCorrect == Spec => []TypeOK` (`SchedulerProofs`). `TypeOK` is inductive. The lemmas
  follow the families of actions: draining, handling, control flow, delivery.
* `RefillNeverLost == Spec => []RefillPending`: while entries are left, a USR1 is on
  its way or waiting. It is not inductive: a batch in the making has no USR1 until
  its index gets there. `RefillInv` adds
  `FillReachesMarker` (while a batch is filled, either it contains a USR1 already, or
  the rest of it is long enough to reach the next index that carries one),
  `BatchHandled` (fetched events lie only where they are going to be handled) and
  `HandlerFirst` (the first drain is the one before the handler is installed, and
  nothing is fetched before). The step that matters is the first event of a batch:
  a batch of at least `DrainSize` outputs meets every residue modulo `DrainSize`.
* `LeavesInTickOrder == Spec => []InTickOrder` (`SchedulerProofs`). The strengthening is
  `Written`: what has been output has a smaller number and no later tick than the
  entry that is output next. At the end of a loop that is
  `start.tick + offset + loop_offset >= end.tick + offset`, the last part of `Playable`.
* `PoolIsLargeEnough == Spec => []PoolSuffices` and `RefillsEarlyEnough == Spec => []LookAhead`
  come from one invariant, `WindowInv`: there is at most one unhandled USR1, it stands
  `QueueSize - DrainSize + 1` places before the end of what has been written, and what
  is on its way has numbers from a window of `QueueSize`. A cell is delivered before
  all with a higher number, so once the USR1 is handled at most the places after it
  are taken, and a batch of `DrainSize` fits. The cardinality follows from the
  distinct numbers (`AtMost`).
* `KeepsThePromise == Spec => PerformsInOrder` (`SchedulerProofs`): the scheduler
  implements `Playback`. `ChainInv` says that the entries on their way, in the order of
  output, are a stretch of the piece that begins right after what was performed last
  and ends right before the entry that is output next; so what the queue delivers is
  what `Perform` demands. `EndInv` ties `running = FALSE` without a Ctrl+C to a USR0 that
  has been performed, which is the last entry, so `Finish` is enabled when `run`
  returns success.
* `TempoInItsTime == Spec => []TempoNotAhead`: every TEMPO in `inq` and `batch` is at or
  before `at` in a piece without a loop (`TempoInv`).
* `PassesAreEquallyLong == Spec => []LoopPeriod`. `AllApart` relates any two
  entries on their way of which the first has not come again: they are as far apart
  as in the list, plus one `loop_offset` if the second stands before the first in the
  list. `OffsetOfLast` says what `ctx->offset` is, in terms of the last event output. One
  more event keeps both (`OneFurther`).
* `InputKept == ReaderSpec => []KeepsInput` (`SessionProofs`): the buffer has one byte more
  than `buffer_size` and holds what was typed but for the character in hand
  (`RoomFits`). `InputReachesParser` lifts it to `Session`, whose other steps leave the reader
  alone.
* `ListingIsComplete == Spec => []ListsWhatStays`: `ListingInv` says that all clients that
  have stayed and lie below the place of the query have been printed, with all their
  ports, and all that is printed lies up to that place. The queries give the next
  number above (`NextExists`: if there is one, by well-foundedness).
* `LaddersFit`, `AllIsReleased`, `ChainIsRestored`, `EntriesFreedOnce`, `ConnectsToTheNamed`,
  `SessionTypeCorrect` (`SessionProofs`). `HeldInv` says which resources are held at each call and
  at each label: a prefix of the ladder (`HeldAt`). `ListInv` follows the event list through
  chain, ring and chain: `break_cycle` walks a ring twice at most in part, `free` meets
  an entry it has freed only on a ring left by a failing `run` (`RingLeft`). `CliInv` says
  that `args.client` and `args.port` are the client and the port named last.
* `TranslatorTypeCorrect`, `EventsAreOwned`, `ListsInTickOrder` (`TranslatorProofs`). The 20
  actions of `Step` differ in only six ways in what they do to the lists, and `StepKinds`
  reduces every step to one of these: a leaf that may allocate one event and hands
  it over as the part (`LeafEffect`), an opening (`OpenEffect`), the next child
  (`NextKid`), the part taken or thrown away by a dry run (`TakeEffect`), a frame left
  (`LeaveEffect`) and the cut after the loop. `Owned` alone is not inductive. `OwnInv` says
  that the lists under construction, read from the outermost to the part, have
  ascending pointers (`Ascending`; `heap` is never reused, so the order is that of
  allocation) and contain just what is live. Ascending pointers cannot repeat, so no
  event stands at two places. `OrderInv` adds that ticks ascend with the pointers, that
  none is later than `offset`, and that what stands in the lists outside a frame is no
  later than the offset the frame was entered with. So leaving a dry run, which sets
  `offset` back to that, leaves nothing behind that is later.
* `ResultIsPlayable == Spec => []ResultPlayable` (`TranslatorProofs`): what `Scheduler`
  assumes, from the side of `Translator`. `PathInv` follows the way through the tree: the
  crate is the lowest frame and no other, and while a child of it is open that is not
  its last. `UsrInv` concludes that USR0 is allocated once, as the last event, and ends
  the list of the crate. For loops, `BornInv` says that the events in the lists around
  a frame are older than the frame, and those in its own not earlier than its old
  offset, and `FirstInv` that a loop has marked its first event once it has a list. So
  the tone that is marked as the end, if it is younger than the frame (otherwise it is
  `stray`), stands in the list of the loop or nowhere, not before the mark, and `loop_offset` reaches back to the mark: `LoopInv` says this of every
  list. `ToneInv` tells ends from USR0, and `DoneInv` says what the cut leaves.

* `NamespaceIsThatOfTheSheets == Spec => []NamespaceFollows` and
  `StatementsAreIndependent == Spec => []TopLevelUndisturbed` (`TranslatorProofs`).
  Both rest on the grammar. `ContextInv`: a reference stands at the top, so it is the second
  frame, and `referencing` says that the second frame is one; that frame was opened with
  the divider 1:1 and leaves it behind; `legato` is only set inside the legato on top, which
  opens no further frame, and not at its last element. `NameInv` counts: the labelled frames
  are as many as the names, and the number of labelled frames up to one is the place of
  its name. Opening or leaving a labelled sheet changes the count by one
  (`OneNameMore`, `SameNamed`); inside a reference nothing is entered or taken away.
* `ToneEndsWithTheMusic == Spec => []ToneMeetsOffset`. Where a tone is made or prolonged this
  is arithmetic modulo the width (`FreshToneMeets`, `TiedToneMeets`). What is hard is that a
  sheet that is off sets `offset` back. `MeetInv` adds that if the tone is older than such a
  frame, and no tie or rest has come since (a tie would have made it `stray`), then no time
  has passed in the frame. And a tone that is still live when the frame is left is older than
  it, by `OwnInv` and `BornInv`: it stands in a list further out. So `offset` is set back only
  to where it is, or the tone has been freed (`LeaveMet`).

* `InvTypeOK`, `InvMarksFollowStack` and `RestoredOnFailure == Spec => FailureRestores`
  (`MpcProofs`), for any closed grammar, recursive or not, any input and any limit. The
  inductive invariant is `Control`. Its part `Nested` says how each frame on the stack fits the one
  below it: the child that is under way, the number of results for its type, and where the
  input stood when the frame was opened: a frame that has not taken anything yet stands where
  the one below it stands. It also follows the parsers that cannot fail (`Unfailing`: a repetition,
  an option, and what is made of these alone), which fail only after the limit was met.
  `FailureRestores` needs the entries of the frames, and these are the marks: an AND rewinds
  to its mark, and `MarksFollowStack` says that this is where it began.
* `InvOwned` and `InvResultOutlivesInput` (`MpcHeapProofs`), for any fit grammar, pool and size.
  `Owned` counts pointers; what is inductive is a statement about sets, `Sound(h, R)`: the
  blocks of a heap are either in `R` or pointed to from exactly one place of exactly one block,
  pointers go to live blocks and not in circles, the blocks behind them are out of the pool, and
  nothing has been misused. `Heaped` says that the heap is sound for what the error, the result and each frame
  hold, all of them apart, with the kinds their parsers yield, and a remainder that is empty
  until the limit on the depth is met. Each operator of `Memory` and each function of mpc
  has a lemma of one form (`Gives`): given a heap that is sound for `R` and the arguments, it
  leaves one that is sound for `R` and its result, and the blocks in `R` with their data as they were.
  `RootsOnce` and `SoundOwned` lead back from sets to the counting of `Owned`.
  What the functions of the grammar do is the hypothesis `FunctionsKeep`: the same form, for
  values of the kinds they are given. `MpcAloneOwns` states both properties for grammars without
  functions of their own (`OnlyMpcFunctions`, which `MCMpc` checks of its own), where nothing is left
  to be assumed.
* `InvFurthestError == Spec => []FurthestError` (`MpcHeapProofs`), under the same hypothesis. An
  error knows a set of reports (`Tells`) when it is about the furthest of them and, unless it is an
  outright failure, names just what was reported there. While the parse goes on the error that is
  kept knows all reports; while a child has failed and its error has not been merged yet, the
  two know them together (`TellBoth`). A new expectation (`NewlyReported`), a merge
  (`MergedTells`) and the rewording of a repetition (`RepeatedTells`) keep this, and all other steps
  leave both errors alone, which is a matter of memory: that a fold or a destructor does not
  write into the error is part of `FunctionsKeep`, and that the error is not freed is in `Heaped`.
  Suppressed errors are no gap: inside an EXPECT nothing is reported, and the EXPECT reports
  for itself when it fails.
* `InvAcceptsAsMeant == Spec => []AcceptsAsMeant` (`PegProofs`), for any closed grammar and whatever its
  functions do. A frame on the stack has done a part of its work, and the meaning of its parser at
  the place where it began has to follow from what it has left to do. `Due` says this of one frame, given
  the place at which the frame above begins: an OR at its j-th part means what is left from
  the j-th part on (`MatchFrom`), an AND or a repetition ends where the rest does that begins here (a
  MANY1 only once it has a result, `Goes`). `Following` says it of all of the stack,
  each frame beginning where the one above it entered (`Begins`). Where the innermost parser began is
  nowhere in the state once it has returned: while it runs it is the place of the input, afterwards
  that of its answer. So the invariant (`Agreeing`) says that there is such a place, and each step
  says which it is next (`Follows`). A failing parser leaves the input there, so the frame below may go on.
* `InvAgreesWithMeaning == Spec => []AgreesWithMeaning` (`PegProofs`), for `OnlyMpcFunctions`. `Spells` adds
  the values to `Due`: the string the parser means is the fold of what is in the results collected so far
  and what the rest yields. What is in a block is a matter of memory: `SpellingKept` says that a step that
  leaves alone what the stack holds (`Undisturbed`, from the proof of `Owned`) does not change what the stack spells, and
  `FoldContent` says of every fold of mpc, with all it exports, reallocates and frees, what it leaves in its result
  (`Combined`). The steps that move a result from the C stack or out of the pool keep its content (`Same`).
* `KorlessaOwns` (`ParserProofs`): the three properties for korlessa's parser, without
  `FunctionsKeep`. The user functions are those of `Nodes` (`KorlessaFunctions`, which is how
  `MCParser` instantiates them), and the grammar gives them what they cast their arguments to
  (`NodeFits`). Each fold is shown to give back a heap that is sound for its result
  (`FunctionsKeep`): `Made` allocates two blocks and frees what it was given, the sheet takes
  over the crate and the strings it keeps (`RewrittenSound`), `apply_eof` writes into the
  array of children. `FreeNodeGives` is about `free_node`: the blocks below a node (`Below`) are reached along
  pointers, and as each pointer in a sound heap is the only one to its block, freeing at each of them
  frees every one of these blocks once and leaves the rest as it was.
* `ResultFreed == Spec => []AllFreed` (`ParserProofs`): what is returned is freed whole. That nothing
  is left needs that no block is below itself: pointers in a circle would be owned, each by the next, and
  be out of reach of `free_node`. `Sound` has this in the form that every set of blocks has one that none of
  the set points to (`Rooted`); a new block is pointed to by none, and what is written into a node later
  (`Changeable`) goes into a root or is a leaf.

What the `Mpc` theorems assume of the constants is named in `Mpc`, `MpcKinds` and `Peg`: texts without
the end character, a closed grammar without empty lists (`ClosedAssumption`), parsers marked
as `Unfailing` that are (`UnfailingAssumption`), blocks of the engine without pointers
(`LayoutAssumption`), the fit of kinds (`FitAssumption`), and, for `PegProofs`, that `Match` and `MatchFrom` solve
their equations (`MeaningAssumption`; the theorems hold of every solution, also where left recursion leaves
several, as the engine then gives no answer). TLC evaluates them for the grammars of
`MCMpc` and, but for the last, for korlessa's.

Only model-checked: liveness (fairness and ENABLED are beyond the prover); `TestsPass`, the
comparison of `Translator` with the unit tests, and `ReadsAsMeant`, that of `Parser` with given texts:
both are about finitely many inputs, and running them is the proof; and that `mpc_cleanup` frees the parsers
(`ParsersFreed`), which is a computation of `Lifecycle`, and that is recursive. For `Parser` the
implementation gave a second opinion: on all 134 texts, model and program
agree whether a text is accepted and at which place the error is.

## Findings

1. **A lost Ctrl+C** (`CtrlCStops`). SIGINT between `signal()` (`scheduler.c:205`) and
   `running = 1` (`scheduler.c:128`) is overwritten, and the handler has set SIGINT to
   be ignored. A looped piece can then no longer be stopped with Ctrl+C.
2. **Double free of a ring** (`FreedOnce`). When `run` fails, `break_cycle` is skipped
   (`scheduler.c:349`) and `main` frees a ring.
3. **Use after free** (`NoUseAfterFree`). A dry run frees events to which
   `last_note` and `prev_tone` still point (`translator.c:325`): `a:8{c -}off {a}`.
4. **A sheet that is off is heard** (`OffIsSilent`). `8{c} a:8{- c}off`: the tie
   prolongs the c before the sheet (`translator.c:245`).
5. **The end of a loop is not the end of its sheet** (`LoopEndsWithItsSheet`,
   `translator.c:340`). `8{c} 8{.}loop` marks the c before the loop; the closing USR0 is cut
   and the program never ends. In `8{c cc1:2}loop` the controller comes after the last
   tone and is dropped.
6. **A label taken for a repeater** (`LabelsAreLabels`, `parser.c:115`). `4{c} offbeat:4{b}` is
   read as a sheet that is off, followed by the label beat.

Also met, without a statement in the repository to hold against it:

* a slot shorter than four ticks wraps to a note of nearly 2^32 ticks (`translator.c:522`);
* a loop ending with the loop around it has its `loop_offset` overwritten
  (`translator.c:341`);
* `0{c}` divides by zero (`translator.c:321`);
* beyond a depth of 1000 a parser fails without an error, so that `cb` inside 165
  nested sheets is read as two notes (`mpc.c:1057`);
* `mpc_tok` gives its token a destructor that does nothing (`mpc.c:2097`), as the blank after
  it cannot fail; at the limit on the depth it does fail, and the token is lost. The proof of
  `Owned` met this, and TLC found it on the rule `deep` of `MCMpc`. korlessa's own grammar meets
  the limit of 1000 at another place; with 999 it would lose the token;
* a read error of the file is not its end: a comment then reads for ever (`mpc.c:402`);
* a number that does not fit an `int` loses its upper bits and may become a word: `4{c}x4294967295`
  loops, `4{c}x4294967296` is off (`parser.c:326`);
* `1{.}x11184811 8{c}` is longer than 2^32 ticks: the tick of the c wraps to 128
  (`translator.c:231`);
* an empty comment (`//` and the end of the line) is a syntax error (`parser.c:82`);
* a NUL byte on standard input ends the song there.

## Not modelled

* `list_sort`, `list_goto`, `list_insert_after` and `swap` of `list.c`: only their tests call
  them. The others are modelled by what they do in `Translator`, and `list_apply` pointer
  by pointer in `Session`.
* `print_ast` and `print_events`, and what `list_devices` prints of a port besides its
  address: formatting.
* lib/mpc beyond what korlessa uses: pipes, regular expressions, the AST and the grammar
  language, checks, counts and other parsers; the wording of errors; the escape `\v` in
  them; the sizes of blocks; an array of marks that cannot be allocated.
* Running out of memory in translator and parser, which do not look for it; reads that
  fail on an event poll has announced; ticks that
  wrap around: `InTickOrder`, `LoopPeriod` and `ResultPlayable` and their theorems are about
  songs, and performances, shorter than 2^32 ticks (259 days at 120 bpm); the pool cells of sounding notes in `PoolSuffices`.

## Plan

Done: all components of the inventory that have a state, and proofs of all safety
properties of `Scheduler`, `Session`, `Translator` and `Mpc`.
What would come next:

1. **Score**: a reference semantics of songs (a sheet denotes a sequence of events and
   a length); `Translator` shown to agree with it on songs without loops and
   without dry runs; what a reference repeats and which context it follows.
2. **Performance**: `Translator` composed with `Scheduler`, from song to what is heard.
3. **Nested loops**: what `loop_offset` should be when two loops end with one tone.
