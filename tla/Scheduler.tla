------------------------------- MODULE Scheduler -------------------------------
(***************************************************************************)
(* scheduler.c: run(), drain_events() and loop(), the signal handler, and  *)
(* the ALSA sequencer queue they talk to.                                  *)
(*                                                                         *)
(* The event list is fed to the kernel in batches.  Every DrainSize-th     *)
(* output is a USR1 event addressed to korlessa itself: when the queue     *)
(* delivers it, the client drains the next batch.  USR0 (the end of the    *)
(* piece) and TEMPO travel through the same queue, so they take effect     *)
(* when their time comes and not when they are written.                    *)
(*                                                                         *)
(* Two processes interleave: the client, whose control point is pc, and    *)
(* the kernel, which delivers the events of its queue.  The user may press *)
(* Ctrl+C at any moment.                                                   *)
(***************************************************************************)
EXTENDS EventList, FiniteSets

CONSTANTS
  Pieces,       \* the lists the translator may hand over
  QueueSize,    \* DEFAULT_QUEUE_SIZE: first batch, and the size of the kernel pool
  DrainSize,    \* DEFAULT_DRAIN_SIZE: later batches, and the distance of the USR1s
  DefaultBpm,   \* DEFAULT_BPM
  Horizon       \* bound: the queue is watched up to this tick

(***************************************************************************)
(* scheduler.c has 128 and 96.                                             *)
(***************************************************************************)
ASSUME SizesAssumption ==
  /\ QueueSize \in Nat
  /\ DrainSize \in Nat
  /\ 2 <= DrainSize
  /\ DrainSize < QueueSize
  /\ QueueSize < 2 * DrainSize

ASSUME PiecesAssumption == \A l \in Pieces : Playable(l)

ASSUME BoundsAssumption == DefaultBpm \in Nat /\ Horizon \in Nat

VARIABLES
  list,         \* the piece, linked by prepare_list
  pc,           \* control point of the client
  status,       \* what run() is going to return
  handler,      \* disposition of SIGINT: "default", "installed", "ignored"
  running,      \* the flag shared with the signal handler
  tempo,        \* tempo of the queue
  current,      \* ctx->current: the next entry to output, or NULL
  index,        \* ctx->index: number of outputs so far, USR1s included
  offset,       \* ctx->offset: ticks added by the finished passes of the loop
  entry, i, k, n, \* the locals of drain_events
  outbuf,       \* output buffer of alsa-lib: written, not yet drained
  pool,         \* cells of the kernel queue
  inq,          \* events delivered to port groove-in
  batch,        \* events of inq fetched by the client, being handled
  at            \* history: the event performed last

vars == <<list, pc, status, handler, running, tempo, current, index, offset,
          entry, i, k, n, outbuf, pool, inq, batch, at>>

ctx    == <<current, index, offset>>
locals == <<entry, i, k, n>>
queue  == <<outbuf, pool>>
input  == <<inq, batch>>
signal == <<handler, running>>

(***************************************************************************)
(* A cell is an event on its way: its place in the order of output, its    *)
(* tick, and the list entry it was copied from (NULL for a USR1).  A note  *)
(* that has begun keeps its cell until its note-off is due.                *)
(***************************************************************************)
CellType == EventType \cup {"USR1", "NOTEOFF"}
Cell == [seq : Nat, tick : Nat, pos : Nat, type : CellType]

EventCell(s, p, t) == [seq |-> s, tick |-> t, pos |-> p, type |-> list[p].type]
MarkerCell(s, t)   == [seq |-> s, tick |-> t, pos |-> NULL, type |-> "USR1"]
NoteOff(c) == [seq |-> c.seq, tick |-> c.tick + list[c.pos].duration,
               pos |-> c.pos, type |-> "NOTEOFF"]

(* Everything written that has not been delivered yet.                     *)
Outstanding == {c \in outbuf \cup pool : c.type # "NOTEOFF"}

Markers == {c \in outbuf \cup pool : c.type = "USR1"}

(* Mutant: the walk does not stop at the end of the list.                  *)
NextEntryInMemory(p) == p + 1

NextEntry(p) == Link(list)[p]

-------------------------------------------------------------------------------
(***************************************************************************)
(* prepare_list has linked the list; run() is about to be called.          *)
(***************************************************************************)
Init ==
  /\ list \in Pieces
  /\ pc = "start"
  /\ status = "none"
  /\ handler = "default"
  /\ running = TRUE
  /\ tempo = 0
  /\ current = 1
  /\ index = 0
  /\ offset = 0
  /\ entry = NULL /\ i = 0 /\ k = 0 /\ n = 0
  /\ outbuf = {} /\ pool = {}
  /\ inq = << >> /\ batch = << >>
  /\ at = NULL

(* run() and loop() give up: EXIT_FAILURE by way of FAIL_1.                *)
GiveUp ==
  /\ pc' = "clear"
  /\ status' = "failure"

(* The entry of drain_events(ctx, size).                                   *)
BeginDrain(size) ==
  /\ entry' = current
  /\ i' = index
  /\ k' = 0
  /\ n' = size
  /\ pc' = "fill"

(* Mutant: the first batch is as small as the later ones.                  *)
StartShort ==
  /\ pc = "start"
  /\ tempo' = DefaultBpm
  /\ BeginDrain(DrainSize)
  /\ UNCHANGED <<list, status, signal, ctx, queue, input, at>>

(***************************************************************************)
(* run(): the tempo is set, the START event goes to the output buffer (the *)
(* first drain carries it along) and the first drain begins.               *)
(***************************************************************************)
Start ==
  /\ pc = "start"
  /\ tempo' = DefaultBpm
  /\ BeginDrain(QueueSize)
  /\ UNCHANGED <<list, status, signal, ctx, queue, input, at>>

(* set_tempo(): the queue has the new tempo, or keeps the old one when     *)
(* there is no memory for the request or the kernel refuses it.            *)
SetTempo(bpm) == tempo' \in {tempo, bpm}

(* The tempo cannot be set or the queue not be started.  No event is       *)
(* written yet, and run() returns without clearing the queue.              *)
StartFails ==
  /\ pc = "start"
  /\ pc' = "returned"
  /\ status' = "failure"
  /\ SetTempo(DefaultBpm)
  /\ UNCHANGED <<list, signal, ctx, locals, queue, input, at>>

-------------------------------------------------------------------------------
(***************************************************************************)
(* drain_events().                                                         *)
(***************************************************************************)
MoreToOutput == k < n /\ entry # NULL

(* Mutant: the wrong one of the two sizes.                                 *)
MarkerDuePerQueue == i % QueueSize = QueueSize - 1

(* The index at which an iteration slips a USR1 in ahead of the event.     *)
MarkerDue == i % DrainSize = DrainSize - 1

(* Mutant: ctx->offset is not added.                                       *)
EventTickUnshifted == list[entry].tick

EventTick == list[entry].tick + offset

(* Mutant: the loop is taken to be over where its last event begins.       *)
AdvanceEntryShort ==
  /\ offset' = IF list[entry].end_loop THEN offset + list[entry].tick ELSE offset
  /\ entry' = NextEntry(entry)
  /\ UNCHANGED <<list, pc, status, signal, tempo, current, index, n, pool, input, at>>

(* Mutant: a tempo change is applied when it is written.                   *)
AdvanceEntryAtOnce ==
  /\ offset' = IF list[entry].end_loop THEN offset + list[entry].loop_offset ELSE offset
  /\ tempo' = IF list[entry].type = "TEMPO" THEN list[entry].bpm ELSE tempo
  /\ entry' = NextEntry(entry)
  /\ UNCHANGED <<list, pc, status, signal, current, index, n, pool, input, at>>

(* What is common to both shapes of the iteration: the event goes out, the *)
(* offset grows at the end of the loop, and the next entry is taken.       *)
AdvanceEntry ==
  /\ offset' = IF list[entry].end_loop THEN offset + list[entry].loop_offset
                                       ELSE offset
  /\ entry' = NextEntry(entry)
  /\ UNCHANGED <<list, pc, status, signal, tempo, current, index, n, pool, input, at>>

OutputEvent ==
  /\ pc = "fill" /\ MoreToOutput
  /\ ~ MarkerDue
  /\ outbuf' = outbuf \cup {EventCell(i, entry, EventTick)}
  /\ i' = i + 1
  /\ k' = k + 1
  /\ AdvanceEntry

OutputMarkerAndEvent ==
  /\ pc = "fill" /\ MoreToOutput
  /\ MarkerDue
  /\ outbuf' = outbuf \cup {MarkerCell(i, EventTick), EventCell(i + 1, entry, EventTick)}
  /\ i' = i + 2
  /\ k' = k + 2
  /\ AdvanceEntry

(* snd_seq_event_output reports an error, for the event or for the USR1    *)
(* before it; ctx->current and ctx->index are not written back.            *)
OutputFails ==
  /\ pc = "fill" /\ MoreToOutput
  /\ GiveUp
  /\ \/ UNCHANGED outbuf
     \/ MarkerDue /\ outbuf' = outbuf \cup {MarkerCell(i, EventTick)}
  /\ UNCHANGED <<list, signal, tempo, ctx, locals, pool, input, at>>

(* Mutant: ctx->current is not written back.                               *)
WriteBackForgetful ==
  /\ pc = "fill" /\ ~ MoreToOutput
  /\ index' = i
  /\ pc' = "flush"
  /\ UNCHANGED <<list, status, signal, tempo, current, offset, locals, queue, input, at>>

(* The batch is complete: write the context back and drain the output.     *)
WriteBack ==
  /\ pc = "fill" /\ ~ MoreToOutput
  /\ current' = entry
  /\ index' = i
  /\ pc' = "flush"
  /\ UNCHANGED <<list, status, signal, tempo, offset, locals, queue, input, at>>

(***************************************************************************)
(* snd_seq_drain_output hands the buffered events to the kernel one by     *)
(* one, each into a free cell of the pool; it blocks while there is none.  *)
(***************************************************************************)
Flush ==
  /\ pc = "flush"
  /\ Cardinality(pool) < QueueSize
  /\ \E c \in outbuf :
       /\ \A d \in outbuf : c.seq <= d.seq
       /\ outbuf' = outbuf \ {c}
       /\ pool' = pool \cup {c}
  /\ UNCHANGED <<list, pc, status, signal, tempo, ctx, locals, input, at>>

(* drain_events returns to run(), which had not installed the signal       *)
(* handler yet, or to the event loop.                                      *)
Flushed ==
  /\ pc = "flush"
  /\ outbuf = {}
  /\ pc' = IF handler = "default" THEN "install" ELSE "handle"
  /\ UNCHANGED <<list, status, signal, tempo, ctx, locals, queue, input, at>>

FlushFails ==
  /\ pc = "flush"
  /\ GiveUp
  /\ UNCHANGED <<list, signal, tempo, ctx, locals, queue, input, at>>

-------------------------------------------------------------------------------
(***************************************************************************)
(* run() installs the handler; only then does loop() raise the flag.       *)
(***************************************************************************)
InstallHandler ==
  /\ pc = "install"
  /\ handler' = "installed"
  /\ pc' = "arm"
  /\ UNCHANGED <<list, status, running, tempo, ctx, locals, queue, input, at>>

Arm ==
  /\ pc = "arm"
  /\ running' = TRUE
  /\ pc' = "check"
  /\ UNCHANGED <<list, status, handler, tempo, ctx, locals, queue, input, at>>

(* No memory for the poll descriptors.                                     *)
ArmFails ==
  /\ pc = "arm"
  /\ GiveUp
  /\ UNCHANGED <<list, signal, tempo, ctx, locals, queue, input, at>>

(* while (running)                                                         *)
Check ==
  /\ pc = "check"
  /\ IF running THEN pc' = "poll" /\ UNCHANGED status
                ELSE pc' = "clear" /\ status' = "success"
  /\ UNCHANGED <<list, signal, tempo, ctx, locals, queue, input, at>>

(* poll finds input: everything the port holds is fetched at once.         *)
PollInput ==
  /\ pc = "poll"
  /\ inq # << >>
  /\ batch' = inq
  /\ inq' = << >>
  /\ pc' = "handle"
  /\ UNCHANGED <<list, status, signal, tempo, ctx, locals, queue, at>>

(* Mutant: poll is called without a timeout.                               *)
PollForever ==
  /\ pc = "poll"
  /\ inq = << >>
  /\ UNCHANGED vars

(* Nothing for DEFAULT_POLL_TIMEOUT milliseconds: look at running again.   *)
PollTimeout ==
  /\ pc = "poll"
  /\ inq = << >>
  /\ pc' = "check"
  /\ UNCHANGED <<list, status, signal, tempo, ctx, locals, queue, input, at>>

(* poll itself fails; the code notes that it is not going to stop here.    *)
PollError ==
  /\ pc = "poll"
  /\ pc' = "check"
  /\ UNCHANGED <<list, status, signal, tempo, ctx, locals, queue, input, at>>

(* snd_seq_poll_descriptors_revents reports an error.                      *)
PollFails ==
  /\ pc = "poll"
  /\ inq # << >>
  /\ GiveUp
  /\ UNCHANGED <<list, signal, tempo, ctx, locals, queue, input, at>>

(***************************************************************************)
(* The do-while over the fetched events.  It goes on to the last of them   *)
(* even when a USR0 among them has cleared running.                        *)
(***************************************************************************)
Handling(type) ==
  /\ pc = "handle"
  /\ batch # << >>
  /\ Head(batch).type = type
  /\ batch' = Tail(batch)
  /\ UNCHANGED inq

HandleUsr0 ==
  /\ Handling("USR0")
  /\ running' = FALSE
  /\ UNCHANGED <<list, pc, status, handler, tempo, ctx, locals, queue, at>>

(* Mutant: every batch is as large as the first.                           *)
HandleUsr1Full ==
  /\ Handling("USR1")
  /\ IF current = NULL THEN UNCHANGED <<pc, locals>> ELSE BeginDrain(QueueSize)
  /\ UNCHANGED <<list, status, signal, tempo, ctx, queue, at>>

HandleUsr1 ==
  /\ Handling("USR1")
  /\ IF current = NULL THEN UNCHANGED <<pc, locals>> ELSE BeginDrain(DrainSize)
  /\ UNCHANGED <<list, status, signal, tempo, ctx, queue, at>>

(* A set_tempo that fails is reported and otherwise ignored.               *)
HandleTempo ==
  /\ Handling("TEMPO")
  /\ SetTempo(list[Head(batch).pos].bpm)
  /\ UNCHANGED <<list, pc, status, signal, ctx, locals, queue, at>>

BatchDone ==
  /\ pc = "handle"
  /\ batch = << >>
  /\ pc' = "check"
  /\ UNCHANGED <<list, status, signal, tempo, ctx, locals, queue, input, at>>

-------------------------------------------------------------------------------
(***************************************************************************)
(* run() empties the queue, sparing the note-offs, grants them a second,   *)
(* and returns; its caller releases the queue with all that is left in it. *)
(***************************************************************************)
ClearQueue ==
  /\ pc = "clear"
  /\ pool' \in {pool, {c \in pool : c.type = "NOTEOFF"}}
  /\ pc' = "sleep"
  /\ UNCHANGED <<list, status, signal, tempo, ctx, locals, outbuf, input, at>>

Return ==
  /\ pc = "sleep"
  /\ pc' = "returned"
  /\ pool' = {} /\ outbuf' = {}
  /\ UNCHANGED <<list, status, signal, tempo, ctx, locals, input, at>>

(***************************************************************************)
(* SIGINT.  Until run() installs the handler it kills the process; the     *)
(* handler sets SIGINT to be ignored and clears running.  A poll in        *)
(* progress is interrupted; one that had not begun yet waits its time.     *)
(***************************************************************************)
Interrupt ==
  /\ pc \notin {"returned", "killed"}
  /\ \/ /\ handler = "default"
        /\ pc' = "killed"
        /\ pool' = {} /\ outbuf' = {}
        /\ UNCHANGED signal
     \/ /\ handler = "installed"
        /\ handler' = "ignored"
        /\ running' = FALSE
        /\ \/ UNCHANGED pc
           \/ pc = "poll" /\ pc' = "check"
        /\ UNCHANGED queue
  /\ UNCHANGED <<list, status, tempo, ctx, locals, input, at>>

-------------------------------------------------------------------------------
(***************************************************************************)
(* The kernel queue is ordered by tick; events of the same tick leave in   *)
(* the order they came.  Nothing is said about note-offs of the same tick. *)
(***************************************************************************)
Before(c, d) ==
  \/ c.tick < d.tick
  \/ /\ c.tick = d.tick
     /\ c.type # "NOTEOFF" /\ d.type # "NOTEOFF"
     /\ c.seq < d.seq

Due(c) ==
  /\ c \in pool
  /\ c.tick <= Horizon
  /\ \A d \in pool : ~ Before(d, c)

Performed(c) == at' = c.pos

DeliverNote(c) ==
  /\ Due(c) /\ c.type = "NOTE"
  /\ pool' = (pool \ {c}) \cup {NoteOff(c)}
  /\ Performed(c)
  /\ UNCHANGED inq

DeliverNoteOff(c) ==
  /\ Due(c) /\ c.type = "NOTEOFF"
  /\ pool' = pool \ {c}
  /\ UNCHANGED <<inq, at>>

DeliverControl(c) ==
  /\ Due(c) /\ c.type = "CONTROL"
  /\ pool' = pool \ {c}
  /\ Performed(c)
  /\ UNCHANGED inq

(* USR0 and TEMPO entries come back to korlessa's own port ...             *)
DeliverToClient(c) ==
  /\ Due(c) /\ c.type \in {"USR0", "TEMPO"}
  /\ pool' = pool \ {c}
  /\ inq' = Append(inq, c)
  /\ Performed(c)

(* ... and so do the USR1s that drain_events has slipped in.               *)
DeliverMarker(c) ==
  /\ Due(c) /\ c.type = "USR1"
  /\ pool' = pool \ {c}
  /\ inq' = Append(inq, c)
  /\ UNCHANGED at

Deliver ==
  /\ \E c \in pool : \/ DeliverNote(c) \/ DeliverNoteOff(c) \/ DeliverControl(c)
                     \/ DeliverToClient(c) \/ DeliverMarker(c)
  /\ UNCHANGED <<list, pc, status, signal, tempo, ctx, locals, outbuf, batch>>

-------------------------------------------------------------------------------
(* What the client does when no call fails.                                *)
Client ==
  \/ Start
  \/ OutputEvent \/ OutputMarkerAndEvent \/ WriteBack \/ Flush \/ Flushed
  \/ InstallHandler \/ Arm \/ Check \/ PollInput \/ PollTimeout
  \/ HandleUsr0 \/ HandleUsr1 \/ HandleTempo \/ BatchDone
  \/ ClearQueue \/ Return

Failure == StartFails \/ OutputFails \/ FlushFails \/ ArmFails \/ PollError \/ PollFails

Step == Client \/ Failure \/ Interrupt \/ Deliver

Spec == Init /\ [][Step]_vars

(***************************************************************************)
(* The process is scheduled and the queue runs.  Nobody has to press       *)
(* Ctrl+C and no call has to fail; a poll that fails does not fail for     *)
(* ever while there is input.                                              *)
(***************************************************************************)
FairSpec == Spec /\ WF_vars(Client) /\ WF_vars(Deliver) /\ SF_vars(PollInput)

-------------------------------------------------------------------------------
(***************************************************************************)
(* Properties.                                                             *)
(***************************************************************************)
ControlPoints == {"start", "fill", "flush", "install", "arm", "check", "poll",
                  "handle", "clear", "sleep", "returned", "killed"}

(* Every variable of run(), drain_events() and loop() has its C type.      *)
TypeOK ==
  /\ list \in Pieces
  /\ pc \in ControlPoints
  /\ status \in {"none", "success", "failure"}
  /\ handler \in {"default", "installed", "ignored"}
  /\ running \in BOOLEAN
  /\ tempo \in Nat
  /\ current \in Positions(list) \cup {NULL}
  /\ entry \in Positions(list) \cup {NULL}
  /\ at \in Positions(list) \cup {NULL}
  /\ {index, offset, i, k, n} \subseteq Nat
  /\ outbuf \subseteq Cell /\ pool \subseteq Cell
  /\ \A c \in outbuf \cup pool :
       c.pos \in Positions(list) \/ (c.pos = NULL /\ c.type = "USR1")
  /\ inq \in Seq(Cell) /\ batch \in Seq(Cell)
  /\ \A j \in 1 .. Len(inq) : inq[j].type = "TEMPO" => inq[j].pos \in Positions(list)
  /\ \A j \in 1 .. Len(batch) : batch[j].type = "TEMPO" => batch[j].pos \in Positions(list)

(* The client is inside loop(), or about to enter it, or handing a batch   *)
(* over to the kernel.                                                     *)
Playing == pc \in {"flush", "install", "arm", "check", "poll", "handle"}

UnhandledMarker ==
  \/ \E c \in Markers : TRUE
  \/ \E j \in 1 .. Len(inq) : inq[j].type = "USR1"
  \/ \E j \in 1 .. Len(batch) : batch[j].type = "USR1"

(***************************************************************************)
(* The chain of refills never breaks: as long as drain_events has not      *)
(* reached the end of the list, some USR1 is on its way or waiting to be   *)
(* handled, so another batch is going to be requested.                     *)
(***************************************************************************)
RefillPending == Playing /\ current # NULL => UnhandledMarker

(***************************************************************************)
(* The pool is never asked to hold more events than                        *)
(* snd_seq_set_client_pool_output has granted: a batch of DrainSize fits   *)
(* into what the events before its USR1 have left free (a cell still       *)
(* taken by a note that has not ended is not counted).                     *)
(***************************************************************************)
PoolSuffices == Cardinality(Outstanding) <= QueueSize

(***************************************************************************)
(* A refill is requested early enough: when the client handles a USR1 it   *)
(* has already written QueueSize - DrainSize events beyond it, unless the  *)
(* list has ended.                                                         *)
(***************************************************************************)
LookAhead ==
  Playing =>
    \A c \in Markers : current = NULL \/ index - c.seq > QueueSize - DrainSize

(***************************************************************************)
(* The events leave in tick order whatever batch or pass of the loop they  *)
(* were written in: the offset carried from batch to batch by drain_events *)
(* never puts an event before one written earlier.                         *)
(***************************************************************************)
InTickOrder ==
  \A c, d \in Outstanding : c.seq < d.seq => c.tick <= d.tick

(***************************************************************************)
(* Two passes through the loop are exactly loop_offset apart, for every    *)
(* event of the loop, also when a batch ends in the middle of it.          *)
(***************************************************************************)
LoopPeriod ==
  \A c, d \in Outstanding :
    /\ c.pos = d.pos /\ c.pos # NULL
    /\ c.seq < d.seq
    /\ ~ \E e \in Outstanding : e.pos = c.pos /\ c.seq < e.seq /\ e.seq < d.seq
    => d.tick = c.tick + list[Len(list)].loop_offset

(***************************************************************************)
(* A tempo change is in force only once it has been performed, however far *)
(* ahead of the music drain_events has written it.                         *)
(***************************************************************************)
TempoNotAhead ==
  ~ Loops(list) =>
    \/ tempo \in {0, DefaultBpm}
    \/ \E p \in 1 .. at : list[p].type = "TEMPO" /\ list[p].bpm = tempo

(***************************************************************************)
(* Once Ctrl+C has been taken, the loop has been told to stop (the comment *)
(* at the call of signal() in run(): catch ctrl+c).                        *)
(***************************************************************************)
CtrlCStops == handler = "ignored" => ~ running

(***************************************************************************)
(* A Ctrl+C taken while loop() runs ends run(), also when it arrives       *)
(* between the test of running and the call of poll.                       *)
(***************************************************************************)
CtrlCReturns ==
  (handler = "ignored" /\ ~ running /\ pc # "arm") ~> (pc = "returned")

(* No entry leads back to an earlier one.                                  *)
HasEnd == \A p \in Positions(list) : ~ list[p].end_loop

(***************************************************************************)
(* A loop keeps playing up to the horizon unless it is stopped.            *)
(***************************************************************************)
LoopGoesOn ==
  []<>(\/ pc \in {"returned", "killed"}
       \/ Outstanding # {} /\ \A c \in Outstanding : c.tick > Horizon)

(***************************************************************************)
(* The scheduler performs what Playback promises.                          *)
(***************************************************************************)
Outcome ==
  CASE pc = "killed" -> "aborted"
    [] pc = "returned" ->
         IF status = "success" /\ handler = "installed" THEN "finished" ELSE "aborted"
    [] OTHER -> "playing"

Promise == INSTANCE Playback WITH outcome <- Outcome

PerformsInOrder == Promise!Spec

(* A piece with an end is performed without a stall: while there is an     *)
(* event to perform the scheduler moves on, and with nothing left it comes *)
(* to an end by itself.  (What a loop does beyond Horizon is not watched;  *)
(* see LoopGoesOn.)                                                        *)
NeverStalls == HasEnd => Promise!Fairness
===============================================================================
