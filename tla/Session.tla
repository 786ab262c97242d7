-------------------------------- MODULE Session --------------------------------
(***************************************************************************)
(* One run of the program: main() of main.c with schedule_and_loop(),      *)
(* prepare_list() and break_cycle() of scheduler.c, and list_apply() of    *)
(* list.c, which frees the event list in the end.                          *)
(*                                                                         *)
(* The subject is ownership.  schedule_and_loop climbs a ladder of ALSA    *)
(* resources and, when a call fails, jumps to the label that is to release *)
(* those it has; prepare_list makes a ring of a list that loops, and every *)
(* later walk over the list has to cope with it.                           *)
(*                                                                         *)
(* Reading the command line and standard input and listing the devices are *)
(* the modules CommandLine, StdinReader and Listing, whose steps are steps *)
(* of main() here.                                                         *)
(***************************************************************************)
EXTENDS EventList, CommandLine, StdinReader, Listing

CONSTANT Pieces            \* the lists the translator may hand over

ASSUME PiecesAssumption == \A l \in Pieces : Playable(l)

VARIABLES
  list,        \* the entries of the event list
  pc,          \* control point
  status,      \* exit status, as far as it is decided
  memory,      \* what main() has to free or close, the event list apart
  next,        \* the next pointers
  live,        \* the entries that are allocated
  walk,        \* list_apply: the entry to visit
  call,        \* schedule_and_loop: the call to make
  label,       \* schedule_and_loop: the FAIL label reached, 0 below FAIL_1
  held         \* ALSA resources acquired and not released

entries == <<list, next, live, walk>>
alsa    == <<call, label, held>>
main    == <<pc, status, memory, entries, alsa>>

parts   == <<cli, input, listing>>

vars == <<parts, main>>

(* Mutant: a failing connect jumps one label too high.                     *)
CallsOneTooHigh ==
  << [gets |-> {"client"}, fail |-> 0], [gets |-> {}, fail |-> 1], [gets |-> {}, fail |-> 1],
     [gets |-> {"port_out"}, fail |-> 1], [gets |-> {"port_in"}, fail |-> 2],
     [gets |-> {"connection"}, fail |-> 4], [gets |-> {"queue"}, fail |-> 4],
     [gets |-> {}, fail |-> 5] >>

(* The calls of schedule_and_loop before run(): what each one acquires and *)
(* the label it jumps to when it fails.                                    *)
Calls == << [gets |-> {"client"},     fail |-> 0],    \* snd_seq_open
            [gets |-> {},             fail |-> 1],    \* snd_seq_client_id
            [gets |-> {},             fail |-> 1],    \* snd_seq_set_client_name
            [gets |-> {"port_out"},   fail |-> 1],    \* groove-out
            [gets |-> {"port_in"},    fail |-> 2],    \* groove-in
            [gets |-> {"connection"}, fail |-> 3],    \* snd_seq_connect_to
            [gets |-> {"queue"},      fail |-> 4],    \* snd_seq_alloc_queue
            [gets |-> {},             fail |-> 5] >>  \* snd_seq_set_client_pool_output

(* What the code at FAIL_1, FAIL_2, ... releases before it falls through.  *)
Releases == << "client", "port_out", "port_in", "connection", "queue" >>

Chain(l) == [p \in Positions(l) |-> IF p < Len(l) THEN p + 1 ELSE NULL]

Init ==
  /\ CliInit /\ ReaderInit /\ ListingInit
  /\ pc = "begin"
  /\ status = "success"
  /\ memory = {}
  /\ list = << >> /\ next = << >> /\ live = {} /\ walk = NULL
  /\ call = 1 /\ label = 0 /\ held = {}

-------------------------------------------------------------------------------
(***************************************************************************)
(* main().                                                                 *)
(***************************************************************************)
ParseArguments ==
  /\ pc = "begin"
  /\ ParseOpt
  /\ UNCHANGED <<input, listing, main>>

ArgumentsRefused ==
  /\ pc = "begin" /\ reading = "refused"
  /\ status' = "failure"
  /\ pc' = "exited"
  /\ UNCHANGED <<parts, memory, entries, alsa>>

ListClients ==
  /\ pc = "begin" /\ reading = "parsed" /\ args.list_clients
  /\ pc' = "list_devices"
  /\ present' \in SUBSET Others
  /\ UNCHANGED <<cli, input, step, name, acquired, rung, client, port, printed, stayed>>
  /\ UNCHANGED <<status, memory, entries, alsa>>

ListClientsGoesOn ==
  /\ pc = "list_devices"
  /\ ListDevices
  /\ UNCHANGED <<cli, input, main>>

ClientsListed ==
  /\ pc = "list_devices" /\ ListDevicesReturns
  /\ status' = IF step = "finish" THEN "success" ELSE "failure"
  /\ pc' = "exited"
  /\ UNCHANGED <<parts, memory, entries, alsa>>

NewParser ==
  /\ pc = "begin" /\ reading = "parsed" /\ ~ args.list_clients
  /\ memory' = {"parser"}
  /\ pc' = IF args.source THEN "parse" ELSE IF args.filepath THEN "fopen" ELSE "read_stdin"
  /\ UNCHANGED <<parts, status, entries, alsa>>

Fopen ==
  /\ pc = "fopen"
  /\ memory' = memory \cup {"file"}
  /\ pc' = "parse"
  /\ UNCHANGED <<parts, status, entries, alsa>>

ReadStdinGoesOn ==
  /\ pc = "read_stdin"
  /\ ReadStdin
  /\ UNCHANGED <<cli, listing, main>>

StdinRead ==
  /\ pc = "read_stdin" /\ reader = "buffer"
  /\ pc' = "parse"
  /\ UNCHANGED <<parts, status, memory, entries, alsa>>

GetInputFails ==
  /\ \/ pc = "fopen"
     \/ pc = "read_stdin" /\ reader = "NULL"
  /\ status' = "failure"
  /\ pc' = "free_parser"
  /\ UNCHANGED <<parts, memory, entries, alsa>>

(* The result is a tree or a message; either has to be freed.  The file is *)
(* closed, or the buffer of read_stdin freed and its locals forgotten.     *)
Parse ==
  /\ pc = "parse"
  /\ memory' = (memory \ {"file"}) \cup {"result"}
  /\ room' = 0 /\ typed' = << >> /\ buffer' = << >> /\ reader' = "freed"
  /\ UNCHANGED buffer_size
  /\ \/ status' = "failure" /\ pc' = "free_result"
     \/ /\ pc' = IF args.print_ast THEN "free_result" ELSE "translate"
        /\ UNCHANGED status
  /\ UNCHANGED <<cli, listing, entries, alsa>>

(* list_apply(list, f) begins.                                             *)
Visit == walk' = 1

Translate ==
  /\ pc = "translate"
  /\ list' \in Pieces
  /\ next' = Chain(list')
  /\ live' = Positions(list')
  /\ IF args.print_events THEN pc' = "free_list" /\ Visit
                          ELSE pc' = "call" /\ UNCHANGED walk
  /\ UNCHANGED <<parts, status, memory, alsa>>

-------------------------------------------------------------------------------
(***************************************************************************)
(* schedule_and_loop().                                                    *)
(***************************************************************************)
Call ==
  /\ pc = "call" /\ call \in DOMAIN Calls
  /\ held' = held \cup Calls[call].gets
  /\ call' = call + 1
  /\ UNCHANGED <<parts, pc, status, memory, entries, label>>

CallFails ==
  /\ pc = "call" /\ call \in DOMAIN Calls
  /\ label' = Calls[call].fail
  /\ status' = "failure"
  /\ pc' = "release"
  /\ UNCHANGED <<parts, memory, entries, call, held>>

PrepareList ==
  /\ pc = "call" /\ call \notin DOMAIN Calls
  /\ next' = Link(list)
  /\ pc' = "run"
  /\ UNCHANGED <<parts, list, status, memory, live, walk, alsa>>

(* Mutant: the ring is left closed.                                        *)
RunUnbroken ==
  /\ pc = "run"
  /\ label' = 5
  /\ pc' = "release"
  /\ UNCHANGED <<parts, status, memory, entries, call, held>>

(* run() plays the list (module Scheduler) and returns.                    *)
Run ==
  /\ pc = "run"
  /\ pc' = "break_cycle"
  /\ Visit
  /\ UNCHANGED <<parts, list, status, memory, next, live, alsa>>

RunFails ==
  /\ pc = "run"
  /\ status' = "failure"
  /\ label' = 5
  /\ pc' = "release"
  /\ UNCHANGED <<parts, memory, entries, call, held>>

(* Mutant: the list is walked by counting.                                 *)
BreakCycleCounting ==
  /\ pc = "break_cycle" /\ walk # NULL
  /\ next' = IF list[walk].end_loop THEN [next EXCEPT ![walk] = NULL] ELSE next
  /\ walk' = walk + 1
  /\ UNCHANGED <<parts, list, pc, status, memory, live, alsa>>

(* Mutant: the wrong flag is looked at.                                    *)
BreakCycleAtStart ==
  /\ pc = "break_cycle" /\ walk # NULL
  /\ next' = IF list[walk].start_loop THEN [next EXCEPT ![walk] = NULL] ELSE next
  /\ walk' = next[walk]
  /\ UNCHANGED <<parts, list, pc, status, memory, live, alsa>>

(* Mutant: nothing is cut.                                                 *)
BreakCycleNever ==
  /\ pc = "break_cycle" /\ walk # NULL
  /\ walk' = next[walk]
  /\ UNCHANGED <<parts, list, pc, status, memory, next, live, alsa>>

(* list_apply(list, break_cycle): the next pointer is read before the      *)
(* entry is changed, so a ring is walked a second time.                    *)
BreakCycle ==
  /\ pc = "break_cycle" /\ walk # NULL
  /\ next' = IF list[walk].end_loop THEN [next EXCEPT ![walk] = NULL] ELSE next
  /\ walk' = next[walk]
  /\ UNCHANGED <<parts, list, pc, status, memory, live, alsa>>

(* Success releases what FAIL_5 would, in the same order.                  *)
CycleBroken ==
  /\ pc = "break_cycle" /\ walk = NULL
  /\ label' = 5
  /\ pc' = "release"
  /\ UNCHANGED <<parts, status, memory, entries, call, held>>

Release ==
  /\ pc = "release" /\ label # 0
  /\ held' = held \ {Releases[label]}
  /\ label' = label - 1
  /\ UNCHANGED <<parts, pc, status, memory, entries, call>>

(* Back in main, which frees the list at SUCCESS_3 as it does at FAIL_3.   *)
Released ==
  /\ pc = "release" /\ label = 0
  /\ pc' = "free_list"
  /\ Visit
  /\ UNCHANGED <<parts, list, status, memory, next, live, alsa>>

-------------------------------------------------------------------------------
(***************************************************************************)
(* The clean-up of main().  list_apply(list, free) reads the next pointer  *)
(* of an entry and frees it; doing so to an entry freed before ends in the *)
(* allocator's abort or in a fault.                                        *)
(***************************************************************************)
FreeEntry ==
  /\ pc = "free_list" /\ walk # NULL
  /\ IF walk \in live
     THEN /\ live' = live \ {walk}
          /\ walk' = next[walk]
          /\ UNCHANGED pc
     ELSE /\ pc' = "crashed"
          /\ UNCHANGED <<live, walk>>
  /\ UNCHANGED <<parts, list, status, memory, next, alsa>>

ListFreed ==
  /\ pc = "free_list" /\ walk = NULL
  /\ pc' = "free_result"
  /\ UNCHANGED <<parts, status, memory, entries, alsa>>

FreeResult ==
  /\ pc = "free_result"
  /\ memory' = memory \ {"result"}
  /\ pc' = "free_parser"
  /\ UNCHANGED <<parts, status, entries, alsa>>

FreeParser ==
  /\ pc = "free_parser"
  /\ memory' = memory \ {"parser"}
  /\ pc' = "exited"
  /\ UNCHANGED <<parts, status, entries, alsa>>

Step ==
  \/ ParseArguments \/ ArgumentsRefused
  \/ ListClients \/ ListClientsGoesOn \/ ClientsListed
  \/ NewParser \/ Fopen \/ ReadStdinGoesOn \/ StdinRead \/ GetInputFails \/ Parse \/ Translate
  \/ Call \/ CallFails \/ PrepareList \/ Run \/ RunFails
  \/ BreakCycle \/ CycleBroken \/ Release \/ Released
  \/ FreeEntry \/ ListFreed \/ FreeResult \/ FreeParser

(* Other clients come and go; only list_devices notices.                   *)
Environment ==
  /\ pc = "list_devices"
  /\ ClientsChange
  /\ UNCHANGED <<cli, input, main>>

Next == Step \/ Environment

Spec == Init /\ [][Next]_vars

(* A sequential program goes on while it can.                              *)
FairSpec == Spec /\ WF_vars(Step)

-------------------------------------------------------------------------------
(***************************************************************************)
(* Properties.                                                             *)
(***************************************************************************)
ControlPoints == {"begin", "list_devices", "fopen", "read_stdin", "parse", "translate", "call",
                  "run", "break_cycle", "release", "free_list", "free_result", "free_parser",
                  "exited", "crashed"}

(* Types; in particular the walks of list_apply never leave the list.      *)
TypeOK ==
  /\ CliTypes /\ ReaderTypes /\ ListingTypes
  /\ list \in Pieces \cup {<< >>}
  /\ pc \in ControlPoints
  /\ status \in {"success", "failure"}
  /\ memory \subseteq {"parser", "result", "file"}
  /\ next \in [Positions(list) -> Positions(list) \cup {NULL}]
  /\ live \subseteq Positions(list)
  /\ walk \in Positions(list) \cup {NULL}
  /\ call \in 1 .. Len(Calls) + 1
  /\ label \in 0 .. Len(Releases)
  /\ held \subseteq {Releases[n] : n \in 1 .. Len(Releases)}

(***************************************************************************)
(* The ladders of goto labels fit: what a label releases has been acquired *)
(* on the path that leads there and not been released yet; and nothing     *)
(* outlives what it depends on: the connection needs groove-out, ports,    *)
(* connection and queue need the client.                                   *)
(***************************************************************************)
ReleasedInOrder ==
  /\ pc = "release" /\ label # 0 => Releases[label] \in held
  /\ step \in {"fail", "finish"} /\ rung # 0 => Frees[rung] \in acquired
  /\ held # {} => "client" \in held
  /\ "connection" \in held => "port_out" \in held

(***************************************************************************)
(* Whatever call has failed and whatever was asked for, main() returns     *)
(* with everything freed and released (its comment: up to this point there *)
(* should be no memory leaks).                                             *)
(***************************************************************************)
NothingLeft ==
  pc = "exited" => memory = {} /\ room = 0 /\ live = {} /\ held = {} /\ acquired = {}

(***************************************************************************)
(* schedule_and_loop connects to the client and the port that the command  *)
(* line has named last, however they were named (-c, --client, --port),    *)
(* and is not reached without a client.                                    *)
(***************************************************************************)
ConnectsWhereTold ==
  pc \in {"call", "run"} => args.client = NamedClient /\ args.port = NamedPort /\ args.client # 0

(***************************************************************************)
(* Once break_cycle has walked the list it is the chain the translator     *)
(* made, whatever ring prepare_list had made of it.                        *)
(***************************************************************************)
ChainRestored ==
  pc \in {"release", "free_list"} /\ status = "success" => next = Chain(list)

(***************************************************************************)
(* No entry is freed twice (list.h of list_apply: it is safe to use free() *)
(* to destroy the whole list).                                             *)
(***************************************************************************)
FreedOnce == pc # "crashed"

(* The same for every run but one: a list that loops and a run() that      *)
(* fails after prepare_list has closed the ring.                           *)
FreedOnceUnlessLoopFails == pc = "crashed" => Loops(list) /\ status = "failure"

(* The program ends: no walk over the list goes round the ring for ever.   *)
Exits == <>(pc \in {"exited", "crashed"})
===============================================================================
