------------------------------ MODULE CommandLine ------------------------------
(***************************************************************************)
(* The command line: parse_opt() of main.c, which argp calls for every     *)
(* option in turn and once more at the end.  A call that reports an error  *)
(* ends the program.                                                       *)
(***************************************************************************)
EXTENDS Integers, Sequences

CONSTANTS
  ClientNumbers, \* what an option may give as a client; 0 also stands for no number at all
  PortNumbers,   \* what an option may give as a port; 0 also stands for no number at all
  MaxOptions     \* bound: options on the command line

ASSUME OptionsAssumption ==
  ClientNumbers \subseteq Int /\ PortNumbers \subseteq Int /\ MaxOptions \in Nat

VARIABLES
  argv,          \* the options read so far
  args,          \* struct arguments
  reading        \* whether argp still reads, has handed over, or has ended the program

cli == <<argv, args, reading>>

(* Of a string only whether it has been given.                             *)
Arguments == [debug : BOOLEAN, print_ast : BOOLEAN, print_events : BOOLEAN, list_clients : BOOLEAN,
              filepath : BOOLEAN, source : BOOLEAN, address : BOOLEAN,
              client : ClientNumbers \cup {0}, port : PortNumbers \cup {0}]

Flags == {"debug", "print_ast", "print_events", "list_clients", "filepath", "source"}

(* An address is <client>:<port>; the colon may be missing (no_address).   *)
Option == [key : Flags] \cup [key : {"client"}, client : ClientNumbers]
          \cup [key : {"port"}, port : PortNumbers]
          \cup [key : {"connect_to"}, client : ClientNumbers, port : PortNumbers]
          \cup [key : {"no_address"}]

InitArguments ==
  [debug |-> FALSE, print_ast |-> FALSE, print_events |-> FALSE, list_clients |-> FALSE,
   filepath |-> FALSE, source |-> FALSE, address |-> FALSE, client |-> 0, port |-> 0]

CliInit == argv = << >> /\ args = InitArguments /\ reading = "options"

Given(o) ==
  /\ reading = "options" /\ Len(argv) < MaxOptions
  /\ argv' = Append(argv, o)

ParseFlag ==
  \E o \in [key : Flags] :
    /\ Given(o)
    /\ args' = [args EXCEPT ![o.key] = TRUE]
    /\ UNCHANGED reading

ParseClient ==
  \E o \in [key : {"client"}, client : ClientNumbers] :
    /\ Given(o)
    /\ args' = [args EXCEPT !.client = o.client]
    /\ UNCHANGED reading

ParsePort ==
  \E o \in [key : {"port"}, port : PortNumbers] :
    /\ Given(o)
    /\ args' = [args EXCEPT !.port = o.port]
    /\ UNCHANGED reading

(* Mutant: an address leaves a port alone that has been given before.      *)
AddressAfterPort ==
  \E o \in [key : {"connect_to"}, client : ClientNumbers, port : PortNumbers] :
    /\ Given(o)
    /\ args' = [args EXCEPT !.client = o.client, !.port = IF @ = 0 THEN o.port ELSE @, !.address = TRUE]
    /\ UNCHANGED reading

ParseAddress ==
  \E o \in [key : {"connect_to"}, client : ClientNumbers, port : PortNumbers] :
    /\ Given(o)
    /\ args' = [args EXCEPT !.client = o.client, !.port = o.port, !.address = TRUE]
    /\ UNCHANGED reading

(* argp_error                                                              *)
ParseNoAddress ==
  /\ Given([key |-> "no_address"])
  /\ reading' = "refused"
  /\ UNCHANGED args

NoDevice ==
  args.client = 0 /\ ~ args.print_ast /\ ~ args.print_events /\ ~ args.list_clients

ParseEnd ==
  /\ reading = "options"
  /\ reading' = IF NoDevice THEN "refused" ELSE "parsed"
  /\ UNCHANGED <<argv, args>>

ParseOpt ==
  ParseFlag \/ ParseClient \/ ParsePort \/ ParseAddress \/ ParseNoAddress \/ ParseEnd

-------------------------------------------------------------------------------
CliTypes ==
  /\ argv \in Seq(Option) /\ Len(argv) <= MaxOptions
  /\ args \in Arguments
  /\ reading \in {"options", "parsed", "refused"}

(* The client and the port that the last option to name one has named.     *)
ClientKeys == {"client", "connect_to"}
PortKeys   == {"port", "connect_to"}

Naming(keys) == {k \in 1 .. Len(argv) : argv[k].key \in keys}
LastNaming(keys) == argv[CHOOSE k \in Naming(keys) : \A j \in Naming(keys) : j <= k]

NamedClient == IF Naming(ClientKeys) = {} THEN 0 ELSE LastNaming(ClientKeys).client
NamedPort   == IF Naming(PortKeys) = {} THEN 0 ELSE LastNaming(PortKeys).port
===============================================================================
