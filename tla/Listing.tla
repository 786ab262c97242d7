-------------------------------- MODULE Listing --------------------------------
(***************************************************************************)
(* list_devices() of listing.c: a client of its own asks the sequencer for *)
(* one client after the other and for the ports of each.  Meanwhile other  *)
(* clients come and go.                                                    *)
(*                                                                         *)
(* What is printed of a port besides its address is left out.              *)
(***************************************************************************)
EXTENDS Integers, Sequences

CONSTANTS
  Others,        \* the numbers of the other clients
  Own,           \* the number the kernel gives to the client that lists
  Players,       \* those of Others that have the name of a korlessa
  Ports          \* the ports of each

ASSUME ClientsAssumption ==
  /\ Others \subseteq Nat /\ Own \in Nat \ Others
  /\ Players \subseteq Others
  /\ Ports \in [Others -> SUBSET Nat]

VARIABLES
  present,       \* the other clients there are
  step,          \* control point; at "fail" and "finish" the resources are given back
  name,          \* the name of the client that lists
  acquired,      \* what it holds
  rung,          \* the FAIL label reached, or 3 at the end of the successful path
  client, port,  \* the numbers in cinfo and pinfo
  printed,       \* the addresses printed, <<client, -1>> for a client
  stayed         \* history: those that have been there since the query began

listing == <<present, step, name, acquired, rung, client, port, printed, stayed>>

ListingInit ==
  /\ present = {}
  /\ step = "open" /\ name = "" /\ acquired = {} /\ rung = 0
  /\ client = -1 /\ port = -1
  /\ printed = << >> /\ stayed = {}

(* A call that acquires something, or fails and jumps to a label.          *)
Acquire(here, what, there) ==
  /\ step = here
  /\ acquired' = acquired \cup what
  /\ step' = there
  /\ UNCHANGED <<present, rung, client, port, printed, stayed>>

Fail(here, label) ==
  /\ step = here
  /\ rung' = label
  /\ step' = "fail"
  /\ UNCHANGED <<present, name, acquired, client, port, printed, stayed>>

Open           == Acquire("open", {"client"}, "set_name") /\ name' = "Client-n"
OpenFails      == Fail("open", 0)
SetName        == Acquire("set_name", {}, "cinfo") /\ name' = "Korlessa"
SetNameFails   == Fail("set_name", 1)
NewClientInfo  == Acquire("cinfo", {"client_info"}, "pinfo") /\ UNCHANGED name
NoClientInfo   == Fail("cinfo", 1)

(* Mutant: FAIL_1 where FAIL_2 is meant.                                   *)
NoPortInfoLow == Fail("pinfo", 1)

NoPortInfo == Fail("pinfo", 2)

NewPortInfo ==
  /\ step = "pinfo"
  /\ acquired' = acquired \cup {"port_info"}
  /\ step' = "clients"
  /\ stayed' = present
  /\ UNCHANGED <<present, name, rung, client, port, printed>>

(* The smallest number above n, if there is one.                           *)
NextIn(S, n) == {x \in S : x > n /\ \A y \in S : y > n => x <= y}

NamedKorlessa == Players \cup (IF name = "Korlessa" THEN {Own} ELSE {})

(* snd_seq_query_next_client for a client that is not passed over.        *)
NextClient ==
  /\ step = "clients"
  /\ \E c \in NextIn(present \cup {Own}, client) \ NamedKorlessa :
       /\ client' = c
       /\ printed' = Append(printed, <<c, -1>>)
  /\ port' = -1
  /\ step' = "ports"
  /\ UNCHANGED <<present, name, acquired, rung, stayed>>

(* Mutant: the rest of the clients is left out after a korlessa.           *)
NextKorlessaIsLast ==
  /\ step = "clients"
  /\ NextIn(present \cup {Own}, client) \cap NamedKorlessa # {}
  /\ rung' = 3
  /\ step' = "finish"
  /\ UNCHANGED <<present, name, acquired, client, port, printed, stayed>>

NextKorlessa ==
  /\ step = "clients"
  /\ \E c \in NextIn(present \cup {Own}, client) \cap NamedKorlessa : client' = c
  /\ UNCHANGED <<present, step, name, acquired, rung, port, printed, stayed>>

NoMoreClients ==
  /\ step = "clients"
  /\ NextIn(present \cup {Own}, client) = {}
  /\ rung' = 3
  /\ step' = "finish"
  /\ UNCHANGED <<present, name, acquired, client, port, printed, stayed>>

(* A client that has gone has no more ports.                               *)
PortsThere == IF client \in present THEN Ports[client] ELSE {}

NextPort ==
  /\ step = "ports"
  /\ \E p \in NextIn(PortsThere, port) :
       /\ port' = p
       /\ printed' = Append(printed, <<client, p>>)
  /\ UNCHANGED <<present, step, name, acquired, rung, client, stayed>>

NoMorePorts ==
  /\ step = "ports"
  /\ NextIn(PortsThere, port) = {}
  /\ step' = "clients"
  /\ UNCHANGED <<present, name, acquired, rung, client, port, printed, stayed>>

(* What the code at FAIL_1 and FAIL_2, and before it on success, frees.    *)
Frees == <<"client", "client_info", "port_info">>

FreeNext ==
  /\ step \in {"fail", "finish"} /\ rung > 0
  /\ acquired' = acquired \ {Frees[rung]}
  /\ rung' = rung - 1
  /\ UNCHANGED <<present, step, name, client, port, printed, stayed>>

ListDevices ==
  \/ Open \/ OpenFails \/ SetName \/ SetNameFails
  \/ NewClientInfo \/ NoClientInfo \/ NewPortInfo \/ NoPortInfo
  \/ NextClient \/ NextKorlessa \/ NoMoreClients \/ NextPort \/ NoMorePorts \/ FreeNext

ListDevicesReturns == step \in {"fail", "finish"} /\ rung = 0

(* The other clients.                                                      *)
ClientComes ==
  /\ \E c \in Others \ present : present' = present \cup {c}
  /\ UNCHANGED <<step, name, acquired, rung, client, port, printed, stayed>>

ClientGoes ==
  /\ \E c \in present : present' = present \ {c} /\ stayed' = stayed \ {c}
  /\ UNCHANGED <<step, name, acquired, rung, client, port, printed>>

ClientsChange == ClientComes \/ ClientGoes

-------------------------------------------------------------------------------
ListingTypes ==
  /\ {present, stayed} \subseteq SUBSET Others
  /\ step \in {"open", "set_name", "cinfo", "pinfo", "clients", "ports", "fail", "finish"}
  /\ name \in {"", "Client-n", "Korlessa"}
  /\ acquired \subseteq {Frees[r] : r \in 1 .. 3}
  /\ rung \in 0 .. 3
  /\ client \in Others \cup {Own, -1} /\ port \in Int
  /\ printed \in Seq((Others \cup {Own}) \X Int)

Below(a, b) == a[1] < b[1] \/ (a[1] = b[1] /\ a[2] < b[2])

(***************************************************************************)
(* Whoever comes and goes meanwhile: every client that is there all the    *)
(* time is listed with all its ports, once and in order, and a korlessa    *)
(* never is.                                                               *)
(***************************************************************************)
ListsWhatStays ==
  LET lines == {printed[k] : k \in 1 .. Len(printed)}
  IN  /\ \A j, k \in 1 .. Len(printed) : j < k => Below(printed[j], printed[k])
      /\ \A a \in lines : a[1] \notin Players \cup {Own}
      /\ step = "finish" =>
           \A c \in stayed \ Players : {<<c, p>> : p \in Ports[c] \cup {-1}} \subseteq lines
===============================================================================
