----------------------------- MODULE SessionProofs -----------------------------
(***************************************************************************)
(* A run of the program, for every set of playable lists, every command    *)
(* line, every input and every set of other clients.  The invariant has a  *)
(* part for each thing main() owns; none needs another's but where a lemma *)
(* says so.  The parts of a run by themselves, read_stdin() and            *)
(* list_devices(), come first.                                             *)
(***************************************************************************)
EXTENDS Session, EventListProofs, SequenceTheorems, WellFoundedInduction, TLAPS

(***************************************************************************)
(* read_stdin() keeps what it reads, for inputs of any length (MaxInput    *)
(* may be any bound) and any BufferStep.                                   *)
(***************************************************************************)
(* The strengthening: the buffer always has one byte more than it is full  *)
(* at, and nothing is held once an allocation has failed.                  *)
RoomFits ==
  /\ reader \in {"getchar", "store", "buffer"} =>
       room = buffer_size + 1 /\ Len(buffer) <= buffer_size
  /\ reader \in {"calloc", "NULL", "freed"} => room = 0
  /\ reader = "calloc" => typed = << >> /\ buffer = << >>

ReaderInv == ReaderTypes /\ RoomFits /\ KeepsInput

LEMMA InitReaderInv == ReaderInit => ReaderInv
BY BufferAssumption DEF ReaderInit, ReaderInv, ReaderTypes, RoomFits, KeepsInput

(* Storing the character in hand makes the buffer what has been typed.     *)
LEMMA StoreReaderInv == ReaderInv /\ Store => ReaderInv'
<1> SUFFICES ASSUME ReaderInv, Store
             PROVE  ReaderInv'
  OBVIOUS
<1> DEFINE c == typed[Len(typed)]
<1>1. /\ typed \in Seq(Chars) /\ buffer \in Seq(Chars) /\ buffer_size \in Nat
      /\ typed # << >> /\ typed = Append(buffer, c)
      /\ room = buffer_size + 1 /\ Len(buffer) <= buffer_size
  BY DEF Store, ReaderInv, ReaderTypes, RoomFits, KeepsInput
<1>2. /\ reader' = "getchar" /\ buffer' = Append(buffer, c)
      /\ UNCHANGED <<typed, buffer_size, room>> /\ Len(buffer) # buffer_size
  BY DEF Store, Full
<1>3. Len(buffer) \in Nat /\ Len(buffer) < buffer_size
  BY <1>1, <1>2
<1>4. buffer' = typed' /\ typed' \in Seq(Chars) /\ Len(typed) = Len(buffer) + 1
  BY <1>1, <1>2
<1>5. Len(buffer') <= buffer_size' /\ Len(buffer') < room'
  BY <1>1, <1>2, <1>3, <1>4
<1> QED BY <1>1, <1>2, <1>4, <1>5 DEF ReaderInv, ReaderTypes, RoomFits, KeepsInput

LEMMA GetCharReaderInv == ReaderInv /\ GetChar => ReaderInv'
<1> SUFFICES ASSUME ReaderInv, NEW c \in Chars, typed' = Append(typed, c),
                    reader = "getchar", reader' = "store",
                    UNCHANGED <<buffer, buffer_size, room>>
             PROVE  ReaderInv'
  BY DEF GetChar
<1>1. typed \in Seq(Chars) /\ buffer = typed
  BY DEF ReaderInv, ReaderTypes, KeepsInput
<1>2. /\ typed' \in Seq(Chars) /\ typed' # << >> /\ typed'[Len(typed')] = c
  BY <1>1
<1> QED BY <1>1, <1>2 DEF ReaderInv, ReaderTypes, RoomFits, KeepsInput

LEMMA ReadStdinReaderInv == ReaderInv /\ [ReadStdin]_input => ReaderInv'
<1> SUFFICES ASSUME ReaderInv, [ReadStdin]_input
             PROVE  ReaderInv'
  OBVIOUS
<1>1. CASE Allocate
  BY <1>1 DEF Allocate, ReaderInv, ReaderTypes, RoomFits, KeepsInput
<1>2. CASE AllocateFails
  BY <1>2 DEF AllocateFails, ReaderInv, ReaderTypes, RoomFits, KeepsInput
<1>3. CASE GetChar
  BY <1>3, GetCharReaderInv
<1>4. CASE Grow
  <2>1. Len(buffer) \in Nat /\ BufferStep \in Nat
    BY BufferAssumption DEF ReaderInv, ReaderTypes
  <2> QED BY <1>4, <2>1 DEF Grow, Full, Room, ReaderInv, ReaderTypes, RoomFits, KeepsInput
<1>5. CASE GrowFails
  BY <1>5, BufferAssumption DEF GrowFails, ReaderInv, ReaderTypes, RoomFits, KeepsInput
<1>6. CASE Store
  BY <1>6, StoreReaderInv
<1>7. CASE Terminate
  BY <1>7 DEF Terminate, ReaderInv, ReaderTypes, RoomFits, KeepsInput
<1>8. CASE UNCHANGED input
  BY <1>8 DEF input, ReaderInv, ReaderTypes, RoomFits, KeepsInput
<1> QED BY <1>1, <1>2, <1>3, <1>4, <1>5, <1>6, <1>7, <1>8 DEF ReadStdin

(***************************************************************************)
(* read_stdin() returns what was typed and never writes outside of what it *)
(* has allocated, however long the input is and wherever it ends.          *)
(***************************************************************************)
THEOREM InputKept == ReaderSpec => []KeepsInput
<1>1. ReaderInv => KeepsInput
  BY DEF ReaderInv
<1> QED BY <1>1, InitReaderInv, ReadStdinReaderInv, PTL DEF ReaderSpec

----------------------------------------------------------------------------
(***************************************************************************)
(* list_devices() for any set of clients with any ports.                   *)
(***************************************************************************)
(* If there is a number above n there is a next one: the query of the next *)
(* client or port fails only when there is none.                           *)
LEMMA NextExists ==
  ASSUME NEW S \in SUBSET Nat, NEW n \in Int, NEW x \in S, x > n
  PROVE  NextIn(S, n) # {}
<1> DEFINE T == {y \in S : y > n}
<1>1. T \subseteq Nat /\ T # {}
  OBVIOUS
<1>2. \E y \in T : \A z \in T : ~ (<<z, y>> \in OpToRel(<, Nat))
  <2> HIDE DEF T
  <2> QED BY <1>1, NatLessThanWellFounded, WFMin
<1>3. PICK y \in T : \A z \in T : ~ (z < y)
  BY <1>1, <1>2 DEF OpToRel
<1>4. \A z \in S : z > n => y <= z
  BY <1>1, <1>3
<1> QED BY <1>3, <1>4 DEF NextIn

(* What is acquired when the label r has been reached.                     *)
AcquiredAt(r) ==
  (IF r >= 1 THEN {"client"} ELSE {}) \cup (IF r >= 2 THEN {"client_info"} ELSE {})
  \cup (IF r >= 3 THEN {"port_info"} ELSE {})

LEMMA FreesFacts ==
  /\ Frees[1] = "client" /\ Frees[2] = "client_info" /\ Frees[3] = "port_info"
  /\ AcquiredAt(0) = {}
  /\ AcquiredAt(1) = {"client"}
  /\ AcquiredAt(2) = {"client", "client_info"}
  /\ AcquiredAt(3) = {"client", "client_info", "port_info"}
BY DEF Frees, AcquiredAt

(* The ladder: what is held at each step of the climb and of the descent.  *)
LadderInv ==
  /\ rung \in 0 .. 3
  /\ step = "open" => acquired = AcquiredAt(0)
  /\ step \in {"set_name", "cinfo"} => acquired = AcquiredAt(1)
  /\ step = "pinfo" => acquired = AcquiredAt(2)
  /\ step \in {"clients", "ports"} => acquired = AcquiredAt(3)
  /\ step \in {"fail", "finish"} => acquired = AcquiredAt(rung)

LEMMA InitLadderInv == ListingInit => LadderInv
<1> SUFFICES ASSUME ListingInit
             PROVE  LadderInv
  OBVIOUS
<1>1. step = "open" /\ acquired = {} /\ rung = 0
  BY DEF ListingInit
<1> QED BY <1>1, FreesFacts DEF LadderInv

LEMMA StepLadderInv == LadderInv /\ [ListDevices \/ ClientsChange]_listing => LadderInv'
<1> SUFFICES ASSUME LadderInv, [ListDevices \/ ClientsChange]_listing
             PROVE  LadderInv'
  OBVIOUS
<1> USE FreesFacts DEF LadderInv
<1>1. CASE Open
  BY <1>1 DEF Open, Acquire
<1>2. CASE SetName \/ NewClientInfo
  BY <1>2 DEF SetName, NewClientInfo, Acquire
<1>3. CASE OpenFails \/ SetNameFails \/ NoClientInfo \/ NoPortInfo
  BY <1>3 DEF OpenFails, SetNameFails, NoClientInfo, NoPortInfo, Fail
<1>4. CASE NewPortInfo
  BY <1>4 DEF NewPortInfo
<1>5. CASE NextClient \/ NextKorlessa \/ NoMoreClients \/ NextPort \/ NoMorePorts
  BY <1>5 DEF NextClient, NextKorlessa, NoMoreClients, NextPort, NoMorePorts
<1>6. CASE FreeNext
  <2>1. rung \in {1, 2, 3} /\ rung' = rung - 1 /\ UNCHANGED step
        /\ acquired = AcquiredAt(rung) /\ acquired' = acquired \ {Frees[rung]}
    BY <1>6 DEF FreeNext
  <2>2. acquired' = AcquiredAt(rung')
    BY <2>1
  <2> QED BY <1>6, <2>1, <2>2 DEF FreeNext
<1>7. CASE ClientsChange
  BY <1>7 DEF ClientsChange, ClientComes, ClientGoes
<1>8. CASE UNCHANGED listing
  BY <1>8 DEF listing
<1> QED BY <1>1, <1>2, <1>3, <1>4, <1>5, <1>6, <1>7, <1>8 DEF ListDevices

-------------------------------------------------------------------------------
(* What has been printed is in order and ends where the query is; no line  *)
(* is a korlessa's.                                                        *)
Listed(c, p) == \E k \in 1 .. Len(printed) : printed[k] = <<c, p>>

Sorted == \A j, k \in 1 .. Len(printed) : j < k => Below(printed[j], printed[k])

UpToHere ==
  \A k \in 1 .. Len(printed) :
    printed[k][1] < client \/ (printed[k][1] = client /\ printed[k][2] <= port)

NoKorlessa ==
  /\ \A k \in 1 .. Len(printed) : printed[k][1] \notin Players \cup {Own}
  /\ step = "ports" => client \notin Players \cup {Own}

(* A client that stays has been listed if the query has passed it, and so  *)
(* have the ports before the one the query has come to.                    *)
Passed(c) == c < client \/ (c = client /\ step # "ports") \/ step = "finish"

Complete ==
  /\ step \in {"clients", "ports", "finish"} =>
       \A c \in stayed \ Players : Passed(c) => \A p \in Ports[c] \cup {-1} : Listed(c, p)
  /\ step = "ports" /\ client \in stayed =>
       \A p \in Ports[client] \cup {-1} : p <= port => Listed(client, p)

Query ==
  /\ present \subseteq Others /\ stayed \subseteq present
  /\ client \in Others \cup {Own, -1} /\ port \in Int /\ port >= -1
  /\ printed \in Seq((Others \cup {Own}) \X Int)
  /\ step \in {"cinfo", "pinfo", "clients", "ports"} => name = "Korlessa"
  /\ step \in {"open", "set_name", "cinfo", "pinfo"} =>
       client = -1 /\ printed = << >> /\ stayed = {}

ListingInv == LadderInv /\ Query /\ Sorted /\ UpToHere /\ NoKorlessa /\ Complete

(* A line appended after the place the query was at.                       *)
LEMMA AppendLine ==
  ASSUME Query, Sorted, UpToHere, NEW c \in Others \cup {Own}, NEW p \in Int,
         client < c \/ (client = c /\ port < p),
         client' = c, port' = p, printed' = Append(printed, <<c, p>>)
  PROVE  /\ printed' \in Seq((Others \cup {Own}) \X Int)
         /\ Sorted' /\ UpToHere'
         /\ Listed(c, p)'
         /\ \A a, b : Listed(a, b) => Listed(a, b)'
         /\ \A k \in 1 .. Len(printed') :
              \/ k \in 1 .. Len(printed) /\ printed'[k] = printed[k]
              \/ printed'[k][1] = c
<1> DEFINE n == Len(printed)
<1>1. /\ n \in Nat /\ Len(printed') = n + 1
      /\ \A k \in 1 .. n : printed'[k] = printed[k]
      /\ printed'[n + 1] = <<c, p>>
      /\ printed' \in Seq((Others \cup {Own}) \X Int)
  BY DEF Query
<1>2. \A k \in 1 .. n : printed[k][1] \in Int /\ printed[k][2] \in Int
  <2> SUFFICES ASSUME NEW k \in 1 .. n
               PROVE  printed[k][1] \in Int /\ printed[k][2] \in Int
    OBVIOUS
  <2>1. printed[k] \in (Others \cup {Own}) \X Int
    BY <1>1 DEF Query
  <2>2. printed[k][1] \in Others \cup {Own} /\ printed[k][2] \in Int
    BY <2>1
  <2>3. \A x \in Others \cup {Own} : x \in Int
    BY ClientsAssumption
  <2> QED BY <2>2, <2>3
<1>3. client \in Int /\ c \in Int /\ port \in Int
  BY ClientsAssumption DEF Query
<1>4. \A k \in 1 .. n : Below(printed[k], <<c, p>>)
  BY <1>2, <1>3 DEF UpToHere, Below
<1> HIDE DEF n
<1>5. Sorted'
  <2> SUFFICES ASSUME NEW j \in 1 .. (n + 1), NEW k \in 1 .. (n + 1), j < k
               PROVE  Below(printed'[j], printed'[k])
    BY <1>1 DEF Sorted, Below, n
  <2>1. CASE k \in 1 .. n
    <3>1. j \in 1 .. n
      BY <1>1, <2>1
    <3> QED BY <1>1, <2>1, <3>1 DEF Sorted, n
  <2>2. CASE k = n + 1
    <3>1. j \in 1 .. n
      BY <1>1, <2>2
    <3> QED BY <1>1, <1>4, <2>2, <3>1
  <2> QED BY <1>1, <2>1, <2>2
<1>6. UpToHere'
  <2> SUFFICES ASSUME NEW k \in 1 .. (n + 1)
               PROVE  printed'[k][1] < c \/ (printed'[k][1] = c /\ printed'[k][2] <= p)
    BY <1>1 DEF UpToHere
  <2>1. CASE k \in 1 .. n
    BY <1>1, <1>2, <1>4, <2>1 DEF Below
  <2>2. CASE k = n + 1
    BY <1>1, <2>2
  <2> QED BY <1>1, <2>1, <2>2
<1>7. Listed(c, p)'
  <2>1. n + 1 \in 1 .. Len(printed') /\ printed'[n + 1] = <<c, p>>
    BY <1>1
  <2> QED BY <2>1 DEF Listed
<1>8. ASSUME NEW a, NEW b, Listed(a, b)
      PROVE  Listed(a, b)'
  <2>1. PICK k \in 1 .. n : printed[k] = <<a, b>>
    BY <1>8 DEF Listed, n
  <2>2. k \in 1 .. Len(printed') /\ printed'[k] = <<a, b>>
    BY <1>1, <2>1
  <2> QED BY <2>2 DEF Listed
<1>9. \A k \in 1 .. Len(printed') :
        \/ k \in 1 .. Len(printed) /\ printed'[k] = printed[k]
        \/ printed'[k][1] = c
  BY <1>1 DEF n
<1> QED BY <1>1, <1>5, <1>6, <1>7, <1>8, <1>9

LEMMA InitListingInv == ListingInit => ListingInv
<1> SUFFICES ASSUME ListingInit
             PROVE  ListingInv
  OBVIOUS
<1>1. /\ step = "open" /\ client = -1 /\ port = -1
      /\ present = {} /\ stayed = {} /\ printed = << >>
  BY DEF ListingInit
<1> QED BY <1>1, InitLadderInv
        DEF ListingInv, Query, Sorted, UpToHere, NoKorlessa, Complete

LEMMA NextClientKeeps == ListingInv /\ NextClient => (Query /\ Sorted /\ UpToHere /\ NoKorlessa /\ Complete)'
<1> SUFFICES ASSUME ListingInv, NextClient
             PROVE  (Query /\ Sorted /\ UpToHere /\ NoKorlessa /\ Complete)'
  OBVIOUS
<1>1. PICK c \in NextIn(present \cup {Own}, client) \ NamedKorlessa :
        client' = c /\ printed' = Append(printed, <<c, -1>>)
  BY DEF NextClient
<1>2. /\ step = "clients" /\ step' = "ports" /\ port' = -1
      /\ UNCHANGED <<present, name, stayed>>
  BY DEF NextClient
<1>3. name = "Korlessa" /\ present \subseteq Others /\ stayed \subseteq present
  BY <1>2 DEF ListingInv, Query
<1>4. /\ c \in Others \cup {Own} /\ client < c
      /\ \A y \in present : y > client => c <= y
      /\ c \notin Players \cup {Own}
  BY <1>1, <1>3 DEF NextIn, NamedKorlessa
<1>5. /\ printed' \in Seq((Others \cup {Own}) \X Int)
      /\ Sorted' /\ UpToHere' /\ Listed(c, -1)'
      /\ \A a, b : Listed(a, b) => Listed(a, b)'
      /\ \A k \in 1 .. Len(printed') :
           \/ k \in 1 .. Len(printed) /\ printed'[k] = printed[k]
           \/ printed'[k][1] = c
  BY <1>1, <1>2, <1>4, AppendLine DEF ListingInv
<1>6. Query'
  BY <1>1, <1>2, <1>3, <1>4, <1>5 DEF ListingInv, Query
<1>7. NoKorlessa'
  BY <1>1, <1>2, <1>4, <1>5 DEF ListingInv, NoKorlessa
<1>8. \A x \in Others \cup {Own, -1} : x \in Int
  BY ClientsAssumption
<1>9. \A q \in Others : \A p \in Ports[q] \cup {-1} : p \in Int /\ (p <= -1 => p = -1)
  BY ClientsAssumption
<1>10. ASSUME NEW q \in stayed \ Players, Passed(q)', NEW p \in Ports[q] \cup {-1}
       PROVE  Listed(q, p)'
  <2>1. q < c
    BY <1>1, <1>2, <1>10 DEF Passed
  <2>2. q \in Int /\ client \in Int /\ q \in present
    BY <1>3, <1>8 DEF ListingInv, Query
  <2>3. q <= client
    BY <1>4, <1>8, <2>1, <2>2
  <2>4. Passed(q)
    BY <1>2, <2>2, <2>3 DEF Passed
  <2>5. Listed(q, p)
    BY <1>2, <1>10, <2>4 DEF ListingInv, Complete
  <2> QED BY <1>5, <2>5
<1>11. ASSUME c \in stayed, NEW p \in Ports[c] \cup {-1}, p <= -1
       PROVE  Listed(c, p)'
  BY <1>3, <1>5, <1>9, <1>11
<1>12. Complete'
  BY <1>1, <1>2, <1>10, <1>11 DEF Complete
<1> QED BY <1>5, <1>6, <1>7, <1>12

LEMMA NextPortKeeps == ListingInv /\ NextPort => (Query /\ Sorted /\ UpToHere /\ NoKorlessa /\ Complete)'
<1> SUFFICES ASSUME ListingInv, NextPort
             PROVE  (Query /\ Sorted /\ UpToHere /\ NoKorlessa /\ Complete)'
  OBVIOUS
<1>1. PICK p \in NextIn(PortsThere, port) : port' = p /\ printed' = Append(printed, <<client, p>>)
  BY DEF NextPort
<1>2. step = "ports" /\ UNCHANGED <<present, step, name, stayed, client>>
  BY DEF NextPort
<1>3. /\ present \subseteq Others /\ stayed \subseteq present /\ port \in Int /\ port >= -1
      /\ client \in Others \cup {Own, -1} /\ client \notin Players \cup {Own}
  BY <1>2 DEF ListingInv, Query, NoKorlessa
<1>4. /\ p \in PortsThere /\ p > port /\ \A y \in PortsThere : y > port => p <= y
      /\ client \in present
  BY <1>1 DEF NextIn, PortsThere
<1>5. client \in Others /\ PortsThere = Ports[client] /\ p \in Int
      /\ \A q \in Ports[client] \cup {-1} : q \in Int
  BY <1>3, <1>4, ClientsAssumption DEF PortsThere
<1>6. /\ printed' \in Seq((Others \cup {Own}) \X Int)
      /\ Sorted' /\ UpToHere' /\ Listed(client, p)'
      /\ \A a, b : Listed(a, b) => Listed(a, b)'
      /\ \A k \in 1 .. Len(printed') :
           \/ k \in 1 .. Len(printed) /\ printed'[k] = printed[k]
           \/ printed'[k][1] = client
  BY <1>1, <1>2, <1>3, <1>4, <1>5, AppendLine DEF ListingInv
<1>7. Query'
  BY <1>1, <1>2, <1>3, <1>4, <1>5, <1>6 DEF ListingInv, Query
<1>8. NoKorlessa'
  BY <1>2, <1>3, <1>6 DEF ListingInv, NoKorlessa
<1>9. ASSUME NEW c \in stayed \ Players, Passed(c)', NEW q \in Ports[c] \cup {-1}
      PROVE  Listed(c, q)'
  <2>1. Passed(c)
    BY <1>2, <1>9 DEF Passed
  <2> QED BY <1>2, <1>6, <1>9, <2>1 DEF ListingInv, Complete
<1>10. ASSUME client \in stayed, NEW q \in Ports[client] \cup {-1}, q <= p
       PROVE  Listed(client, q)'
  <2>1. CASE q <= port
    BY <1>2, <1>6, <1>10, <2>1 DEF ListingInv, Complete
  <2>2. CASE q > port
    <3>1. q \in PortsThere
      BY <1>3, <1>5, <1>10, <2>2
    <3>2. q = p
      BY <1>4, <1>5, <1>10, <2>2, <3>1
    <3> QED BY <1>6, <3>2
  <2> QED BY <1>3, <1>5, <2>1, <2>2
<1>11. Complete'
  BY <1>1, <1>2, <1>9, <1>10 DEF Complete
<1> QED BY <1>6, <1>7, <1>8, <1>11

(* The steps that print nothing.                                           *)
LEMMA NextKorlessaKeeps == ListingInv /\ NextKorlessa => (Query /\ Sorted /\ UpToHere /\ NoKorlessa /\ Complete)'
<1> SUFFICES ASSUME ListingInv, NextKorlessa
             PROVE  (Query /\ Sorted /\ UpToHere /\ NoKorlessa /\ Complete)'
  OBVIOUS
<1>1. PICK c \in NextIn(present \cup {Own}, client) \cap NamedKorlessa : client' = c
  BY DEF NextKorlessa
<1>2. step = "clients" /\ UNCHANGED <<present, step, name, printed, stayed, port>>
  BY DEF NextKorlessa
<1>3. name = "Korlessa" /\ present \subseteq Others /\ stayed \subseteq present
  BY <1>2 DEF ListingInv, Query
<1>4. /\ c \in Others \cup {Own} /\ client < c
      /\ \A y \in present : y > client => c <= y
      /\ c \in Players \cup {Own}
  BY <1>1, <1>3 DEF NextIn, NamedKorlessa
<1>5. \A x \in Others \cup {Own, -1} : x \in Int
  BY ClientsAssumption
<1>6. Query'
  BY <1>1, <1>2, <1>4 DEF ListingInv, Query
<1>7. Sorted' /\ NoKorlessa'
  BY <1>2 DEF ListingInv, Sorted, Below, NoKorlessa
<1>8. UpToHere'
  <2> SUFFICES ASSUME NEW k \in 1 .. Len(printed)
               PROVE  printed[k][1] < c
    BY <1>1, <1>2 DEF UpToHere
  <2>1. printed[k] \in (Others \cup {Own}) \X Int
    BY DEF ListingInv, Query
  <2>2. printed[k][1] \in Others \cup {Own}
    BY <2>1
  <2>3. client \in Int
    BY <1>5 DEF ListingInv, Query
  <2>4. printed[k][1] < client \/ printed[k][1] = client
    BY DEF ListingInv, UpToHere
  <2>5. printed[k][1] \in Int /\ c \in Int
    BY <1>4, <1>5, <2>2
  <2> QED BY <1>4, <2>3, <2>4, <2>5
<1>9. ASSUME NEW q \in stayed \ Players, Passed(q)', NEW p \in Ports[q] \cup {-1}
      PROVE  Listed(q, p)'
  <2>1. q \in present /\ q # Own /\ q # c /\ q \in Int /\ client \in Int /\ c \in Int
    BY <1>3, <1>4, <1>5, ClientsAssumption DEF ListingInv, Query
  <2>2. q < c
    BY <1>1, <1>2, <1>9, <2>1 DEF Passed
  <2>3. Passed(q)
    BY <1>2, <1>4, <2>1, <2>2 DEF Passed
  <2>4. Listed(q, p)
    BY <1>2, <1>9, <2>3 DEF ListingInv, Complete
  <2> QED BY <1>2, <2>4 DEF Listed
<1>10. Complete'
  BY <1>2, <1>9 DEF Complete
<1> QED BY <1>6, <1>7, <1>8, <1>10

(* The query of the next client or port fails: there is none.              *)
LEMMA NoMoreKeeps ==
  ListingInv /\ (NoMoreClients \/ NoMorePorts) => (Query /\ Sorted /\ UpToHere /\ NoKorlessa /\ Complete)'
<1> SUFFICES ASSUME ListingInv, NoMoreClients \/ NoMorePorts
             PROVE  (Query /\ Sorted /\ UpToHere /\ NoKorlessa /\ Complete)'
  OBVIOUS
<1>1. UNCHANGED <<present, name, client, port, printed, stayed>>
  BY DEF NoMoreClients, NoMorePorts
<1>2. step \in {"clients", "ports"} /\ step' \in {"finish", "clients"}
      /\ name = "Korlessa" /\ present \subseteq Others /\ stayed \subseteq present
  BY DEF NoMoreClients, NoMorePorts, ListingInv, Query
<1>3. Query' /\ Sorted' /\ UpToHere' /\ NoKorlessa'
  BY <1>1, <1>2 DEF ListingInv, Query, Sorted, Below, UpToHere, NoKorlessa
<1>4. /\ client \in Int /\ port \in Int /\ port >= -1
      /\ \A q \in Others : q \in Nat /\ Ports[q] \in SUBSET Nat
  BY ClientsAssumption DEF ListingInv, Query
<1>5. ASSUME NEW q \in stayed \ Players, Passed(q)', NEW p \in Ports[q] \cup {-1}
      PROVE  Listed(q, p)'
  <2> SUFFICES Listed(q, p)
    BY <1>1 DEF Listed
  <2>1. CASE NoMoreClients
    <3>1. present \cup {Own} \in SUBSET Nat /\ q \in present \cup {Own}
      BY <1>2, ClientsAssumption
    <3>2. ~ (q > client)
      BY <1>4, <2>1, <3>1, NextExists DEF NoMoreClients
    <3>3. Passed(q)
      BY <1>2, <1>4, <2>1, <3>2 DEF Passed, NoMoreClients
    <3> QED BY <1>2, <3>3 DEF ListingInv, Complete
  <2>2. CASE NoMorePorts
    <3>1. CASE q = client
      <4>1. client \in present /\ PortsThere = Ports[client] /\ PortsThere \in SUBSET Nat
        BY <1>2, <1>4, <3>1 DEF PortsThere
      <4>2. p \in Int /\ (p \in PortsThere \/ p = -1)
        BY <3>1, <4>1
      <4>3. ~ (p > port)
        BY <1>4, <2>2, <4>1, <4>2, NextExists DEF NoMorePorts
      <4>4. p <= port
        BY <1>4, <4>2, <4>3
      <4> QED BY <2>2, <3>1, <4>4 DEF NoMorePorts, ListingInv, Complete
    <3>2. CASE q # client
      <4>1. Passed(q)
        BY <1>1, <1>5, <2>2, <3>2 DEF Passed, NoMorePorts
      <4> QED BY <1>2, <4>1 DEF ListingInv, Complete
    <3> QED BY <3>1, <3>2
  <2> QED BY <2>1, <2>2
<1>6. Complete'
  BY <1>1, <1>2, <1>5 DEF Complete
<1> QED BY <1>3, <1>6

LEMMA StepListingInv == ListingInv /\ [ListDevices \/ ClientsChange]_listing => ListingInv'
<1> SUFFICES ASSUME ListingInv, [ListDevices \/ ClientsChange]_listing
             PROVE  (Query /\ Sorted /\ UpToHere /\ NoKorlessa /\ Complete)'
  BY StepLadderInv DEF ListingInv
<1>1. CASE Open \/ SetName \/ NewClientInfo
  BY <1>1 DEF Open, SetName, NewClientInfo, Acquire,
              ListingInv, Query, Sorted, Below, UpToHere, NoKorlessa, Complete
<1>2. CASE OpenFails \/ SetNameFails \/ NoClientInfo \/ NoPortInfo
  BY <1>2 DEF OpenFails, SetNameFails, NoClientInfo, NoPortInfo, Fail,
              ListingInv, Query, Sorted, Below, UpToHere, NoKorlessa, Complete
<1>3. CASE NewPortInfo
  <2>1. /\ step = "pinfo" /\ step' = "clients" /\ stayed' = present
        /\ UNCHANGED <<present, name, client, port, printed>>
    BY <1>3 DEF NewPortInfo
  <2>2. client = -1 /\ printed = << >>
    BY <2>1 DEF ListingInv, Query
  <2>3. Query' /\ Sorted' /\ UpToHere' /\ NoKorlessa'
    BY <2>1, <2>2 DEF ListingInv, Query, Sorted, UpToHere, NoKorlessa
  <2>4. \A c \in Others : ~ (c < -1) /\ c # -1
    BY ClientsAssumption
  <2>5. \A c \in present : ~ Passed(c)'
    BY <2>1, <2>2, <2>4 DEF Passed, ListingInv, Query
  <2>6. Complete'
    BY <2>1, <2>5 DEF Complete
  <2> QED BY <2>3, <2>6
<1>4. CASE FreeNext \/ UNCHANGED listing
  <2>1. UNCHANGED <<present, step, name, client, port, printed, stayed>>
    BY <1>4 DEF FreeNext, listing
  <2>2. Query' /\ Sorted' /\ UpToHere' /\ NoKorlessa'
    BY <2>1 DEF ListingInv, Query, Sorted, Below, UpToHere, NoKorlessa
  <2>3. Complete'
    BY <2>1 DEF ListingInv, Complete, Passed, Listed
  <2> QED BY <2>2, <2>3
<1>5. CASE ClientsChange
  <2>1. /\ present' \subseteq Others /\ stayed' \subseteq present' /\ stayed' \subseteq stayed
        /\ UNCHANGED <<step, name, client, port, printed>>
    BY <1>5 DEF ClientsChange, ClientComes, ClientGoes, ListingInv, Query
  <2>2. Query' /\ Sorted' /\ UpToHere' /\ NoKorlessa'
    BY <2>1 DEF ListingInv, Query, Sorted, Below, UpToHere, NoKorlessa
  <2>3. Complete'
    BY <2>1 DEF ListingInv, Complete, Passed, Listed
  <2> QED BY <2>2, <2>3
<1> QED BY <1>1, <1>2, <1>3, <1>4, <1>5, NextClientKeeps, NextPortKeeps, NextKorlessaKeeps,
           NoMoreKeeps DEF ListDevices

(* The invariant says of what is printed what ListsWhatStays does.         *)
LEMMA ListingInvLists == ListingInv => ListsWhatStays
<1> SUFFICES ASSUME ListingInv
             PROVE  ListsWhatStays
  OBVIOUS
<1> DEFINE lines == {printed[k] : k \in 1 .. Len(printed)}
<1>1. \A j, k \in 1 .. Len(printed) : j < k => Below(printed[j], printed[k])
  BY DEF ListingInv, Sorted
<1>2. \A a \in lines : a[1] \notin Players \cup {Own}
  BY DEF ListingInv, NoKorlessa
<1>3. ASSUME step = "finish", NEW c \in stayed \ Players
      PROVE  {<<c, p>> : p \in Ports[c] \cup {-1}} \subseteq lines
  <2>1. \A p \in Ports[c] \cup {-1} : Listed(c, p)
    BY <1>3 DEF ListingInv, Complete, Passed
  <2> QED BY <2>1 DEF Listed
<1> QED BY <1>1, <1>2, <1>3 DEF ListsWhatStays

-------------------------------------------------------------------------------

(***************************************************************************)
(* Standard input and the listing: the steps of main() between those of    *)
(* StdinReader and Listing leave them as they are found.                   *)
(***************************************************************************)
PartsInv ==
  /\ ReaderInv /\ ListingInv
  /\ pc \notin {"list_devices", "exited"} => step = "open"
  /\ pc = "exited" => acquired = {}
  /\ pc \notin {"read_stdin", "parse"} => room = 0

(* The steps that touch neither.                                           *)
Elsewhere ==
  \/ ParseArguments \/ ArgumentsRefused \/ NewParser \/ Fopen \/ StdinRead \/ GetInputFails
  \/ Translate \/ Call \/ CallFails \/ PrepareList \/ Run \/ RunFails
  \/ BreakCycle \/ CycleBroken \/ Release \/ Released
  \/ FreeEntry \/ ListFreed \/ FreeResult \/ FreeParser

LEMMA InitPartsInv == Init => PartsInv
BY InitReaderInv, InitListingInv, FreesFacts
   DEF Init, PartsInv, ReaderInv, RoomFits, ListingInv, LadderInv, ListingInit, ReaderInit

LEMMA SameListing ==
  ASSUME ListingInv, UNCHANGED listing
  PROVE  ListingInv'
BY StepListingInv

LEMMA SameInput ==
  ASSUME ReaderInv, UNCHANGED input
  PROVE  ReaderInv'
BY ReadStdinReaderInv

LEMMA StepPartsInv == PartsInv /\ [Next]_vars => PartsInv'
<1> SUFFICES ASSUME PartsInv, [Next]_vars
             PROVE  PartsInv'
  OBVIOUS
<1> USE DEF PartsInv
<1>1. CASE ListClients
  <2>1. step = "open" /\ room = 0
    BY <1>1 DEF ListClients
  <2>2. /\ present' \in SUBSET Others
        /\ UNCHANGED <<input, step, name, acquired, rung, client, port, printed, stayed, room>>
        /\ pc' = "list_devices"
    BY <1>1 DEF ListClients, input
  <2>3. LadderInv'
    BY <2>2 DEF ListingInv, LadderInv
  <2>4. (Query /\ Sorted /\ UpToHere /\ NoKorlessa)'
    BY <2>1, <2>2 DEF ListingInv, Query, Sorted, Below, UpToHere, NoKorlessa
  <2>5. Complete'
    BY <2>1, <2>2 DEF Complete
  <2> QED BY <2>1, <2>2, <2>3, <2>4, <2>5, SameInput DEF ListingInv
<1>2. CASE ListClientsGoesOn \/ Environment
  <2>1. /\ pc = "list_devices" /\ UNCHANGED <<input, pc, room>>
        /\ ListDevices \/ ClientsChange
    BY <1>2 DEF ListClientsGoesOn, Environment, main, input
  <2> QED BY <2>1, StepListingInv, SameInput
<1>3. CASE ClientsListed
  <2>1. /\ pc = "list_devices" /\ pc' = "exited" /\ UNCHANGED <<input, listing, room, acquired>>
        /\ step \in {"fail", "finish"} /\ rung = 0
    BY <1>3 DEF ClientsListed, ListDevicesReturns, parts, input, listing
  <2>2. acquired = {}
    BY <2>1, FreesFacts DEF ListingInv, LadderInv
  <2> QED BY <2>1, <2>2, SameListing, SameInput
<1>4. CASE ReadStdinGoesOn
  <2>1. pc = "read_stdin" /\ UNCHANGED <<pc, listing, step, acquired>> /\ ReadStdin
    BY <1>4 DEF ReadStdinGoesOn, main, listing
  <2> QED BY <2>1, ReadStdinReaderInv, SameListing
<1>5. CASE Parse
  <2>1. /\ pc = "parse" /\ pc' \in {"free_result", "translate"} /\ UNCHANGED <<listing, step, acquired>>
        /\ room' = 0 /\ typed' = << >> /\ buffer' = << >> /\ reader' = "freed" /\ UNCHANGED buffer_size
    BY <1>5 DEF Parse, listing
  <2>2. ReaderInv'
    BY <2>1 DEF ReaderInv, ReaderTypes, RoomFits, KeepsInput
  <2> QED BY <2>1, <2>2, SameListing
<1>6. CASE Elsewhere \/ UNCHANGED vars
  <2>1. UNCHANGED <<input, listing, room, step, acquired>>
    BY <1>6 DEF Elsewhere, ParseArguments, ArgumentsRefused, NewParser, Fopen, StdinRead, GetInputFails,
                Translate, Call, CallFails, PrepareList, Run, RunFails, BreakCycle, CycleBroken,
                Release, Released, FreeEntry, ListFreed, FreeResult, FreeParser, vars, parts, input, listing
  <2>2. /\ pc' \in {"list_devices", "exited"} => pc \in {"list_devices", "exited"} \/ step = "open"
        /\ pc' = "exited" => pc = "exited" \/ step = "open"
    BY <1>6 DEF Elsewhere, ParseArguments, ArgumentsRefused, NewParser, Fopen, StdinRead, GetInputFails,
                Translate, Call, CallFails, PrepareList, Run, RunFails, BreakCycle, CycleBroken,
                Release, Released, FreeEntry, ListFreed, FreeResult, FreeParser, vars, main
  <2>3. pc' \notin {"list_devices", "exited"} => pc \notin {"list_devices", "exited"}
    BY <1>6 DEF Elsewhere, ParseArguments, ArgumentsRefused, NewParser, Fopen, StdinRead, GetInputFails,
                Translate, Call, CallFails, PrepareList, Run, RunFails, BreakCycle, CycleBroken,
                Release, Released, FreeEntry, ListFreed, FreeResult, FreeParser, vars, main
  <2>4. pc' \notin {"read_stdin", "parse"} => pc \notin {"read_stdin", "parse"} \/ reader = "NULL"
    BY <1>6 DEF Elsewhere, ParseArguments, ArgumentsRefused, NewParser, Fopen, StdinRead, GetInputFails,
                Translate, Call, CallFails, PrepareList, Run, RunFails, BreakCycle, CycleBroken,
                Release, Released, FreeEntry, ListFreed, FreeResult, FreeParser, vars, main
  <2>5. reader = "NULL" => room = 0
    BY DEF ReaderInv, RoomFits
  <2>6. step = "open" => acquired = {}
    BY FreesFacts DEF ListingInv, LadderInv
  <2> QED BY <2>1, <2>2, <2>3, <2>4, <2>5, <2>6, SameListing, SameInput
<1> QED BY <1>1, <1>2, <1>3, <1>4, <1>5, <1>6 DEF Next, Step, Elsewhere

-------------------------------------------------------------------------------
(* What main() has allocated or opened, at each of its control points.     *)
MemoryInv ==
  /\ memory \subseteq {"parser", "result", "file"}
  /\ pc \in {"begin", "list_devices", "exited"} => memory = {}
  /\ pc \in {"fopen", "read_stdin", "free_parser"} => memory \subseteq {"parser"}
  /\ pc = "parse" => memory \subseteq {"parser", "file"}
  /\ pc \in {"translate", "call", "run", "break_cycle", "release", "free_list", "free_result"} =>
       memory \subseteq {"parser", "result"}

LEMMA InitMemoryInv == Init => MemoryInv
BY DEF Init, MemoryInv

LEMMA StepMemoryInv == MemoryInv /\ [Next]_vars => MemoryInv'
<1> SUFFICES ASSUME MemoryInv, [Next]_vars
             PROVE  MemoryInv'
  OBVIOUS
<1> USE DEF MemoryInv
<1>1. CASE ParseArguments \/ ListClientsGoesOn \/ ReadStdinGoesOn \/ Environment \/ UNCHANGED vars
  BY <1>1 DEF ParseArguments, ListClientsGoesOn, ReadStdinGoesOn, Environment, vars, main
<1>2. CASE ArgumentsRefused \/ ListClients \/ ClientsListed \/ NewParser
  BY <1>2 DEF ArgumentsRefused, ListClients, ClientsListed, NewParser
<1>3. CASE Fopen \/ StdinRead \/ GetInputFails \/ Parse \/ Translate
  BY <1>3 DEF Fopen, StdinRead, GetInputFails, Parse, Translate
<1>4. CASE Call \/ CallFails \/ PrepareList \/ Run \/ RunFails \/ BreakCycle \/ CycleBroken
           \/ Release \/ Released
  BY <1>4 DEF Call, CallFails, PrepareList, Run, RunFails, BreakCycle, CycleBroken, Release, Released
<1>5. CASE FreeEntry \/ ListFreed \/ FreeResult \/ FreeParser
  BY <1>5 DEF FreeEntry, ListFreed, FreeResult, FreeParser
<1> QED BY <1>1, <1>2, <1>3, <1>4, <1>5 DEF Next, Step

-------------------------------------------------------------------------------
(***************************************************************************)
(* The ladder of schedule_and_loop: at label n all that the labels n, ..., *)
(* 1 release is held, and nothing else.                                    *)
(***************************************************************************)
HeldAt(n) ==
  (IF n >= 1 THEN {"client"} ELSE {}) \cup (IF n >= 2 THEN {"port_out"} ELSE {})
  \cup (IF n >= 3 THEN {"port_in"} ELSE {}) \cup (IF n >= 4 THEN {"connection"} ELSE {})
  \cup (IF n >= 5 THEN {"queue"} ELSE {})

(* How far up the calls before the one with this number have led.          *)
Climbed(number) ==
  IF number = 1 THEN 0 ELSE IF number <= 4 THEN 1 ELSE IF number = 9 THEN 5 ELSE number - 3

HeldInv ==
  /\ call \in 1 .. 9 /\ label \in 0 .. 5
  /\ pc = "call" => held = HeldAt(Climbed(call))
  /\ pc \in {"run", "break_cycle"} => held = HeldAt(5)
  /\ pc = "release" => held = HeldAt(label)
  /\ pc \notin {"call", "run", "break_cycle", "release"} => held = {}
  /\ pc \in {"begin", "fopen", "read_stdin", "parse", "translate"} => call = 1

LEMMA InitHeldInv == Init => HeldInv
BY DEF Init, HeldInv

(* Each call goes one step up or stays, and fails to where it came from.   *)
LEMMA CallsClimb ==
  /\ DOMAIN Calls = 1 .. 8
  /\ \A number \in 1 .. 8 :
       /\ HeldAt(Climbed(number)) \cup Calls[number].gets = HeldAt(Climbed(number + 1))
       /\ Calls[number].fail = Climbed(number)
<1>1. DOMAIN Calls = 1 .. 8
  BY DEF Calls
<1>2. ASSUME NEW number \in 1 .. 8
      PROVE  /\ HeldAt(Climbed(number)) \cup Calls[number].gets = HeldAt(Climbed(number + 1))
             /\ Calls[number].fail = Climbed(number)
  <2>1. CASE number = 1
    BY <2>1 DEF Calls, HeldAt, Climbed
  <2>2. CASE number \in {2, 3}
    BY <2>2 DEF Calls, HeldAt, Climbed
  <2>3. CASE number = 4
    BY <2>3 DEF Calls, HeldAt, Climbed
  <2>4. CASE number = 5
    BY <2>4 DEF Calls, HeldAt, Climbed
  <2>5. CASE number = 6
    BY <2>5 DEF Calls, HeldAt, Climbed
  <2>6. CASE number = 7
    BY <2>6 DEF Calls, HeldAt, Climbed
  <2>7. CASE number = 8
    BY <2>7 DEF Calls, HeldAt, Climbed
  <2> QED BY <2>1, <2>2, <2>3, <2>4, <2>5, <2>6, <2>7
<1> QED BY <1>1, <1>2

LEMMA ReleasesFacts ==
  \A n \in 1 .. 5 : Releases[n] \in HeldAt(n) /\ HeldAt(n) \ {Releases[n]} = HeldAt(n - 1)
<1> SUFFICES ASSUME NEW n \in 1 .. 5
             PROVE  Releases[n] \in HeldAt(n) /\ HeldAt(n) \ {Releases[n]} = HeldAt(n - 1)
  OBVIOUS
<1>1. n \in {1, 2, 3, 4, 5}
  OBVIOUS
<1> QED BY <1>1 DEF Releases, HeldAt

LEMMA StepHeldInv == HeldInv /\ [Next]_vars => HeldInv'
<1> SUFFICES ASSUME HeldInv, [Next]_vars
             PROVE  HeldInv'
  OBVIOUS
<1> USE DEF HeldInv
<1>1. HeldAt(0) = {} /\ Climbed(1) = 0 /\ Climbed(9) = 5
  BY DEF HeldAt, Climbed
<1>2. CASE ParseArguments \/ ListClientsGoesOn \/ ReadStdinGoesOn \/ Environment \/ UNCHANGED vars
  BY <1>2 DEF ParseArguments, ListClientsGoesOn, ReadStdinGoesOn, Environment, vars, main, alsa
<1>3. CASE ArgumentsRefused \/ ListClients \/ ClientsListed \/ NewParser
  BY <1>3 DEF ArgumentsRefused, ListClients, ClientsListed, NewParser, alsa
<1>4. CASE Fopen \/ StdinRead \/ GetInputFails \/ Parse
  BY <1>4 DEF Fopen, StdinRead, GetInputFails, Parse, alsa
<1>5. CASE Translate
  BY <1>1, <1>5 DEF Translate, alsa
<1>6. CASE Call
  <2>1. /\ pc = "call" /\ call \in 1 .. 8 /\ call' = call + 1 /\ UNCHANGED <<pc, label>>
        /\ held' = held \cup Calls[call].gets
    BY <1>6, CallsClimb DEF Call
  <2> QED BY <2>1, CallsClimb
<1>7. CASE CallFails
  <2>1. /\ pc = "call" /\ call \in 1 .. 8 /\ pc' = "release" /\ UNCHANGED <<held, call>>
        /\ label' = Climbed(call)
    BY <1>7, CallsClimb DEF CallFails
  <2>2. Climbed(call) \in 0 .. 5
    BY <2>1 DEF Climbed
  <2> QED BY <2>1, <2>2
<1>8. CASE PrepareList
  <2>1. pc = "call" /\ call = 9 /\ pc' = "run" /\ UNCHANGED <<held, call, label>>
    BY <1>8, CallsClimb DEF PrepareList, alsa
  <2> QED BY <1>1, <2>1
<1>9. CASE Run \/ RunFails \/ BreakCycle \/ CycleBroken
  BY <1>9 DEF Run, RunFails, BreakCycle, CycleBroken, alsa
<1>10. CASE Release
  <2>1. /\ pc = "release" /\ label \in 1 .. 5 /\ label' = label - 1 /\ UNCHANGED <<pc, call>>
        /\ held' = held \ {Releases[label]}
    BY <1>10 DEF Release
  <2> QED BY <2>1, ReleasesFacts
<1>11. CASE Released
  BY <1>1, <1>11 DEF Released, alsa
<1>12. CASE FreeEntry \/ ListFreed \/ FreeResult \/ FreeParser
  BY <1>12 DEF FreeEntry, ListFreed, FreeResult, FreeParser, alsa
<1> QED BY <1>2, <1>3, <1>4, <1>5, <1>6, <1>7, <1>8, <1>9, <1>10, <1>11, <1>12 DEF Next, Step

(***************************************************************************)
(* Every label releases only what is held, on every path that leads to it, *)
(* and nothing outlives what it depends on.                                *)
(***************************************************************************)
THEOREM LaddersFit == Spec => []ReleasedInOrder
<1>1. HeldInv /\ PartsInv => ReleasedInOrder
  <2> SUFFICES ASSUME HeldInv, PartsInv
               PROVE  ReleasedInOrder
    OBVIOUS
  <2>1. pc = "release" /\ label # 0 => Releases[label] \in held
    BY ReleasesFacts DEF HeldInv
  <2>2. step \in {"fail", "finish"} /\ rung # 0 => Frees[rung] \in acquired
    <3> SUFFICES ASSUME step \in {"fail", "finish"}, rung # 0
                 PROVE  Frees[rung] \in acquired
      OBVIOUS
    <3>1. rung \in {1, 2, 3} /\ acquired = AcquiredAt(rung)
      BY DEF PartsInv, ListingInv, LadderInv
    <3> QED BY <3>1, FreesFacts
  <2>3. held = {} \/ \E n \in 0 .. 5 : held = HeldAt(n)
    <3>1. \A number \in 1 .. 9 : Climbed(number) \in 0 .. 5
      BY DEF Climbed
    <3> QED BY <3>1 DEF HeldInv
  <2>4. (held # {} => "client" \in held) /\ ("connection" \in held => "port_out" \in held)
    BY <2>3 DEF HeldAt
  <2> QED BY <2>1, <2>2, <2>4 DEF ReleasedInOrder
<1> QED BY <1>1, InitHeldInv, StepHeldInv, InitPartsInv, StepPartsInv, PTL DEF Spec

-------------------------------------------------------------------------------
(* A playable list ends with its last entry or, if that closes a loop,     *)
(* goes back to an entry of its own; else the ring is the chain.           *)
LEMMA PieceFacts ==
  ASSUME NEW l \in Pieces
  PROVE  /\ Len(l) \in Nat /\ Len(l) >= 1
         /\ \A p \in 1 .. Len(l) : l[p].end_loop => p = Len(l)
         /\ DOMAIN Link(l) = 1 .. Len(l)
         /\ \A p \in 1 .. Len(l) : p # Len(l) => Link(l)[p] = p + 1
         /\ [Chain(l) EXCEPT ![Len(l)] = NULL] = Chain(l)
         /\ ~ l[Len(l)].end_loop => Link(l) = Chain(l)
         /\ l[Len(l)].end_loop => /\ Loops(l)
                                 /\ Link(l)[Len(l)] \in 1 .. Len(l)
                                 /\ [Link(l) EXCEPT ![Len(l)] = NULL] = Chain(l)
<1> DEFINE n == Len(l)
<1>1. Playable(l)
  BY PiecesAssumption
<1>2. n \in Nat /\ n >= 1 /\ \A p \in 1 .. n : l[p].end_loop => p = n
  BY <1>1 DEF Playable, Positions
<1>3. DOMAIN Link(l) = 1 .. n
  BY DEF Link, Positions
<1>6. Chain(l) = [p \in 1 .. n |-> IF p = n THEN NULL ELSE p + 1]
  BY <1>2 DEF Chain, Positions
<1>7. [Chain(l) EXCEPT ![n] = NULL] = Chain(l)
  BY <1>2, <1>6
<1>4. CASE ~ l[n].end_loop
  <2>1. ~ Loops(l)
    BY <1>2, <1>4 DEF Loops, LoopEnds, Positions
  <2>2. Link(l) = Chain(l)
    BY <2>1 DEF Link, Chain
  <2> QED BY <1>2, <1>3, <1>4, <1>6, <1>7, <2>2
<1>5. CASE l[n].end_loop
  <2>1. LoopEnds(l) = {n}
    BY <1>2, <1>5 DEF LoopEnds, Positions
  <2>2. Latest(LoopEnds(l)) = n
    <3>1. {n} \in SUBSET (1 .. n) /\ {n} # {}
      BY <1>2
    <3>2. Latest({n}) \in {n}
      BY <1>2, <3>1, LatestExists
    <3> QED BY <2>1, <3>2
  <2>3. LoopStarts(l) # {} /\ LoopStarts(l) \in SUBSET (1 .. n)
    BY <1>1, <1>5 DEF Playable, LoopStarts, Positions
  <2>4. Loops(l)
    BY <2>1, <2>3 DEF Loops
  <2>5. Latest(LoopStarts(l)) \in 1 .. n
    BY <1>2, <2>3, LatestExists
  <2>6. Link(l) = [p \in 1 .. n |-> IF p = n THEN Latest(LoopStarts(l)) ELSE p + 1]
    BY <1>2, <2>2, <2>4 DEF Link, Positions
  <2>7. [Link(l) EXCEPT ![n] = NULL] = Chain(l)
    BY <1>2, <1>6, <2>6
  <2> QED BY <1>2, <1>3, <1>5, <1>7, <2>4, <2>5, <2>6, <2>7
<1> QED BY <1>4, <1>5

(***************************************************************************)
(* The event list: how it is linked, which entries are allocated and where *)
(* list_apply is.  The second walk, free, meets an entry it has freed only *)
(* on a ring that break_cycle has not opened.                              *)
(***************************************************************************)
RingLeft == status = "failure" /\ Loops(list)

Freeing ==
  \/ walk = NULL /\ live = {}
  \/ walk \in Positions(list) /\ live = walk .. Len(list)
  \/ walk \in Positions(list) \ live /\ RingLeft

ListInv ==
  /\ pc \in {"begin", "list_devices", "fopen", "read_stdin", "parse", "translate",
             "free_result", "free_parser", "exited"} => live = {}
  /\ pc \in {"call", "run", "break_cycle", "release", "free_list"} => list \in Pieces
  /\ pc \in {"call", "run", "break_cycle", "release"} => live = Positions(list)
  /\ pc = "call" => next = Chain(list)
  /\ pc = "run" => next = Link(list)
  /\ pc = "break_cycle" =>
       \/ next = Chain(list) /\ walk \in Positions(list) \cup {NULL}
       \/ next = Link(list) /\ walk \in Positions(list)
  /\ pc \in {"release", "free_list"} => next = Chain(list) \/ (RingLeft /\ next = Link(list))
  /\ pc = "free_list" => Freeing
  /\ pc = "crashed" => RingLeft

LEMMA InitListInv == Init => ListInv
BY DEF Init, ListInv

LEMMA BreakCycleListInv == ListInv /\ BreakCycle => ListInv'
<1> SUFFICES ASSUME ListInv, BreakCycle
             PROVE  ListInv'
  OBVIOUS
<1> DEFINE n == Len(list)
<1>1. /\ pc = "break_cycle" /\ walk # NULL /\ list \in Pieces
      /\ next' = IF list[walk].end_loop THEN [next EXCEPT ![walk] = NULL] ELSE next
      /\ walk' = next[walk] /\ UNCHANGED <<list, pc, status, live>>
  BY DEF BreakCycle, ListInv
<1>2. walk \in 1 .. n /\ (next = Chain(list) \/ next = Link(list))
  BY <1>1 DEF ListInv, Positions
<1>3. CASE next = Chain(list)
  <2>1. next' = Chain(list)
    BY <1>1, <1>2, <1>3, PieceFacts
  <2>2. walk' \in 1 .. n \cup {NULL}
    BY <1>1, <1>2, <1>3, PieceFacts DEF Chain, Positions
  <2> QED BY <1>1, <2>1, <2>2 DEF ListInv, Positions
<1>4. CASE next = Link(list) /\ next # Chain(list)
  <2>1. list[n].end_loop
    BY <1>1, <1>4, PieceFacts
  <2>2. CASE walk = n
    <3>1. next' = Chain(list) /\ walk' \in 1 .. n
      BY <1>1, <1>4, <2>1, <2>2, PieceFacts
    <3> QED BY <1>1, <3>1 DEF ListInv, Positions
  <2>3. CASE walk # n
    <3>1. next' = Link(list) /\ walk' = walk + 1
      BY <1>1, <1>2, <1>4, <2>3, PieceFacts
    <3>2. walk' \in 1 .. n
      BY <1>1, <1>2, <2>3, <3>1, PieceFacts
    <3> QED BY <1>1, <3>1, <3>2 DEF ListInv, Positions
  <2> QED BY <2>2, <2>3
<1> QED BY <1>2, <1>3, <1>4

LEMMA FreeEntryListInv == ListInv /\ FreeEntry => ListInv'
<1> SUFFICES ASSUME ListInv, FreeEntry
             PROVE  ListInv'
  OBVIOUS
<1> DEFINE n == Len(list)
<1>1. /\ pc = "free_list" /\ walk # NULL /\ list \in Pieces /\ Freeing
      /\ UNCHANGED <<list, status, next>>
      /\ next = Chain(list) \/ (RingLeft /\ next = Link(list))
  BY DEF FreeEntry, ListInv
<1>2. CASE walk \notin live
  <2>1. pc' = "crashed" /\ n \in Nat
    BY <1>2, <1>1, PieceFacts DEF FreeEntry
  <2>2. RingLeft
    BY <1>1, <1>2, <2>1 DEF Freeing, Positions
  <2> QED BY <1>1, <2>1, <2>2 DEF ListInv, RingLeft
<1>3. CASE walk \in live
  <2>1. pc' = pc /\ live' = live \ {walk} /\ walk' = next[walk]
    BY <1>3 DEF FreeEntry
  <2>2. walk \in 1 .. n /\ live = walk .. n /\ n \in Nat
    BY <1>1, <1>3, PieceFacts DEF Freeing, Positions
  <2>3. CASE walk # n
    <3>1. walk' = walk + 1
      BY <1>1, <2>1, <2>2, <2>3, PieceFacts DEF Chain, Positions
    <3>2. walk' \in Positions(list') /\ live' = walk' .. Len(list')
      BY <1>1, <2>1, <2>2, <2>3, <3>1 DEF Positions
    <3> QED BY <1>1, <2>1, <3>2 DEF ListInv, Freeing, RingLeft
  <2>4. CASE walk = n
    <3>1. live' = {}
      BY <2>1, <2>2, <2>4
    <3>2. CASE next = Chain(list)
      <4>1. walk' = NULL
        BY <1>1, <2>1, <2>2, <2>4, <3>2 DEF Chain, Positions
      <4> QED BY <1>1, <2>1, <3>1, <4>1 DEF ListInv, Freeing, RingLeft
    <3>3. CASE next # Chain(list)
      <4>1. RingLeft /\ walk' \in Positions(list')
        BY <1>1, <2>1, <2>4, <3>3, PieceFacts DEF Positions
      <4> QED BY <1>1, <2>1, <3>1, <4>1 DEF ListInv, Freeing, RingLeft
    <3> QED BY <3>2, <3>3
  <2> QED BY <2>3, <2>4
<1> QED BY <1>2, <1>3

LEMMA StepListInv == ListInv /\ [Next]_vars => ListInv'
<1> SUFFICES ASSUME ListInv, [Next]_vars
             PROVE  ListInv'
  OBVIOUS
<1>1. CASE ParseArguments \/ ListClientsGoesOn \/ ReadStdinGoesOn \/ Environment \/ UNCHANGED vars
  BY <1>1 DEF ParseArguments, ListClientsGoesOn, ReadStdinGoesOn, Environment, vars, main, entries,
              ListInv, RingLeft, Freeing
<1>2. CASE ArgumentsRefused \/ ListClients \/ ClientsListed \/ NewParser
  BY <1>2 DEF ArgumentsRefused, ListClients, ClientsListed, NewParser, entries, ListInv
<1>3. CASE Fopen \/ StdinRead \/ GetInputFails \/ Parse
  BY <1>3 DEF Fopen, StdinRead, GetInputFails, Parse, entries, ListInv
<1>4. CASE Translate
  <2>1. /\ list' \in Pieces /\ next' = Chain(list') /\ live' = 1 .. Len(list')
        /\ (pc' = "free_list" /\ walk' = 1) \/ pc' = "call"
    BY <1>4 DEF Translate, Visit, Positions
  <2>2. 1 \in Positions(list')
    BY <2>1, PieceFacts DEF Positions
  <2> QED BY <2>1, <2>2 DEF ListInv, Freeing, Positions
<1>5. CASE Call \/ CallFails
  BY <1>5 DEF Call, CallFails, entries, ListInv, RingLeft
<1>6. CASE PrepareList
  BY <1>6 DEF PrepareList, ListInv
<1>7. CASE Run
  <2>1. /\ list \in Pieces /\ next = Link(list) /\ live = Positions(list)
        /\ walk' = 1 /\ pc' = "break_cycle" /\ UNCHANGED <<list, next, live>>
    BY <1>7 DEF Run, Visit, ListInv
  <2>2. 1 \in Positions(list)
    BY <2>1, PieceFacts DEF Positions
  <2> QED BY <2>1, <2>2 DEF ListInv
<1>8. CASE RunFails
  <2>1. /\ list \in Pieces /\ next = Link(list) /\ live = Positions(list)
        /\ status' = "failure" /\ pc' = "release" /\ UNCHANGED <<list, next, live>>
    BY <1>8 DEF RunFails, ListInv, entries
  <2>2. next = Chain(list) \/ Loops(list)
    BY <2>1, PieceFacts
  <2> QED BY <2>1, <2>2 DEF ListInv, RingLeft
<1>9. CASE BreakCycle
  BY <1>9, BreakCycleListInv
<1>10. CASE CycleBroken \/ Release
  BY <1>10 DEF CycleBroken, Release, entries, ListInv, RingLeft, Positions, NULL
<1>11. CASE Released
  <2>1. /\ list \in Pieces /\ live = 1 .. Len(list) /\ walk' = 1 /\ pc' = "free_list"
        /\ next = Chain(list) \/ (RingLeft /\ next = Link(list))
        /\ UNCHANGED <<list, next, live, status>>
    BY <1>11 DEF Released, Visit, ListInv, Positions
  <2>2. 1 \in Positions(list)
    BY <2>1, PieceFacts DEF Positions
  <2> QED BY <2>1, <2>2 DEF ListInv, RingLeft, Freeing
<1>12. CASE FreeEntry
  BY <1>12, FreeEntryListInv
<1>13. CASE ListFreed
  <2>1. pc = "free_list" /\ pc' = "free_result" /\ walk = NULL /\ UNCHANGED <<list, live>>
        /\ list \in Pieces
    BY <1>13 DEF ListFreed, entries, ListInv
  <2>2. walk \notin Positions(list)
    BY <2>1, PieceFacts DEF NULL, Positions
  <2>3. live = {}
    BY <2>1, <2>2 DEF ListInv, Freeing
  <2> QED BY <2>1, <2>3 DEF ListInv
<1>14. CASE FreeResult \/ FreeParser
  BY <1>14 DEF FreeResult, FreeParser, entries, ListInv
<1> QED BY <1>1, <1>2, <1>3, <1>4, <1>5, <1>6, <1>7, <1>8, <1>9, <1>10, <1>11, <1>12, <1>13, <1>14
        DEF Next, Step

(***************************************************************************)
(* Once break_cycle has walked the list it is the chain the translator     *)
(* made, whatever ring prepare_list had made of it.                        *)
(***************************************************************************)
THEOREM ChainIsRestored == Spec => []ChainRestored
<1>1. ListInv => ChainRestored
  BY DEF ListInv, ChainRestored, RingLeft
<1> QED BY <1>1, InitListInv, StepListInv, PTL DEF Spec

(***************************************************************************)
(* No entry is freed twice unless run() has failed on a list that loops.   *)
(***************************************************************************)
THEOREM EntriesFreedOnce == Spec => []FreedOnceUnlessLoopFails
<1>1. ListInv => FreedOnceUnlessLoopFails
  BY DEF ListInv, FreedOnceUnlessLoopFails, RingLeft
<1> QED BY <1>1, InitListInv, StepListInv, PTL DEF Spec

(***************************************************************************)
(* main() returns with everything freed and released, whichever call has   *)
(* failed.                                                                 *)
(***************************************************************************)
THEOREM AllIsReleased == Spec => []NothingLeft
<1>1. MemoryInv /\ PartsInv /\ HeldInv /\ ListInv => NothingLeft
  BY DEF MemoryInv, PartsInv, HeldInv, ListInv, NothingLeft
<1> QED BY <1>1, InitMemoryInv, StepMemoryInv, InitPartsInv, StepPartsInv, InitHeldInv, StepHeldInv,
           InitListInv, StepListInv, PTL DEF Spec

(***************************************************************************)
(* What is typed reaches the parser whole, as part of main() too.          *)
(***************************************************************************)
THEOREM InputReachesParser == Spec => []KeepsInput
<1>1. PartsInv => KeepsInput
  BY DEF PartsInv, ReaderInv
<1> QED BY <1>1, InitPartsInv, StepPartsInv, PTL DEF Spec

(***************************************************************************)
(* The listing shows every client that stays, with all its ports, once and *)
(* in order, and no korlessa, whoever comes and goes.                      *)
(***************************************************************************)
THEOREM ListingIsComplete == Spec => []ListsWhatStays
<1>1. PartsInv => ListsWhatStays
  BY ListingInvLists DEF PartsInv
<1> QED BY <1>1, InitPartsInv, StepPartsInv, PTL DEF Spec

-------------------------------------------------------------------------------
(* The command line: client and port in args are the last ones named; once *)
(* argp has handed over, args stays and lets through what it should.       *)
CliInv ==
  /\ argv \in Seq(Option)
  /\ args \in Arguments
  /\ reading # "refused" => args.client = NamedClient /\ args.port = NamedPort
  /\ reading = "parsed" => ~ NoDevice

ToldInv ==
  /\ pc \notin {"begin", "exited"} => reading = "parsed"
  /\ pc \notin {"begin", "list_devices", "exited"} => ~ args.list_clients
  /\ pc \in {"translate", "call", "run"} => ~ args.print_ast
  /\ pc \in {"call", "run"} => ~ args.print_events

(* What one more option makes of the last option with one of the keys.     *)
LEMMA LastNamingAppend ==
  ASSUME argv \in Seq(Option), NEW o \in Option, argv' = Append(argv, o), NEW keys
  PROVE  /\ o.key \notin keys => /\ Naming(keys)' = {} <=> Naming(keys) = {}
                                 /\ Naming(keys) # {} => LastNaming(keys)' = LastNaming(keys)
         /\ o.key \in keys => Naming(keys)' # {} /\ LastNaming(keys)' = o
<1> DEFINE n == Len(argv)
           before == Naming(keys)
           after == {k \in 1 .. Len(argv') : argv'[k].key \in keys}
<1>1. /\ n \in Nat /\ Len(argv') = n + 1 /\ argv'[n + 1] = o
      /\ \A k \in 1 .. n : argv'[k] = argv[k]
  OBVIOUS
<1>2. /\ before = {k \in 1 .. n : argv[k].key \in keys} /\ before \in SUBSET (1 .. n)
      /\ Naming(keys)' = after
  BY DEF Naming
<1>3. LastNaming(keys) = argv[Latest(before)] /\ LastNaming(keys)' = argv'[Latest(after)]
  BY <1>2 DEF LastNaming, Latest
<1>4. CASE o.key \notin keys
  <2>1. after = before
    BY <1>1, <1>2, <1>4
  <2>2. ASSUME before # {}
        PROVE  LastNaming(keys)' = LastNaming(keys)
    <3>1. Latest(before) \in 1 .. n
      BY <1>1, <1>2, <2>2, LatestExists
    <3> QED BY <1>1, <1>3, <2>1, <3>1
  <2> QED BY <1>2, <1>4, <2>1, <2>2
<1>5. CASE o.key \in keys
  <2>1. after = before \cup {n + 1}
    BY <1>1, <1>2, <1>5
  <2>2. after \in SUBSET (1 .. n + 1) /\ after # {} /\ n + 1 \in Nat
    BY <1>1, <1>2, <2>1
  <2>3. Latest(after) \in after /\ \A q \in after : q <= Latest(after)
    BY <2>2, LatestExists
  <2>4. Latest(after) = n + 1
    <3>1. Latest(after) \in 1 .. n + 1 /\ n + 1 <= Latest(after)
      BY <2>1, <2>2, <2>3
    <3> HIDE DEF n, after
    <3> QED BY <1>1, <3>1
  <2> QED BY <1>1, <1>2, <1>3, <1>5, <2>2, <2>4
<1> QED BY <1>4, <1>5

(* So the option names the client, the port, both or neither.              *)
LEMMA NamedAppend ==
  ASSUME argv \in Seq(Option), NEW o \in Option, argv' = Append(argv, o)
  PROVE  /\ NamedClient' = IF o.key \in ClientKeys THEN o.client ELSE NamedClient
         /\ NamedPort' = IF o.key \in PortKeys THEN o.port ELSE NamedPort
<1>1. NamedClient' = IF o.key \in ClientKeys THEN o.client ELSE NamedClient
  <2>1. /\ NamedClient = IF Naming(ClientKeys) = {} THEN 0 ELSE LastNaming(ClientKeys).client
        /\ NamedClient' = IF Naming(ClientKeys)' = {} THEN 0 ELSE LastNaming(ClientKeys)'.client
    BY DEF NamedClient, ClientKeys
  <2> QED BY <2>1, LastNamingAppend
<1>2. NamedPort' = IF o.key \in PortKeys THEN o.port ELSE NamedPort
  <2>1. /\ NamedPort = IF Naming(PortKeys) = {} THEN 0 ELSE LastNaming(PortKeys).port
        /\ NamedPort' = IF Naming(PortKeys)' = {} THEN 0 ELSE LastNaming(PortKeys)'.port
    BY DEF NamedPort, PortKeys
  <2> QED BY <2>1, LastNamingAppend
<1> QED BY <1>1, <1>2

LEMMA InitCliInv == Init => CliInv /\ ToldInv
<1> SUFFICES ASSUME Init
             PROVE  CliInv /\ ToldInv
  OBVIOUS
<1>1. argv = << >> /\ args = InitArguments /\ reading = "options" /\ pc = "begin"
  BY DEF Init, CliInit
<1>2. Naming(ClientKeys) = {} /\ Naming(PortKeys) = {}
  BY <1>1 DEF Naming
<1>3. NamedClient = 0 /\ NamedPort = 0
  BY <1>2 DEF NamedClient, NamedPort
<1> QED BY <1>1, <1>3 DEF CliInv, ToldInv, InitArguments, Arguments

LEMMA ParseOptCliInv == CliInv /\ ParseOpt => CliInv'
<1> SUFFICES ASSUME CliInv, ParseOpt
             PROVE  CliInv'
  OBVIOUS
<1>1. CASE ParseFlag
  <2>1. PICK o \in [key : Flags] :
          /\ argv' = Append(argv, o) /\ args' = [args EXCEPT ![o.key] = TRUE]
          /\ reading = "options" /\ reading' = reading
    BY <1>1 DEF ParseFlag, Given
  <2>2. o \in Option /\ o.key \in Flags
    BY <2>1 DEF Option
  <2>3. argv' \in Seq(Option) /\ NamedClient' = NamedClient /\ NamedPort' = NamedPort
    BY <2>1, <2>2, NamedAppend DEF CliInv, Flags, ClientKeys, PortKeys
  <2>4. args' \in Arguments /\ args'.client = args.client /\ args'.port = args.port
    <3>1. CASE o.key = "debug"
      BY <2>1, <3>1 DEF CliInv, Arguments
    <3>2. CASE o.key = "print_ast"
      BY <2>1, <3>2 DEF CliInv, Arguments
    <3>3. CASE o.key = "print_events"
      BY <2>1, <3>3 DEF CliInv, Arguments
    <3>4. CASE o.key = "list_clients"
      BY <2>1, <3>4 DEF CliInv, Arguments
    <3>5. CASE o.key = "filepath"
      BY <2>1, <3>5 DEF CliInv, Arguments
    <3>6. CASE o.key = "source"
      BY <2>1, <3>6 DEF CliInv, Arguments
    <3> QED BY <2>2, <3>1, <3>2, <3>3, <3>4, <3>5, <3>6 DEF Flags
  <2> QED BY <2>1, <2>3, <2>4 DEF CliInv
<1>2. CASE ParseClient
  <2>1. PICK o \in [key : {"client"}, client : ClientNumbers] :
          /\ argv' = Append(argv, o) /\ args' = [args EXCEPT !.client = o.client]
          /\ reading = "options" /\ reading' = reading
    BY <1>2 DEF ParseClient, Given
  <2>2. o \in Option /\ o.key = "client" /\ o.client \in ClientNumbers
    BY <2>1 DEF Option
  <2>3. argv' \in Seq(Option) /\ NamedClient' = o.client /\ NamedPort' = NamedPort
    BY <2>1, <2>2, NamedAppend DEF CliInv, ClientKeys, PortKeys
  <2>4. args' \in Arguments /\ args'.client = o.client /\ args'.port = args.port
    BY <2>1, <2>2 DEF CliInv, Arguments
  <2> QED BY <2>1, <2>3, <2>4 DEF CliInv
<1>3. CASE ParsePort
  <2>1. PICK o \in [key : {"port"}, port : PortNumbers] :
          /\ argv' = Append(argv, o) /\ args' = [args EXCEPT !.port = o.port]
          /\ reading = "options" /\ reading' = reading
    BY <1>3 DEF ParsePort, Given
  <2>2. o \in Option /\ o.key = "port" /\ o.port \in PortNumbers
    BY <2>1 DEF Option
  <2>3. argv' \in Seq(Option) /\ NamedClient' = NamedClient /\ NamedPort' = o.port
    BY <2>1, <2>2, NamedAppend DEF CliInv, ClientKeys, PortKeys
  <2>4. args' \in Arguments /\ args'.client = args.client /\ args'.port = o.port
    BY <2>1, <2>2 DEF CliInv, Arguments
  <2> QED BY <2>1, <2>3, <2>4 DEF CliInv
<1>4. CASE ParseAddress
  <2>1. PICK o \in [key : {"connect_to"}, client : ClientNumbers, port : PortNumbers] :
          /\ argv' = Append(argv, o)
          /\ args' = [args EXCEPT !.client = o.client, !.port = o.port, !.address = TRUE]
          /\ reading = "options" /\ reading' = reading
    BY <1>4 DEF ParseAddress, Given
  <2>2. o \in Option /\ o.key = "connect_to" /\ o.client \in ClientNumbers /\ o.port \in PortNumbers
    BY <2>1 DEF Option
  <2>3. argv' \in Seq(Option) /\ NamedClient' = o.client /\ NamedPort' = o.port
    BY <2>1, <2>2, NamedAppend DEF CliInv, ClientKeys, PortKeys
  <2>4. args' \in Arguments /\ args'.client = o.client /\ args'.port = o.port
    BY <2>1, <2>2 DEF CliInv, Arguments
  <2> QED BY <2>1, <2>3, <2>4 DEF CliInv
<1>5. CASE ParseNoAddress
  <2>1. argv' = Append(argv, [key |-> "no_address"]) /\ reading' = "refused" /\ args' = args
    BY <1>5 DEF ParseNoAddress, Given
  <2>2. [key |-> "no_address"] \in Option
    BY DEF Option
  <2> QED BY <2>1, <2>2 DEF CliInv
<1>6. CASE ParseEnd
  BY <1>6 DEF ParseEnd, CliInv, NamedClient, NamedPort, LastNaming, Naming, NoDevice
<1> QED BY <1>1, <1>2, <1>3, <1>4, <1>5, <1>6 DEF ParseOpt

LEMMA StepToldInv == CliInv /\ ToldInv /\ [Next]_vars => (CliInv /\ ToldInv)'
<1> SUFFICES ASSUME CliInv, ToldInv, [Next]_vars
             PROVE  CliInv' /\ ToldInv'
  OBVIOUS
<1>1. CASE ParseArguments
  <2>1. pc = "begin" /\ pc' = "begin" /\ ParseOpt
    BY <1>1 DEF ParseArguments, main
  <2> QED BY <2>1, ParseOptCliInv DEF ToldInv
<1>2. CASE ~ ParseArguments
  <2>1. UNCHANGED cli
    BY <1>2 DEF Next, Step, Environment, ArgumentsRefused, ListClients, ListClientsGoesOn,
                ClientsListed, NewParser, Fopen, ReadStdinGoesOn, StdinRead, GetInputFails, Parse,
                Translate, Call, CallFails, PrepareList, Run, RunFails, BreakCycle, CycleBroken,
                Release, Released, FreeEntry, ListFreed, FreeResult, FreeParser, vars, parts
  <2>2. CliInv'
    BY <2>1 DEF CliInv, cli, NamedClient, NamedPort, LastNaming, Naming, NoDevice
  <2> SUFFICES ToldInv'
    BY <2>2
  <2>3. CASE ArgumentsRefused \/ ListClients \/ NewParser
    BY <2>1, <2>3 DEF ArgumentsRefused, ListClients, NewParser, ToldInv, cli
  <2>4. CASE ClientsListed \/ Fopen \/ StdinRead \/ GetInputFails
    BY <2>1, <2>4 DEF ClientsListed, Fopen, StdinRead, GetInputFails, ToldInv, cli
  <2>5. CASE Parse \/ Translate
    BY <2>1, <2>5 DEF Parse, Translate, ToldInv, cli
  <2>6. CASE Call \/ CallFails \/ PrepareList \/ Run \/ RunFails \/ BreakCycle \/ CycleBroken
           \/ Release \/ Released
    BY <2>1, <2>6 DEF Call, CallFails, PrepareList, Run, RunFails, BreakCycle, CycleBroken,
                    Release, Released, ToldInv, cli
  <2>7. CASE FreeEntry \/ ListFreed \/ FreeResult \/ FreeParser
    BY <2>1, <2>7 DEF FreeEntry, ListFreed, FreeResult, FreeParser, ToldInv, cli
  <2>8. CASE ListClientsGoesOn \/ ReadStdinGoesOn \/ Environment \/ UNCHANGED vars
    BY <2>1, <2>8 DEF ListClientsGoesOn, ReadStdinGoesOn, Environment, vars, main, ToldInv, cli
  <2> QED BY <1>2, <2>3, <2>4, <2>5, <2>6, <2>7, <2>8 DEF Next, Step
<1> QED BY <1>1, <1>2

(***************************************************************************)
(* Whatever the order of the options, the program connects to the client   *)
(* and the port named last, and to nothing when no client is.              *)
(***************************************************************************)
THEOREM ConnectsToTheNamed == Spec => []ConnectsWhereTold
<1>1. CliInv /\ ToldInv => ConnectsWhereTold
  BY DEF CliInv, ToldInv, NoDevice, ConnectsWhereTold
<1> QED BY <1>1, InitCliInv, StepToldInv, PTL DEF Spec

-------------------------------------------------------------------------------
(* The types; walk is NULL until there is a list to walk.                  *)
WalkInv ==
  /\ list \in Pieces \cup {<< >>}
  /\ next \in [Positions(list) -> Positions(list) \cup {NULL}]
  /\ live \subseteq Positions(list)
  /\ walk \in Positions(list) \cup {NULL}
  /\ pc \in {"begin", "list_devices", "fopen", "read_stdin", "parse", "translate"} => walk = NULL

MainTypes ==
  /\ pc \in ControlPoints
  /\ status \in {"success", "failure"}
  /\ memory \subseteq {"parser", "result", "file"}
  /\ held \subseteq {Releases[n] : n \in 1 .. Len(Releases)}

CliMore == Len(argv) <= MaxOptions /\ reading \in {"options", "parsed", "refused"}

ListingMore ==
  /\ step \in {"open", "set_name", "cinfo", "pinfo", "clients", "ports", "fail", "finish"}
  /\ name \in {"", "Client-n", "Korlessa"}

LEMMA StepWalkInv == ListInv /\ WalkInv /\ [Next]_vars => WalkInv'
<1> SUFFICES ASSUME ListInv, WalkInv, [Next]_vars
             PROVE  WalkInv'
  OBVIOUS
<1> USE DEF WalkInv
<1>1. CASE ParseArguments \/ ListClientsGoesOn \/ ReadStdinGoesOn \/ Environment \/ UNCHANGED vars
  BY <1>1 DEF ParseArguments, ListClientsGoesOn, ReadStdinGoesOn, Environment, vars, main, entries
<1>2. CASE ArgumentsRefused \/ ListClients \/ ClientsListed \/ NewParser
  BY <1>2 DEF ArgumentsRefused, ListClients, ClientsListed, NewParser, entries
<1>3. CASE Fopen \/ StdinRead \/ GetInputFails \/ Parse
  BY <1>3 DEF Fopen, StdinRead, GetInputFails, Parse, entries
<1>4. CASE Translate
  <2>1. /\ list' \in Pieces /\ next' = Chain(list') /\ live' = Positions(list')
        /\ walk' \in {1, NULL} /\ pc' \in {"free_list", "call"}
    BY <1>4 DEF Translate, Visit
  <2>2. Len(list') \in Nat /\ 1 \in Positions(list')
    BY <2>1, PieceFacts DEF Positions
  <2>3. \A p \in Positions(list') : (IF p < Len(list') THEN p + 1 ELSE NULL) \in Positions(list') \cup {NULL}
    BY <2>2 DEF Positions
  <2>4. next' \in [Positions(list') -> Positions(list') \cup {NULL}]
    BY <2>1, <2>3 DEF Chain
  <2> QED BY <2>1, <2>2, <2>4
<1>5. CASE Call \/ CallFails \/ RunFails \/ CycleBroken \/ Release
  BY <1>5 DEF Call, CallFails, RunFails, CycleBroken, Release, entries
<1>6. CASE BreakCycle
  BY <1>6 DEF BreakCycle
<1>7. CASE FreeEntry
  BY <1>7 DEF FreeEntry
<1>8. CASE ListFreed \/ FreeResult \/ FreeParser
  BY <1>8 DEF ListFreed, FreeResult, FreeParser, entries
<1>9. CASE PrepareList
  <2>1. list \in Pieces /\ next' = Link(list) /\ UNCHANGED <<list, live, walk>> /\ pc' = "run"
    BY <1>9 DEF PrepareList, ListInv
  <2>2. Playable(list)
    BY <2>1, PiecesAssumption
  <2>3. \A p \in Positions(list) : Link(list)[p] \in Positions(list) \cup {NULL}
    BY <2>2, LinkType
  <2>4. next' \in [Positions(list) -> Positions(list) \cup {NULL}]
    BY <2>1, <2>3 DEF Link
  <2> QED BY <2>1, <2>4
<1>10. CASE Run \/ Released
  <2>1. /\ list \in Pieces /\ walk' = 1 /\ UNCHANGED <<list, next, live>>
        /\ pc' \in {"break_cycle", "free_list"}
    BY <1>10 DEF Run, Released, Visit, ListInv
  <2>2. 1 \in Positions(list)
    BY <2>1, PieceFacts DEF Positions
  <2> QED BY <2>1, <2>2
<1> QED BY <1>1, <1>2, <1>3, <1>4, <1>5, <1>6, <1>7, <1>8, <1>9, <1>10 DEF Next, Step

LEMMA StepMainTypes == MainTypes /\ [Next]_vars => MainTypes'
<1> SUFFICES ASSUME MainTypes, [Next]_vars
             PROVE  MainTypes'
  OBVIOUS
<1> USE DEF MainTypes, ControlPoints
<1>1. CASE ParseArguments \/ ListClientsGoesOn \/ ReadStdinGoesOn \/ Environment \/ UNCHANGED vars
  BY <1>1 DEF ParseArguments, ListClientsGoesOn, ReadStdinGoesOn, Environment, vars, main, alsa
<1>2. CASE ArgumentsRefused \/ ListClients \/ ClientsListed \/ NewParser
  BY <1>2 DEF ArgumentsRefused, ListClients, ClientsListed, NewParser, alsa
<1>3. CASE Fopen \/ StdinRead \/ GetInputFails \/ Parse \/ Translate
  BY <1>3 DEF Fopen, StdinRead, GetInputFails, Parse, Translate, alsa
<1>4. CASE Call
  <2>1. \A number \in DOMAIN Calls :
          Calls[number].gets \subseteq {Releases[n] : n \in 1 .. Len(Releases)}
    BY DEF Calls, Releases
  <2> QED BY <1>4, <2>1 DEF Call
<1>5. CASE \/ CallFails \/ PrepareList \/ Run \/ RunFails \/ BreakCycle \/ CycleBroken
           \/ Release \/ Released
  BY <1>5 DEF CallFails, PrepareList, Run, RunFails, BreakCycle, CycleBroken, Release, Released, alsa
<1>6. CASE FreeEntry \/ ListFreed \/ FreeResult \/ FreeParser
  BY <1>6 DEF FreeEntry, ListFreed, FreeResult, FreeParser, alsa
<1> QED BY <1>1, <1>2, <1>3, <1>4, <1>5, <1>6 DEF Next, Step

LEMMA StepPartTypes ==
  CliInv /\ CliMore /\ ListingMore /\ [Next]_vars => CliMore' /\ ListingMore'
<1> SUFFICES ASSUME CliInv, CliMore, ListingMore, [Next]_vars
             PROVE  CliMore' /\ ListingMore'
  OBVIOUS
<1>1. CASE ParseArguments
  <2>1. ParseOpt /\ UNCHANGED listing
    BY <1>1 DEF ParseArguments
  <2>2. CASE ParseEnd
    BY <2>1, <2>2 DEF CliMore, ParseEnd, ListingMore, listing
  <2>3. CASE ParseFlag \/ ParseClient \/ ParsePort \/ ParseAddress \/ ParseNoAddress
    <3>1. PICK o : argv' = Append(argv, o) /\ Len(argv) < MaxOptions
      BY <2>3 DEF ParseFlag, ParseClient, ParsePort, ParseAddress, ParseNoAddress, Given
    <3>2. Len(argv) \in Nat /\ Len(argv') = Len(argv) + 1 /\ MaxOptions \in Nat
      BY <3>1, OptionsAssumption DEF CliInv
    <3>3. Len(argv') <= MaxOptions
      BY <3>1, <3>2
    <3>4. reading' \in {reading, "refused"}
      BY <2>3 DEF ParseFlag, ParseClient, ParsePort, ParseAddress, ParseNoAddress
    <3> QED BY <2>1, <3>3, <3>4 DEF CliMore, ListingMore, listing
  <2> QED BY <2>1, <2>2, <2>3 DEF ParseOpt
<1>2. CASE ListClients \/ ListClientsGoesOn \/ Environment
  <2>1. UNCHANGED cli /\ (UNCHANGED <<step, name>> \/ ListDevices)
    BY <1>2 DEF ListClients, ListClientsGoesOn, Environment, ClientsChange, ClientComes, ClientGoes
  <2>2. ListingMore'
    <3>1. CASE ListDevices
      BY <3>1 DEF ListingMore, ListDevices, Open, OpenFails, SetName, SetNameFails, NewClientInfo,
                  NoClientInfo, NewPortInfo, NoPortInfo, NextClient, NextKorlessa, NoMoreClients,
                  NextPort, NoMorePorts, FreeNext, Acquire, Fail
    <3> QED BY <2>1, <3>1 DEF ListingMore
  <2> QED BY <2>1, <2>2 DEF CliMore, cli
<1>3. CASE ~ (ParseArguments \/ ListClients \/ ListClientsGoesOn \/ Environment)
  <2>1. UNCHANGED <<cli, listing>>
    BY <1>3 DEF Next, Step, ArgumentsRefused, ClientsListed, NewParser, Fopen, ReadStdinGoesOn,
                StdinRead, GetInputFails, Parse, Translate, Call, CallFails, PrepareList, Run,
                RunFails, BreakCycle, CycleBroken, Release, Released, FreeEntry, ListFreed,
                FreeResult, FreeParser, vars, parts
  <2> QED BY <2>1 DEF CliMore, ListingMore, cli, listing
<1> QED BY <1>1, <1>2, <1>3

LEMMA InitTypes == Init => WalkInv /\ MainTypes /\ CliMore /\ ListingMore
<1> SUFFICES ASSUME Init
             PROVE  WalkInv /\ MainTypes /\ CliMore /\ ListingMore
  OBVIOUS
<1>1. WalkInv
  BY DEF Init, WalkInv, Positions
<1>2. MainTypes
  BY DEF Init, MainTypes, ControlPoints
<1>3. CliMore /\ ListingMore
  <2>1. argv = << >> /\ reading = "options" /\ step = "open" /\ name = ""
    BY DEF Init, CliInit, ListingInit
  <2>2. Len(argv) = 0 /\ MaxOptions \in Nat
    BY <2>1, OptionsAssumption
  <2>3. Len(argv) <= MaxOptions
    BY <2>2
  <2>4. CliMore
    BY <2>1, <2>3, Zenon DEF CliMore
  <2>5. ListingMore
    BY <2>1, Zenon DEF ListingMore
  <2> QED BY <2>4, <2>5
<1> QED BY <1>1, <1>2, <1>3

(***************************************************************************)
(* Every variable keeps its type; in particular the walks of list_apply    *)
(* never leave the list, on the chain and on the ring.                     *)
(***************************************************************************)
THEOREM SessionTypeCorrect == Spec => []TypeOK
<1>1. PartsInv /\ HeldInv /\ CliInv /\ WalkInv /\ MainTypes /\ CliMore /\ ListingMore => TypeOK
  <2> SUFFICES ASSUME PartsInv, HeldInv, CliInv, WalkInv, MainTypes, CliMore, ListingMore
               PROVE  TypeOK
    OBVIOUS
  <2>1. CliTypes /\ ReaderTypes
    BY DEF CliInv, CliMore, CliTypes, PartsInv, ReaderInv
  <2>2. ListingTypes
    <3>1. acquired \subseteq {Frees[r] : r \in 1 .. 3} /\ rung \in 0 .. 3
      <4>1. rung \in 0 .. 3 /\ acquired \in {AcquiredAt(r) : r \in 0 .. 3}
        <5>1. rung \in 0 .. 3 /\ 0 \in 0 .. 3 /\ 1 \in 0 .. 3 /\ 2 \in 0 .. 3 /\ 3 \in 0 .. 3
          BY DEF PartsInv, ListingInv, LadderInv
        <5>2. \/ acquired = AcquiredAt(0) \/ acquired = AcquiredAt(1) \/ acquired = AcquiredAt(2)
              \/ acquired = AcquiredAt(3) \/ acquired = AcquiredAt(rung)
          BY DEF PartsInv, ListingInv, LadderInv, ListingMore
        <5> QED BY <5>1, <5>2
      <4>2. \A r \in 0 .. 3 : r \in {0, 1, 2, 3}
        OBVIOUS
      <4> QED BY <4>1, <4>2, FreesFacts
    <3> QED BY <3>1 DEF PartsInv, ListingInv, Query, ListingMore, ListingTypes
  <2>3. call \in 1 .. Len(Calls) + 1 /\ label \in 0 .. Len(Releases)
    BY DEF HeldInv, Calls, Releases
  <2> QED BY <2>1, <2>2, <2>3 DEF WalkInv, MainTypes, TypeOK
<1>2. Init => /\ PartsInv /\ HeldInv /\ ListInv /\ CliInv /\ ToldInv
              /\ WalkInv /\ MainTypes /\ CliMore /\ ListingMore
  BY InitPartsInv, InitHeldInv, InitListInv, InitCliInv, InitTypes
<1>3. PartsInv /\ HeldInv /\ ListInv /\ CliInv /\ ToldInv /\ WalkInv /\ MainTypes /\ CliMore
      /\ ListingMore /\ [Next]_vars
      => (PartsInv /\ HeldInv /\ ListInv /\ CliInv /\ ToldInv /\ WalkInv /\ MainTypes /\ CliMore
          /\ ListingMore)'
  BY StepPartsInv, StepHeldInv, StepListInv, StepToldInv, StepWalkInv, StepMainTypes, StepPartTypes
<1> QED BY <1>1, <1>2, <1>3, PTL DEF Spec
===============================================================================
