------------------------------ MODULE RoomNetworks ------------------------------
(***************************************************************************)
(* The address pool of the Rooms' networks: the allocator keeps what it    *)
(* gave in memory, the engine keeps the networks, others take addresses of *)
(* the pool, and networks of Rooms that are gone are reclaimed when the    *)
(* pool is exhausted (ipam.ts, ociCli.ts).                                 *)
(***************************************************************************)
EXTENDS Naturals, FiniteSets, FiniteSetsExt

CONSTANTS
    Tenants,        \* the Rooms, each with its network
    PoolSize,       \* the number of subnets of the pool
    MaxWakes,       \* bound: creations, wakes and deletions
    MaxTrouble,     \* bound: failing engine calls, deaths of DevHotel, and what others do
    None

RoomNetworksAssumption ==
    /\ PoolSize \in Nat /\ MaxWakes \in Nat /\ MaxTrouble \in Nat
    /\ None \notin Nat \cup [of : Tenants, subnet : Nat] /\ None # "refused"

VARIABLES
    row,            \* the row of each Room: not yet, there, gone
    network,        \* the subnet of each Room's network in the engine, or None
    attached,       \* the networks with a container that DevHotel does not know
    others,         \* the subnets that networks of others have
    allocated,      \* what the allocator gave to each network, or None
    claimed,        \* the subnets the allocator holds
    ask,            \* per Room: its call, the subnets in use it saw, what it may reclaim,
                    \* and whether no other call ran beside it
    answers,        \* what the last call of each Room ended with
    wakes, glitches, outside

memory == <<allocated, claimed>>
vars == <<row, network, attached, others, memory, ask, answers, wakes, glitches, outside>>

-----------------------------------------------------------------------------
(* Helpers *)

Subnets == 0 .. PoolSize - 1

NoAsk == [pc |-> "idle", used |-> {}, stale |-> {}, aim |-> None, freed |-> FALSE, alone |-> TRUE]

At(r, pc) == ask[r].pc = pc

Goes(r, pc) == ask' = [ask EXCEPT ![r].pc = pc]

Glitch == glitches + outside < MaxTrouble /\ glitches' = glitches + 1

\* isRoomActive
Active(r) == row[r] = "there"

InUse == {network[r] : r \in {q \in Tenants : network[q] # None}} \cup others

\* release: the network gives back what it had.
Releases(r) ==
    /\ claimed' = claimed \ {allocated[r]}
    /\ allocated' = [allocated EXCEPT ![r] = None]

\* adopt: a network that exists keeps the subnet it has.
Adopts(r) ==
    /\ claimed' = claimed \cup {network[r]}
    /\ allocated' = [allocated EXCEPT ![r] = network[r]]

Asks(r, pc) ==
    /\ At(r, "idle") /\ wakes < MaxWakes /\ wakes' = wakes + 1
    /\ ask' = [q \in Tenants |->
                 IF q = r THEN [NoAsk EXCEPT !.pc = pc, !.alone = \A x \in Tenants : At(x, "idle")]
                 ELSE [ask[q] EXCEPT !.alone = FALSE]]
    /\ answers' = [answers EXCEPT ![r] = None]
    /\ UNCHANGED <<network, attached, others, memory, glitches, outside>>

-----------------------------------------------------------------------------
(* ensureRoomNetwork, ensureAndroidControlNetwork *)

Wake(r) == row[r] # "gone" /\ Asks(r, "look") /\ row' = [row EXCEPT ![r] = "there"]

Look(r) ==
    /\ At(r, "look")
    /\ IF network[r] # None THEN Adopts(r) /\ Goes(r, "idle") ELSE Goes(r, "collect") /\ UNCHANGED memory
    /\ UNCHANGED <<row, network, attached, others, answers, wakes, glitches, outside>>

\* collectDockerSubnets: what cannot be inspected is left out.
Collect(r) ==
    /\ At(r, "collect")
    /\ \/ ask' = [ask EXCEPT ![r].pc = "allocate", ![r].used = InUse] /\ UNCHANGED glitches
       \/ Glitch /\ \E some \in SUBSET InUse : ask' = [ask EXCEPT ![r].pc = "allocate", ![r].used = some]
    /\ UNCHANGED <<row, network, attached, others, memory, answers, wakes, outside>>

Free(r) == Subnets \ (claimed \cup ask[r].used)

\* allocate: a network keeps what it was given, or gets the first that is free. When
\* none is, the networks of Rooms without a row are listed, once.
Allocate(r) ==
    /\ At(r, "allocate")
    /\ \/ /\ allocated[r] # None
          /\ Goes(r, "create") /\ UNCHANGED <<memory, answers>>
       \/ /\ allocated[r] = None /\ Free(r) # {}
          /\ allocated' = [allocated EXCEPT ![r] = Min(Free(r))]
          /\ claimed' = claimed \cup {Min(Free(r))}
          /\ Goes(r, "create") /\ UNCHANGED answers
       \/ /\ allocated[r] = None /\ Free(r) = {} /\ ~ask[r].freed
          /\ ask' = [ask EXCEPT ![r].pc = "reclaim", ![r].stale = {q \in Tenants : network[q] # None}]
          /\ UNCHANGED <<memory, answers>>
       \/ /\ allocated[r] = None /\ Free(r) = {} /\ ask[r].freed
          /\ ask' = [ask EXCEPT ![r] = NoAsk] /\ answers' = [answers EXCEPT ![r] = "refused"]
          /\ UNCHANGED memory
    /\ UNCHANGED <<row, network, attached, others, wakes, glitches, outside>>

\* One network is inspected: it is stale without a row of its Room or a container.
Inspect(r, q) ==
    /\ At(r, "reclaim") /\ ask[r].aim = None /\ q \in ask[r].stale
    /\ ask' = [ask EXCEPT ![r].stale = @ \ {q},
                          ![r].aim = IF ~Active(q) /\ network[q] # None /\ q \notin attached
                                     THEN [of |-> q, subnet |-> network[q]] ELSE None]
    /\ UNCHANGED <<row, network, attached, others, memory, answers, wakes, glitches, outside>>

\* removeManagedNetwork: what is gone by now counts as removed, and keeps its claim.
Reclaim(r) ==
    /\ At(r, "reclaim") /\ ask[r].aim # None
    /\ LET q == ask[r].aim.of
       IN  \/ /\ network' = [network EXCEPT ![q] = None]
              /\ IF network[q] # None THEN Releases(q) ELSE UNCHANGED memory
              /\ ask' = [ask EXCEPT ![r].aim = None, ![r].freed = TRUE, ![r].used = @ \ {ask[r].aim.subnet}]
              /\ UNCHANGED glitches
           \/ /\ Glitch
              /\ ask' = [ask EXCEPT ![r].aim = None]
              /\ UNCHANGED <<network, memory>>
    /\ UNCHANGED <<row, attached, others, answers, wakes, outside>>

\* It is tried once more when something was reclaimed.
Reclaimed(r) ==
    /\ At(r, "reclaim") /\ ask[r].aim = None /\ ask[r].stale = {}
    /\ ask' = [ask EXCEPT ![r] = IF @.freed THEN [@ EXCEPT !.pc = "allocate"] ELSE NoAsk]
    /\ answers' = [answers EXCEPT ![r] = IF ask[r].freed THEN @ ELSE "refused"]
    /\ UNCHANGED <<row, network, attached, others, memory, wakes, glitches, outside>>

\* The engine refuses a subnet that overlaps with another. Whatever fails, also when
\* only the answer is lost, gives the subnet back.
Create(r) ==
    /\ At(r, "create")
    /\ \/ /\ allocated[r] \notin InUse
          /\ network' = [network EXCEPT ![r] = allocated[r]]
          /\ answers' = [answers EXCEPT ![r] = "made"]
          /\ UNCHANGED <<memory, glitches>>
       \/ /\ \/ allocated[r] \in InUse /\ UNCHANGED <<network, glitches>>
             \/ /\ allocated[r] \notin InUse /\ Glitch
                /\ network' \in {network, [network EXCEPT ![r] = allocated[r]]}
          /\ Releases(r)
          /\ answers' = [answers EXCEPT ![r] = "failed"]
    /\ ask' = [ask EXCEPT ![r] = NoAsk]
    /\ UNCHANGED <<row, attached, others, wakes, outside>>

-----------------------------------------------------------------------------
(* Deletion; the row goes last. *)

Delete(r) == Active(r) /\ Asks(r, "remove") /\ UNCHANGED row

\* removeRoomNetwork: it is asked for again after it was removed.
RemoveNetwork(r) ==
    /\ At(r, "remove")
    /\ \/ network' = [network EXCEPT ![r] = None] /\ Releases(r) /\ Goes(r, "row") /\ UNCHANGED glitches
       \/ /\ Glitch
          /\ network' \in {network, [network EXCEPT ![r] = None]}
          /\ Goes(r, "idle") /\ UNCHANGED memory
    /\ UNCHANGED <<row, attached, others, answers, wakes, outside>>

ForgetRow(r) ==
    /\ At(r, "row")
    /\ row' = [row EXCEPT ![r] = "gone"] /\ Goes(r, "idle")
    /\ UNCHANGED <<network, attached, others, memory, answers, wakes, glitches, outside>>

-----------------------------------------------------------------------------
(* DevHotel dies; the reconciliation adopts what has a row and removes the rest. *)

Die ==
    /\ Glitch
    /\ \E adopted \in SUBSET {r \in Tenants : Active(r) /\ network[r] # None},
          removed \in SUBSET {r \in Tenants : ~Active(r) /\ network[r] # None /\ r \notin attached} :
         /\ network' = [r \in Tenants |-> IF r \in removed THEN None ELSE network[r]]
         /\ allocated' = [r \in Tenants |-> IF r \in adopted THEN network[r] ELSE None]
         /\ claimed' = {network[r] : r \in adopted}
    /\ ask' = [r \in Tenants |-> NoAsk]
    /\ UNCHANGED <<row, attached, others, answers, wakes, outside>>

\* Others make and remove networks, and prune those that no container uses.
Outside ==
    /\ glitches + outside < MaxTrouble /\ outside' = outside + 1
    /\ \/ \E s \in Subnets \ InUse : others' = others \cup {s} /\ UNCHANGED network
       \/ \E s \in others : others' = others \ {s} /\ UNCHANGED network
       \/ \E r \in Tenants \ attached :
            network[r] # None /\ network' = [network EXCEPT ![r] = None] /\ UNCHANGED others
    /\ UNCHANGED <<row, attached, memory, ask, answers, wakes, glitches>>

-----------------------------------------------------------------------------

\* Networks of an earlier installation may be left.
Init ==
    /\ network \in [Tenants -> Subnets \cup {None}]
    /\ \A r, q \in Tenants : r # q /\ network[r] # None => network[r] # network[q]
    /\ row = [r \in Tenants |-> IF network[r] = None THEN "never" ELSE "gone"]
    /\ attached \in SUBSET {r \in Tenants : network[r] # None}
    /\ others = {}
    /\ allocated = [r \in Tenants |-> None] /\ claimed = {}
    /\ ask = [r \in Tenants |-> NoAsk] /\ answers = [r \in Tenants |-> None]
    /\ wakes = 0 /\ glitches = 0 /\ outside = 0

Next ==
    \/ \E r \in Tenants : \/ Wake(r) \/ Look(r) \/ Collect(r) \/ Allocate(r)
                          \/ Reclaim(r) \/ Reclaimed(r) \/ Create(r)
                          \/ Delete(r) \/ RemoveNetwork(r) \/ ForgetRow(r)
                          \/ \E q \in Tenants : Inspect(r, q)
    \/ Die \/ Outside

Spec == Init /\ [][Next]_vars

-----------------------------------------------------------------------------
(* Properties *)

\* Every variable has its type.
TypeOK ==
    /\ network \in [Tenants -> Subnets \cup {None}] /\ allocated \in [Tenants -> Subnets \cup {None}]
    /\ claimed \subseteq Subnets /\ others \subseteq Subnets
    /\ row \in [Tenants -> {"never", "there", "gone"}]

\* No subnet is lost: what the allocator holds it gave to a Room that has a row, and,
\* as long as the engine answers, to one Room.
ClaimsAreBacked ==
    /\ \A s \in claimed : \E r \in Tenants : allocated[r] = s /\ Active(r)
    /\ \A r, q \in Tenants :
          r # q /\ allocated[r] # None /\ glitches = 0 => allocated[r] # allocated[q]

\* A Room with a row loses its network to its own deletion, or to others.
RoomKeepsNetwork ==
    \A r \in Tenants : network[r] # None /\ network'[r] = None /\ row[r] = "there"
       => At(r, "remove") \/ outside' # outside

\* Who is told that the pool is exhausted finds every subnet with a network, or with
\* a Room that keeps it, unless somebody gave one back since.
RefusalIsTrue ==
    \A r \in Tenants :
       /\ answers'[r] = "refused" /\ answers[r] # "refused"
       /\ outside = 0 /\ ask[r].alone
       => Subnets \subseteq InUse \cup {allocated[q] : q \in {x \in Tenants : Active(x)}}
=============================================================================
