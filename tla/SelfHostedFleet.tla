--------------------------- MODULE SelfHostedFleet --------------------------
(***************************************************************************)
(* Machines of the self-hosted edition: enrollment, the private network,   *)
(* the runtime on the hub, the command relay over the table of commands,   *)
(* and removal (networking.rs, main.rs, runtime.rs; provision.rs of the    *)
(* agent).                                                                 *)
(*                                                                         *)
(* Every statement or transaction is a step; a handler that runs several   *)
(* of them leaves what it has read in `asks`, `ready`, `saving` or         *)
(* `removing`.                                                             *)
(***************************************************************************)
EXTENDS Integers, FiniteSets

CONSTANTS
  Ticket,        \* enrollment tokens
  Host,          \* machines, each enrolled at most once
  Call,          \* requests to the scheduler, each sent at most once
  FleetMishaps   \* bound: answers lost, callers cut off, agents restarted

VARIABLES
  tickets,    \* enrollment_tokens
  hosts,      \* rows of machines, with the token they enrolled with
  nodes,      \* fleet_network_nodes: address slot, or 0
  nextslot,   \* the sequence of address slots
  hub,        \* the rows with is_server
  configured, \* the settings name servers of their own
  runtime,    \* the machine the runtime's address names, or NoHost
  placed,     \* machines that services or databases refer to
  asks,       \* configurations being computed, with the settings they read
  ready, saving, removing,
  calls, mishaps

shfvars == <<tickets, hosts, nodes, nextslot, hub, configured, runtime, placed,
             asks, ready, saving, removing, calls, mishaps>>
rows    == <<tickets, hosts, nodes, nextslot, hub, configured, runtime, placed>>
pending == <<asks, ready, saving, removing>>
NoHost   == "none"
NoTicket == "none"

Init ==
  /\ tickets = [t \in Ticket |-> "none"]
  /\ hosts = [h \in Host |-> [state |-> "none", ticket |-> NoTicket]]
  /\ nodes = [h \in Host |-> 0] /\ nextslot = 1 /\ hub = {}
  /\ configured = FALSE /\ runtime = NoHost /\ placed = {}
  /\ asks = [h \in Host |-> "none"] /\ ready = {} /\ saving = {} /\ removing = {}
  /\ calls = [c \in Call |-> [host |-> NoHost, row |-> "none", caller |-> "none", held |-> FALSE, runs |-> 0]]
  /\ mishaps = 0

Mishap == mishaps < FleetMishaps /\ mishaps' = mishaps + 1
Joined(h) == hosts[h].state = "joined"
-----------------------------------------------------------------------------
(* Enrollment.                                                             *)

CreateEnrollment(t) ==
  /\ tickets[t] = "none" /\ tickets' = [tickets EXCEPT ![t] = "new"]
  /\ UNCHANGED <<hosts, nodes, nextslot, hub, configured, runtime, placed, pending, calls, mishaps>>

\* Fifteen minutes.
EnrollmentExpires(t) ==
  /\ tickets[t] = "new" /\ tickets' = [tickets EXCEPT ![t] = "expired"]
  /\ UNCHANGED <<hosts, nodes, nextslot, hub, configured, runtime, placed, pending, calls, mishaps>>

BugValid(t) == tickets[t] \in {"new", "used"}
\* An enrollment token works once and for fifteen minutes.
Valid(t) == tickets[t] = "new"

\* The answer may be lost: the machine is on record and nobody has its credential.
Enroll(h, t) ==
  /\ hosts[h].state = "none" /\ Valid(t) /\ tickets' = [tickets EXCEPT ![t] = "used"]
  /\ hosts' = [hosts EXCEPT ![h] = [state |-> "joined", ticket |-> t]]
  /\ UNCHANGED <<nodes, nextslot, hub, configured, runtime, placed, pending, calls, mishaps>>
-----------------------------------------------------------------------------
(* The private network.                                                    *)

SetNetwork ==
  /\ configured' = ~configured
  /\ UNCHANGED <<tickets, hosts, nodes, nextslot, hub, runtime, placed, pending, calls, mishaps>>

\* agent_config reads the machine and the settings ...
AskConfig(h) ==
  /\ Joined(h) /\ asks[h] = "none"
  /\ asks' = [asks EXCEPT ![h] = IF configured THEN "peer" ELSE "first"]
  /\ UNCHANGED <<rows, ready, saving, removing, calls, mishaps>>

BugNeedsSlot(h) == TRUE
\* refresh_network_node takes an address for a machine that has none.
NeedsSlot(h) == nodes[h] = 0

BugFirst(h) == asks[h] = "first"
\* The first node of a fleet without servers of its own becomes its hub.
First(h) == asks[h] = "first" /\ hub = {}

\* ... and adds or refreshes its node under the fleet's lock.
JoinNetwork(h) ==
  /\ asks[h] # "none" /\ asks' = [asks EXCEPT ![h] = "none"]
  /\ nextslot' = IF NeedsSlot(h) THEN nextslot + 1 ELSE nextslot
  /\ IF NeedsSlot(h) /\ Joined(h)
     THEN /\ nodes' = [nodes EXCEPT ![h] = nextslot]
          /\ hub' = IF First(h) THEN hub \cup {h} ELSE hub
     ELSE UNCHANGED <<nodes, hub>>
  /\ UNCHANGED <<tickets, hosts, configured, runtime, placed, ready, saving, removing, calls, mishaps>>
-----------------------------------------------------------------------------
(* The runtime.                                                            *)

CheckReady(h) ==
  /\ Joined(h) /\ h \in hub /\ h \notin ready /\ ready' = ready \cup {h}
  /\ UNCHANGED <<rows, asks, saving, removing, calls, mishaps>>

\* runtime_ready keeps a runtime that is configured already.
RuntimeReady(h) ==
  /\ h \in ready /\ ready' = ready \ {h}
  /\ runtime' = IF runtime = NoHost THEN h ELSE runtime
  /\ UNCHANGED <<tickets, hosts, nodes, nextslot, hub, configured, placed, asks, saving, removing, calls, mishaps>>

\* save_runtime asks the machine for its nodes, then saves.
CheckRuntime(h) ==
  /\ Joined(h) /\ h \notin saving /\ saving' = saving \cup {h}
  /\ UNCHANGED <<rows, asks, ready, removing, calls, mishaps>>

SaveRuntime(h) ==
  /\ h \in saving /\ saving' = saving \ {h} /\ runtime' = h
  /\ UNCHANGED <<tickets, hosts, nodes, nextslot, hub, configured, placed, asks, ready, removing, calls, mishaps>>

\* A service or a database is placed on a machine, or leaves it.  Deployments refer to
\* machines too, but are detached before their machine is deleted (runtime.rs:591).
Place(h) ==
  /\ (Joined(h) /\ h \notin placed /\ placed' = placed \cup {h}) \/ (h \in placed /\ placed' = placed \ {h})
  /\ UNCHANGED <<tickets, hosts, nodes, nextslot, hub, configured, runtime, pending, calls, mishaps>>
-----------------------------------------------------------------------------
(* Removal.                                                                *)

CheckRemoval(h) ==
  /\ Joined(h) /\ h \notin removing \cup hub \cup {runtime} \cup placed
  /\ removing' = removing \cup {h}
  /\ UNCHANGED <<rows, asks, ready, saving, calls, mishaps>>

BugRestricted(h) == FALSE
\* The references of services and databases to their machine.
Restricted(h) == h \in placed

\* The node and the commands of the machine go with it.
DeleteMachine(h) ==
  /\ h \in removing /\ removing' = removing \ {h}
  /\ IF Restricted(h) THEN UNCHANGED <<hosts, nodes, hub, calls>>
     ELSE /\ hosts' = [hosts EXCEPT ![h].state = "gone"]
          /\ nodes' = [nodes EXCEPT ![h] = 0] /\ hub' = hub \ {h}
          /\ calls' = [c \in Call |-> IF calls[c].host = h THEN [calls[c] EXCEPT !.row = "deleted"] ELSE calls[c]]
  /\ UNCHANGED <<tickets, nextslot, configured, runtime, placed, asks, ready, saving, mishaps>>
-----------------------------------------------------------------------------
(* The relay.                                                              *)

Wait(c, field, value) == calls' = [calls EXCEPT ![c][field] = value]

NomadRequest(c) ==
  /\ calls[c].row = "none" /\ runtime # NoHost /\ Joined(runtime)
  /\ calls' = [calls EXCEPT ![c].host = runtime, ![c].row = "stored", ![c].caller = "waiting"]
  /\ UNCHANGED <<rows, pending, mishaps>>

\* The minute in which a command may be picked up, and the caller waits.
MinuteEnds(c) ==
  /\ calls[c].row = "stored" /\ Wait(c, "row", "late") /\ UNCHANGED <<rows, pending, mishaps>>

BugClaimable(c) == calls[c].row \in {"stored", "claimed"}
Claimable(c) == calls[c].row = "stored"

\* The answer with the commands reaches the agent, or is lost.
Claim(h, lost) ==
  LET batch == {c \in Call : calls[c].host = h /\ Claimable(c)} IN
  /\ Joined(h) /\ batch # {} /\ ~\E c \in Call : calls[c].host = h /\ calls[c].held
  /\ IF lost THEN Mishap ELSE UNCHANGED mishaps
  /\ calls' = [c \in Call |-> IF c \in batch THEN [calls[c] EXCEPT !.row = "claimed", !.held = ~lost]
                                             ELSE calls[c]]
  /\ UNCHANGED <<rows, pending>>

\* The agent carries out a command and sends the result once; an error, or a result
\* that is refused, drops the rest of the batch.
Execute(c, lost) ==
  LET refused == lost \/ calls[c].row # "claimed" IN
  /\ calls[c].held /\ (IF lost THEN Mishap ELSE UNCHANGED mishaps)
  /\ calls' = [d \in Call |->
       IF d = c THEN [calls[c] EXCEPT !.held = FALSE, !.runs = @ + 1,
                                      !.row = IF refused THEN @ ELSE "answered"]
       ELSE IF refused /\ calls[d].host = calls[c].host THEN [calls[d] EXCEPT !.held = FALSE] ELSE calls[d]]
  /\ UNCHANGED <<rows, pending>>

AgentStops(h) ==
  /\ \E c \in Call : calls[c].host = h /\ calls[c].held
  /\ Mishap /\ UNCHANGED <<rows, pending>>
  /\ calls' = [c \in Call |-> IF calls[c].host = h THEN [calls[c] EXCEPT !.held = FALSE] ELSE calls[c]]

\* The caller polls; what it no longer finds is an error.
Poll(c) ==
  /\ calls[c].caller = "waiting" /\ calls[c].row \in {"answered", "deleted", "late", "claimed"}
  /\ calls' = [calls EXCEPT ![c].caller = IF calls[c].row = "answered" THEN "answered" ELSE "failed",
                            ![c].row = "deleted"]
  /\ UNCHANGED <<rows, pending, mishaps>>

\* A caller that is dropped leaves its command behind, for an hour.
CallerDropped(c) ==
  /\ calls[c].caller = "waiting" /\ Mishap /\ Wait(c, "caller", "dropped") /\ UNCHANGED <<rows, pending>>

Sweep(c) ==
  /\ calls[c].caller = "dropped" /\ calls[c].row \in {"late", "claimed", "answered"}
  /\ Wait(c, "row", "deleted") /\ UNCHANGED <<rows, pending, mishaps>>
-----------------------------------------------------------------------------
Next ==
  \/ \E t \in Ticket : CreateEnrollment(t) \/ EnrollmentExpires(t) \/ (\E h \in Host : Enroll(h, t))
  \/ SetNetwork
  \/ \E h \in Host : \/ AskConfig(h) \/ JoinNetwork(h) \/ CheckReady(h) \/ RuntimeReady(h)
                     \/ CheckRuntime(h) \/ SaveRuntime(h) \/ Place(h) \/ CheckRemoval(h) \/ DeleteMachine(h)
                     \/ AgentStops(h) \/ (\E lost \in BOOLEAN : Claim(h, lost))
  \/ \E c \in Call : \/ NomadRequest(c) \/ MinuteEnds(c) \/ Poll(c) \/ CallerDropped(c) \/ Sweep(c)
                     \/ \E lost \in BOOLEAN : Execute(c, lost)

Spec == Init /\ [][Next]_shfvars
-----------------------------------------------------------------------------
(* Properties.                                                             *)

TypeOK ==
  /\ tickets \in [Ticket -> {"none", "new", "used", "expired"}]
  /\ hosts \in [Host -> [state : {"none", "joined", "gone"}, ticket : Ticket \cup {NoTicket}]]
  /\ hub \subseteq {h \in Host : nodes[h] # 0} /\ Cardinality(hub) <= 1
  /\ \A h \in Host : nodes[h] # 0 => Joined(h) /\ nodes[h] < nextslot
  /\ \A c \in Call : calls[c].held => calls[c].host # NoHost

\* One token admits one machine, whatever the number of requests that carry it, and an
\* expired one admits none (main.rs:465-485).
TicketOnce == \A g, h \in Host : hosts[g].ticket = hosts[h].ticket /\ hosts[g].ticket # NoTicket => g = h

\* A command runs at most once, however its answers are lost and its agent restarts,
\* and a caller with a result has one of a command that ran (networking.rs:302-408).
RunsOnce == \A c \in Call : calls[c].runs <= 1 /\ (calls[c].caller = "answered" => calls[c].runs = 1)

\* A machine that asks again keeps its address, and a refresh spends none: the sequence
\* moves only for a machine that had no node (networking.rs:247-264).
AddressesAreKept ==
  [][\A h \in Host : nodes[h] # 0 /\ asks[h] # "none" /\ asks'[h] = "none"
       => nodes'[h] = nodes[h] /\ nextslot' = nextslot]_shfvars

\* What runs on a machine keeps its row, though the checks and the removal are
\* statements of their own (runtime.rs:568-601; 0001_control_plane.sql:42-49).
PlacedKeepsMachine == \A h \in placed : Joined(h)

\* The runtime names a machine that exists.
RuntimeHasMachine == runtime # NoHost => Joined(runtime)
=============================================================================
