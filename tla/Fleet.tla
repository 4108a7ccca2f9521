------------------------------- MODULE Fleet --------------------------------
(***************************************************************************)
(* The machines of one workspace: enrollment with single-use grants, the   *)
(* heartbeat, the private network, edits and removal (fleet.ts).           *)
(*                                                                         *)
(* Two stores without a common transaction are involved: the documents of  *)
(* the workspace object, which nothing interrupts between two awaits, and  *)
(* the directory (D1), which routes requests to the workspace and whose    *)
(* every statement is an await that may fail, also after its effect.       *)
(*                                                                         *)
(* Of a machine's document only the report matters here: its WireGuard key *)
(* and whether it runs Nomad.  Roles, tags and metrics are data, and so is *)
(* the setting that names the runtime, which no handler of this module     *)
(* reads.  Whether a machine owns workloads and how old its last report is *)
(* (60 s before a coordinator may go) is any.                              *)
(***************************************************************************)
EXTENDS Integers, FiniteSets

CONSTANTS
  Request,       \* requests that the workspace handles at the same time
  Grant,         \* enrollment tokens
  Machine,       \* identities given to machines (random, never reused)
  Key,           \* WireGuard public keys
  NoKey,         \* a report without one
  Report,        \* what machines report: a key or none, and whether Nomad runs
  Nobody,        \* a grant, a machine or a document that is not there
  MAX_MACHINES,  \* machines per workspace (MAX_MACHINES_PER_WORKSPACE)
  MAX_SLOT,      \* greatest network slot (65534)
  MaxFaults      \* bound: failed directory statements and evictions

ASSUME FleetAssumption ==
  /\ NoKey \notin Key
  /\ Report \subseteq [key : Key \cup {NoKey}, nomad : BOOLEAN]
  /\ Nobody \notin Grant \cup Machine \cup Report
  /\ MAX_MACHINES \in Nat /\ MAX_SLOT \in Nat /\ MaxFaults \in Nat

VARIABLES
  enrollments,        \* the grants' documents
  enrollment_routes,  \* directory: grants that are routed here
  machines,           \* the machines' documents
  machine_routes,     \* directory: machines that are routed here
  network_nodes,      \* addresses in the private network
  work,               \* requests in progress
  origin,             \* the grant each machine was enrolled with (history)
  removing,           \* machines whose removal was accepted (history)
  faults

vars == <<enrollments, enrollment_routes, machines, machine_routes,
          network_nodes, work, origin, removing, faults>>
grantVars   == <<enrollments, enrollment_routes>>
machineVars == <<machines, machine_routes, network_nodes>>

NoGrant == [issued |-> FALSE, used |-> FALSE, revoked |-> FALSE]
NoNode  == [slot |-> 0, server |-> FALSE, key |-> NoKey]
Idle    == [pc |-> "idle", grant |-> Nobody, machine |-> Nobody, doc |-> Nobody]

Init ==
  /\ enrollments = [g \in Grant |-> NoGrant]
  /\ enrollment_routes = {} /\ machine_routes = {}
  /\ machines = [m \in Machine |-> Nobody]
  /\ network_nodes = [m \in Machine |-> NoNode]
  /\ work = [r \in Request |-> Idle]
  /\ origin = [m \in Machine |-> Nobody]
  /\ removing = {}
  /\ faults = 0

Enrolled == {m \in Machine : machines[m] # Nobody}
Nodes    == {m \in Machine : network_nodes[m].slot # 0}
Server   == {m \in Nodes : network_nodes[m].server}

Goto(r, w) == work' = [work EXCEPT ![r] = w]
Done(r)    == Goto(r, Idle)
At(r, pc)  == work[r].pc = pc
-----------------------------------------------------------------------------
(* Grants.                                                                 *)

\* POST /api/enrollment-tokens, up to the directory; the token is fresh.
Offer(r, g) ==
  /\ At(r, "idle")
  /\ ~enrollments[g].issued /\ g \notin enrollment_routes
  /\ \A q \in Request : work[q].grant # g
  /\ Cardinality(Enrolled) < MAX_MACHINES
  /\ Goto(r, [Idle EXCEPT !.pc = "offer", !.grant = g])
  /\ UNCHANGED <<grantVars, machineVars, origin, removing, faults>>

PublishGrant(r) ==
  /\ At(r, "offer")
  /\ LET g == work[r].grant IN
     /\ enrollment_routes' = enrollment_routes \cup {g}
     /\ enrollments' = [enrollments EXCEPT ![g] = [NoGrant EXCEPT !.issued = TRUE]]
  /\ Done(r)
  /\ UNCHANGED <<machineVars, origin, removing, faults>>

\* The 15 minutes of a grant may be over at any look.
Usable(g) == enrollments[g].issued /\ ~enrollments[g].used /\ ~enrollments[g].revoked

\* DELETE /api/enrollment-tokens/<id>: first the document, then the directory.
Revoke(r, g) ==
  /\ At(r, "idle") /\ enrollments[g].issued /\ ~enrollments[g].used
  /\ enrollments' = [enrollments EXCEPT ![g].revoked = TRUE]
  /\ Goto(r, [Idle EXCEPT !.pc = "revoke", !.grant = g])
  /\ UNCHANGED <<enrollment_routes, machineVars, origin, removing, faults>>

Unpublish(r) ==
  /\ At(r, "revoke")
  /\ enrollment_routes' = enrollment_routes \ {work[r].grant}
  /\ Done(r)
  /\ UNCHANGED <<enrollments, machineVars, origin, removing, faults>>
-----------------------------------------------------------------------------
(* Enrollment: the route is published before the grant is consumed.        *)

\* POST /api/agent/enroll: routed by the directory, the grant looked at;
\* the identity is fresh.
Enroll(r, g, m, report) ==
  /\ At(r, "idle") /\ g \in enrollment_routes /\ Usable(g)
  /\ origin[m] = Nobody /\ m \notin machine_routes
  /\ \A q \in Request : work[q].machine # m
  /\ Goto(r, [pc |-> "route", grant |-> g, machine |-> m, doc |-> report])
  /\ UNCHANGED <<grantVars, machineVars, origin, removing, faults>>

InsertRoute(r) ==
  /\ At(r, "route")
  /\ machine_routes' = machine_routes \cup {work[r].machine}
  /\ Goto(r, [work[r] EXCEPT !.pc = "consume"])
  /\ UNCHANGED <<grantVars, machines, network_nodes, origin, removing,
                 faults>>

BugMayConsume(g) ==   \* the grant was looked at before
  Cardinality(Enrolled) < MAX_MACHINES
BugStillOffered(g) ==   \* revocation is left to the directory
  /\ ~enrollments[g].used
  /\ Cardinality(Enrolled) < MAX_MACHINES

\* What the transaction checks again.
MayConsume(g) == Usable(g) /\ Cardinality(Enrolled) < MAX_MACHINES

\* The transaction; it refuses what it may not consume and what has expired.
Consume(r) ==
  /\ At(r, "consume")
  /\ LET g == work[r].grant  m == work[r].machine IN
     \/ /\ MayConsume(g)
        /\ machines' = [machines EXCEPT ![m] = work[r].doc]
        /\ enrollments' = [enrollments EXCEPT ![g].used = TRUE]
        /\ origin' = [origin EXCEPT ![m] = g]
        /\ Done(r)
     \/ /\ Goto(r, [work[r] EXCEPT !.pc = "unroute"])
        /\ UNCHANGED <<machines, enrollments, origin>>
  /\ UNCHANGED <<enrollment_routes, machine_routes, network_nodes,
                 removing, faults>>

\* A refused enrollment withdraws its route, an accepted removal the machine's.
DeleteRoute(r, next) ==
  /\ machine_routes' = machine_routes \ {work[r].machine}
  /\ Goto(r, next)
  /\ UNCHANGED <<grantVars, machines, network_nodes, origin, removing,
                 faults>>
Unroute(r) == At(r, "unroute") /\ DeleteRoute(r, Idle)
-----------------------------------------------------------------------------
(* Requests of a machine: routed by the directory and authenticated by its *)
(* document.                                                               *)

Authentic(m) == m \in machine_routes /\ machines[m] # Nobody

\* POST heartbeat and PUT of the machine read the document, wait for the body
\* and save the document they read with what came.
Read(r, m, pc) ==
  /\ At(r, "idle")
  /\ Goto(r, [Idle EXCEPT !.pc = pc, !.machine = m, !.doc = machines[m]])
  /\ UNCHANGED <<grantVars, machineVars, origin, removing, faults>>
Save(r, report) ==
  /\ machines' = [machines EXCEPT ![work[r].machine] = report]
  /\ Done(r)
  /\ UNCHANGED <<grantVars, machine_routes, network_nodes, origin,
                 removing, faults>>

HeartbeatRead(r, m) == Authentic(m) /\ Read(r, m, "heartbeat")
HeartbeatSave(r, report) == At(r, "heartbeat") /\ Save(r, report)
EditRead(r, m) == m \in Enrolled /\ Read(r, m, "edit")
EditSave(r) == At(r, "edit") /\ Save(r, work[r].doc)

BugNextSlot(m) == Cardinality(Nodes) + 2   \* counts the nodes that are left

\* The slot a machine has, or one above all slots in use, from 2.
NextSlot(m) ==
  IF m \in Nodes THEN network_nodes[m].slot
  ELSE 1 + (CHOOSE s \in {1} \cup {network_nodes[n].slot : n \in Nodes} :
              \A n \in Nodes : network_nodes[n].slot <= s)

BugBecomesServer(m) ==   \* no worker is there yet
  IF m \in Nodes THEN network_nodes[m].server ELSE Nodes \ Server = {}

BecomesServer(m) ==
  IF m \in Nodes THEN network_nodes[m].server ELSE Server = {}

BugConfig(m) ==   \* without the limit
  /\ Authentic(m) /\ machines[m].key # NoKey
  /\ \A n \in Nodes \ {m} : network_nodes[n].key # machines[m].key
  /\ network_nodes' = [network_nodes EXCEPT ![m] =
       [slot |-> NextSlot(m), server |-> BecomesServer(m), key |-> machines[m].key]]
  /\ UNCHANGED <<grantVars, machines, machine_routes, work, origin,
                 removing, faults>>

\* GET config: networkNode().
Config(m) ==
  /\ Authentic(m) /\ machines[m].key # NoKey
  /\ NextSlot(m) <= MAX_SLOT
  /\ \A n \in Nodes \ {m} : network_nodes[n].key # machines[m].key
  /\ network_nodes' = [network_nodes EXCEPT ![m] =
       [slot |-> NextSlot(m), server |-> BecomesServer(m), key |-> machines[m].key]]
  /\ UNCHANGED <<grantVars, machines, machine_routes, work, origin,
                 removing, faults>>
-----------------------------------------------------------------------------
(* Removal.                                                                *)

\* assertMachineRemovable()
Removable(m) ==
  m \in Server => Nodes = {m} /\ \A n \in Enrolled \ {m} : ~machines[n].nomad

\* DELETE /api/machines/<id>
Remove(r, m) ==
  /\ At(r, "idle") /\ m \in Enrolled /\ Removable(m)
  /\ Goto(r, [Idle EXCEPT !.pc = "leave", !.machine = m])
  /\ removing' = removing \cup {m}
  /\ UNCHANGED <<grantVars, machineVars, origin, faults>>

RemoveRoute(r) == At(r, "leave") /\ DeleteRoute(r, [work[r] EXCEPT !.pc = "delete"])

BugRemoveDocs(r) ==   \* the node stays
  /\ At(r, "delete")
  /\ machines' = [machines EXCEPT ![work[r].machine] = Nobody]
  /\ Done(r)
  /\ UNCHANGED <<grantVars, machine_routes, network_nodes, origin,
                 removing, faults>>

RemoveDocs(r) ==
  /\ At(r, "delete")
  /\ LET m == work[r].machine IN
     /\ machines' = [machines EXCEPT ![m] = Nobody]
     /\ network_nodes' = [network_nodes EXCEPT ![m] = NoNode]
  /\ Done(r)
  /\ UNCHANGED <<grantVars, machine_routes, origin, removing, faults>>
-----------------------------------------------------------------------------
(* Faults.                                                                 *)

\* The effect that a directory statement may have had although it failed.
LateEffect(r) ==
  LET w == work[r] IN
  /\ enrollment_routes' = CASE w.pc = "offer"  -> enrollment_routes \cup {w.grant}
                            [] w.pc = "revoke" -> enrollment_routes \ {w.grant}
                            [] OTHER -> enrollment_routes
  /\ machine_routes' = CASE w.pc = "route" -> machine_routes \cup {w.machine}
                         [] w.pc \in {"unroute", "leave"} -> machine_routes \ {w.machine}
                         [] OTHER -> machine_routes

BugDirectoryFails(r) ==   \* enrollment goes on without its route
  /\ faults < MaxFaults /\ faults' = faults + 1
  /\ At(r, "route")
  /\ Goto(r, [work[r] EXCEPT !.pc = "consume"])
  /\ UNCHANGED <<grantVars, machineVars, origin, removing>>

\* The statement fails and the error ends the request.
DirectoryFails(r) ==
  /\ faults < MaxFaults /\ faults' = faults + 1
  /\ work[r].pc \in {"offer", "revoke", "route", "unroute", "leave"}
  /\ Done(r)
  /\ LateEffect(r) \/ UNCHANGED <<enrollment_routes, machine_routes>>
  /\ UNCHANGED <<enrollments, machines, network_nodes, origin, removing>>

\* The workspace object restarts: requests are gone, documents are not.
Evict ==
  /\ faults < MaxFaults /\ faults' = faults + 1
  /\ work' = [r \in Request |-> Idle]
  /\ UNCHANGED <<grantVars, machineVars, origin, removing>>
-----------------------------------------------------------------------------
OfGrant(r) ==
  \/ \E g \in Grant : Offer(r, g) \/ Revoke(r, g)
  \/ PublishGrant(r) \/ Unpublish(r)
OfMachine(r) ==
  \/ \E g \in Grant, m \in Machine, report \in Report : Enroll(r, g, m, report)
  \/ InsertRoute(r) \/ Consume(r) \/ Unroute(r)
  \/ \E m \in Machine : HeartbeatRead(r, m) \/ EditRead(r, m) \/ Remove(r, m)
  \/ \E report \in Report : HeartbeatSave(r, report)
  \/ EditSave(r) \/ RemoveRoute(r) \/ RemoveDocs(r)

Next ==
  \/ \E r \in Request : OfGrant(r) \/ OfMachine(r) \/ DirectoryFails(r)
  \/ \E m \in Machine : Config(m)
  \/ Evict

Spec == Init /\ [][Next]_vars
-----------------------------------------------------------------------------
Location == {"idle", "offer", "revoke", "route", "consume", "unroute", "heartbeat",
             "edit", "leave", "delete"}

\* The documents, the directory and the requests have the shape the handlers
\* give them; in particular no slot is above the limit of networkNode().
TypeOK ==
  /\ enrollments \in [Grant -> [issued : BOOLEAN, used : BOOLEAN, revoked : BOOLEAN]]
  /\ enrollment_routes \subseteq Grant
  /\ machines \in [Machine -> Report \cup {Nobody}]
  /\ machine_routes \subseteq Machine
  /\ network_nodes \in [Machine -> [slot : 0..MAX_SLOT, server : BOOLEAN,
                                    key : Key \cup {NoKey}]]
  /\ work \in [Request -> [pc : Location, grant : Grant \cup {Nobody},
                           machine : Machine \cup {Nobody},
                           doc : Report \cup {Nobody}]]
  /\ origin \in [Machine -> Grant \cup {Nobody}]
  /\ removing \subseteq Machine
  /\ faults \in 0..MaxFaults

\* A grant enrolls at most one machine, however many requests that carry it
\* passed the first look before the transaction consumed it (fleet.ts 299-331).
GrantUsedOnce ==
  \A m, n \in Machine : origin[m] # Nobody /\ origin[m] = origin[n] => m = n

\* No machine joins with a grant whose revocation was accepted, and none whose
\* grant connected it is told that it was revoked; requests that were routed
\* before the directory was cleaned up included.
RevokedNeverConnects ==
  \A m \in Machine : origin[m] # Nobody => ~enrollments[origin[m]].revoked

\* What a grant permits: one machine, until it is revoked (fleet.ts 248-342).
GrantsHold == GrantUsedOnce /\ RevokedNeverConnects

\* Machines that share the network share neither address nor WireGuard key,
\* although slots become free, keys change and reports are saved late.
DistinctNodes ==
  \A m, n \in Nodes : m # n =>
    /\ network_nodes[m].slot # network_nodes[n].slot
    /\ network_nodes[m].key # network_nodes[n].key

\* No second coordinator is ever appointed.
OneCoordinator == \A m, n \in Server : m = n

\* Every node belongs to a machine, so that no peer is configured for a machine
\* that was removed.
NodeHasMachine == Nodes \subseteq Enrolled

\* The private network is sound, whatever order machines join and leave in.
NetworkSound == DistinctNodes /\ OneCoordinator /\ NodeHasMachine

\* A machine that was enrolled keeps its document and stays reachable through
\* the directory until its removal is accepted, whatever fails in between.
KeptUntilRemoved ==
  \A m \in Machine : origin[m] # Nobody /\ m \notin removing =>
    m \in Enrolled /\ m \in machine_routes
=============================================================================
