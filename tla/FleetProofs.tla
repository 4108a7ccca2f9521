---------------------------- MODULE FleetProofs -----------------------------
(***************************************************************************)
(* Theorems about Fleet, for any numbers of requests, grants, machines and *)
(* keys, any limits and any faults.                                        *)
(***************************************************************************)
EXTENDS Fleet, TLAPS, WellFoundedInduction

Doc  == [issued : BOOLEAN, used : BOOLEAN, revoked : BOOLEAN]
Node == [slot : 0..MAX_SLOT, server : BOOLEAN, key : Key \cup {NoKey}]
Work == [pc : Location, grant : Grant \cup {Nobody},
         machine : Machine \cup {Nobody}, doc : Report \cup {Nobody}]

\* What a request in progress knows.  A token that is being published and a
\* machine that is being enrolled belong to one request only.
InFlight == \A r \in Request :
  /\ work[r].pc = "offer" =>
       /\ work[r].grant \in Grant /\ ~enrollments[work[r].grant].issued
       /\ \A q \in Request \ {r} : work[q].grant # work[r].grant
  /\ work[r].pc = "revoke" => work[r].grant \in Grant
  /\ work[r].pc \in {"route", "consume"} =>
       work[r].grant \in Grant /\ work[r].doc \in Report
  /\ work[r].pc \in {"route", "consume", "unroute"} =>
       /\ work[r].machine \in Machine /\ origin[work[r].machine] = Nobody
       /\ \A q \in Request \ {r} : work[q].machine # work[r].machine
  /\ work[r].pc = "consume" => work[r].machine \in machine_routes
  /\ work[r].pc \in {"heartbeat", "edit"} =>
       /\ work[r].machine \in Machine /\ work[r].doc \in Report
       /\ origin[work[r].machine] # Nobody
  /\ work[r].pc \in {"leave", "delete"} => work[r].machine \in removing

\* A grant that connected a machine says so, and was offered before.
GrantsTold ==
  /\ \A g \in Grant : enrollments[g].used => enrollments[g].issued
  /\ \A m \in Machine : origin[m] # Nobody =>
       enrollments[origin[m]].used /\ ~enrollments[origin[m]].revoked

\* Documents and removals are those of machines that were enrolled.
Known == \A m \in Machine : m \in Enrolled \cup removing => origin[m] # Nobody

IInv == TypeOK /\ InFlight /\ GrantsTold /\ Known
-----------------------------------------------------------------------------
\* The greatest slot in use exists: slots are bounded.
LEMMA GreatestSlot ==
  ASSUME TypeOK
  PROVE  \E s \in {1} \cup {network_nodes[n].slot : n \in Nodes} :
           \A n \in Nodes : network_nodes[n].slot <= s
<1> DEFINE used == {1} \cup {network_nodes[n].slot : n \in Nodes}
           room == {k \in Nat : MAX_SLOT + 1 - k \in used}
<1>1. MAX_SLOT \in Nat
  BY FleetAssumption
<1>2. \A s \in used : s \in 0..(MAX_SLOT + 1)
  BY <1>1 DEF TypeOK, Nodes
<1>3. MAX_SLOT \in room
  BY <1>1
<1>4. room \subseteq Nat /\ room # {}
  BY <1>3
<1>5. PICK k \in room : \A j \in room : <<j, k>> \notin OpToRel(<, Nat)
  <2> HIDE DEF room
  <2> QED
    BY <1>4, NatLessThanWellFounded, WFMin
<1>6. \A j \in room : k <= j
  <2> HIDE DEF room
  <2>1. \A j \in room : j \in Nat /\ k \in Nat
    BY <1>4
  <2>2. \A j \in room : ~ (j < k)
    BY <1>4, <1>5, Zenon DEF OpToRel
  <2> QED
    BY <2>1, <2>2
<1>7. \A n \in Nodes : network_nodes[n].slot <= MAX_SLOT + 1 - k
  <2> TAKE n \in Nodes
  <2> DEFINE s == network_nodes[n].slot
  <2>1. s \in used /\ s \in 0..(MAX_SLOT + 1)
    BY <1>2
  <2>2. MAX_SLOT + 1 - s \in room
    BY <2>1, <1>1
  <2>3. k <= MAX_SLOT + 1 - s
    BY <2>2, <1>6
  <2> QED
    BY <2>1, <2>3, <1>1
<1> QED
  BY <1>7

LEMMA SlotChosen ==
  ASSUME TypeOK, NEW m \in Machine
  PROVE  /\ NextSlot(m) \in Nat \ {0}
         /\ m \notin Nodes => \A n \in Nodes : network_nodes[n].slot < NextSlot(m)
<1> DEFINE used == {1} \cup {network_nodes[n].slot : n \in Nodes}
           top  == CHOOSE s \in used : \A n \in Nodes : network_nodes[n].slot <= s
<1>1. used \subseteq Nat
  BY FleetAssumption DEF TypeOK, Nodes
<1>2. top \in used /\ \A n \in Nodes : network_nodes[n].slot <= top
  BY GreatestSlot
<1>3. top \in Nat /\ \A n \in Nodes : network_nodes[n].slot \in Nat
  BY <1>1, <1>2 DEF TypeOK, Nodes
<1>4. CASE m \in Nodes
  BY <1>4, <1>3 DEF NextSlot, Nodes
<1>5. CASE m \notin Nodes
  <2>1. NextSlot(m) = 1 + top
    BY <1>5 DEF NextSlot
  <2> QED
    BY <2>1, <1>2, <1>3
<1> QED
  BY <1>4, <1>5
-----------------------------------------------------------------------------
LEMMA IdleIsWork == Idle \in Work
BY DEF Idle, Work, Location

LEMMA Stepped ==
  ASSUME TypeOK, NEW r \in Request, NEW w \in Work, Goto(r, w)
  PROVE  work' \in [Request -> Work]
BY DEF TypeOK, Work, Goto

LEMMA InitInv ==
  ASSUME Init PROVE IInv
<1>1. TypeOK
  BY FleetAssumption, IdleIsWork DEF Init, TypeOK, Work, NoGrant, NoNode
<1>2. InFlight
  BY DEF Init, InFlight, Idle
<1>3. GrantsTold /\ Known
  BY DEF Init, GrantsTold, Known, Enrolled, NoGrant
<1> QED
  BY <1>1, <1>2, <1>3 DEF IInv

\* Every step preserves the type; InFlight says which locals are set.
LEMMA TypeKept ==
  ASSUME IInv, [Next]_vars PROVE TypeOK'
<1> USE DEF IInv, grantVars, machineVars
<1>1. ASSUME NEW r \in Request, OfGrant(r) PROVE TypeOK'
  <2>1. ASSUME NEW g \in Grant, Offer(r, g) \/ Revoke(r, g) PROVE TypeOK'
    <3>1. \A pc \in Location : [Idle EXCEPT !.pc = pc, !.grant = g] \in Work
      BY DEF Idle, Work
    <3>2. work' \in [Request -> Work]
      BY <2>1, <3>1, Stepped DEF Offer, Revoke, Location
    <3>3. CASE Offer(r, g)
      BY <3>3, <3>2 DEF Offer, TypeOK, Work
    <3>4. CASE Revoke(r, g)
      <4>1. \A doc \in Doc : [doc EXCEPT !.revoked = TRUE] \in Doc
        BY DEF Doc
      <4>2. enrollments \in [Grant -> Doc]
        BY DEF TypeOK, Doc
      <4>3. enrollments' \in [Grant -> Doc]
        BY <3>4, <4>1, <4>2 DEF Revoke
      <4> QED
        BY <3>4, <3>2, <4>3 DEF Revoke, TypeOK, Work, Doc
    <3> QED
      BY <2>1, <3>3, <3>4
  <2>2. CASE PublishGrant(r)
    <3>1. work' \in [Request -> Work]
      BY <2>2, IdleIsWork, Stepped DEF PublishGrant, Done
    <3>2. work[r].grant \in Grant
      BY <2>2 DEF PublishGrant, At, InFlight
    <3>3. [NoGrant EXCEPT !.issued = TRUE] \in Doc
      BY DEF NoGrant, Doc
    <3>4. /\ enrollments' \in [Grant -> Doc]
          /\ enrollment_routes' \subseteq Grant
      BY <2>2, <3>2, <3>3 DEF PublishGrant, TypeOK, Doc
    <3> QED
      BY <2>2, <3>1, <3>4 DEF PublishGrant, TypeOK, Work, Doc
  <2>3. CASE Unpublish(r)
    <3>1. work' \in [Request -> Work]
      BY <2>3, IdleIsWork, Stepped DEF Unpublish, Done
    <3> QED
      BY <2>3, <3>1 DEF Unpublish, TypeOK, Work
  <2> QED
    BY <1>1, <2>1, <2>2, <2>3 DEF OfGrant
<1>2. ASSUME NEW r \in Request, OfMachine(r) PROVE TypeOK'
  <2>1. ASSUME NEW g \in Grant, NEW m \in Machine, NEW report \in Report,
               Enroll(r, g, m, report)
        PROVE TypeOK'
    <3>1. [pc |-> "route", grant |-> g, machine |-> m, doc |-> report] \in Work
      BY DEF Work, Location
    <3>2. work' \in [Request -> Work]
      BY <2>1, <3>1, Stepped DEF Enroll
    <3> QED
      BY <2>1, <3>2 DEF Enroll, TypeOK, Work
  <2>2. \A pc \in Location : [work[r] EXCEPT !.pc = pc] \in Work
    BY DEF TypeOK, Work
  <2>3. CASE InsertRoute(r)
    <3>1. work' \in [Request -> Work]
      BY <2>2, <2>3, Stepped DEF InsertRoute, Location
    <3>2. work[r].machine \in Machine
      BY <2>3 DEF InsertRoute, At, InFlight
    <3> QED
      BY <2>3, <3>1, <3>2 DEF InsertRoute, TypeOK, Work
  <2>4. CASE Consume(r)
    <3>1. work' \in [Request -> Work]
      BY <2>2, <2>4, IdleIsWork, Stepped DEF Consume, Done, Location
    <3>2. work[r].machine \in Machine /\ work[r].grant \in Grant
          /\ work[r].doc \in Report
      BY <2>4 DEF Consume, At, InFlight
    <3>3. /\ machines' \in [Machine -> Report \cup {Nobody}]
          /\ origin' \in [Machine -> Grant \cup {Nobody}]
      BY <2>4, <3>2 DEF Consume, TypeOK
    <3>4. enrollments' \in [Grant -> Doc]
      <4>1. enrollments \in [Grant -> Doc]
        BY DEF TypeOK, Doc
      <4>2. \A g \in Grant : [enrollments[g] EXCEPT !.used = TRUE] \in Doc
        BY <4>1 DEF Doc
      <4>3. \/ enrollments' = [enrollments EXCEPT ![work[r].grant].used = TRUE]
            \/ enrollments' = enrollments
        BY <2>4 DEF Consume
      <4> QED
        BY <4>1, <4>2, <4>3, <3>2
    <3> QED
      BY <2>4, <3>1, <3>3, <3>4 DEF Consume, TypeOK, Work, Doc
  <2>5. CASE Unroute(r) \/ RemoveRoute(r)
    <3>1. work' \in [Request -> Work]
      BY <2>2, <2>5, IdleIsWork, Stepped DEF Unroute, RemoveRoute, DeleteRoute, Location
    <3> QED
      BY <2>5, <3>1 DEF Unroute, RemoveRoute, DeleteRoute, TypeOK, Work
  <2>6. ASSUME NEW m \in Machine,
               HeartbeatRead(r, m) \/ EditRead(r, m) \/ Remove(r, m)
        PROVE TypeOK'
    <3>1. \A pc \in Location, d \in Report \cup {Nobody} :
            /\ [Idle EXCEPT !.pc = pc, !.machine = m, !.doc = d] \in Work
            /\ [Idle EXCEPT !.pc = pc, !.machine = m] \in Work
      BY DEF Idle, Work
    <3>2. machines[m] \in Report \cup {Nobody}
      BY DEF TypeOK
    <3>3. work' \in [Request -> Work]
      BY <2>6, <3>1, <3>2, Stepped DEF HeartbeatRead, EditRead, Remove, Read, Location
    <3> QED
      BY <2>6, <3>3 DEF HeartbeatRead, EditRead, Remove, Read, TypeOK, Work
  <2>7. ASSUME NEW report \in Report, HeartbeatSave(r, report) PROVE TypeOK'
    <3>1. work' \in [Request -> Work]
      BY <2>7, IdleIsWork, Stepped DEF HeartbeatSave, Save, Done
    <3> QED
      BY <2>7, <3>1 DEF HeartbeatSave, Save, TypeOK, Work
  <2>8. CASE EditSave(r)
    <3>1. work' \in [Request -> Work]
      BY <2>8, IdleIsWork, Stepped DEF EditSave, Save, Done
    <3>2. work[r].doc \in Report
      BY <2>8 DEF EditSave, At, InFlight
    <3> QED
      BY <2>8, <3>1, <3>2 DEF EditSave, Save, TypeOK, Work
  <2>9. CASE RemoveDocs(r)
    <3>1. work' \in [Request -> Work]
      BY <2>9, IdleIsWork, Stepped DEF RemoveDocs, Done
    <3>2. NoNode \in Node
      BY FleetAssumption DEF NoNode, Node
    <3> QED
      BY <2>9, <3>1, <3>2 DEF RemoveDocs, TypeOK, Work, Node
  <2> QED
    BY <1>2, <2>1, <2>3, <2>4, <2>5, <2>6, <2>7, <2>8, <2>9 DEF OfMachine
<1>3. ASSUME NEW r \in Request, DirectoryFails(r) PROVE TypeOK'
  <2>1. work' \in [Request -> Work]
    BY <1>3, IdleIsWork, Stepped DEF DirectoryFails, Done
  <2>2. enrollment_routes' \subseteq Grant /\ machine_routes' \subseteq Machine
    <3>1. CASE LateEffect(r)
      <4>1. work[r].pc = "offer" => work[r].grant \in Grant
        BY DEF InFlight
      <4>2. work[r].pc = "route" => work[r].machine \in Machine
        BY DEF InFlight
      <4> QED
        BY <3>1, <4>1, <4>2 DEF LateEffect, TypeOK
    <3> QED
      BY <1>3, <3>1 DEF DirectoryFails, TypeOK
  <2>3. faults' \in 0..MaxFaults
    BY <1>3, FleetAssumption DEF DirectoryFails, TypeOK
  <2> QED
    BY <1>3, <2>1, <2>2, <2>3 DEF DirectoryFails, TypeOK, Work
<1>4. ASSUME NEW m \in Machine, Config(m) PROVE TypeOK'
  <2>1. NextSlot(m) \in 0..MAX_SLOT
    BY <1>4, SlotChosen, FleetAssumption DEF Config
  <2>2. BecomesServer(m) \in BOOLEAN
    BY DEF BecomesServer, TypeOK
  <2>3. machines[m].key \in Key \cup {NoKey}
    BY <1>4, FleetAssumption DEF Config, Authentic, TypeOK
  <2>4. [slot |-> NextSlot(m), server |-> BecomesServer(m), key |-> machines[m].key]
          \in Node
    BY <2>1, <2>2, <2>3 DEF Node
  <2>5. network_nodes' \in [Machine -> Node]
    BY <1>4, <2>4 DEF Config, TypeOK, Node
  <2> QED
    BY <1>4, <2>5 DEF Config, TypeOK, Node
<1>5. CASE Evict
  <2>1. work' \in [Request -> Work]
    BY <1>5, IdleIsWork DEF Evict
  <2> QED
    BY <1>5, <2>1, FleetAssumption DEF Evict, TypeOK, Work
<1>6. CASE UNCHANGED vars
  BY <1>6 DEF vars, TypeOK
<1> QED
  BY <1>1, <1>2, <1>3, <1>4, <1>5, <1>6 DEF Next
-----------------------------------------------------------------------------
\* What requests know stays true while others run.
LEMMA InFlightKept ==
  ASSUME IInv, [Next]_vars PROVE InFlight'
<1> USE DEF IInv, grantVars, machineVars, Goto, Done, At
<1> TypeOK'
  BY TypeKept
<1>0. Nobody \notin Grant \cup Machine \cup Report
  BY FleetAssumption
<1>1. ASSUME NEW r \in Request, OfGrant(r) PROVE InFlight'
  <2>1. ASSUME NEW g \in Grant, Offer(r, g) PROVE InFlight'
    BY <1>0, <2>1 DEF Offer, InFlight, TypeOK, Work, Idle
  <2>2. ASSUME NEW g \in Grant, Revoke(r, g) PROVE InFlight'
    BY <1>0, <2>2 DEF Revoke, InFlight, TypeOK, Work, Idle
  <2>3. CASE PublishGrant(r)
    BY <1>0, <2>3 DEF PublishGrant, InFlight, TypeOK, Work, Idle, NoGrant
  <2>4. CASE Unpublish(r)
    BY <1>0, <2>4 DEF Unpublish, InFlight, TypeOK, Work, Idle
  <2> QED
    BY <1>1, <2>1, <2>2, <2>3, <2>4 DEF OfGrant
<1>2. ASSUME NEW r \in Request, OfMachine(r) PROVE InFlight'
  <2>1. ASSUME NEW g \in Grant, NEW m \in Machine, NEW report \in Report,
               Enroll(r, g, m, report)
        PROVE InFlight'
    BY <1>0, <2>1 DEF Enroll, Usable, InFlight, TypeOK, Work
  <2>2. CASE InsertRoute(r)
    BY <1>0, <2>2 DEF InsertRoute, InFlight, TypeOK, Work
  <2>3. CASE Consume(r)
    <3> DEFINE g == work[r].grant
               m == work[r].machine
    <3>1. /\ g \in Grant /\ m \in Machine /\ origin[m] = Nobody
          /\ \A q \in Request \ {r} : work[q].machine # m
      BY <2>3 DEF Consume, InFlight
    <3>2. CASE /\ work' = [work EXCEPT ![r] = [work[r] EXCEPT !.pc = "unroute"]]
               /\ UNCHANGED <<machines, enrollments, origin>>
      BY <1>0, <2>3, <3>1, <3>2 DEF Consume, InFlight, TypeOK, Work
    <3>3. CASE /\ work' = [work EXCEPT ![r] = Idle]
               /\ enrollments' = [enrollments EXCEPT ![g].used = TRUE]
               /\ origin' = [origin EXCEPT ![m] = g]
      <4>1. work'[r] = Idle /\ \A q \in Request \ {r} : work'[q] = work[q]
        BY <3>3 DEF TypeOK
      <4>2. \A h \in Grant : enrollments'[h].issued = enrollments[h].issued
        BY <3>1, <3>3 DEF TypeOK
      <4>3. \A n \in Machine : n # m => origin'[n] = origin[n]
        BY <3>3 DEF TypeOK
      <4>4. origin'[m] # Nobody
        BY <1>0, <3>1, <3>3 DEF TypeOK
      <4>5. UNCHANGED <<machine_routes, removing>>
        BY <2>3 DEF Consume
      <4> QED
        BY <1>0, <3>1, <4>1, <4>2, <4>3, <4>4, <4>5 DEF InFlight, Idle
    <3> QED
      BY <2>3, <3>2, <3>3 DEF Consume
  <2>4. CASE Unroute(r)
    BY <1>0, <2>4 DEF Unroute, DeleteRoute, InFlight, TypeOK, Work, Idle
  <2>5. ASSUME NEW m \in Machine, HeartbeatRead(r, m) \/ EditRead(r, m)
        PROVE InFlight'
    <3> DEFINE w(pc) == [Idle EXCEPT !.pc = pc, !.machine = m, !.doc = machines[m]]
    <3>1. origin[m] # Nobody /\ machines[m] \in Report
      BY <2>5 DEF HeartbeatRead, EditRead, Authentic, Enrolled, Known, TypeOK
    <3>2. PICK pc \in {"heartbeat", "edit"} : work' = [work EXCEPT ![r] = w(pc)]
      BY <2>5 DEF HeartbeatRead, EditRead, Read
    <3>3. UNCHANGED <<enrollments, machine_routes, origin, removing>>
      BY <2>5 DEF HeartbeatRead, EditRead, Read
    <3> QED
      BY <1>0, <3>1, <3>2, <3>3 DEF InFlight, TypeOK, Work, Idle
  <2>6. ASSUME NEW m \in Machine, Remove(r, m) PROVE InFlight'
    BY <1>0, <2>6 DEF Remove, Enrolled, Known, InFlight, TypeOK, Work, Idle
  <2>7. ASSUME NEW report \in Report, HeartbeatSave(r, report) PROVE InFlight'
    BY <1>0, <2>7 DEF HeartbeatSave, Save, InFlight, TypeOK, Work, Idle
  <2>8. CASE EditSave(r)
    BY <1>0, <2>8 DEF EditSave, Save, InFlight, TypeOK, Work, Idle
  <2>9. CASE RemoveRoute(r)
    BY <1>0, <2>9 DEF RemoveRoute, DeleteRoute, InFlight, TypeOK, Work
  <2>10. CASE RemoveDocs(r)
    BY <1>0, <2>10 DEF RemoveDocs, InFlight, TypeOK, Work, Idle
  <2> QED
    BY <1>2, <2>1, <2>2, <2>3, <2>4, <2>5, <2>6, <2>7, <2>8, <2>9, <2>10 DEF OfMachine
<1>3. ASSUME NEW r \in Request, DirectoryFails(r) PROVE InFlight'
  BY <1>0, <1>3 DEF DirectoryFails, LateEffect, InFlight, TypeOK, Work, Idle
<1>4. ASSUME NEW m \in Machine, Config(m) PROVE InFlight'
  BY <1>4 DEF Config, InFlight
<1>5. CASE Evict
  BY <1>5 DEF Evict, InFlight, Idle
<1>6. CASE UNCHANGED vars
  BY <1>6 DEF vars, InFlight
<1> QED
  BY <1>1, <1>2, <1>3, <1>4, <1>5, <1>6 DEF Next
-----------------------------------------------------------------------------
\* Only a publication replaces a grant's document, and then it was not used.
LEMMA GrantsKept ==
  ASSUME IInv, [Next]_vars PROVE GrantsTold'
<1> USE DEF IInv, grantVars, machineVars, Goto, Done, At
<1>0. Nobody \notin Grant
  BY FleetAssumption
<1>1. ASSUME NEW r \in Request, OfGrant(r) PROVE GrantsTold'
  <2>1. ASSUME NEW g \in Grant, Offer(r, g) PROVE GrantsTold'
    BY <2>1 DEF Offer, GrantsTold
  <2>2. ASSUME NEW g \in Grant, Revoke(r, g) PROVE GrantsTold'
    BY <1>0, <2>2 DEF Revoke, GrantsTold, TypeOK
  <2>3. CASE PublishGrant(r)
    BY <1>0, <2>3 DEF PublishGrant, InFlight, GrantsTold, TypeOK, NoGrant
  <2>4. CASE Unpublish(r)
    BY <2>4 DEF Unpublish, GrantsTold
  <2> QED
    BY <1>1, <2>1, <2>2, <2>3, <2>4 DEF OfGrant
<1>2. ASSUME NEW r \in Request, Consume(r) PROVE GrantsTold'
  <2> DEFINE g == work[r].grant
             m == work[r].machine
  <2>1. g \in Grant /\ m \in Machine
    BY <1>2 DEF Consume, InFlight
  <2>2. CASE UNCHANGED <<enrollments, origin>>
    BY <2>2 DEF GrantsTold
  <2>3. CASE /\ Usable(g)
             /\ enrollments' = [enrollments EXCEPT ![g].used = TRUE]
             /\ origin' = [origin EXCEPT ![m] = g]
    <3>1. /\ enrollments'[g].issued /\ enrollments'[g].used /\ ~enrollments'[g].revoked
          /\ \A h \in Grant \ {g} : enrollments'[h] = enrollments[h]
      BY <2>1, <2>3 DEF TypeOK, Usable
    <3>2. \A n \in Machine : origin'[n] = IF n = m THEN g ELSE origin[n]
      BY <2>1, <2>3 DEF TypeOK
    <3>3. \A n \in Machine : origin[n] # Nobody => origin[n] \in Grant
      BY DEF TypeOK
    <3> QED
      BY <2>1, <3>1, <3>2, <3>3 DEF GrantsTold
  <2> QED
    BY <1>2, <2>2, <2>3 DEF Consume, MayConsume
<1>3. CASE UNCHANGED <<enrollments, origin>>
  BY <1>3 DEF GrantsTold
<1>4. ASSUME NEW r \in Request, OfMachine(r), ~Consume(r)
      PROVE UNCHANGED <<enrollments, origin>>
  BY <1>4 DEF OfMachine, Enroll, InsertRoute, Unroute, DeleteRoute, HeartbeatRead,
       EditRead, Read, Remove, HeartbeatSave, EditSave, Save, RemoveRoute, RemoveDocs
<1> QED
  BY <1>1, <1>2, <1>3, <1>4 DEF Next, DirectoryFails, Config, Evict, vars

\* Documents and removals never precede the enrollment of their machine, and
\* no step undoes an enrollment.
LEMMA OriginFixed ==
  ASSUME IInv, [Next]_vars
  PROVE  \A m \in Machine : origin[m] # Nobody => origin'[m] = origin[m]
<1> USE DEF IInv, grantVars, machineVars
<1>1. ASSUME NEW r \in Request, Consume(r)
      PROVE \A m \in Machine : origin[m] # Nobody => origin'[m] = origin[m]
  BY <1>1 DEF Consume, At, InFlight, TypeOK
<1>2. ASSUME NEW r \in Request, OfGrant(r) PROVE origin' = origin
  BY <1>2 DEF OfGrant, Offer, Revoke, PublishGrant, Unpublish
<1>3. ASSUME NEW r \in Request, OfMachine(r), ~Consume(r) PROVE origin' = origin
  BY <1>3 DEF OfMachine, Enroll, InsertRoute, Unroute, DeleteRoute, HeartbeatRead,
       EditRead, Read, Remove, HeartbeatSave, EditSave, Save, RemoveRoute, RemoveDocs
<1> QED
  BY <1>1, <1>2, <1>3 DEF Next, DirectoryFails, Config, Evict, vars

LEMMA KnownKept ==
  ASSUME IInv, [Next]_vars PROVE Known'
<1> USE DEF IInv, grantVars, machineVars, Goto, Done, At
<1>0. Nobody \notin Grant \cup Report
  BY FleetAssumption
<1>1. \A m \in Machine : origin[m] # Nobody => origin'[m] # Nobody
  BY OriginFixed
<1>2. CASE UNCHANGED <<machines, removing>>
  BY <1>1, <1>2 DEF Known, Enrolled
<1>3. ASSUME NEW r \in Request, Consume(r) PROVE Known'
  BY <1>0, <1>1, <1>3 DEF Consume, InFlight, Known, Enrolled, TypeOK
<1>4. ASSUME NEW r \in Request, NEW report \in Report, HeartbeatSave(r, report)
      PROVE Known'
  BY <1>1, <1>4 DEF HeartbeatSave, Save, InFlight, Known, Enrolled, TypeOK
<1>5. ASSUME NEW r \in Request, EditSave(r) PROVE Known'
  BY <1>1, <1>5 DEF EditSave, Save, InFlight, Known, Enrolled, TypeOK
<1>6. ASSUME NEW r \in Request, NEW m \in Machine, Remove(r, m) PROVE Known'
  BY <1>1, <1>6 DEF Remove, Known, Enrolled
<1>7. ASSUME NEW r \in Request, RemoveDocs(r) PROVE Known'
  BY <1>1, <1>7 DEF RemoveDocs, InFlight, Known, Enrolled, TypeOK
<1>8. ASSUME NEW r \in Request, OfMachine(r) PROVE Known'
  BY <1>2, <1>3, <1>4, <1>5, <1>6, <1>7, <1>8 DEF OfMachine, Enroll, InsertRoute,
       Unroute, DeleteRoute, HeartbeatRead, EditRead, Read, RemoveRoute
<1>9. ASSUME NEW r \in Request, OfGrant(r) PROVE UNCHANGED <<machines, removing>>
  BY <1>9 DEF OfGrant, Offer, Revoke, PublishGrant, Unpublish
<1> QED
  BY <1>2, <1>8, <1>9 DEF Next, DirectoryFails, Config, Evict, vars

LEMMA Inductive == Spec => []IInv
<1>1. Init => IInv
  BY InitInv
<1>2. IInv /\ [Next]_vars => IInv'
  BY TypeKept, InFlightKept, GrantsKept, KnownKept DEF IInv
<1> QED
  BY <1>1, <1>2, PTL DEF Spec
-----------------------------------------------------------------------------
\* In every reachable state documents, directory and requests are well formed.
THEOREM FleetTyped == Spec => []TypeOK
<1>1. IInv => TypeOK
  BY DEF IInv
<1> QED
  BY <1>1, Inductive, PTL

\* No machine is connected by a grant whose revocation was accepted, however
\* long before it its request had been routed (fleet.ts 262-268, 299-307).
THEOREM RevocationHolds == Spec => []RevokedNeverConnects
<1>1. IInv => RevokedNeverConnects
  BY DEF IInv, GrantsTold, RevokedNeverConnects
<1> QED
  BY <1>1, Inductive, PTL

\* A grant enrolls one machine, however many requests carry it (fleet.ts 299-331).
THEOREM OneMachinePerGrant == Spec => []GrantUsedOnce
<1>1. Init => GrantUsedOnce
  BY DEF Init, GrantUsedOnce
<1>2. IInv /\ GrantUsedOnce /\ [Next]_vars => GrantUsedOnce'
  <2> SUFFICES ASSUME IInv, GrantUsedOnce, [Next]_vars PROVE GrantUsedOnce'
    OBVIOUS
  <2> USE DEF IInv, grantVars, machineVars
  <2>1. CASE origin' = origin
    BY <2>1 DEF GrantUsedOnce
  <2>2. ASSUME NEW r \in Request, Consume(r) PROVE GrantUsedOnce'
    <3> DEFINE g == work[r].grant
               m == work[r].machine
    <3>1. CASE Usable(g) /\ origin' = [origin EXCEPT ![m] = g]
      <4>1. m \in Machine /\ g \in Grant
        BY <2>2 DEF Consume, At, InFlight
      <4>2. \A n \in Machine : origin[n] # g
        BY <3>1, <4>1, FleetAssumption DEF Usable, GrantsTold
      <4>3. \A n \in Machine : origin'[n] = IF n = m THEN g ELSE origin[n]
        BY <3>1, <4>1 DEF TypeOK
      <4> QED
        BY <4>1, <4>2, <4>3 DEF GrantUsedOnce
    <3> QED
      BY <2>1, <2>2, <3>1 DEF Consume, MayConsume
  <2>3. ASSUME NEW r \in Request, OfGrant(r) PROVE origin' = origin
    BY <2>3 DEF OfGrant, Offer, Revoke, PublishGrant, Unpublish
  <2>4. ASSUME NEW r \in Request, OfMachine(r), ~Consume(r) PROVE origin' = origin
    BY <2>4 DEF OfMachine, Enroll, InsertRoute, Unroute, DeleteRoute, HeartbeatRead,
         EditRead, Read, Remove, HeartbeatSave, EditSave, Save, RemoveRoute, RemoveDocs
  <2> QED
    BY <2>1, <2>2, <2>3, <2>4 DEF Next, DirectoryFails, Config, Evict, vars
<1> QED
  BY <1>1, <1>2, Inductive, PTL DEF Spec

\* The two together: what a grant permits, and for how long (fleet.ts 248-342).
THEOREM GrantsHonoured == Spec => []GrantsHold
  BY RevocationHolds, OneMachinePerGrant, PTL DEF GrantsHold
-----------------------------------------------------------------------------
\* Which steps touch the network: configuration of a node and its removal.
LEMMA NetworkSteps ==
  ASSUME IInv, [Next]_vars
  PROVE  \/ network_nodes' = network_nodes
         \/ \E m \in Machine : Config(m)
         \/ \E r \in Request : RemoveDocs(r)
<1> USE DEF grantVars, machineVars
<1>1. ASSUME NEW r \in Request, OfGrant(r) PROVE network_nodes' = network_nodes
  BY <1>1 DEF OfGrant, Offer, Revoke, PublishGrant, Unpublish
<1>2. ASSUME NEW r \in Request, OfMachine(r), ~RemoveDocs(r)
      PROVE network_nodes' = network_nodes
  BY <1>2 DEF OfMachine, Enroll, InsertRoute, Consume, Unroute, DeleteRoute,
       HeartbeatRead, EditRead, Read, Remove, HeartbeatSave, EditSave, Save, RemoveRoute
<1> QED
  BY <1>1, <1>2 DEF Next, DirectoryFails, Evict, vars

\* What configuration and removal leave of the network.
LEMMA Configured ==
  ASSUME TypeOK, NEW m \in Machine, Config(m)
  PROVE  /\ Nodes' = Nodes \cup {m}
         /\ network_nodes'[m] = [slot |-> NextSlot(m), server |-> BecomesServer(m),
                                 key |-> machines[m].key]
         /\ \A n \in Machine \ {m} : network_nodes'[n] = network_nodes[n]
<1>1. NextSlot(m) # 0
  BY SlotChosen
<1> QED
  BY <1>1 DEF Config, Nodes, TypeOK

LEMMA Removed ==
  ASSUME IInv, NEW r \in Request, RemoveDocs(r)
  PROVE  /\ Nodes' = Nodes \ {work[r].machine}
         /\ \A n \in Nodes' : network_nodes'[n] = network_nodes[n]
<1>1. work[r].machine \in Machine
  BY DEF IInv, RemoveDocs, At, InFlight, TypeOK
<1> QED
  BY <1>1 DEF IInv, RemoveDocs, Nodes, NoNode, TypeOK

\* A second coordinator is never appointed (fleet.ts 143).
THEOREM CoordinatorUnique == Spec => []OneCoordinator
<1>1. Init => OneCoordinator
  BY DEF Init, OneCoordinator, Server, Nodes, NoNode
<1>2. IInv /\ OneCoordinator /\ [Next]_vars => OneCoordinator'
  <2> SUFFICES ASSUME IInv, OneCoordinator, [Next]_vars PROVE OneCoordinator'
    OBVIOUS
  <2>1. CASE network_nodes' = network_nodes
    BY <2>1 DEF OneCoordinator, Server, Nodes
  <2>2. ASSUME NEW m \in Machine, Config(m) PROVE OneCoordinator'
    <3>1. /\ Nodes' = Nodes \cup {m}
          /\ network_nodes'[m].server = BecomesServer(m)
          /\ \A n \in Machine \ {m} : network_nodes'[n] = network_nodes[n]
      <4>1. TypeOK
        BY DEF IInv
      <4>2. /\ Nodes' = Nodes \cup {m}
            /\ network_nodes'[m] = [slot |-> NextSlot(m), server |-> BecomesServer(m),
                                    key |-> machines[m].key]
            /\ \A n \in Machine \ {m} : network_nodes'[n] = network_nodes[n]
        BY <2>2, <4>1, Configured
      <4> QED
        BY <4>2
    <3>2. m \in Nodes => BecomesServer(m) = network_nodes[m].server
      BY DEF BecomesServer
    <3>3. m \notin Nodes => BecomesServer(m) = (Server = {})
      BY DEF BecomesServer
    <3>4. CASE m \in Nodes
      <4>1. Server' = Server
        BY <3>1, <3>2, <3>4 DEF Server, Nodes
      <4> QED
        BY <4>1 DEF OneCoordinator
    <3>5. CASE m \notin Nodes
      <4>1. Server' = Server \cup (IF Server = {} THEN {m} ELSE {})
        BY <3>1, <3>3, <3>5 DEF Server, Nodes
      <4> QED
        BY <4>1 DEF OneCoordinator
    <3> QED
      BY <3>4, <3>5
  <2>3. ASSUME NEW r \in Request, RemoveDocs(r) PROVE OneCoordinator'
    <3>1. Server' \subseteq Server
      BY <2>3, Removed DEF Server
    <3> QED
      BY <3>1 DEF OneCoordinator
  <2> QED
    BY <2>1, <2>2, <2>3, NetworkSteps
<1> QED
  BY <1>1, <1>2, Inductive, PTL DEF Spec

\* No two nodes share an address or a key (fleet.ts 135-150).
THEOREM NodesDistinct == Spec => []DistinctNodes
<1>1. Init => DistinctNodes
  BY DEF Init, DistinctNodes, Nodes, NoNode
<1>2. IInv /\ DistinctNodes /\ [Next]_vars => DistinctNodes'
  <2> SUFFICES ASSUME IInv, DistinctNodes, [Next]_vars PROVE DistinctNodes'
    OBVIOUS
  <2>1. CASE network_nodes' = network_nodes
    BY <2>1 DEF DistinctNodes, Nodes
  <2>2. ASSUME NEW m \in Machine, Config(m) PROVE DistinctNodes'
    <3>1. /\ Nodes' = Nodes \cup {m}
          /\ network_nodes'[m].slot = NextSlot(m)
          /\ network_nodes'[m].key = machines[m].key
          /\ \A n \in Machine \ {m} : network_nodes'[n] = network_nodes[n]
      <4>1. TypeOK
        BY DEF IInv
      <4>2. /\ Nodes' = Nodes \cup {m}
            /\ network_nodes'[m] = [slot |-> NextSlot(m), server |-> BecomesServer(m),
                                    key |-> machines[m].key]
            /\ \A n \in Machine \ {m} : network_nodes'[n] = network_nodes[n]
        BY <2>2, <4>1, Configured
      <4> QED
        BY <4>2
    <3>2. \A n \in Nodes \ {m} : network_nodes[n].slot # NextSlot(m)
      <4>1. CASE m \in Nodes
        <5>1. NextSlot(m) = network_nodes[m].slot
          BY <4>1 DEF NextSlot
        <5> QED
          BY <4>1, <5>1 DEF DistinctNodes
      <4>2. CASE m \notin Nodes
        <5>1. \A n \in Nodes : network_nodes[n].slot < NextSlot(m)
          BY <4>2, SlotChosen DEF IInv
        <5>2. \A n \in Nodes : network_nodes[n].slot \in Nat
          BY FleetAssumption DEF IInv, TypeOK, Nodes
        <5> QED
          BY <5>1, <5>2, SlotChosen DEF IInv
      <4> QED
        BY <4>1, <4>2
    <3>3. \A n \in Nodes \ {m} : network_nodes[n].key # machines[m].key
      BY <2>2 DEF Config
    <3>4. Nodes \subseteq Machine
      BY DEF Nodes
    <3> QED
      BY <3>1, <3>2, <3>3, <3>4 DEF DistinctNodes
  <2>3. ASSUME NEW r \in Request, RemoveDocs(r) PROVE DistinctNodes'
    BY <2>3, Removed DEF DistinctNodes
  <2> QED
    BY <2>1, <2>2, <2>3, NetworkSteps
<1> QED
  BY <1>1, <1>2, Inductive, PTL DEF Spec
-----------------------------------------------------------------------------
\* Which steps take a document or a route away, and from whom.
LEMMA Losses ==
  ASSUME IInv, [Next]_vars, NEW m \in Machine, origin[m] # Nobody
  PROVE  /\ m \in Enrolled /\ m \notin Enrolled' =>
              \E r \in Request : RemoveDocs(r) /\ work[r].machine = m
         /\ m \in machine_routes /\ m \notin machine_routes' => m \in removing
<1> USE DEF IInv, grantVars, machineVars
<1>1. ASSUME NEW r \in Request, OfGrant(r)
      PROVE UNCHANGED <<machines, machine_routes>>
  BY <1>1 DEF OfGrant, Offer, Revoke, PublishGrant, Unpublish
<1>2. ASSUME NEW r \in Request, OfMachine(r), m \in Enrolled, m \notin Enrolled'
      PROVE RemoveDocs(r) /\ work[r].machine = m
  <2>1. \A report \in Report : report # Nobody
    BY FleetAssumption
  <2>2. ~Consume(r)
    BY <1>2, <2>1 DEF Consume, At, InFlight, Enrolled, TypeOK
  <2>3. \A report \in Report : ~HeartbeatSave(r, report)
    BY <1>2, <2>1 DEF HeartbeatSave, Save, Enrolled, TypeOK
  <2>4. ~EditSave(r)
    BY <1>2, <2>1 DEF EditSave, Save, At, InFlight, Enrolled, TypeOK
  <2>5. RemoveDocs(r) => work[r].machine = m
    BY <1>2 DEF RemoveDocs, Enrolled, TypeOK
  <2>6. machines' # machines
    BY <1>2 DEF Enrolled
  <2> QED
    BY <1>2, <2>2, <2>3, <2>4, <2>5, <2>6 DEF OfMachine, Enroll, InsertRoute, Unroute,
         DeleteRoute, HeartbeatRead, EditRead, Read, Remove, RemoveRoute
<1>3. ASSUME NEW r \in Request, OfMachine(r), m \in machine_routes,
             m \notin machine_routes'
      PROVE m \in removing
  <2>1. ~Unroute(r)
    BY <1>3 DEF Unroute, DeleteRoute, At, InFlight
  <2>2. RemoveRoute(r) => m \in removing
    BY <1>3 DEF RemoveRoute, DeleteRoute, At, InFlight
  <2>3. machine_routes' # machine_routes /\ ~InsertRoute(r)
    BY <1>3 DEF InsertRoute
  <2> QED
    BY <1>3, <2>1, <2>2, <2>3 DEF OfMachine, Enroll, Consume, HeartbeatRead, EditRead,
         Read, Remove, HeartbeatSave, EditSave, Save, RemoveDocs
<1>4. ASSUME NEW r \in Request, DirectoryFails(r), m \in machine_routes,
             m \notin machine_routes'
      PROVE m \in removing
  <2>1. work[r].pc \in {"unroute", "leave"} /\ work[r].machine = m
    BY <1>4 DEF DirectoryFails, LateEffect
  <2> QED
    BY <2>1 DEF InFlight
<1>5. ASSUME NEW r \in Request, DirectoryFails(r) PROVE machines' = machines
  BY <1>5 DEF DirectoryFails
<1>6. ASSUME \/ Evict \/ UNCHANGED vars \/ \E n \in Machine : Config(n)
      PROVE UNCHANGED <<machines, machine_routes>>
  BY <1>6 DEF Evict, vars, Config
<1> QED
  BY <1>1, <1>2, <1>3, <1>4, <1>5, <1>6 DEF Next, Enrolled

\* No peer is configured for a machine that was removed (fleet.ts 546-547).
THEOREM NodesEnrolled == Spec => []NodeHasMachine
<1>1. Init => NodeHasMachine
  BY DEF Init, NodeHasMachine, Nodes, NoNode
<1>2. IInv /\ NodeHasMachine /\ [Next]_vars => NodeHasMachine'
  <2> SUFFICES ASSUME IInv, NodeHasMachine, [Next]_vars, NEW m \in Nodes'
               PROVE  m \in Enrolled'
    BY DEF NodeHasMachine
  <2>1. m \in Machine
    BY DEF Nodes
  <2>2. CASE m \in Enrolled
    <3>1. SUFFICES ASSUME NEW r \in Request, RemoveDocs(r), work[r].machine = m
                   PROVE FALSE
      BY <2>1, <2>2, Losses DEF IInv, Known
    <3> QED
      BY <3>1, Removed
  <2>3. CASE m \notin Enrolled
    <3>1. m \notin Nodes /\ network_nodes'[m] # network_nodes[m]
      BY <2>1, <2>3 DEF NodeHasMachine, Nodes
    <3>2. PICK n \in Machine : Config(n)
      BY <3>1, NetworkSteps, Removed
    <3>3. TypeOK
      BY DEF IInv
    <3>4. Nodes' = Nodes \cup {n} /\ n \in Enrolled /\ machines' = machines
      BY <3>2, <3>3, Configured DEF Config, Authentic, Enrolled
    <3> QED
      BY <3>1, <3>4 DEF Enrolled
  <2> QED
    BY <2>2, <2>3
<1> QED
  BY <1>1, <1>2, Inductive, PTL DEF Spec

\* The three together: the private network is sound (fleet.ts 133-155, 546-547).
THEOREM NetworkIsSound == Spec => []NetworkSound
  BY CoordinatorUnique, NodesDistinct, NodesEnrolled, PTL DEF NetworkSound

\* An enrolled machine stays known and reachable until its removal is accepted,
\* whatever the directory does (fleet.ts 291-339, 530-547).
THEOREM MachinesKept == Spec => []KeptUntilRemoved
<1>1. Init => KeptUntilRemoved
  BY DEF Init, KeptUntilRemoved
<1>2. IInv /\ KeptUntilRemoved /\ [Next]_vars => KeptUntilRemoved'
  <2> SUFFICES ASSUME IInv, KeptUntilRemoved, [Next]_vars, NEW m \in Machine,
                      origin'[m] # Nobody, m \notin removing'
               PROVE  m \in Enrolled' /\ m \in machine_routes'
    BY DEF KeptUntilRemoved
  <2> USE DEF grantVars, machineVars
  <2>1. removing \subseteq removing'
    BY DEF Next, OfGrant, Offer, Revoke, PublishGrant, Unpublish, OfMachine, Enroll,
         InsertRoute, Consume, Unroute, DeleteRoute, HeartbeatRead, EditRead, Read,
         Remove, HeartbeatSave, EditSave, Save, RemoveRoute, RemoveDocs,
         DirectoryFails, Config, Evict, vars
  <2>2. CASE origin[m] # Nobody
    <3>1. m \in Enrolled /\ m \in machine_routes
      BY <2>1, <2>2 DEF KeptUntilRemoved
    <3>2. ~ \E r \in Request : RemoveDocs(r) /\ work[r].machine = m
      BY <2>1 DEF IInv, RemoveDocs, At, InFlight
    <3> QED
      BY <2>1, <2>2, <3>1, <3>2, Losses
  <2>3. CASE origin[m] = Nobody
    <3>1. origin' # origin
      BY <2>3
    <3>2. PICK r \in Request : Consume(r)
      BY <3>1 DEF Next, OfGrant, Offer, Revoke, PublishGrant, Unpublish, OfMachine,
           Enroll, InsertRoute, Unroute, DeleteRoute, HeartbeatRead, EditRead, Read,
           Remove, HeartbeatSave, EditSave, Save, RemoveRoute, RemoveDocs,
           DirectoryFails, Config, Evict, vars
    <3>3. /\ work[r].machine \in machine_routes /\ work[r].doc \in Report
          /\ machine_routes' = machine_routes
      BY <3>2 DEF IInv, Consume, At, InFlight
    <3>4. work[r].machine = m /\ machines' = [machines EXCEPT ![m] = work[r].doc]
      BY <2>3, <3>1, <3>2 DEF IInv, Consume, TypeOK
    <3> QED
      BY <3>3, <3>4, FleetAssumption DEF IInv, Enrolled, TypeOK
  <2> QED
    BY <2>2, <2>3
<1> QED
  BY <1>1, <1>2, Inductive, PTL DEF Spec
=============================================================================
