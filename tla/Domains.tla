------------------------------- MODULE Domains ------------------------------
(***************************************************************************)
(* Public host names (integrations.ts): added and removed by requests,     *)
(* carried out by the alarm of each workspace, reserved for one workspace  *)
(* in the directory (D1), recorded in one DNS zone for all workspaces and  *)
(* routed by one tunnel per workspace.                                     *)
(*                                                                         *)
(* The alarm works through a list of documents it read at the beginning.   *)
(* A call to Cloudflare or to the directory is a step of its own: requests *)
(* run while its reply is awaited, it may fail, its reply may be lost      *)
(* although it took effect, and the object may be restarted.               *)
(*                                                                         *)
(* A service has an address once it was deployed; that the address changes *)
(* is in Deployment, and so are the acknowledgements of connectors: here a *)
(* tunnel is ready or not at any look.  Imported domains, which have       *)
(* tunnels of their own, are left out.                                     *)
(***************************************************************************)
EXTENDS Integers

CONSTANTS
  Workspace,
  Host,        \* host names under the platform's domain
  Service,     \* the services of each workspace
  Nobody,      \* no workspace, host or service
  Foreign,     \* the owner of DNS records that belong to other applications
  MaxDomains,  \* bound: domains ever added
  MaxFaults    \* bound: failed calls, lost replies and evictions

ASSUME DomainsAssumption ==
  /\ Nobody \notin Workspace \cup Host \cup Service
  /\ Foreign \notin Workspace \cup {Nobody}
  /\ MaxDomains \in Nat /\ MaxFaults \in Nat

VARIABLES
  domains,        \* the documents; "adding" ones are still their request's
  created,        \* the last domain, in the order of addition
  domain_routes,  \* directory: which domain of which workspace has a name
  dns,            \* the zone: whose tunnel a name points to
  records,        \* the last DNS record
  tunnel,         \* per workspace, the stored hash (of no or one configuration)
                  \* and what Cloudflare routes
  addressed,      \* per workspace, the services that were deployed
  alarm,          \* per workspace, the alarm handler
  unsure,         \* calls whose effect their workspace does not know (history)
  faults

vars == <<domains, created, domain_routes, dns, records, tunnel, addressed,
          alarm, unsure, faults>>
cloud == <<domain_routes, dns, records, tunnel>>

Domain   == 1..MaxDomains
NoRoute  == [workspace |-> Nobody, domain |-> 0]
NoRecord == [owner |-> Nobody, id |-> 0]
NoDomain == [workspace |-> Nobody, hostname |-> Nobody, service |-> Nobody,
             status |-> "none", dns_id |-> 0, dns_deleted |-> FALSE]
Idle     == [pc |-> "idle", todo |-> {}, id |-> 0, domain |-> NoDomain, sent |-> {}]

Init ==
  /\ domains = [d \in Domain |-> NoDomain]
  /\ created = 0
  /\ domain_routes = [h \in Host |-> NoRoute]
  /\ dns \in [Host -> {NoRecord, [owner |-> Foreign, id |-> 0]}]
  /\ records = 0
  /\ tunnel = [w \in Workspace |-> [config_hash |-> {}, config |-> {}]]
  /\ addressed = [w \in Workspace |-> {}]
  /\ alarm = [w \in Workspace |-> Idle]
  /\ unsure = {}
  /\ faults = 0

Live(d)   == domains[d].status \in {"pending", "healthy"}
Stored(d) == Live(d) \/ domains[d].status = "deleting"
Of(w)     == {d \in Domain : Stored(d) /\ domains[d].workspace = w}
At(w, pc) == alarm[w].pc = pc
Name(w)   == alarm[w].domain.hostname
Go(w, pc) == alarm' = [alarm EXCEPT ![w].pc = pc]
Put(d, doc) == domains' = [domains EXCEPT ![d] = doc]

\* A handler of the workspace runs only while its alarm awaits a call: from one
\* document to the next of its list the alarm is not interrupted.
Turn(w) == ~At(w, "next")
-----------------------------------------------------------------------------
(* Requests.                                                               *)

BugFree(h) == \A d \in Domain : Live(d) => domains[d].hostname # h
\* The reservation: the name is the key of the directory's table.
Free(h) == domain_routes[h] = NoRoute

\* POST /api/domains, up to the directory.
Add(w, h, s) ==
  /\ created < MaxDomains /\ Free(h)
  /\ created' = created + 1
  /\ domain_routes' = [domain_routes EXCEPT ![h] = [workspace |-> w, domain |-> created + 1]]
  /\ Put(created + 1, [NoDomain EXCEPT !.workspace = w, !.hostname = h,
                                       !.service = s, !.status = "adding"])
  /\ UNCHANGED <<dns, records, tunnel, addressed, alarm, unsure, faults>>

\* The reply of the directory: the document is stored.
Added(d) ==
  /\ domains[d].status = "adding" /\ Turn(domains[d].workspace)
  /\ Put(d, [domains[d] EXCEPT !.status = "pending"])
  /\ UNCHANGED <<created, cloud, addressed, alarm, unsure, faults>>

\* The reply is lost, and "Hostname already in use" is answered.
AddFails(d) ==
  /\ domains[d].status = "adding" /\ Turn(domains[d].workspace)
  /\ faults < MaxFaults
  /\ faults' = faults + 1
  /\ Put(d, NoDomain)
  /\ UNCHANGED <<created, cloud, addressed, alarm, unsure>>

\* DELETE /api/domains/<id>.
Delete(d) ==
  /\ Live(d) /\ Turn(domains[d].workspace)
  /\ Put(d, [domains[d] EXCEPT !.status = "deleting"])
  /\ UNCHANGED <<created, cloud, addressed, alarm, unsure, faults>>

\* A first deployment gives the service an address.
Deploy(w, s) ==
  /\ s \notin addressed[w] /\ Turn(w)
  /\ addressed' = [addressed EXCEPT ![w] = @ \cup {s}]
  /\ UNCHANGED <<domains, created, cloud, alarm, unsure, faults>>
-----------------------------------------------------------------------------
(* The alarm: reconcileDomains, one document after the other.              *)

BugTodo(w) == {[id |-> d, domain |-> domains[d]] : d \in Of(w)}
\* The documents the alarm works on, as they are now.
Todo(w) == {[id |-> d, domain |-> domains[d]] :
              d \in {e \in Of(w) : domains[e].status # "healthy"}}

Start(w) ==
  /\ At(w, "idle") /\ Todo(w) # {}
  /\ alarm' = [alarm EXCEPT ![w] = [Idle EXCEPT !.pc = "next", !.todo = Todo(w)]]
  /\ UNCHANGED <<domains, created, cloud, addressed, unsure, faults>>

BugCaught(id, read) == [IF Stored(id) THEN domains[id] ELSE read EXCEPT !.status = "pending"]
\* The catch block of reconcileDomain: the stored document, with the status
\* that follows from the one the alarm read.
Caught(id, read) ==
  [IF Stored(id) THEN domains[id] ELSE read EXCEPT
     !.status = IF read.status = "deleting" THEN "deleting" ELSE "pending"]

GiveUp(w) ==
  /\ Put(alarm[w].id, Caught(alarm[w].id, alarm[w].domain))
  /\ Go(w, "next")

\* configureTunnel: what the tunnel has to route, and whether every service of
\* a live domain has an address.
Ingress(w) == {<<domains[d].hostname, domains[d].service>> : d \in {e \in Of(w) : Live(e)}}
Addressable(w) == \A r \in Ingress(w) : r[2] \in addressed[w]

\* The next document is taken; the configuration is sent unless its hash is the
\* stored one.
Take(w) ==
  /\ At(w, "next")
  /\ \E t \in alarm[w].todo :
       /\ \A u \in alarm[w].todo : t.id <= u.id
       /\ LET taken(pc) == alarm' = [alarm EXCEPT ![w] =
                [pc |-> pc, todo |-> @.todo \ {t}, id |-> t.id, domain |-> t.domain,
                 sent |-> Ingress(w)]]
          IN \/ /\ Addressable(w)
                /\ taken(IF tunnel[w].config_hash = {Ingress(w)} THEN "connector" ELSE "put")
                /\ UNCHANGED domains
             \/ /\ ~Addressable(w)
                /\ Put(t.id, Caught(t.id, t.domain))
                /\ taken("next")
  /\ UNCHANGED <<created, cloud, addressed, unsure, faults>>

End(w) ==
  /\ At(w, "next") /\ alarm[w].todo = {}
  /\ alarm' = [alarm EXCEPT ![w] = Idle]
  /\ UNCHANGED <<domains, created, cloud, addressed, unsure, faults>>
-----------------------------------------------------------------------------
(* What a call to Cloudflare or the directory does when it takes effect.   *)

Routed(w) ==
  /\ At(w, "put")
  /\ tunnel' = [tunnel EXCEPT ![w].config = alarm[w].sent]
  /\ UNCHANGED <<domain_routes, dns, records>>

\* A name has one record: a second one is rejected.
RecordCreated(w) ==
  /\ At(w, "create") /\ dns[Name(w)] = NoRecord
  /\ records' = records + 1
  /\ dns' = [dns EXCEPT ![Name(w)] = [owner |-> w, id |-> records + 1]]
  /\ UNCHANGED <<domain_routes, tunnel>>

BugRecordDeleted(w) ==
  /\ At(w, "unroute")
  /\ \E h \in Host : dns[h].id = alarm[w].domain.dns_id /\ dns' = [dns EXCEPT ![h] = NoRecord]
  /\ UNCHANGED <<domain_routes, records, tunnel>>

\* By identity; a record that is not there counts as deleted.
RecordDeleted(w) ==
  /\ At(w, "unroute")
  /\ dns' = [h \in Host |-> IF dns[h].id = alarm[w].domain.dns_id THEN NoRecord ELSE dns[h]]
  /\ UNCHANGED <<domain_routes, records, tunnel>>

\* By name and workspace, whichever domain it is reserved for.
Released(w) ==
  /\ At(w, "release")
  /\ domain_routes' = [domain_routes EXCEPT ![Name(w)] =
       IF @.workspace = w THEN NoRoute ELSE @]
  /\ UNCHANGED <<dns, records, tunnel>>
-----------------------------------------------------------------------------
(* The replies.                                                            *)

\* The hash is stored, then the connector is looked after.
Configured(w) ==
  /\ At(w, "put")
  /\ tunnel' = [tunnel EXCEPT ![w] = [config_hash |-> {alarm[w].sent}, config |-> alarm[w].sent]]
  /\ Go(w, "connector")
  /\ UNCHANGED <<domains, created, domain_routes, dns, records, addressed, unsure, faults>>

BugAfterConnector(doc) ==
  IF doc.status = "deleting" THEN "release"
  ELSE IF doc.dns_id = 0 THEN "lookup" ELSE "probe"

\* The connector runs: the document decides what is next, as it was read.
AfterConnector(doc) ==
  IF doc.status = "deleting"
  THEN IF doc.dns_id # 0 /\ ~doc.dns_deleted THEN "unroute" ELSE "release"
  ELSE IF doc.dns_id = 0 THEN "lookup" ELSE "probe"

Connected(w) ==
  /\ At(w, "connector")
  /\ Go(w, AfterConnector(alarm[w].domain))
  /\ UNCHANGED <<domains, created, cloud, addressed, unsure, faults>>

\* The document the alarm holds is changed and stored.
Save(w, doc, pc) ==
  /\ Put(alarm[w].id, doc)
  /\ alarm' = [alarm EXCEPT ![w].domain = doc, ![w].pc = pc]

Unroute(w) ==
  /\ RecordDeleted(w)
  /\ Save(w, [alarm[w].domain EXCEPT !.dns_deleted = TRUE], "release")
  /\ UNCHANGED <<created, addressed, unsure, faults>>

Release(w) ==
  /\ Released(w)
  /\ Put(alarm[w].id, NoDomain)
  /\ Go(w, "next")
  /\ UNCHANGED <<created, addressed, unsure, faults>>

Recorded(w, record) ==
  Save(w, [alarm[w].domain EXCEPT !.dns_id = record, !.status = "pending"], "probe")

BugLookup(w) ==
  /\ At(w, "lookup")
  /\ \/ dns[Name(w)] # NoRecord /\ Recorded(w, dns[Name(w)].id)
     \/ dns[Name(w)] = NoRecord /\ Go(w, "create") /\ UNCHANGED domains
  /\ UNCHANGED <<created, cloud, addressed, unsure, faults>>

\* The zone is asked for the name: a record of this tunnel is taken over, one
\* of another application is left alone.
Lookup(w) ==
  /\ At(w, "lookup")
  /\ \/ dns[Name(w)].owner = w /\ Recorded(w, dns[Name(w)].id)
     \/ dns[Name(w)].owner \notin {w, Nobody} /\ GiveUp(w)
     \/ dns[Name(w)] = NoRecord /\ Go(w, "create") /\ UNCHANGED domains
  /\ UNCHANGED <<created, cloud, addressed, unsure, faults>>

Create(w) ==
  /\ \/ RecordCreated(w) /\ Recorded(w, records + 1)
     \/ /\ At(w, "create") /\ dns[Name(w)] # NoRecord
        /\ GiveUp(w) /\ UNCHANGED cloud
  /\ UNCHANGED <<created, addressed, unsure, faults>>

\* Who answers at a name: the application the record leads to, if any.
Answers(h) ==
  \/ dns[h].owner = Foreign
  \/ \E w \in Workspace : dns[h].owner = w /\ \E s \in Service : <<h, s>> \in tunnel[w].config

BugProbe(w) ==
  /\ At(w, "probe")
  /\ Put(alarm[w].id, [domains[alarm[w].id] EXCEPT !.status = "healthy"])
  /\ Go(w, "next")
  /\ UNCHANGED <<created, cloud, addressed, unsure, faults>>

\* The public probe succeeded: the document, as it is now, is healthy.
Probe(w) ==
  /\ At(w, "probe") /\ Answers(Name(w))
  /\ Put(alarm[w].id, [domains[alarm[w].id] EXCEPT !.status = "healthy"])
  /\ Go(w, "next")
  /\ UNCHANGED <<created, cloud, addressed, unsure, faults>>

\* The tunnel is not ready, or the probe failed.
NotReady(w) ==
  /\ At(w, "probe")
  /\ GiveUp(w)
  /\ UNCHANGED <<created, cloud, addressed, unsure, faults>>
-----------------------------------------------------------------------------
(* Failures.                                                               *)

Awaiting(w) == alarm[w].pc \in {"put", "connector", "unroute", "release", "lookup", "create"}

\* A call fails and has no effect.
Fail(w) ==
  /\ Awaiting(w) /\ faults < MaxFaults
  /\ faults' = faults + 1
  /\ GiveUp(w)
  /\ UNCHANGED <<created, cloud, addressed, unsure>>

Effect(w) == Routed(w) \/ RecordCreated(w) \/ RecordDeleted(w) \/ Released(w)

\* A call takes effect, and its workspace does not come to know.
Unsure(w) ==
  /\ Effect(w)
  /\ faults < MaxFaults
  /\ faults' = faults + 1
  /\ unsure' = unsure \cup {<<alarm[w].pc, Name(w)>>}

LoseReply(w) ==
  /\ Unsure(w)
  /\ GiveUp(w)
  /\ UNCHANGED <<created, addressed>>

\* The object is restarted: the alarm and the requests that were adding are gone.
Restart(w) ==
  /\ alarm' = [alarm EXCEPT ![w] = Idle]
  /\ domains' = [d \in Domain |->
       IF domains[d].status = "adding" /\ domains[d].workspace = w THEN NoDomain ELSE domains[d]]

Evict(w) ==
  /\ ~At(w, "idle") \/ \E d \in Domain : domains[d].status = "adding" /\ domains[d].workspace = w
  /\ \/ Unsure(w)
     \/ faults < MaxFaults /\ faults' = faults + 1 /\ UNCHANGED <<cloud, unsure>>
  /\ Restart(w)
  /\ UNCHANGED <<created, addressed>>
-----------------------------------------------------------------------------
AlarmStep(w) ==
  \/ Start(w) \/ Take(w) \/ End(w) \/ Configured(w) \/ Connected(w) \/ Unroute(w)
  \/ Release(w) \/ Lookup(w) \/ Create(w) \/ Probe(w) \/ NotReady(w)

Next ==
  \/ \E w \in Workspace, h \in Host, s \in Service : Add(w, h, s)
  \/ \E d \in Domain : Added(d) \/ AddFails(d) \/ Delete(d)
  \/ \E w \in Workspace, s \in Service : Deploy(w, s)
  \/ \E w \in Workspace : AlarmStep(w) \/ Fail(w) \/ LoseReply(w) \/ Evict(w)

Spec == Init /\ [][Next]_vars

\* The platform delivers alarms until they return, and an alarm of a workspace
\* that has domains arms the next one (workspace.ts 541-554).
FairSpec == Spec /\ \A w \in Workspace : WF_vars(AlarmStep(w))
-----------------------------------------------------------------------------
Routes == SUBSET (Host \X Service)
Document ==
  [workspace : Workspace, hostname : Host, service : Service,
   status : {"adding", "pending", "healthy", "deleting"},
   dns_id : Nat, dns_deleted : BOOLEAN]
Location == {"idle", "next", "put", "connector", "unroute", "release", "lookup",
             "create", "probe"}

\* The documents, both stores and the alarm have the shape the handlers give
\* them; the alarm never works on a document that was healthy when it was listed.
TypeOK ==
  /\ domains \in [Domain -> Document \cup {NoDomain}]
  /\ created \in 0..MaxDomains
  /\ domain_routes \in [Host -> [workspace : Workspace, domain : Domain] \cup {NoRoute}]
  /\ dns \in [Host -> [owner : Workspace, id : Nat \ {0}]
                      \cup {NoRecord, [owner |-> Foreign, id |-> 0]}]
  /\ records \in Nat
  /\ tunnel \in [Workspace -> [config_hash : SUBSET Routes, config : Routes]]
  /\ addressed \in [Workspace -> SUBSET Service]
  /\ alarm \in [Workspace -> [pc : Location, todo : SUBSET [id : Domain, domain : Document],
                              id : 0..MaxDomains, domain : Document \cup {NoDomain},
                              sent : Routes]]
  /\ \A w \in Workspace : \A t \in alarm[w].todo : t.domain.status \in {"pending", "deleting"}
  /\ unsure \subseteq Location \X Host
  /\ faults \in 0..MaxFaults

\* "Reserve names globally; a workspace cannot capture another customer's
\* hostname" (integrations.ts 681): while a workspace has a document for a name,
\* the directory gives the name to it and to no other domain.  Left out are names
\* whose release took effect unnoticed: the release is repeated by name, and by
\* then the name may have been added again.
Reserved ==
  \A d \in Domain : Stored(d) /\ <<"release", domains[d].hostname>> \notin unsure =>
    domain_routes[domains[d].hostname] = [workspace |-> domains[d].workspace, domain |-> d]

\* The record a live domain remembers exists and leads to its own tunnel, although
\* documents are saved late, records are taken over and their deletion is repeated.
RecordKept ==
  \A d \in Domain :
    Live(d) /\ domains[d].dns_id # 0 /\ <<"release", domains[d].hostname>> \notin unsure =>
      dns[domains[d].hostname] = [owner |-> domains[d].workspace, id |-> domains[d].dns_id]

\* A domain that is shown as healthy is routed by its workspace's tunnel, and its
\* name leads there: what was probed was not somebody else's answer.  It leads to
\* the domain's own service, unless a configuration was applied unnoticed: the
\* stored hash is then of an older one, and may be taken for that of the present.
HealthyIsServed ==
  \A d \in Domain :
    LET doc   == domains[d]
        route == <<doc.hostname, doc.service>>
    IN doc.status = "healthy" /\ <<"release", doc.hostname>> \notin unsure =>
         /\ dns[doc.hostname].owner = doc.workspace
         /\ \E s \in Service : <<doc.hostname, s>> \in tunnel[doc.workspace].config
         /\ route \notin tunnel[doc.workspace].config => \E h \in Host : <<"put", h>> \in unsure

\* A name that is free again leads to no tunnel: the next workspace that adds it
\* can have its record.  Left out are names whose record was created, or whose
\* release took effect, without their workspace knowing.
FreeIsClean ==
  \A h \in Host : Free(h) /\ {<<"create", h>>, <<"release", h>>} \cap unsure = {} =>
    dns[h].owner \in {Nobody, Foreign}

\* What the user is told of an address, the zone and the tunnels agree, although
\* they are changed by different calls that fail one by one (integrations.ts:550-640).
RoutesAgree == RecordKept /\ HealthyIsServed /\ FreeIsClean

\* "removes only owned resources" (docs/runtime-contract.md 16): a record changes
\* only when the workspace it leads to removes a domain of that name.
OnlyOwnRemoved ==
  [][\A h \in Host : dns[h] # NoRecord /\ dns'[h] # dns[h] =>
       \E d \in Domain : /\ domains[d].status = "deleting"
                         /\ domains[d].workspace = dns[h].owner
                         /\ domains[d].hostname = h]_vars

\* A removal ends once every service of the workspace was deployed: the tunnel is
\* configured, record and reservation go, and what was lost is repeated.  (It may
\* also end because a stale save takes the removal back, see DeletionHolds.)
DeletionEnds ==
  \A d \in Domain :
    (domains[d].status = "deleting" /\ addressed[domains[d].workspace] = Service)
      ~> domains[d].status # "deleting"

\* "Public address removed" (apps/web/src/components/resources.tsx 231): a removal
\* that was accepted is not taken back.  Not so: the alarm saves what it read.
DeletionHolds ==
  [][\A d \in Domain : domains[d].status = "deleting" =>
       domains'[d].status \in {"deleting", "none"}]_vars
=============================================================================
