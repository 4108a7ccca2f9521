----------------------------- MODULE Deployment -----------------------------
(***************************************************************************)
(* Releasing one service: queueDeployment(), the phases of                 *)
(* reconcileDeployment(), the route switch, the housekeeping of replaced   *)
(* and failed releases, health reconciliation with automatic rollback, and *)
(* removal of the service.                                                 *)
(*                                                                         *)
(* One alarm of the Workspace object runs at a time and works on documents *)
(* it has read; HTTP handlers run whenever the alarm awaits Nomad or       *)
(* Cloudflare.  Alarm steps that touch nothing an HTTP handler reads or    *)
(* writes are one action.  A failed await leaves the documents as they     *)
(* were saved; the alarm may also be interrupted (eviction) anywhere.      *)
(***************************************************************************)
EXTENDS Integers, FiniteSets, Sequences

CONSTANTS
  MaxDeployments,  \* bound: deployments ever created
  MaxFaults,       \* bound: failures of requests, interruptions
  MaxMoves,        \* bound: reallocations of a running release by Nomad
  MaxEdits,        \* bound: PUTs of the service whose body arrives slowly
  Start,           \* initially: is deployment 1 running; status of the domain
  Failures         \* the kinds of failure that happen, of FailureKinds

FailureKinds == {"request", "reply", "put", "reject", "eviction"}

ASSUME DeploymentAssumption ==
  /\ MaxDeployments \in Nat \ {0} /\ MaxFaults \in Nat /\ MaxMoves \in Nat
  /\ MaxEdits \in Nat
  /\ Start \subseteq BOOLEAN \X {"none", "pending", "healthy"}
  /\ <<FALSE, "healthy">> \notin Start
  /\ Failures \subseteq FailureKinds

VARIABLES
  service,   \* the service document
  deps,      \* the deployment documents
  created,   \* number of deployments ever created
  late,      \* deployments whose deadline has passed
  stops,     \* the "runtime_stops" documents
  jobs,      \* Nomad: the state of each job and its newest allocation
  tunnel,    \* the "tunnel" document, Cloudflare's copy and the connectors
  domain,    \* the status of the service's domain, or "none"
  alarm,     \* the alarm in progress and the documents it holds
  edit,      \* a PUT of the service that awaits its body
  faults, moves, edits

vars == <<service, deps, created, late, stops, jobs, tunnel, domain, alarm,
          edit, faults, moves, edits>>

stored  == <<service, deps, created>>
outside == <<jobs, tunnel, moves>>
bounds  == <<moves, edits>>

Dep     == 1..MaxDeployments
Job     == {"app", "build"} \X Dep
None    == 0
Nowhere == <<0, 0>>
Allocation == 0..MaxMoves
Address == {Nowhere} \union (Dep \X Allocation)

ACTIVE == {"queued", "building", "deploying"}

NoDoc == [status |-> "absent", phase |-> "done", prev |-> None,
          rollback |-> None, placed |-> FALSE, built |-> FALSE,
          address |-> Nowhere]
NoService == [status |-> "gone", current |-> None, promotion |-> None,
              address |-> Nowhere, promoted |-> Nowhere, unhealthy |-> FALSE]
Idle == [at |-> "idle", d |-> None, work |-> <<>>, busy |-> FALSE,
         svc |-> NoService, back |-> "", target |-> Nowhere, jobs |-> <<>>,
         next |-> None]

Init ==
  \E start \in Start :
    LET live == start[1]
        a    == IF start[2] = "healthy" THEN <<1, 0>> ELSE Nowhere IN
    /\ domain = start[2]
    /\ service = IF live THEN [NoService EXCEPT !.status = "healthy",
                                 !.current = 1, !.address = <<1, 0>>]
                 ELSE [NoService EXCEPT !.status = "not_deployed"]
    /\ deps = [d \in Dep |-> IF live /\ d = 1
         THEN [NoDoc EXCEPT !.status = "healthy", !.placed = TRUE,
                            !.address = <<1, 0>>]
         ELSE NoDoc]
    /\ created = IF live THEN 1 ELSE 0
    /\ jobs = [j \in Job |->
         [state |-> IF live /\ j = <<"app", 1>> THEN "up" ELSE "absent",
          gen |-> 0]]
    /\ late = {} /\ stops = [j \in Job |-> [phase |-> "none", of |-> -1]]
    /\ tunnel = [hash |-> a, config |-> a, live |-> a, acked |-> TRUE]
    /\ alarm = Idle /\ edit = NoService
    /\ faults = 0 /\ moves = 0 /\ edits = 0

BugCleared(s) == [s EXCEPT !.promoted = Nowhere]

Cleared(s) == [s EXCEPT !.promotion = None, !.promoted = Nowhere]

Fault(kind) == kind \in Failures /\ faults < MaxFaults /\ faults' = faults + 1
-----------------------------------------------------------------------------
(* Requests of users.                                                      *)

BugMayQueue ==   \* Bug*: a plausible bug in the definition that follows it
   service.status \notin {"gone", "deleting"}

MayQueue ==   \* one active deployment per service
  /\ service.status \notin {"gone", "deleting"}
  /\ \A d \in Dep : deps[d].status \notin ACTIVE

Restorable(r) == deps[r].status \in {"healthy", "rolled_back"}

queueDeployment(r) ==   \* r: the release whose image is reused, or None
  /\ created < MaxDeployments
  /\ created' = created + 1
  /\ deps' = [deps EXCEPT ![created + 1] =
       [NoDoc EXCEPT !.status = "queued", !.phase = "prepare", !.rollback = r,
                     !.prev = service.current]]

Deploy ==
  /\ MayQueue
  /\ queueDeployment(None)
  /\ UNCHANGED <<service, late, stops, tunnel, domain, jobs, alarm, edit,
                 faults, bounds>>

Rollback ==
  /\ MayQueue
  /\ \E r \in Dep : Restorable(r) /\ queueDeployment(r)
  /\ UNCHANGED <<service, late, stops, tunnel, domain, jobs, alarm, edit,
                 faults, bounds>>

removeService ==
  /\ service.status # "gone" /\ domain = "none"
  /\ \A d \in Dep : deps[d].status \notin ACTIVE
  /\ service' = [service EXCEPT !.status = "deleting"]
  /\ UNCHANGED <<deps, created, late, stops, outside, domain, alarm, edit,
                 faults, edits>>

EditRead ==   \* PUT: the document is read, then the body is awaited
  /\ service.status # "gone" /\ edit = NoService /\ edits < MaxEdits
  /\ edit' = service /\ edits' = edits + 1
  /\ UNCHANGED <<stored, late, stops, outside, domain, alarm, faults>>

EditSave ==   \* the settings are merged into the document that was read
  /\ edit # NoService
  /\ service' = edit /\ edit' = NoService
  /\ UNCHANGED <<deps, created, late, stops, outside, domain, alarm, faults,
                 edits>>
-----------------------------------------------------------------------------
(* The alarm: its list of unfinished deployments and the deadline check.   *)

Drop(f, d) == [e \in DOMAIN f \ {d} |-> f[e]]

\* Return to the list of deployments, done with d.
Resumed(d) == [Idle EXCEPT !.at = "work", !.busy = TRUE,
                         !.work = Drop(alarm.work, d)]
Save(d, doc) == /\ deps' = [deps EXCEPT ![d] = doc]
                /\ alarm' = Resumed(d)
Skip(d) == alarm' = Resumed(d) /\ UNCHANGED deps

AlarmStarts ==
  /\ alarm.at = "idle"
  /\ LET unfinished == {d \in Dep : deps[d].phase # "done"} IN
     alarm' = [Idle EXCEPT !.at = "work", !.busy = unfinished # {},
                           !.work = [d \in unfinished |-> deps[d]]]
  /\ UNCHANGED <<stored, late, stops, outside, domain, edit, faults, edits>>

BugOverdue(d) == alarm.work[d].status = "building" /\ d \in late

\* Deployments take turns; an interrupted alarm changes their order.
Listed(d) == alarm.at = "work" /\ d \in DOMAIN alarm.work
Overdue(d) == /\ alarm.work[d].status \in ACTIVE
              /\ alarm.work[d].phase # "failure_cleanup" /\ d \in late
Turn(d, phase) == Listed(d) /\ alarm.work[d].phase = phase /\ ~Overdue(d)

BugFailing(doc) == [doc EXCEPT !.status = "failure_cleanup", !.phase = "deploying"]

Failing(doc) == [doc EXCEPT !.phase = "failure_cleanup", !.status = "deploying"]

failDeployment(d) == Save(d, Failing(alarm.work[d]))

DeadlineExceeded(d) ==
  /\ Listed(d) /\ Overdue(d)
  /\ failDeployment(d)
  /\ UNCHANGED <<service, created, late, stops, outside, domain, edit, faults,
                 edits>>

Short == {"prepare", "build_submit", "building", "app_prepare", "app_submit",
          "observing"}

Interrupted(d) ==   \* NomadPending, or a 5xx answer: tried again
  /\ \E phase \in Short : Turn(d, phase)
  /\ Fault("request") /\ Skip(d)
  /\ UNCHANGED <<service, created, late, stops, outside, domain, edit, edits>>

Rejected(d) ==   \* no ready machine, unhealthy database, a 4xx of Nomad
  /\ \E phase \in Short : Turn(d, phase)
  /\ Fault("reject") /\ failDeployment(d)
  /\ UNCHANGED <<service, created, late, stops, outside, domain, edit, edits>>
-----------------------------------------------------------------------------
(* The phases up to the observed release.                                  *)

Prepare(d) ==
  /\ Turn(d, "prepare")
  /\ Save(d, IF alarm.work[d].rollback # None
             THEN [alarm.work[d] EXCEPT !.phase = "app_prepare", !.placed = TRUE,
                                        !.status = "deploying"]
             ELSE [alarm.work[d] EXCEPT !.phase = "build_submit", !.placed = TRUE,
                                        !.built = TRUE, !.status = "building"])
  /\ late' = late \ {d}
  /\ UNCHANGED <<service, created, stops, outside, domain, edit, faults, edits>>

\* Registers the job unless it is there, without an allocation yet; the reply
\* may be lost.
ensureJob(d, kind, next) ==
  /\ jobs' = [jobs EXCEPT ![<<kind, d>>].state =
                IF @ = "absent" THEN "pending" ELSE @]
  /\ \/ Save(d, [alarm.work[d] EXCEPT !.phase = next]) /\ UNCHANGED faults
     \/ Fault("reply") /\ Skip(d)
  /\ UNCHANGED <<service, created, late, stops, tunnel, domain, edit, bounds>>

SubmitBuild(d) == Turn(d, "build_submit") /\ ensureJob(d, "build", "building")
SubmitApp(d)   == Turn(d, "app_submit") /\ ensureJob(d, "app", "observing")

BuildEnds(d) ==
  /\ Turn(d, "building")
  /\ \/ /\ jobs[<<"build", d>>].state = "up"
        /\ Save(d, [alarm.work[d] EXCEPT !.phase = "app_prepare",
                                         !.status = "deploying"])
        /\ late' = late \ {d}
     \/ /\ jobs[<<"build", d>>].state = "down"
        /\ failDeployment(d)
        /\ UNCHANGED late
  /\ UNCHANGED <<service, created, stops, outside, domain, edit, faults, edits>>

PrepareApp(d) ==
  /\ Turn(d, "app_prepare")
  /\ Save(d, [alarm.work[d] EXCEPT !.phase = "app_submit"])
  /\ UNCHANGED <<service, created, late, stops, outside, domain, edit, faults,
                 edits>>

Running(d) == jobs[<<"app", d>>].state \in {"up", "down"}
Serves(d)  == jobs[<<"app", d>>].state = "up"
Where(d)   == <<d, jobs[<<"app", d>>].gen>>

NotYet(d) ==
  /\ \/ Turn(d, "building") /\ jobs[<<"build", d>>].state \in {"pending", "starting"}
     \/ Turn(d, "observing") /\ ~Serves(d)
  /\ Skip(d)
  /\ UNCHANGED <<service, created, late, stops, outside, domain, edit, faults,
                 edits>>

observeApplication(d) ==
  /\ Turn(d, "observing") /\ Serves(d)
  /\ service' = [service EXCEPT !.promotion = d, !.promoted = Where(d)]
  /\ Save(d, [alarm.work[d] EXCEPT !.phase = "routing", !.address = Where(d)])
  /\ UNCHANGED <<created, late, stops, outside, domain, edit, faults, edits>>
-----------------------------------------------------------------------------
(* refreshServiceDomains(): configure the tunnel and wait until the        *)
(* connectors have the configuration.                                      *)

Refresh(a, back) == [a EXCEPT !.at = "refresh", !.back = back]

\* What becomes of an error thrown inside.
Throw(kind) ==
  \/ /\ alarm.back = "promote"
     /\ IF kind = "refused" THEN failDeployment(alarm.d) ELSE Skip(alarm.d)
     /\ UNCHANGED service
  \/ /\ alarm.back = "candidate" /\ Skip(alarm.d)
     /\ UNCHANGED service
  \/ /\ alarm.back \in {"moved", "rerouted"}   \* reconcileRuntime's catch
     /\ service' = IF kind = "pending" THEN service
                   ELSE [alarm.svc EXCEPT !.status = "degraded"]
     /\ alarm' = [Idle EXCEPT !.at = "domains"]
     /\ UNCHANGED deps
  \/ /\ alarm.back = "probe" /\ alarm' = Idle
     /\ UNCHANGED <<deps, service>>

BugUpstream == service.address

Upstream == IF service.promoted # Nowhere THEN service.promoted
            ELSE service.address

Configure ==   \* the ingress is computed from the documents
  /\ alarm.at = "refresh"
  /\ \/ /\ domain = "none" /\ alarm' = [alarm EXCEPT !.at = alarm.back]
        /\ UNCHANGED <<service, deps>>
     \/ domain # "none" /\ Upstream = Nowhere /\ Throw("refused")
     \/ /\ domain # "none" /\ Upstream # Nowhere
        /\ alarm' = [alarm EXCEPT !.at = "apply", !.target = Upstream]
        /\ UNCHANGED <<service, deps>>
  /\ UNCHANGED <<created, late, stops, outside, domain, edit, faults, edits>>

Apply ==   \* the PUT, omitted when the signature is the stored one
  /\ alarm.at = "apply"
  /\ \/ /\ tunnel.hash = alarm.target
        /\ alarm' = [alarm EXCEPT !.at = "ack"]
        /\ UNCHANGED <<tunnel, service, deps, faults>>
     \/ /\ tunnel.hash # alarm.target
        /\ tunnel' = [tunnel EXCEPT !.hash = alarm.target,
                        !.config = alarm.target, !.acked = FALSE]
        /\ alarm' = [alarm EXCEPT !.at = "ack"]
        /\ UNCHANGED <<service, deps, faults>>
     \/ /\ tunnel.hash # alarm.target   \* applied, but the reply is lost
        /\ Fault("put")
        /\ tunnel' = [tunnel EXCEPT !.config = alarm.target]
        /\ Throw("error")
     \/ /\ tunnel.hash # alarm.target
        /\ Fault("request") /\ Throw("error")
        /\ UNCHANGED tunnel
  /\ UNCHANGED <<created, late, stops, jobs, domain, edit, bounds>>

BugAck == tunnel.live # Nowhere   \* a connector that serves, whatever it serves

Acknowledged == tunnel.acked   \* no connector is behind the stored version

Ack ==   \* tunnelReady()
  /\ alarm.at = "ack"
  /\ \/ /\ Acknowledged /\ alarm' = [alarm EXCEPT !.at = alarm.back]
        /\ UNCHANGED <<service, deps, faults>>
     \/ ~Acknowledged /\ Throw("pending") /\ UNCHANGED faults
     \/ Fault("request") /\ Throw("error")
  /\ UNCHANGED <<created, late, stops, outside, domain, edit, edits>>
-----------------------------------------------------------------------------
(* Routing and promotion.                                                  *)

Route(d) ==
  /\ Turn(d, "routing")
  /\ alarm' = Refresh([alarm EXCEPT !.d = d], "promote")
  /\ UNCHANGED <<stored, late, stops, outside, domain, edit, faults, edits>>

Promote ==   \* the transaction
  /\ alarm.at = "promote"
  /\ LET d == alarm.d
         doc == alarm.work[d] IN
     \/ /\ service.promotion # d
        /\ failDeployment(d) /\ UNCHANGED service
     \/ /\ service.promotion = d
        /\ service' = [Cleared(service) EXCEPT !.current = d,
             !.address = doc.address, !.status = "healthy", !.unhealthy = FALSE]
        /\ Save(d, [doc EXCEPT !.status = "healthy", !.phase = "cleanup"])
  /\ UNCHANGED <<created, late, stops, outside, domain, edit, faults, edits>>
-----------------------------------------------------------------------------
(* stopJob(): note the allocations, purge the job, see them exit.          *)

Stop(a, js, back) == [a EXCEPT !.at = "stop", !.jobs = js, !.back = back]

J == Head(alarm.jobs)

StopThrows ==
  IF alarm.back = "erase" THEN alarm' = [Idle EXCEPT !.at = "domains"]
  ELSE alarm' = Resumed(alarm.d)

Alive(j) == jobs[j].state \in {"starting", "up", "down"}   \* has an allocation
Finite(j) == j[1] = "build" /\ jobs[j].state \in {"up", "down"}

StopStep(j) ==
  \/ /\ stops[j].phase = "none"
     /\ stops' = [stops EXCEPT ![j] = [phase |-> "stop",
                    of |-> IF Alive(j) THEN jobs[j].gen ELSE -1]]
     /\ UNCHANGED <<jobs, alarm>>
  \/ /\ stops[j].phase = "stop"
     /\ jobs' = [jobs EXCEPT ![j].state =
          IF Finite(j) \/ @ = "pending" THEN "gone"
          ELSE IF Alive(j) THEN "exiting" ELSE @]
     /\ stops' = [stops EXCEPT ![j].phase = "observe"]
     /\ UNCHANGED alarm
  \/ /\ stops[j].phase = "observe"
     /\ IF jobs[j].state = "exiting" /\ stops[j].of = jobs[j].gen
        THEN StopThrows /\ UNCHANGED stops
        ELSE stops' = [stops EXCEPT ![j].phase = "done"] /\ UNCHANGED alarm
     /\ UNCHANGED jobs
  \/ /\ stops[j].phase = "done"
     /\ alarm' = [alarm EXCEPT !.jobs = Tail(@)]
     /\ UNCHANGED <<stops, jobs>>

StopWorks ==
  /\ alarm.at = "stop" /\ alarm.jobs # <<>> /\ StopStep(J)
  /\ UNCHANGED <<stored, late, tunnel, domain, edit, faults, bounds>>

StopFails ==
  /\ alarm.at = "stop" /\ alarm.jobs # <<>> /\ stops[J].phase # "done"
  /\ Fault("request") /\ StopThrows
  /\ UNCHANGED <<stored, late, stops, outside, domain, edit, edits>>

Builds(doc, d) == IF doc.built THEN <<<<"build", d>>>> ELSE <<>>
Apps(doc, d)   == IF doc.placed THEN <<<<"app", d>>>> ELSE <<>>

BugJobsOf(d) == IF d = alarm.svc.current THEN Apps(deps[d], d) ELSE <<>>

JobsOf(d) == Apps(deps[d], d) \o Builds(deps[d], d)

\* A removal goes on with the next deployment, in the order of their creation.
StopEnds ==
  /\ alarm.at = "stop" /\ alarm.jobs = <<>>
  /\ alarm' = IF alarm.back = "erase" /\ alarm.next < created
              THEN Stop([alarm EXCEPT !.next = @ + 1], JobsOf(alarm.next + 1), "erase")
              ELSE [alarm EXCEPT !.at = alarm.back]
  /\ UNCHANGED <<stored, late, stops, outside, domain, edit, faults, edits>>
-----------------------------------------------------------------------------
(* Housekeeping after a promotion and after a failure.                     *)

StartCleanup(d) ==
  /\ Turn(d, "cleanup")
  /\ alarm' = [alarm EXCEPT !.at = "cleanup", !.d = d,
                            !.next = alarm.work[d].prev]
  /\ UNCHANGED <<stored, late, stops, outside, domain, edit, faults, edits>>

InUse(p) == p \in {service.current, service.promotion}

BugCleanupNext ==   \* stops every other release
  /\ alarm.at = "cleanup"
  /\ LET js[d \in 0..MaxDeployments] ==
           IF d = 0 THEN <<>>
           ELSE IF d = alarm.d THEN js[d - 1] ELSE js[d - 1] \o Apps(deps[d], d)
     IN alarm' = Stop(alarm, js[MaxDeployments], "cleaned")
  /\ UNCHANGED <<stored, late, stops, outside, domain, edit, faults, edits>>

CleanupNext ==   \* the predecessors one by one, then the build
  /\ alarm.at = "cleanup"
  /\ LET p == alarm.next
         doc == alarm.work[alarm.d] IN
     \/ /\ p # None /\ InUse(p)
        /\ alarm' = [alarm EXCEPT !.next = deps[p].prev]
     \/ /\ p # None /\ ~InUse(p)
        /\ alarm' = Stop(alarm, Apps(deps[p], p), "retire")
     \/ p = None /\ alarm' = Stop(alarm, Builds(doc, alarm.d), "cleaned")
  /\ UNCHANGED <<stored, late, stops, outside, domain, edit, faults, edits>>

Retire ==
  /\ alarm.at = "retire"
  /\ deps' = [deps EXCEPT ![alarm.next].status = "rolled_back"]
  /\ alarm' = [alarm EXCEPT !.at = "cleanup", !.next = deps[alarm.next].prev]
  /\ UNCHANGED <<service, created, late, stops, outside, domain, edit, faults,
                 edits>>

BugCleaned ==   \* the phase is not advanced
  /\ alarm.at = "cleaned"
  /\ Save(alarm.d, alarm.work[alarm.d])
  /\ UNCHANGED <<service, created, late, stops, outside, domain, edit, faults,
                 edits>>

Cleaned ==
  /\ alarm.at = "cleaned"
  /\ Save(alarm.d, [alarm.work[alarm.d] EXCEPT !.phase = "done"])
  /\ UNCHANGED <<service, created, late, stops, outside, domain, edit, faults,
                 edits>>

StartFailure(d) ==   \* the route goes back before the candidate is stopped
  /\ Turn(d, "failure_cleanup")
  /\ LET doc == alarm.work[d]
         here == [alarm EXCEPT !.d = d, !.svc = service] IN
     \/ /\ service.current = d
        /\ Save(d, [doc EXCEPT !.status = "healthy", !.phase = "cleanup"])
        /\ UNCHANGED service
     \/ /\ service.current # d /\ service.promotion = d
        /\ service' = Cleared(service)
        /\ alarm' = Refresh([here EXCEPT !.svc = Cleared(service)], "candidate")
        /\ UNCHANGED deps
     \/ /\ d \notin {service.current, service.promotion}
        /\ alarm' = IF doc.address # Nowhere /\ domain # "none"
                    THEN Refresh(here, "candidate")
                    ELSE [here EXCEPT !.at = "candidate"]
        /\ UNCHANGED <<deps, service>>
  /\ UNCHANGED <<created, late, stops, outside, domain, edit, faults, edits>>

BugStopCandidate ==   \* its build keeps running
  /\ alarm.at = "candidate"
  /\ alarm' = Stop(alarm, Apps(alarm.work[alarm.d], alarm.d), "failed")
  /\ UNCHANGED <<stored, late, stops, outside, domain, edit, faults, edits>>

StopCandidate ==
  /\ alarm.at = "candidate"
  /\ LET doc == alarm.work[alarm.d] IN
     alarm' = Stop(alarm, Apps(doc, alarm.d) \o Builds(doc, alarm.d), "failed")
  /\ UNCHANGED <<stored, late, stops, outside, domain, edit, faults, edits>>

Failed ==
  /\ alarm.at = "failed"
  /\ Save(alarm.d, [alarm.work[alarm.d] EXCEPT !.status = "failed",
                                               !.phase = "done"])
  /\ service' = IF alarm.svc.current = None
                THEN [alarm.svc EXCEPT !.status = "failed"] ELSE service
  /\ UNCHANGED <<created, late, stops, outside, domain, edit, faults, edits>>
-----------------------------------------------------------------------------
(* Health of the running release; removal.                                 *)

ListServices ==
  /\ alarm.at = "work" /\ DOMAIN alarm.work = {}
  /\ alarm' = [Idle EXCEPT !.busy = alarm.busy, !.svc = service,
                 !.at = IF service.status = "gone" THEN "domains" ELSE "service"]
  /\ UNCHANGED <<stored, late, stops, outside, domain, edit, faults, edits>>

ReconcileService ==   \* on the document of the list
  /\ alarm.at = "service"
  /\ LET s == alarm.svc
         skip == [Idle EXCEPT !.at = "domains"] IN
     alarm' = CASE s.status = "deleting" ->
                     Stop([alarm EXCEPT !.next = 1], JobsOf(1), "erase")
                [] s.status # "deleting" /\ (alarm.busy \/ s.current = None) -> skip
                [] s.status # "deleting" /\ ~alarm.busy /\ s.current # None ->
                     IF s.promotion = None THEN [alarm EXCEPT !.at = "health"]
                     ELSE IF s.promotion # s.current THEN skip
                     ELSE Refresh(alarm, "moved")
  /\ UNCHANGED <<stored, late, stops, outside, domain, edit, faults, edits>>

Erase ==   \* the transaction of deleteServiceJobs()
  /\ alarm.at = "erase"
  /\ service' = NoService
  /\ deps' = [d \in Dep |-> NoDoc]
  /\ alarm' = [Idle EXCEPT !.at = "domains"]
  /\ UNCHANGED <<created, late, stops, outside, domain, edit, faults, edits>>

Moved ==   \* finishes a route change of an earlier alarm
  /\ alarm.at = "moved"
  /\ LET s == [Cleared(alarm.svc) EXCEPT !.address = alarm.svc.promoted] IN
     service' = s /\ alarm' = [alarm EXCEPT !.at = "health", !.svc = s]
  /\ UNCHANGED <<deps, created, late, stops, outside, domain, edit, faults,
                 edits>>

Superseded == \/ service.status \in {"gone", "deleting"}
              \/ service.current # alarm.svc.current

Known == deps[alarm.svc.current].status # "absent"

Unhealthy ==
  /\ alarm.at = "health" /\ Known /\ ~Serves(alarm.svc.current)
  /\ IF Superseded
     THEN alarm' = [Idle EXCEPT !.at = "domains"] /\ UNCHANGED service
     ELSE /\ service' = [service EXCEPT !.status = "degraded", !.unhealthy = TRUE]
          /\ \/ alarm' = [Idle EXCEPT !.at = "domains"]
             \/ /\ service.unhealthy   \* for more than 45 seconds
                /\ deps[alarm.svc.current].rollback = None
                /\ alarm' = [alarm EXCEPT !.at = "rollback"]
  /\ UNCHANGED <<deps, created, late, stops, outside, domain, edit, faults,
                 edits>>

AutomaticRollback ==
  /\ alarm.at = "rollback"
  /\ LET d == alarm.svc.current
         prior == deps[d].prev IN
     IF ~Running(d) \/ prior = None \/ created = MaxDeployments
     THEN UNCHANGED stored
     ELSE IF ~Restorable(prior) \/ \E e \in Dep : deps[e].status \in ACTIVE
     THEN UNCHANGED stored
     ELSE IF MayQueue THEN queueDeployment(prior) /\ UNCHANGED service
     ELSE /\ service' = [alarm.svc EXCEPT !.status = "degraded"]   \* 409, caught
          /\ UNCHANGED <<deps, created>>
  /\ alarm' = [Idle EXCEPT !.at = "domains"]
  /\ UNCHANGED <<late, stops, outside, domain, edit, faults, edits>>

Healthy ==
  /\ alarm.at = "health" /\ Known /\ Serves(alarm.svc.current)
  /\ LET d == alarm.svc.current
         s == [service EXCEPT !.promotion = d, !.promoted = Where(d)] IN
     \/ /\ alarm.svc.address = Where(d)
        /\ alarm' = [alarm EXCEPT !.at = "record"] /\ UNCHANGED service
     \/ /\ alarm.svc.address # Where(d)
        /\ Superseded \/ service.promotion # None
        /\ alarm' = [Idle EXCEPT !.at = "domains"] /\ UNCHANGED service
     \/ /\ alarm.svc.address # Where(d)
        /\ ~Superseded /\ service.promotion = None
        /\ service' = s
        /\ alarm' = Refresh([alarm EXCEPT !.svc = s], "rerouted")
  /\ UNCHANGED <<deps, created, late, stops, outside, domain, edit, faults,
                 edits>>

Rerouted ==   \* then the machine of the allocation is looked up
  /\ alarm.at = "rerouted"
  /\ alarm' = [alarm EXCEPT !.at = "record",
       !.svc = [Cleared(@) EXCEPT !.address = alarm.svc.promoted]]
  /\ UNCHANGED <<stored, late, stops, outside, domain, edit, faults, edits>>

RecordHealth ==
  /\ alarm.at = "record"
  /\ service' = IF Superseded THEN service
                ELSE [Cleared(service) EXCEPT !.address = alarm.svc.address,
                        !.status = "healthy", !.unhealthy = FALSE]
  /\ alarm' = [Idle EXCEPT !.at = "domains"]
  /\ UNCHANGED <<deps, created, late, stops, outside, domain, edit, faults,
                 edits>>

HealthFails ==   \* an error other than NomadPending: the list's document is saved
  /\ alarm.at \in {"health", "rollback", "record"}
  /\ Fault("request") \/ (~Known /\ UNCHANGED faults)
  /\ \/ service' = [alarm.svc EXCEPT !.status = "degraded"]
     \/ UNCHANGED service
  /\ alarm' = [Idle EXCEPT !.at = "domains"]
  /\ UNCHANGED <<deps, created, late, stops, outside, domain, edit, edits>>

ReconcileDomains ==   \* a domain that is not healthy yet
  /\ alarm.at = "domains"
  /\ alarm' = IF domain = "pending" THEN Refresh(alarm, "probe") ELSE Idle
  /\ UNCHANGED <<stored, late, stops, outside, domain, edit, faults, edits>>

Probe ==
  /\ alarm.at = "probe"
  /\ domain' \in {"pending", "healthy"} /\ alarm' = Idle
  /\ UNCHANGED <<stored, late, stops, outside, edit, faults, edits>>

Evicted ==
  /\ alarm.at # "idle" /\ Fault("eviction")
  /\ alarm' = Idle /\ edit' = NoService
  /\ UNCHANGED <<stored, late, stops, outside, domain, edits>>
-----------------------------------------------------------------------------
(* Nomad, Cloudflare and time.                                             *)

Place ==   \* the evaluation ends, or a machine has room: the first allocation
  /\ \E j \in Job : /\ jobs[j].state = "pending"
                    /\ jobs' = [jobs EXCEPT ![j].state = "starting"]
  /\ UNCHANGED <<stored, late, stops, tunnel, domain, alarm, edit, faults,
                 bounds>>

Nomad ==
  /\ \E j \in Job : \E new \in {"up", "down"} :
       /\ \/ jobs[j].state = "starting"
          \/ j[1] = "app" /\ jobs[j].state \in {"up", "down"} \ {new}
       /\ jobs' = [jobs EXCEPT ![j].state = new]
  /\ UNCHANGED <<stored, late, stops, tunnel, domain, alarm, edit, faults,
                 bounds>>

Exit ==   \* the containers of a purged job end
  /\ \E j \in Job : /\ jobs[j].state = "exiting"
                    /\ jobs' = [jobs EXCEPT ![j].state = "gone"]
  /\ UNCHANGED <<stored, late, stops, tunnel, domain, alarm, edit, faults,
                 bounds>>

Move ==   \* another allocation, at another address
  /\ moves < MaxMoves /\ moves' = moves + 1
  /\ \E d \in Dep : /\ Running(d)
                    /\ jobs' = [jobs EXCEPT ![<<"app", d>>].gen = moves + 1]
  /\ UNCHANGED <<stored, late, stops, tunnel, domain, alarm, edit, faults,
                 edits>>

Connect ==   \* the connectors take the newest configuration
  /\ ~(tunnel.live = tunnel.config /\ tunnel.acked)
  /\ tunnel' = [tunnel EXCEPT !.live = tunnel.config, !.acked = TRUE]
  /\ UNCHANGED <<stored, late, stops, jobs, domain, alarm, edit, faults,
                 bounds>>

Deadline ==
  /\ \E d \in Dep : /\ deps[d].status \in ACTIVE
                    /\ deps[d].phase # "failure_cleanup" /\ d \notin late
                    /\ late' = late \union {d}
  /\ UNCHANGED <<stored, stops, outside, domain, alarm, edit, faults, edits>>

User == Deploy \/ Rollback \/ removeService \/ EditRead \/ EditSave

Phase(d) ==
  \/ DeadlineExceeded(d) \/ Interrupted(d) \/ Rejected(d) \/ Prepare(d)
  \/ SubmitBuild(d) \/ BuildEnds(d) \/ PrepareApp(d) \/ SubmitApp(d)
  \/ NotYet(d) \/ observeApplication(d) \/ Route(d) \/ StartCleanup(d)
  \/ StartFailure(d)

Alarm ==
  \/ AlarmStarts \/ \E d \in Dep : Phase(d)
  \/ Configure \/ Apply \/ Ack \/ Promote
  \/ StopWorks \/ StopFails \/ StopEnds
  \/ CleanupNext \/ Retire \/ Cleaned \/ StopCandidate \/ Failed
  \/ ListServices \/ ReconcileService \/ Erase \/ Moved
  \/ Unhealthy \/ AutomaticRollback \/ Healthy \/ Rerouted \/ RecordHealth
  \/ HealthFails \/ ReconcileDomains \/ Probe

Environment == Place \/ Nomad \/ Exit \/ Move \/ Connect \/ Deadline

Next == User \/ Alarm \/ Evicted \/ Environment

\* The alarm is set again as long as there is work; a purged container exits,
\* connectors fetch their configuration, and deadlines pass.
Fairness == /\ WF_vars(Alarm) /\ WF_vars(Exit) /\ WF_vars(Connect)
            /\ WF_vars(Deadline)

Spec     == Init /\ [][Next]_vars
FairSpec == Spec /\ Fairness
-----------------------------------------------------------------------------
(* Properties.                                                             *)

Doc == [status : ACTIVE \union {"absent", "healthy", "failed", "rolled_back"},
        phase : Short \union {"routing", "cleanup", "failure_cleanup", "done"},
        prev : Dep \union {None}, rollback : Dep \union {None},
        placed : BOOLEAN, built : BOOLEAN, address : Address]
Service == [status : {"not_deployed", "healthy", "degraded", "failed",
                      "deleting", "gone"},
            current : Dep \union {None}, promotion : Dep \union {None},
            address : Address, promoted : Address, unhealthy : BOOLEAN]
Places == {"idle", "work", "refresh", "apply", "ack", "promote", "cleanup",
           "stop", "retire", "cleaned", "candidate", "failed", "service",
           "erase", "moved", "health", "rollback", "rerouted", "record",
           "domains", "probe"}

\* The shape of the documents, of the alarm's place and of what it holds.
TypeOK ==
  /\ service \in Service /\ edit \in Service
  /\ deps \in [Dep -> Doc] /\ created \in 0..MaxDeployments
  /\ late \subseteq Dep
  /\ stops \in [Job -> [phase : {"none", "stop", "observe", "done"},
                        of : {-1} \union Allocation]]
  /\ jobs \in [Job -> [state : {"absent", "pending", "starting", "up", "down",
                                "exiting", "gone"}, gen : Allocation]]
  /\ tunnel \in [hash : Address, config : Address, live : Address,
                 acked : BOOLEAN]
  /\ domain \in {"none", "pending", "healthy"}
  /\ alarm.at \in Places /\ alarm.d \in Dep \union {None}
  /\ DOMAIN alarm.work \subseteq Dep
  /\ \A d \in DOMAIN alarm.work : alarm.work[d] \in Doc
  /\ alarm.svc \in Service /\ alarm.target \in Address
  /\ faults \in 0..MaxFaults /\ moves \in 0..MaxMoves /\ edits \in 0..MaxEdits

\* queueDeployment()'s transaction and the automatic rollback together: a
\* service never has two deployments in progress, so no two fight over its
\* promotion.
OneActive == \A d, e \in Dep :
  deps[d].status \in ACTIVE /\ deps[e].status \in ACTIVE => d = e

\* No housekeeping has begun to stop release d.
Kept(d) == d # None => stops[<<"app", d>>].phase = "none"

\* Housekeeping, of whatever release and however late, never stops the current
\* release of a service ("a retry of A's housekeeping must never stop B").
CurrentKeepsRunning ==
  service.status \notin {"gone", "deleting"} => Kept(service.current)

\* Visitors are never sent to a release that is being stopped: the previous
\* one is stopped after the switch, a failed one after the switch back ("keep
\* failed candidate alive until the previous route has actually been restored").
RoutedKeepsRunning ==
  domain # "none" => Kept(tunnel.live[1]) /\ Kept(tunnel.config[1])

\* Together: neither the release a service counts as its own nor the one that
\* visitors reach is ever stopped (deploy.ts:305-420, integrations.ts:120-144).
ServedKeepsRunning == CurrentKeepsRunning /\ RoutedKeepsRunning

Registered(j) == jobs[j].state \in {"pending", "starting", "up", "down"}

\* Nomad does not place the job again, and the allocation that its stop noted
\* has exited.
Stopped(j) == /\ ~Registered(j)
              /\ jobs[j].state = "exiting" => stops[j].of # jobs[j].gen

\* A deployment that is reported as failed has left no job in Nomad, and nothing
\* running that was seen, however its submission, build or clean-up went wrong.
FailedIsStopped ==
  \A d \in Dep : deps[d].status = "failed" =>
                    Stopped(<<"app", d>>) /\ Stopped(<<"build", d>>)

\* The records of a service are deleted only when all its jobs are stopped:
\* nothing would stop them afterwards.
RemovedIsStopped == service.status = "gone" => \A j \in Job : Stopped(j)

\* Together: what is reported as over has no job left that nobody would stop
\* (common.ts:88-140, deploy.ts:372-470).
EndedIsStopped == FailedIsStopped /\ RemovedIsStopped

\* Stated, not met: nothing at all of what is over still runs ("Purging a job
\* registration is not proof its Docker tasks have exited", common.ts:118).
FailedHasExited == \A d \in Dep : deps[d].status = "failed" =>
  /\ jobs[<<"app", d>>].state \in {"absent", "gone"}
  /\ jobs[<<"build", d>>].state \in {"absent", "gone"}

\* A reserved promotion belongs to a deployment that will still release it:
\* otherwise health reconciliation of the service would stop for ever.
PromotionHasOwner ==
  service.promotion \notin {None, service.current} =>
    deps[service.promotion].phase \in {"routing", "failure_cleanup"}

\* Together: one deployment at a time owns a service and its promotion, and the
\* owner is one that still works on it (deploy.ts:58-100 and 290-330).
OneOwner == OneActive /\ PromotionHasOwner

\* "Service and deployment current pointers change ... after observed routing":
\* the current release changes only to the owner of the promotion, recorded as
\* healthy, when the connectors serve its address.
CurrentAfterRouting ==
  [][service'.current # service.current /\ service' # NoService =>
       /\ service.promotion = service'.current
       /\ deps'[service'.current].status = "healthy"
       /\ domain # "none" => tunnel.live = service'.address]_vars

\* Every deployment is decided (healthy, failed, or removed with its service), and
\* the housekeeping after a promotion ends too.
Settled(d) == deps[d].status \notin ACTIVE /\ deps[d].phase # "cleanup"
EventuallySettled == \A d \in Dep : ~Settled(d) ~> Settled(d)
=============================================================================
