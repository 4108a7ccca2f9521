-------------------------- MODULE SelfHostedDeploys --------------------------
(***************************************************************************)
(* Deployments of the self-hosted control plane (crates/control-plane):    *)
(* the workers that share the queue in PostgreSQL by leases, the           *)
(* reconciler of services, the observer of domains, and the owner.         *)
(*                                                                         *)
(* One service with one domain.  Deployments are numbered in the order of  *)
(* their creation, 0 is none, and the number of a deployment also stands   *)
(* for its job and its address.  A statement is one step, as is a call of  *)
(* the scheduler or of Cloudflare; PostgreSQL keeps what is committed, and *)
(* a transaction that is dropped gives its advisory lock back.             *)
(***************************************************************************)
EXTENDS FiniteSets, Integers

CONSTANTS
  Worker,          \* the tasks of spawn_controller (deploy.rs)
  MaxDeployments,  \* bound: deployments of the service
  SelfFaults,      \* bound: restarts, deadlines, refusals, and releases that degrade
  CutSaves,        \* whether a task is cut off between a PUT and the row it saves
  LateCleanups     \* whether a clean-up outlives the lease

D         == 1..MaxDeployments
Active    == {"queued", "building", "deploying"}
Live      == {"pending", "observed"}    \* observed: healthy or degraded
Reconciler == "reconciler"
Observer  == "observer"
Creator   == "creator"
Task      == Worker \cup {Reconciler, Observer, Creator}
Free      == "free"

VARIABLES
  rows,       \* deployments: status, stopped_at, rollback_of
  leased,     \* deployments whose lease is not over
  srv,        \* the service: status, current, promotion, unhealthy_since
  domain,     \* its domain: status, upstream, configuration_applied
  config,     \* Cloudflare: the last configuration of the tunnel
  serves,     \* what its connector serves
  dlock,      \* the advisory lock of the domain
  jobs,       \* Nomad: deployments whose job runs
  sick,       \* deployments whose checks fail
  task,       \* per task: next step, deployment, address in hand, and what follows
  trouble

svars == <<rows, leased, srv, domain, config, serves, dlock, jobs, sick, task, trouble>>
edge  == <<config, serves>>
outside == <<config, serves, jobs, sick>>

Rest == [pc |-> "rest", d |-> 0, up |-> 0, then |-> "rest"]

Init ==
  /\ rows = [d \in D |-> [status |-> "none", stopped |-> FALSE, rollback |-> FALSE]]
  /\ leased = {} /\ jobs = {} /\ sick = {}
  /\ srv = [status |-> "idle", current |-> 0, promotion |-> 0, unhealthy |-> FALSE]
  /\ domain = [status |-> "none", upstream |-> 0, applied |-> FALSE]
  /\ config = 0 /\ serves = 0 /\ dlock = Free
  /\ task = [t \in Task |-> Rest]
  /\ trouble = 0

At(t, pc)   == task[t].pc = pc
To(t, pc)   == task' = [task EXCEPT ![t].pc = pc]
End(t)      == task' = [task EXCEPT ![t] = Rest]
Trouble     == trouble < SelfFaults /\ trouble' = trouble + 1
Is(d, s)    == rows[d].status \in s
SetRow(d, s) == rows' = [rows EXCEPT ![d].status = s]
\* service_address: the target of a promotion goes before the current one.
Address     == IF srv.promotion # 0 THEN srv.promotion ELSE srv.current
-----------------------------------------------------------------------------
(* queue_deployment: the row of the service is locked, and an index allows *)
(* one active deployment.                                                  *)

Queueable ==
  /\ srv.status \notin {"deleting", "gone"}
  /\ ~\E d \in D : Is(d, Active)
  /\ Is(MaxDeployments, {"none"})
New == CHOOSE d \in D : Is(d, {"none"}) /\ \A e \in D : Is(e, {"none"}) => e >= d

Queue(rollback) ==
  rows' = [rows EXCEPT ![New] = [status |-> "queued", stopped |-> FALSE, rollback |-> rollback]]

Deploy ==
  /\ Queueable /\ Queue(FALSE)
  /\ UNCHANGED <<leased, srv, domain, outside, dlock, task, trouble>>
-----------------------------------------------------------------------------
(* process, as run by a worker.                                            *)

\* The oldest active deployment without a lease.
Select(w, d) ==
  /\ At(w, "rest") /\ Is(d, Active) /\ d \notin leased
  /\ leased' = leased \cup {d}
  /\ task' = [task EXCEPT ![w] = [Rest EXCEPT !.pc = "build", !.d = d]]
  /\ UNCHANGED <<rows, srv, domain, outside, dlock, trouble>>

\* The node, and the commit when there is no image yet.
Build(w) ==
  /\ At(w, "build")
  /\ \/ \E s \in {"building", rows[task[w].d].status} :
          SetRow(task[w].d, s) /\ To(w, IF s = "building" THEN "image" ELSE "schedule")
        /\ UNCHANGED trouble
     \/ Trouble /\ To(w, "failing") /\ UNCHANGED rows
  /\ UNCHANGED <<leased, srv, domain, outside, dlock>>

\* build_image: a job of the deployment, which a restart finds again.
Image(w) ==
  /\ At(w, "image")
  /\ \/ To(w, "schedule") /\ UNCHANGED trouble
     \/ Trouble /\ To(w, "failing")
  /\ UNCHANGED <<rows, leased, srv, domain, outside, dlock>>

Schedule(w) ==
  LET d == task[w].d IN
  /\ At(w, "schedule") /\ SetRow(d, "deploying")
  /\ jobs' = jobs \cup {d} /\ To(w, "health")
  /\ UNCHANGED <<leased, srv, domain, edge, sick, dlock, trouble>>

\* wait_healthy; the address is made public first.
Promote(w) ==
  LET d == task[w].d IN
  /\ At(w, "health") /\ d \in jobs /\ d \notin sick
  /\ srv' = [srv EXCEPT !.promotion = d]
  /\ task' = [task EXCEPT ![w].pc = "refresh", ![w].then = "commit"]
  /\ UNCHANGED <<rows, leased, domain, outside, dlock, trouble>>

Unhealthy(w) ==
  /\ At(w, "health") /\ Trouble /\ To(w, "failing")
  /\ UNCHANGED <<rows, leased, srv, domain, outside, dlock>>

Commit(w) ==
  LET d == task[w].d IN
  /\ At(w, "commit")
  /\ srv' = [srv EXCEPT !.status = "healthy", !.current = d, !.promotion = 0,
                        !.unhealthy = FALSE]
  /\ SetRow(d, "healthy") /\ leased' = leased \ {d}
  /\ To(w, "superseded")
  /\ UNCHANGED <<domain, outside, dlock, trouble>>

BugOld(d) == Is(d, {"healthy"}) /\ ~rows[d].stopped /\ d # srv.promotion
\* cleanup_superseded: releases that nothing refers to.
Old(d) ==
  /\ Is(d, {"healthy"}) /\ ~rows[d].stopped
  /\ d # srv.current /\ d # srv.promotion

Superseded(t) ==
  /\ At(t, "superseded")
  /\ \/ \E d \in D : Old(d) /\ task' = [task EXCEPT ![t].pc = "stop", ![t].up = d]
     \/ ~(\E d \in D : Old(d)) /\ End(t)
  /\ UNCHANGED <<rows, leased, srv, domain, outside, dlock, trouble>>

StopOld(t) ==
  /\ At(t, "stop") /\ End(t)
  /\ jobs' = jobs \ {task[t].up}
  /\ rows' = [rows EXCEPT ![task[t].up].stopped = TRUE]
  /\ UNCHANGED <<leased, srv, domain, edge, sick, dlock, trouble>>
-----------------------------------------------------------------------------
(* What follows a failure: restore_routing, cleanup_failed, the row.       *)

\* The deadline of 30 minutes, at any await of process.
Deadline(w) ==
  /\ task[w].pc \in {"build", "image", "schedule", "health", "refresh", "put", "wait", "commit"}
                     \cup IF CutSaves THEN {"save"} ELSE {}
  /\ task[w].then # "cleanup" /\ Trouble /\ To(w, "failing")
  /\ dlock' = IF dlock = w THEN Free ELSE dlock
  /\ UNCHANGED <<rows, leased, srv, domain, outside>>

BugReverted == srv
\* The promotion is over; its route is not known to be reverted until that is
\* acknowledged.
Reverted == [srv EXCEPT !.promotion = 0]

Restore(w) ==
  LET d == task[w].d IN
  /\ At(w, "failing")
  /\ IF srv.current = d THEN End(w) /\ UNCHANGED <<srv, domain>>
     ELSE IF srv.promotion = d
     THEN /\ srv' = Reverted /\ domain' = [domain EXCEPT !.applied = FALSE]
          /\ task' = [task EXCEPT ![w].pc = "refresh", ![w].then = "cleanup"]
     ELSE To(w, "cleanup") /\ UNCHANGED <<srv, domain>>
  /\ UNCHANGED <<rows, leased, outside, dlock, trouble>>

BugProtected(d) == srv.promotion # 0
\* A job that the edge may still serve is kept.
Protected(d) ==
  /\ domain.status # "none"
  /\ ~domain.applied \/ domain.upstream # srv.current \/ srv.promotion # 0

CleansUp(w) == task[w].then = "cleanup" \/ task[w].pc \in {"failing", "cleanup", "stopfailed", "fail"}

Cleanup(w) ==
  LET d == task[w].d IN
  /\ At(w, "cleanup")
  /\ To(w, IF srv.current = d \/ Protected(d) THEN "fail" ELSE "stopfailed")
  /\ UNCHANGED <<rows, leased, srv, domain, outside, dlock, trouble>>

\* Nomad stops the job; the call may fail, and is repeated by the reconciler.
StopFailed(t) ==
  LET d == task[t].d IN
  /\ At(t, "stopfailed")
  /\ \/ /\ jobs' = jobs \ {d} /\ rows' = [rows EXCEPT ![d].stopped = TRUE]
        /\ UNCHANGED trouble
     \/ Trouble /\ UNCHANGED <<jobs, rows>>
  /\ IF t \in Worker THEN To(t, "fail") ELSE End(t)
  /\ UNCHANGED <<leased, srv, domain, edge, sick, dlock>>

Fail(w) ==
  LET d == task[w].d IN
  /\ At(w, "fail") /\ SetRow(d, "failed") /\ leased' = leased \ {d} /\ End(w)
  /\ UNCHANGED <<srv, domain, outside, dlock, trouble>>
-----------------------------------------------------------------------------
(* refresh_service_domains, under the advisory lock of the domain.         *)

Failing(t) == IF task[t].then = "commit" THEN "failing" ELSE task[t].then

Refresh(t) ==
  /\ At(t, "refresh")
  /\ IF domain.status \notin Live
     THEN To(t, task[t].then) /\ UNCHANGED dlock
     ELSE /\ dlock = Free
          /\ IF Address = 0 THEN To(t, Failing(t)) /\ UNCHANGED dlock
             ELSE IF domain.upstream # Address
             THEN task' = [task EXCEPT ![t].pc = "put", ![t].up = Address] /\ dlock' = t
             ELSE IF ~domain.applied THEN To(t, "wait") /\ dlock' = t
             ELSE To(t, task[t].then) /\ UNCHANGED dlock
  /\ UNCHANGED <<rows, leased, srv, domain, outside, trouble>>

Put(t) ==
  /\ At(t, "put")
  /\ \/ config' = task[t].up /\ To(t, "save") /\ UNCHANGED <<dlock, trouble>>
     \/ Trouble /\ To(t, Failing(t)) /\ dlock' = Free /\ UNCHANGED config
  /\ UNCHANGED <<rows, leased, srv, domain, serves, jobs, sick>>

BugSaved(t) == [domain EXCEPT !.upstream = task[t].up, !.applied = TRUE]
Saved(t)    == [status |-> "pending", upstream |-> task[t].up, applied |-> FALSE]

Save(t) ==
  /\ At(t, "save") /\ domain' = Saved(t) /\ To(t, "wait")
  /\ UNCHANGED <<rows, leased, srv, outside, dlock, trouble>>

\* wait_for_tunnel_configuration: the connector has applied it, or 45 seconds pass.
Wait(t) ==
  /\ At(t, "wait") /\ dlock' = Free
  /\ \/ /\ serves = config /\ domain' = [domain EXCEPT !.applied = TRUE]
        /\ To(t, task[t].then) /\ UNCHANGED trouble
     \/ Trouble /\ To(t, Failing(t)) /\ UNCHANGED domain
  /\ UNCHANGED <<rows, leased, srv, outside>>

\* The connector applies what it was sent (external).
Apply ==
  /\ serves # config /\ serves' = config
  /\ UNCHANGED <<rows, leased, srv, domain, config, jobs, sick, dlock, task, trouble>>
-----------------------------------------------------------------------------
(* reconcile_services.                                                     *)

ReconcileFailed(d) ==
  /\ At(Reconciler, "rest") /\ Is(d, {"failed"}) /\ ~rows[d].stopped
  /\ srv.current # d /\ ~Protected(d)
  /\ task' = [task EXCEPT ![Reconciler] = [Rest EXCEPT !.pc = "stopfailed", !.d = d]]
  /\ UNCHANGED <<rows, leased, srv, domain, outside, dlock, trouble>>

ReconcileOld ==
  /\ At(Reconciler, "rest") /\ srv.current # 0 /\ srv.status # "deleting"
  /\ \E d \in D : Old(d) /\ task' = [task EXCEPT ![Reconciler] = [Rest EXCEPT !.pc = "stop", !.up = d]]
  /\ UNCHANGED <<rows, leased, srv, domain, outside, dlock, trouble>>

\* The row is read with its job; what the job says is known later.
ReadService ==
  /\ At(Reconciler, "rest") /\ srv.current # 0 /\ srv.status # "deleting"
  /\ task' = [task EXCEPT ![Reconciler] =
                [Rest EXCEPT !.pc = "observe", !.d = srv.current,
                             !.then = IF srv.unhealthy THEN "rollback" ELSE "rest"]]
  /\ UNCHANGED <<rows, leased, srv, domain, outside, dlock, trouble>>

Prior(d) == {e \in D : Is(e, {"healthy"}) /\ e # d}

Observe ==
  LET d == task[Reconciler].d  well == d \in jobs /\ d \notin sick IN
  /\ At(Reconciler, "observe") /\ End(Reconciler)
  /\ srv' = IF srv.current = d /\ srv.status # "deleting"
            THEN [srv EXCEPT !.status = IF well THEN "healthy" ELSE "degraded",
                             !.unhealthy = ~well]
            ELSE srv
  /\ IF /\ ~well /\ d \in jobs /\ ~rows[d].rollback
        /\ task[Reconciler].then = "rollback" /\ Prior(d) # {} /\ Queueable
     THEN Queue(TRUE) ELSE UNCHANGED rows
  /\ UNCHANGED <<leased, domain, outside, dlock, trouble>>

\* observe_domains: the route, then the public check.
ObserveDomain ==
  /\ At(Observer, "rest") /\ domain.status \in Live
  /\ task' = [task EXCEPT ![Observer] = [Rest EXCEPT !.pc = "refresh"]]
  /\ UNCHANGED <<rows, leased, srv, domain, outside, dlock, trouble>>

SeeDomain ==
  /\ At(Observer, "rest") /\ domain.status = "pending"
  /\ domain' = [domain EXCEPT !.status = "observed"]
  /\ UNCHANGED <<rows, leased, srv, outside, dlock, task, trouble>>
-----------------------------------------------------------------------------
(* The owner: domains, and the removal of the service.                     *)

\* create_domain, and provision_domain under the lock.
CreateDomain ==
  /\ domain.status = "none" /\ srv.status # "gone" /\ Address # 0 /\ dlock = Free
  /\ At(Creator, "rest") /\ dlock' = Creator
  /\ domain' = [status |-> "provisioning", upstream |-> Address, applied |-> FALSE]
  /\ task' = [task EXCEPT ![Creator] = [Rest EXCEPT !.pc = "provision", !.up = Address]]
  /\ UNCHANGED <<rows, leased, srv, outside, trouble>>

Provision ==
  /\ At(Creator, "provision")
  /\ config' = task[Creator].up /\ To(Creator, "provisioned")
  /\ UNCHANGED <<rows, leased, srv, domain, serves, jobs, sick, dlock, trouble>>

Provisioned ==
  /\ At(Creator, "provisioned") /\ dlock' = Free /\ End(Creator)
  /\ domain' = [status |-> "pending", upstream |-> task[Creator].up, applied |-> FALSE]
  /\ UNCHANGED <<rows, leased, srv, outside, trouble>>

\* The observer resumes what a restart left.
Resume ==
  /\ domain.status = "provisioning" /\ At(Creator, "rest") /\ dlock = Free /\ Address # 0
  /\ dlock' = Creator
  /\ task' = [task EXCEPT ![Creator] = [Rest EXCEPT !.pc = "provision", !.up = Address]]
  /\ UNCHANGED <<rows, leased, srv, domain, outside, trouble>>

\* delete_domain and cleanup_domain.
DeleteDomain ==
  /\ domain.status \in Live /\ dlock = Free
  /\ domain' = [status |-> "none", upstream |-> 0, applied |-> FALSE]
  /\ config' = 0 /\ serves' = 0
  /\ UNCHANGED <<rows, leased, srv, jobs, sick, dlock, task, trouble>>

BugRemovable == domain.status = "none"
Removable    == domain.status = "none" /\ ~\E d \in D : Is(d, Active)

RemoveService ==
  /\ srv.status # "gone" /\ Removable
  /\ srv' = [srv EXCEPT !.status = "deleting"]
  /\ UNCHANGED <<rows, leased, domain, outside, dlock, task, trouble>>

\* The jobs have stopped and the rows go; a domain refers to its service.
Remove ==
  /\ srv.status = "deleting" /\ domain.status = "none"
  /\ jobs' = jobs \ {d \in D : ~Is(d, {"none"})}
  /\ rows' = [d \in D |-> [rows[d] EXCEPT !.status = "removed"]]
  /\ srv' = [srv EXCEPT !.status = "gone", !.current = 0, !.promotion = 0]
  /\ UNCHANGED <<leased, domain, edge, sick, dlock, task, trouble>>

\* A release degrades, or is well again.
Health(d) ==
  /\ d \in jobs
  /\ \/ d \notin sick /\ Trouble /\ sick' = sick \cup {d}
     \/ d \in sick /\ sick' = sick \ {d} /\ UNCHANGED trouble
  /\ UNCHANGED <<rows, leased, srv, domain, edge, jobs, dlock, task>>

\* A lease is renewed while its deployment is processed, not while its failure is
\* cleaned up, which may take as long as the lease when the edge does not answer.
LeaseEnds(d) ==
  /\ d \in leased
  /\ ~\E w \in Worker : task[w].d = d /\ ~(LateCleanups /\ CleansUp(w))
  /\ leased' = leased \ {d}
  /\ UNCHANGED <<rows, srv, domain, outside, dlock, task, trouble>>

Restart ==
  /\ \E t \in Task : ~At(t, "rest")
  /\ CutSaves \/ ~\E t \in Task : At(t, "save")
  /\ Trouble /\ dlock' = Free /\ task' = [t \in Task |-> Rest]
  /\ UNCHANGED <<rows, leased, srv, domain, outside>>
-----------------------------------------------------------------------------
WorkerStep(w) ==
  \/ \E d \in D : Select(w, d)
  \/ Build(w) \/ Image(w) \/ Schedule(w) \/ Promote(w) \/ Unhealthy(w) \/ Commit(w) \/ Deadline(w)
  \/ Restore(w) \/ Cleanup(w) \/ Fail(w)
TaskStep(t) ==
  \/ Superseded(t) \/ StopOld(t) \/ StopFailed(t) \/ Refresh(t) \/ Put(t) \/ Save(t) \/ Wait(t)

Next ==
  \/ \E w \in Worker : WorkerStep(w)
  \/ \E t \in Task : TaskStep(t)
  \/ Apply \/ ReconcileOld \/ ReadService \/ Observe \/ ObserveDomain \/ SeeDomain
  \/ CreateDomain \/ Provision \/ Provisioned \/ Resume \/ DeleteDomain
  \/ Deploy \/ RemoveService \/ Remove \/ Restart
  \/ \E d \in D : ReconcileFailed(d) \/ Health(d) \/ LeaseEnds(d)

Spec == Init /\ [][Next]_svars
-----------------------------------------------------------------------------
(* Properties.                                                             *)

TypeOK ==
  /\ leased \subseteq D /\ jobs \subseteq D /\ sick \subseteq D
  /\ srv.current \in 0..MaxDeployments /\ srv.promotion \in 0..MaxDeployments
  /\ domain.upstream \in 0..MaxDeployments /\ dlock \in Task \cup {Free}
  /\ \A t \in Task : task[t].d \in 0..MaxDeployments

\* The release in use is not stopped, whatever fails or restarts around it, until
\* the service is removed (deploy.rs:860-950).
CurrentRuns == srv.current # 0 => srv.current \in jobs

\* What an acknowledged route of the domain leads to is not stopped: the new
\* release before its promotion, and the old one until the route is reverted
\* (deploy.rs:870-910, integrations.rs:1103-1163).
RoutedRuns == domain.status \in Live /\ domain.applied => serves \in jobs

\* The address of a promotion is public only while its deployment is on its way:
\* no restart leaves the service to a release that failed (deploy.rs:905-930).
PromotionIsActive == srv.promotion # 0 => Is(srv.promotion, Active)

\* A service that is gone leaves no job (runtime.rs: remove_service).
GoneIsStopped == srv.status = "gone" => jobs = {}
=============================================================================
