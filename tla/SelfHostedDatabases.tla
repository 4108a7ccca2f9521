------------------------- MODULE SelfHostedDatabases ------------------------
(***************************************************************************)
(* PostgreSQL databases of the self-hosted edition (runtime/database.rs).  *)
(*                                                                         *)
(* One task brings databases up, another observes them and completes their *)
(* removal, and a request of the owner removes one as well.  Bringing up   *)
(* and removing hold the advisory lock of the database, which a task that  *)
(* ends loses; retries and observations only write rows.  Statements are   *)
(* atomic, calls to the scheduler are steps, and a call whose caller is    *)
(* gone may still be carried out by the machine that polls it.             *)
(***************************************************************************)
EXTENDS Integers

CONSTANTS
  Base,        \* databases, each created at most once
  MaxStarts,   \* bound: servers ever started
  BaseFaults   \* bound: failed calls, servers that die, requests that are cut, restarts

VARIABLES
  base,      \* rows of databases
  retained,  \* rows of retained_database_volumes
  attached,  \* databases that a service is attached to
  baselock,  \* the advisory locks
  crew,      \* what each task does
  servers,   \* the scheduler: databases whose job runs
  up,        \* the allocation that serves a database, or 0
  starts,    \* allocations so far
  late,      \* registrations whose caller is gone
  revived,   \* databases such a registration started (history)
  upsets

sdvars    == <<base, retained, attached, baselock, crew, servers, up, starts, late, revived, upsets>>
scheduler == <<servers, up, starts, late, revived>>
Provisioner == "provisioner"
Watcher     == "watcher"
Request     == "request"
Crew        == {Provisioner, Watcher, Request}
Unlocked    == "unlocked"
Nothing     == "nothing"
Off    == [pc |-> "rest", d |-> Nothing, alloc |-> 0, seen |-> 0]
NoBase == [status |-> "none", alloc |-> 0, lease |-> FALSE]

Init ==
  /\ base = [d \in Base |-> NoBase] /\ retained = {} /\ attached = {}
  /\ baselock = [d \in Base |-> Unlocked] /\ crew = [t \in Crew |-> Off]
  /\ servers = {} /\ up = [d \in Base |-> 0] /\ starts = 0 /\ late = {} /\ revived = {}
  /\ upsets = 0

On(t, pc)    == crew[t].pc = pc
Go(t, pc)    == crew' = [crew EXCEPT ![t].pc = pc]
Leave(t, pc) == /\ crew' = [crew EXCEPT ![t] = IF pc = "rest" THEN Off ELSE [@ EXCEPT !.pc = pc]]
                /\ baselock' = [d \in Base |-> IF baselock[d] = t THEN Unlocked ELSE baselock[d]]
Fault == upsets < BaseFaults /\ upsets' = upsets + 1
Awaited == {"pending", "provisioning"}
Known   == {"healthy", "degraded"}
Set(d, status) == base' = [base EXCEPT ![d].status = status]
Take(t, d) == crew' = [crew EXCEPT ![t] = [Off EXCEPT !.pc = "lock", !.d = d]]
-----------------------------------------------------------------------------
(* Requests.                                                               *)

CreateDatabase(d, bound) ==
  /\ base[d] = NoBase /\ d \notin retained
  /\ Set(d, "pending") /\ attached' = IF bound THEN attached \cup {d} ELSE attached
  /\ UNCHANGED <<retained, baselock, crew, scheduler, upsets>>

Attach(d) ==
  /\ base[d].status = "healthy" /\ attached' = attached \cup {d}
  /\ UNCHANGED <<base, retained, baselock, crew, scheduler, upsets>>

Retry(d) ==
  /\ base[d].status \in {"failed", "degraded"}
  /\ base' = [base EXCEPT ![d].status = "pending", ![d].lease = FALSE]
  /\ UNCHANGED <<retained, attached, baselock, crew, scheduler, upsets>>

DeleteDatabase(d) ==
  /\ On(Request, "rest") /\ base[d] # NoBase /\ Take(Request, d)
  /\ UNCHANGED <<base, retained, attached, baselock, scheduler, upsets>>
-----------------------------------------------------------------------------
(* provision.                                                              *)

Select(d) ==
  /\ On(Provisioner, "rest") /\ base[d].status \in Awaited /\ ~base[d].lease
  /\ base' = [base EXCEPT ![d].lease = TRUE] /\ Take(Provisioner, d)
  /\ UNCHANGED <<retained, attached, baselock, scheduler, upsets>>

BugWanted(d) == base[d] # NoBase
\* What is read once the lock is taken.
Wanted(d) == base[d].status \in Awaited

LockProvision ==
  LET d == crew[Provisioner].d IN
  /\ On(Provisioner, "lock") /\ baselock[d] = Unlocked
  /\ IF Wanted(d) THEN Go(Provisioner, "node") /\ baselock' = [baselock EXCEPT ![d] = Provisioner]
                  ELSE Leave(Provisioner, "rest")
  /\ UNCHANGED <<base, retained, attached, scheduler, upsets>>

NodeIsReady ==
  /\ On(Provisioner, "node") /\ Go(Provisioner, "job")
  /\ Set(crew[Provisioner].d, "provisioning")
  /\ UNCHANGED <<retained, attached, baselock, scheduler, upsets>>

\* The job is registered, or evaluated again if there is one.
RegisterJob ==
  /\ On(Provisioner, "job") /\ Go(Provisioner, "wait")
  /\ servers' = servers \cup {crew[Provisioner].d}
  /\ UNCHANGED <<base, retained, attached, baselock, up, starts, late, revived, upsets>>

\* wait_healthy, and the endpoint that is registered for this allocation.
Healthy ==
  LET d == crew[Provisioner].d IN
  /\ On(Provisioner, "wait") /\ up[d] # 0
  /\ crew' = [crew EXCEPT ![Provisioner].pc = "probe", ![Provisioner].alloc = up[d]]
  /\ UNCHANGED <<base, retained, attached, baselock, scheduler, upsets>>

\* verify_postgres: an authenticated query by a job of its own.
Verify ==
  /\ On(Provisioner, "probe") /\ up[crew[Provisioner].d] = crew[Provisioner].alloc
  /\ crew' = [crew EXCEPT ![Provisioner].pc = "save", ![Provisioner].seen = crew[Provisioner].alloc]
  /\ UNCHANGED <<base, retained, attached, baselock, scheduler, upsets>>

Provisioned ==
  LET d == crew[Provisioner].d IN
  /\ On(Provisioner, "save")
  /\ base' = [base EXCEPT ![d] = IF @.status = "provisioning"
                                 THEN [status |-> "healthy", alloc |-> crew[Provisioner].alloc,
                                       lease |-> FALSE]
                                 ELSE @]
  /\ Leave(Provisioner, "rest")
  /\ UNCHANGED <<retained, attached, scheduler, upsets>>

\* An error, or five minutes: what was asked for may still happen.
ProvisionFails ==
  /\ crew[Provisioner].pc \in {"lock", "node", "job", "wait", "probe", "save"} /\ Fault
  /\ late' \in IF On(Provisioner, "job") THEN {late, late \cup {crew[Provisioner].d}} ELSE {late}
  /\ Leave(Provisioner, "failed")
  /\ UNCHANGED <<base, retained, attached, servers, up, starts, revived>>

BugFails(d) == base[d] # NoBase
\* The failure is recorded for a database that is still wanted.
Fails(d) == base[d].status \in Awaited

Failed ==
  LET d == crew[Provisioner].d IN
  /\ On(Provisioner, "failed")
  /\ base' = IF Fails(d) THEN [base EXCEPT ![d].status = "failed", ![d].lease = FALSE] ELSE base
  /\ Leave(Provisioner, "rest")
  /\ UNCHANGED <<retained, attached, scheduler, upsets>>

\* Six minutes, for a database nobody works on any more.
LeaseEnds(d) ==
  /\ base[d].lease /\ crew[Provisioner].d # d /\ base' = [base EXCEPT ![d].lease = FALSE]
  /\ UNCHANGED <<retained, attached, baselock, crew, scheduler, upsets>>
-----------------------------------------------------------------------------
(* remove_database, by a request or by the watcher.                        *)

ListDeleting(d) ==
  /\ On(Watcher, "rest") /\ base[d].status = "deleting" /\ Take(Watcher, d)
  /\ UNCHANGED <<base, retained, attached, baselock, scheduler, upsets>>

LockRemoval(t) ==
  LET d == crew[t].d IN
  /\ On(t, "lock") /\ baselock[d] = Unlocked
  /\ IF base[d] = NoBase THEN Leave(t, "rest") /\ UNCHANGED base
     ELSE /\ baselock' = [baselock EXCEPT ![d] = t] /\ Go(t, "stop")
          /\ base' = [base EXCEPT ![d].status = "deleting", ![d].lease = FALSE]
  /\ UNCHANGED <<retained, attached, scheduler, upsets>>

StopServer(t) ==
  /\ On(t, "stop") /\ servers' = servers \ {crew[t].d} /\ Go(t, "drain")
  /\ UNCHANGED <<base, retained, attached, baselock, up, starts, late, revived, upsets>>

BugStopped(d) == d \notin servers
\* allocations_stopped.
Stopped(d) == up[d] = 0

Drained(t) ==
  /\ On(t, "drain") /\ Stopped(crew[t].d) /\ Go(t, "forget")
  /\ UNCHANGED <<base, retained, attached, baselock, scheduler, upsets>>

Forget(t) ==
  LET d == crew[t].d IN
  /\ On(t, "forget")
  /\ retained' = retained \cup {d} /\ attached' = attached \ {d}
  /\ base' = [base EXCEPT ![d] = NoBase] /\ Leave(t, "rest")
  /\ UNCHANGED <<scheduler, upsets>>

RemovalFails(t) ==
  /\ crew[t].pc \in {"stop", "drain"} /\ Fault
  /\ Set(crew[t].d, "delete_failed") /\ Leave(t, "rest")
  /\ UNCHANGED <<retained, attached, scheduler>>

\* The owner's browser hangs up: the handler is dropped with its lock.
Cut ==
  /\ crew[Request].pc \in {"lock", "stop", "drain", "forget"} /\ Fault /\ Leave(Request, "rest")
  /\ UNCHANGED <<base, retained, attached, scheduler>>
-----------------------------------------------------------------------------
(* observe_databases.                                                      *)

ListKnown(d) ==
  /\ On(Watcher, "rest") /\ base[d].status \in Known
  /\ crew' = [crew EXCEPT ![Watcher] = [pc |-> "look", d |-> d, alloc |-> base[d].alloc, seen |-> 0]]
  /\ UNCHANGED <<base, retained, attached, baselock, scheduler, upsets>>

Look ==
  /\ On(Watcher, "look")
  /\ crew' = [crew EXCEPT ![Watcher].pc = "note", ![Watcher].seen = up[crew[Watcher].d]]
  /\ UNCHANGED <<base, retained, attached, baselock, scheduler, upsets>>

BugSame == crew[Watcher].seen # 0
\* The allocation that was verified serves.
Same == crew[Watcher].seen = crew[Watcher].alloc

BugNoted(d) == base[d] # NoBase
\* Only a database that is not being worked on.
Noted(d) == base[d].status \in Known

\* Its checks may fail too.
Observe(ok) ==
  LET d == crew[Watcher].d IN
  /\ On(Watcher, "note") /\ (ok => Same)
  /\ base' = IF Noted(d) THEN [base EXCEPT ![d].status = IF ok THEN "healthy" ELSE "degraded"] ELSE base
  /\ Leave(Watcher, "rest")
  /\ UNCHANGED <<retained, attached, scheduler, upsets>>
-----------------------------------------------------------------------------
(* The scheduler.                                                          *)

StartServer(d) ==
  /\ d \in servers /\ up[d] = 0 /\ starts < MaxStarts
  /\ starts' = starts + 1 /\ up' = [up EXCEPT ![d] = starts + 1]
  /\ UNCHANGED <<base, retained, attached, baselock, crew, servers, late, revived, upsets>>

EndServer(d) ==
  /\ up[d] # 0 /\ ((d \notin servers /\ UNCHANGED upsets) \/ Fault)
  /\ up' = [up EXCEPT ![d] = 0]
  /\ UNCHANGED <<base, retained, attached, baselock, crew, servers, starts, late, revived>>

\* A machine picks up a command up to a minute after it was stored.
Late(d) ==
  /\ d \in late /\ late' = late \ {d}
  /\ servers' = servers \cup {d} /\ revived' = revived \cup {d}
  /\ UNCHANGED <<base, retained, attached, baselock, crew, up, starts, upsets>>

Restart ==
  /\ Fault /\ crew' = [t \in Crew |-> Off] /\ baselock' = [d \in Base |-> Unlocked]
  /\ late' = IF On(Provisioner, "job") THEN late \cup {crew[Provisioner].d} ELSE late
  /\ UNCHANGED <<base, retained, attached, servers, up, starts, revived>>
-----------------------------------------------------------------------------
Provision == LockProvision \/ NodeIsReady \/ RegisterJob \/ Healthy \/ Verify \/ Provisioned
             \/ ProvisionFails \/ Failed
Removal(t) == LockRemoval(t) \/ StopServer(t) \/ Drained(t) \/ Forget(t) \/ RemovalFails(t)

Next ==
  \/ \E d \in Base, bound \in BOOLEAN : CreateDatabase(d, bound)
  \/ \E d \in Base : \/ Attach(d) \/ Retry(d) \/ DeleteDatabase(d) \/ Select(d) \/ LeaseEnds(d)
                     \/ ListDeleting(d) \/ ListKnown(d) \/ StartServer(d) \/ EndServer(d) \/ Late(d)
  \/ Provision \/ (\E t \in {Watcher, Request} : Removal(t))
  \/ Cut \/ Look \/ (\E ok \in BOOLEAN : Observe(ok)) \/ Restart

Spec == Init /\ [][Next]_sdvars
-----------------------------------------------------------------------------
(* Properties.                                                             *)

TypeOK ==
  /\ base \in [Base -> [status : {"none", "pending", "provisioning", "healthy", "degraded", "failed",
                                  "deleting", "delete_failed"},
                        alloc : 0..MaxStarts, lease : BOOLEAN]]
  /\ \A d \in attached : base[d] # NoBase
  /\ \A d \in Base : baselock[d] # Unlocked => crew[baselock[d]].d = d

\* A database that was removed keeps its volume on record and has no server, unless
\* a registration came after its caller had gone (database.rs:480-541, 550-587).
RemovedHasNoServer ==
  \A d \in retained \ revived : base[d] = NoBase /\ d \notin servers /\ up[d] = 0

\* A removal that began is completed or can be retried: provisioning, its failure and
\* an observation do not take the row back (database.rs:210-222, 632, 699).
RemovalStands ==
  [][\A d \in Base : base[d].status \in {"deleting", "delete_failed"}
       => base'[d].status \in {"deleting", "delete_failed", "none"}]_sdvars

\* A database becomes healthy when the allocation on record has just been seen to
\* serve: a replacement is not trusted until its query was verified (database.rs:671).
HealthyIsVerified ==
  [][\A d \in Base : base[d].status # "healthy" /\ base'[d].status = "healthy"
       => \E t \in Crew : crew[t].d = d /\ crew[t].seen # 0 /\ crew[t].seen = base'[d].alloc]_sdvars
=============================================================================
