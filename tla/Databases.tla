----------------------------- MODULE Databases ------------------------------
(***************************************************************************)
(* PostgreSQL databases of a workspace (runtime/database.ts): created,     *)
(* attached, retried and removed by requests, brought up and torn down by  *)
(* the alarm, which works through the documents it listed when it began.   *)
(*                                                                         *)
(* A call to the scheduler is a step of its own: requests run while its    *)
(* reply is awaited.  Reconcile begins with a document, and ends with the  *)
(* reply, which saves what the document has become, whatever was stored    *)
(* meanwhile.                                                              *)
(*                                                                         *)
(* Health checks of the server, the probe with an authenticated query and  *)
(* the clock are choices of the environment; passwords, ports, machines    *)
(* and messages are left out.  Backups are in DatabaseBackups.             *)
(***************************************************************************)
EXTENDS Integers

CONSTANTS
  Service,       \* services a database may be attached to
  MaxDatabases,  \* bound: databases ever created
  MaxCreated,    \* bound: of them, those created by requests and not by restores
  MaxBackups,    \* bound: backups and restores ever requested
  MaxFaults      \* bound: failed calls and jobs, deadlines that pass, servers
                 \* that change, retries by the user and restarts of the object

ASSUME DatabasesAssumption ==
  /\ MaxDatabases \in Nat /\ MaxCreated \in 0..MaxDatabases /\ MaxBackups \in Nat /\ MaxFaults \in Nat

VARIABLES
  databases,        \* the documents
  reserved,         \* the last database id handed out
  bindings,         \* per service, the database it is attached to, or 0
  retained_volumes, \* databases whose removal was completed
  database_backups, \* documents of backups and restores
  backup_policies,  \* databases that have a backup policy
  jobs,             \* the scheduler: databases whose server is registered
  runtime_stops,    \* servers whose shutdown was ordered, which is never forgotten
  retrying,         \* a request that awaits the inventory of nodes
  overtaken,        \* databases a retry brought back from their removal (history)
  alarm,            \* the alarm handler
  faults

databaseVars == <<databases, reserved, bindings, retained_volumes,
                  database_backups, backup_policies, jobs, runtime_stops,
                  retrying, overtaken, alarm, faults>>
records == <<reserved, retained_volumes, database_backups, backup_policies>>

Database   == 1..MaxDatabases
Backup     == 1..MaxBackups
NoDatabase == [status |-> "none", phase |-> "none", restore |-> 0]
Fresh      == [NoDatabase EXCEPT !.status = "pending", !.phase = "submit"]
NoBackup   == [kind |-> "none", database |-> 0, source |-> 0, target |-> 0,
               status |-> "none", checksum |-> 0, job |-> FALSE,
               cleanup |-> FALSE]
Idle       == [pc |-> "idle", todo |-> {}, id |-> 0, doc |-> NoDatabase, touched |-> FALSE]
NoRetry    == [id |-> 0, doc |-> NoDatabase]
Operation  == {"queued", "provisioning", "running"}

DatabaseInit ==
  /\ databases = [d \in Database |-> NoDatabase]
  /\ reserved = 0
  /\ bindings = [s \in Service |-> 0]
  /\ retained_volumes = {}
  /\ database_backups = [b \in Backup |-> NoBackup]
  /\ backup_policies = {}
  /\ jobs = {}
  /\ runtime_stops = {}
  /\ retrying = NoRetry
  /\ overtaken = {}
  /\ alarm = Idle
  /\ faults = 0

Stored(d)  == databases[d].status # "none"
Ready(doc) == doc.status = "healthy" /\ doc.phase = "ready"
Active     == {b \in Backup : database_backups[b].status \in Operation}
At(pc)     == alarm.pc = pc
Go(pc)     == alarm' = [alarm EXCEPT !.pc = pc]
\* Requests run while the alarm awaits a call.
Turn       == alarm.pc \notin {"databases", "backups", "expire"}
Save(d, doc) == databases' = [databases EXCEPT ![d] = doc]
-----------------------------------------------------------------------------
(* Requests.                                                               *)

\* The guards of bind: what a service may be attached to.
BugBindable(d, doc, s) == bindings[s] \in {0, d} /\ doc.status # "deleting"
Bindable(d, doc, s) ==
  /\ doc.restore # 0 => database_backups[doc.restore].status = "succeeded"
  /\ bindings[s] \in {0, d}
  /\ doc.status # "deleting"

\* POST /api/databases: its document and the attachments are one transaction.
CreateDatabase(S) ==
  /\ Turn /\ reserved < MaxCreated
  /\ reserved' = reserved + 1
  /\ \A s \in S : Bindable(reserved', Fresh, s)
  /\ bindings' = [s \in Service |-> IF s \in S THEN reserved' ELSE bindings[s]]
  /\ Save(reserved', Fresh)
  /\ UNCHANGED <<retained_volumes, database_backups, backup_policies, jobs,
                 runtime_stops, retrying, overtaken, alarm, faults>>

AttachDatabase(d, s) ==
  /\ Turn /\ Stored(d) /\ Bindable(d, databases[d], s)
  /\ bindings' = [bindings EXCEPT ![s] = d]
  /\ UNCHANGED <<databases, records, jobs, runtime_stops, retrying, overtaken, alarm, faults>>

DetachDatabase(s) ==
  /\ Turn /\ bindings[s] # 0
  /\ bindings' = [bindings EXCEPT ![s] = 0]
  /\ UNCHANGED <<databases, records, jobs, runtime_stops, retrying, overtaken, alarm, faults>>

\* Retry reads the document and asks for the nodes ...
RetryDatabase(d) ==
  /\ Turn /\ retrying = NoRetry /\ faults < MaxFaults
  /\ databases[d].status \in {"failed", "degraded"}
  /\ retrying' = [id |-> d, doc |-> databases[d]]
  /\ faults' = faults + 1
  /\ UNCHANGED <<databases, bindings, records, jobs, runtime_stops, overtaken, alarm>>

\* ... and saves that document when they are known.
RetryQueued ==
  LET d == retrying.id
  IN  /\ Turn /\ retrying # NoRetry
      /\ Save(d, [retrying.doc EXCEPT !.status = "pending", !.phase = "retry"])
      /\ retrying' = NoRetry
      /\ overtaken' = IF databases[d].status \in {"none", "deleting"}
                      THEN overtaken \cup {d} ELSE overtaken
      /\ UNCHANGED <<bindings, records, jobs, runtime_stops, alarm, faults>>

RetryRefused ==
  /\ Turn /\ retrying # NoRetry
  /\ retrying' = NoRetry
  /\ UNCHANGED <<databases, bindings, records, jobs, runtime_stops, overtaken, alarm, faults>>

BugRemovable(d) ==
  \A b \in Active : database_backups[b].database # d
\* A database is removed once no operation uses it and no copy of it is kept.
Removable(d) ==
  \A b \in Backup :
    LET c == database_backups[b]
    IN  /\ b \in Active => d \notin {c.database, c.target}
        /\ c.database = d /\ c.kind = "backup" => c.status \notin {"succeeded", "expiring"}

RemoveDatabase(d) ==
  /\ Turn /\ Stored(d) /\ Removable(d)
  /\ Save(d, [databases[d] EXCEPT !.status = "deleting", !.phase = "delete"])
  /\ UNCHANGED <<bindings, records, jobs, runtime_stops, retrying, overtaken, alarm, faults>>
-----------------------------------------------------------------------------
(* The alarm: reconcileDatabase, one listed document after the other.      *)

Start ==
  /\ At("idle")
  /\ \/ \E d \in Database : Stored(d)
     \/ \E b \in Backup : \/ database_backups[b].status \in Operation \cup {"expiring"}
                          \/ database_backups[b].cleanup
  /\ alarm' = [Idle EXCEPT !.pc = "databases",
                           !.todo = {[id |-> d, doc |-> databases[d]] :
                                       d \in {e \in Database : Stored(e)}}]
  /\ UNCHANGED <<databases, bindings, records, jobs, runtime_stops, retrying, overtaken, faults>>

\* The first document of those left, in the order of creation.
First(e) == e \in alarm.todo /\ \A f \in alarm.todo : e.id <= f.id
Continue(pc, todo) == alarm' = [Idle EXCEPT !.pc = pc, !.todo = todo]
NextDocument(e) == Continue("databases", alarm.todo \ {e})

BugSuperseded(d, doc) == ~Stored(d)
\* What was stored while a reply was awaited: nothing, or a removal.
Superseded(d, doc) ==
  \/ ~Stored(d)
  \/ databases[d].phase = "delete" /\ doc.phase # "delete"

Keep(d, doc) == databases' = IF Superseded(d, doc) THEN databases
                             ELSE [databases EXCEPT ![d] = doc]

BugFailed(doc) == [doc EXCEPT !.status = "failed"]
\* The catch block, unless the failure is only temporary.
Failed(doc) == IF doc.phase = "ready" THEN [doc EXCEPT !.status = "degraded"]
               ELSE [doc EXCEPT !.status = "failed", !.phase = "failed"]

\* Five minutes have passed since operation_started_at: no call is made.
ReconcileOverdue(e) ==
  /\ At("databases") /\ First(e)
  /\ e.doc.status = "pending" /\ faults < MaxFaults
  /\ faults' = faults + 1
  /\ Keep(e.id, Failed(e.doc))
  /\ NextDocument(e)
  /\ UNCHANGED <<bindings, records, jobs, runtime_stops, retrying, overtaken>>

\* Nor for a database that failed, which is saved as it was listed.
ReconcileFailed(e) ==
  /\ At("databases") /\ First(e)
  /\ e.doc.phase = "failed" /\ Keep(e.id, e.doc)
  /\ NextDocument(e)
  /\ UNCHANGED <<bindings, records, jobs, runtime_stops, retrying, overtaken, faults>>

ReconcileCalls(e) ==
  /\ At("databases") /\ First(e)
  /\ e.doc.phase # "failed"
  /\ alarm' = [alarm EXCEPT !.pc = "db_call", !.id = e.id, !.doc = e.doc]
  /\ UNCHANGED <<databases, bindings, records, jobs, runtime_stops, retrying, overtaken, faults>>

Item == [id |-> alarm.id, doc |-> alarm.doc]

\* A server that is healthy again, or another one, has to be verified.
Pending(doc) == [doc EXCEPT !.status = "pending", !.phase = "observe"]

\* What a document may become when its calls are answered.
Outcomes(doc) ==
  CASE doc.phase \in {"submit", "retry"} -> {[doc EXCEPT !.phase = "observe"]}
    [] doc.phase = "observe"       -> {doc, [doc EXCEPT !.phase = "probe_submit"]}
    [] doc.phase = "probe_submit"  -> {[doc EXCEPT !.phase = "probe_observe"]}
    [] doc.phase = "probe_observe" -> {doc, [doc EXCEPT !.status = "healthy",
                                                        !.phase = "probe_cleanup"]}
    [] doc.phase = "probe_cleanup" -> {[doc EXCEPT !.phase = "ready"]}
    [] doc.phase = "ready"         -> {IF doc.status = "healthy" THEN doc ELSE Pending(doc)}
    [] OTHER                       -> {}

Reconciled ==
  /\ At("db_call")
  /\ \E doc \in Outcomes(alarm.doc) : Keep(alarm.id, doc)
  /\ jobs' = IF alarm.doc.phase \in {"submit", "retry"} THEN jobs \cup {alarm.id} ELSE jobs
  /\ NextDocument(Item)
  /\ UNCHANGED <<bindings, records, runtime_stops, retrying, overtaken, faults>>

\* The server of a ready database is not healthy, or is another one.
ServerChanged ==
  /\ At("db_call") /\ alarm.doc.phase = "ready" /\ faults < MaxFaults
  /\ faults' = faults + 1
  /\ \/ Keep(alarm.id, Failed(alarm.doc))
     \/ Keep(alarm.id, Pending(alarm.doc))
  /\ NextDocument(Item)
  /\ UNCHANGED <<bindings, records, jobs, runtime_stops, retrying, overtaken>>

\* stopJob deregisters a server once, and remembers how far it got.
StopJob ==
  /\ At("db_call") /\ alarm.doc.phase = "delete" /\ alarm.id \notin runtime_stops
  /\ jobs' = jobs \ {alarm.id}
  /\ runtime_stops' = runtime_stops \cup {alarm.id}
  /\ UNCHANGED <<databases, bindings, records, retrying, overtaken, alarm, faults>>

BugRemoved ==
  /\ At("db_call") /\ alarm.doc.phase = "delete"
  /\ retained_volumes' = retained_volumes \cup {alarm.id}
  /\ bindings' = [s \in Service |-> IF bindings[s] = alarm.id THEN 0 ELSE bindings[s]]
  /\ backup_policies' = backup_policies \ {alarm.id}
  /\ Save(alarm.id, NoDatabase)
  /\ NextDocument(Item)
  /\ UNCHANGED <<reserved, database_backups, jobs, runtime_stops, retrying, overtaken, faults>>

\* Its allocations have stopped: the rest of remove is one transaction.
Removed ==
  LET d == alarm.id
  IN  /\ At("db_call") /\ alarm.doc.phase = "delete" /\ d \in runtime_stops
      /\ retained_volumes' = retained_volumes \cup {d}
      /\ bindings' = [s \in Service |-> IF bindings[s] = d THEN 0 ELSE bindings[s]]
      /\ backup_policies' = backup_policies \ {d}
      /\ Save(d, NoDatabase)
      /\ NextDocument(Item)
      /\ UNCHANGED <<reserved, database_backups, jobs, runtime_stops, retrying, overtaken,
                     faults>>

\* A call fails, or its reply is not there yet, whether or not it took effect.
CallFails ==
  /\ At("db_call") /\ faults < MaxFaults
  /\ faults' = faults + 1
  /\ jobs' \in IF alarm.doc.phase \in {"submit", "retry"} THEN {jobs, jobs \cup {alarm.id}}
               ELSE {jobs}
  /\ \/ UNCHANGED databases
     \/ Keep(alarm.id, IF alarm.doc.phase \in {"delete", "probe_cleanup"} THEN alarm.doc
                       ELSE Failed(alarm.doc))
  /\ NextDocument(Item)
  /\ UNCHANGED <<bindings, records, runtime_stops, retrying, overtaken>>

DatabaseRequest ==
  \/ \E S \in SUBSET Service : CreateDatabase(S)
  \/ \E d \in Database, s \in Service : AttachDatabase(d, s)
  \/ \E s \in Service : DetachDatabase(s)
  \/ \E d \in Database : RetryDatabase(d) \/ RemoveDatabase(d)
  \/ RetryQueued \/ RetryRefused

DatabaseAlarm ==
  \/ \E e \in alarm.todo : ReconcileOverdue(e) \/ ReconcileFailed(e) \/ ReconcileCalls(e)
  \/ Reconciled \/ ServerChanged \/ StopJob \/ Removed \/ CallFails
=============================================================================
