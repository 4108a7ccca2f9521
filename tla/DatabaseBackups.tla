--------------------------- MODULE DatabaseBackups --------------------------
(***************************************************************************)
(* Backups of databases, their restoration and their retention             *)
(* (runtime/backups.ts), composed with the databases they are made of.     *)
(*                                                                         *)
(* A backup is a job beside the server, which sends the dump to the object *)
(* through a request; a restore creates another database and fills it from *)
(* the copy.  The second half of the alarm runs both, cleans up after them *)
(* and deletes the copies that retention gives up.  Every one of its calls *)
(* to the scheduler and to the object store (R2) is a step of its own.     *)
(***************************************************************************)
EXTENDS Databases, FiniteSets

CONSTANTS
  Digest,  \* checksums of the dumps
  KeepN    \* copies a policy keeps

ASSUME BackupsAssumption == KeepN \in Nat /\ 0 \notin Digest

VARIABLES
  artifacts,  \* R2: the checksum of what is stored for each backup, or 0
  uploads,    \* requests that send a dump
  interrupted \* backups one of whose uploads was lost with the object (history)

backupVars == <<artifacts, uploads, interrupted>>
vars == <<databaseVars, backupVars>>

NoUpload == [pc |-> "none", digest |-> 0]

Init ==
  /\ DatabaseInit
  /\ artifacts = [b \in Backup |-> 0]
  /\ uploads = [b \in Backup |-> NoUpload]
  /\ interrupted = {}

Stage(pcs)  == alarm.pc \in pcs
Requested   == {b \in Backup : database_backups[b].kind # "none"}
New         == CHOOSE b \in Backup \ Requested : \A c \in Backup \ Requested : b <= c
Room        == Backup \ Requested # {}
Put(b, doc) == database_backups' = [database_backups EXCEPT ![b] = doc]
\* The revision of the document under clean-up has changed.
Touch(b)    == alarm' = IF alarm.id = b /\ Stage({"op_stop", "op_swept"})
                        THEN [alarm EXCEPT !.touched = TRUE] ELSE alarm
serverVars  == <<reserved, bindings, retained_volumes, jobs, runtime_stops,
                 retrying, overtaken>>

BugBusy(d) == \E b \in Backup : database_backups[b].database = d
                                /\ database_backups[b].status = "running"
busy(d) == \E b \in Active : database_backups[b].database = d
-----------------------------------------------------------------------------
(* Requests.                                                               *)

\* queue: reserved before anything is awaited.
Queueable(d) ==
  /\ Room /\ Ready(databases[d]) /\ ~busy(d)
  /\ databases[d].restore # 0
       => database_backups[databases[d].restore].status = "succeeded"
Queued(d) == [NoBackup EXCEPT !.kind = "backup", !.database = d, !.status = "queued"]

QueueBackup(d) ==
  /\ Turn /\ Queueable(d)
  /\ Put(New, Queued(d))
  /\ UNCHANGED <<databases, serverVars, backup_policies, alarm, faults, backupVars>>

\* PUT of a policy: daily backups, enabled or not, and how many copies to keep.
SetPolicy(d) ==
  /\ Turn /\ (Stored(d) \/ d \in retained_volumes)
  /\ backup_policies' = backup_policies \cup {d}
  /\ UNCHANGED <<databases, serverVars, database_backups, alarm, faults, backupVars>>

BugRestored(b) == \E r \in Active : r # b /\ database_backups[r].source = b
                                    /\ database_backups[r].status = "running"
\* An active restore reads this copy.
Restored(b) == \E r \in Active : database_backups[r].source = b

\* DELETE of a copy, from a request or by retention, only marks it.
DeleteBackup(b) ==
  LET c == database_backups[b]
  IN  /\ Turn /\ c.kind = "backup" /\ b \notin Active
      /\ ~Restored(b)
      /\ Put(b, [c EXCEPT !.status = "expiring"]) /\ Touch(b)
      /\ UNCHANGED <<databases, serverVars, backup_policies, faults, backupVars>>

\* A restore names its copy, and reserves the id of its destination.
RestoreBackup(b) ==
  LET c == database_backups[b]
  IN  /\ Turn /\ Room /\ reserved < MaxDatabases
      /\ c.kind = "backup" /\ c.status = "succeeded" /\ ~busy(c.database)
      /\ reserved' = reserved + 1
      /\ Put(New, [NoBackup EXCEPT !.kind = "restore", !.database = c.database,
                                   !.source = b, !.target = reserved + 1,
                                   !.status = "provisioning", !.checksum = c.checksum])
      /\ UNCHANGED <<databases, bindings, retained_volumes, jobs, runtime_stops,
                     retrying, overtaken, backup_policies, alarm, faults, backupVars>>
-----------------------------------------------------------------------------
(* PUT of the dump, from the job: checks, the object store, the document.  *)

PutData(b, digest) ==
  LET c == database_backups[b]
  IN  /\ Turn /\ uploads[b] = NoUpload
      /\ c.kind = "backup" /\ c.status = "running" /\ c.checksum = 0
      /\ uploads' = [uploads EXCEPT ![b] = [pc |-> "sending", digest |-> digest]]
      /\ UNCHANGED <<databaseVars, artifacts, interrupted>>

BugStoredAs(b, digest) == digest
\* R2 stores the object unless there is one; what is there is compared.
StoredAs(b, digest) == IF artifacts[b] = 0 THEN digest ELSE artifacts[b]

ObjectStored(b) ==
  LET now == StoredAs(b, uploads[b].digest)
  IN  /\ uploads[b].pc = "sending"
      /\ artifacts' = [artifacts EXCEPT ![b] = now]
      /\ uploads' = [uploads EXCEPT ![b] =
                       IF now = @.digest THEN [@ EXCEPT !.pc = "stored"] ELSE NoUpload]
      /\ UNCHANGED <<databaseVars, interrupted>>

BugLate(c) == [c EXCEPT !.cleanup = c.cleanup]
\* Too late: the object has to be looked after again.
Late(c) == [c EXCEPT !.cleanup = TRUE]

DataStored(b) ==
  LET c == database_backups[b]
  IN  /\ Turn /\ uploads[b].pc = "stored"
      /\ uploads' = [uploads EXCEPT ![b] = NoUpload]
      /\ \/ /\ c.status = "running"
            /\ Put(b, [c EXCEPT !.checksum = uploads[b].digest]) /\ UNCHANGED alarm
         \/ /\ c.status = "succeeded" /\ c.checksum = uploads[b].digest
            /\ UNCHANGED <<database_backups, alarm>>
         \/ /\ c.status # "running"
            /\ ~(c.status = "succeeded" /\ c.checksum = uploads[b].digest)
            /\ Put(b, Late(c)) /\ Touch(b)
      /\ UNCHANGED <<databases, serverVars, backup_policies, faults, artifacts, interrupted>>
-----------------------------------------------------------------------------
(* The second half of the alarm: reconcileBackups.                         *)

\* Daily backups that are due, then the operations as they are listed now.
\* A policy whose turn has not come, or cannot be served, changes nothing.
ListOperations ==
  /\ At("databases") /\ alarm.todo = {}
  /\ \/ UNCHANGED database_backups
     \/ \E d \in Database : /\ d \in backup_policies /\ Queueable(d)
                            /\ Put(New, Queued(d))
  /\ Continue("backups", {[id |-> b, doc |-> database_backups'[b]] :
       b \in {c \in Backup : \/ database_backups'[c].status \in Operation
                             \/ database_backups'[c].cleanup}})
  /\ UNCHANGED <<databases, serverVars, backup_policies, faults, backupVars>>

Advance == Continue("backups", alarm.todo)
Take(e, pc) == alarm' = [alarm EXCEPT !.pc = pc, !.todo = @ \ {e}, !.id = e.id, !.doc = e.doc]
Skip(e) == Continue("backups", alarm.todo \ {e})

\* The catch block: what is stored now, failed; with a job there is cleaning up.
FailedBackup(b) == [database_backups[b] EXCEPT !.status = "failed",
                                               !.cleanup = database_backups[b].job]

\* The database an operation works on.
Server(c) == IF c.kind = "restore" THEN c.target ELSE c.database

\* Past the deadline.
OperationOverdue(e) ==
  /\ At("backups") /\ First(e) /\ ~e.doc.cleanup /\ faults < MaxFaults
  /\ faults' = faults + 1
  /\ Put(e.id, FailedBackup(e.id)) /\ Skip(e)
  /\ UNCHANGED <<serverVars, databases, backup_policies, backupVars>>

Begin(e) ==
  LET b  == e.id
      c  == e.doc
      db == databases[Server(c)]
  IN  /\ At("backups") /\ First(e)
      /\ \/ /\ c.cleanup
            /\ Take(e, "op_stop") /\ UNCHANGED database_backups
         \/ /\ ~c.cleanup /\ c.status = "provisioning" /\ ~Stored(c.target)
            /\ Take(e, "op_create") /\ UNCHANGED database_backups
         \/ /\ ~c.cleanup /\ c.status = "provisioning" /\ Stored(c.target)
            /\ db.status # "failed" /\ ~Ready(db)
            /\ Skip(e) /\ UNCHANGED database_backups
         \/ /\ ~c.cleanup /\ \/ c.status = "provisioning" /\ db.status = "failed"
                             \/ c.status = "queued" /\ ~Ready(db)
                             \/ c.status = "running" /\ ~Stored(Server(c))
            /\ Skip(e) /\ Put(b, FailedBackup(b))
         \/ /\ ~c.cleanup /\ c.status \in {"provisioning", "queued"} /\ Ready(db)
            /\ Put(b, [c EXCEPT !.status = "running", !.job = TRUE])
            /\ Take(e, "op_watch")
         \/ /\ ~c.cleanup /\ c.status = "running" /\ Stored(Server(c))
            /\ Take(e, "op_watch") /\ UNCHANGED database_backups
      /\ UNCHANGED <<serverVars, databases, backup_policies, faults, backupVars>>

\* The inventory of nodes is known: createDatabase with the reserved id.
DestinationCreated ==
  LET c == alarm.doc
  IN  /\ At("op_create")
      /\ Save(c.target, [Fresh EXCEPT !.restore = alarm.id])
      /\ Advance
      /\ UNCHANGED <<serverVars, database_backups, backup_policies, faults, backupVars>>

\* The job has completed, or has not yet; that it failed is in OperationFails.
WatchJob ==
  /\ At("op_watch")
  /\ \/ Advance /\ UNCHANGED database_backups
     \/ /\ alarm' = [alarm EXCEPT !.pc = "op_head", !.doc = database_backups[alarm.id]]
        /\ UNCHANGED database_backups
  /\ UNCHANGED <<databases, serverVars, backup_policies, faults, backupVars>>

BugVerified(c, digest) == TRUE
\* An object whose checksum is not known yet, or is the expected one.
Verified(c, digest) == digest # 0 /\ c.checksum \in {0, digest}

\* The object an operation wrote, or reads.
Object(b, c) == IF c.kind = "restore" THEN c.source ELSE b

CheckObject ==
  LET b == alarm.id
      c == alarm.doc
      digest == artifacts[Object(b, c)]
  IN  /\ At("op_head")
      /\ Put(b, IF Verified(c, digest)
                THEN [c EXCEPT !.status = "succeeded", !.checksum = digest, !.cleanup = TRUE]
                ELSE FailedBackup(b))
      /\ Advance
      /\ UNCHANGED <<databases, serverVars, backup_policies, faults, backupVars>>

\* Clean-up: the job has stopped; a copy that is given up is deleted ...
Sweep ==
  LET b == alarm.id
      c == alarm.doc
  IN  /\ At("op_stop")
      /\ artifacts' = IF c.kind = "backup" /\ c.status \in {"failed", "expired", "expiring"}
                      THEN [artifacts EXCEPT ![b] = 0] ELSE artifacts
      /\ Go("op_swept")
      /\ UNCHANGED <<databases, serverVars, database_backups, backup_policies, faults, uploads,
                 interrupted>>

BugSwept(b) == [alarm.doc EXCEPT !.cleanup = FALSE]
\* ... and what is stored now is clean, if nothing changed meanwhile.
Swept(b) == IF alarm.touched THEN database_backups[b]
            ELSE [database_backups[b] EXCEPT !.cleanup = FALSE]

CleanedUp ==
  /\ At("op_swept")
  /\ Put(alarm.id, Swept(alarm.id))
  /\ Advance
  /\ UNCHANGED <<databases, serverVars, backup_policies, faults, backupVars>>

\* A call, or the job, fails: so does the operation, unless a reply is only late;
\* a clean-up is tried again.
OperationFails ==
  /\ Stage({"op_create", "op_watch", "op_head", "op_stop", "op_swept"}) /\ faults < MaxFaults
  /\ faults' = faults + 1
  /\ \/ UNCHANGED database_backups
     \/ ~alarm.doc.cleanup /\ Put(alarm.id, FailedBackup(alarm.id))
  /\ Advance
  /\ UNCHANGED <<databases, serverVars, backup_policies, backupVars>>

Copies(d) == {b \in Backup : /\ database_backups[b].database = d
                             /\ database_backups[b].kind = "backup"
                             /\ database_backups[b].status = "succeeded"}
\* Copies beyond those the policy of their database keeps, unless in use.
Surplus(d) == {b \in Copies(d) : /\ KeepN <= Cardinality({c \in Copies(d) : c > b})
                                 /\ ~Restored(b)}
Given(b) == \E d \in Database : d \in backup_policies /\ b \in Surplus(d)

Retain ==
  /\ At("backups") /\ alarm.todo = {}
  /\ database_backups' = [b \in Backup |->
       IF Given(b) THEN [database_backups[b] EXCEPT !.status = "expiring"]
       ELSE database_backups[b]]
  /\ Continue("expire", {[id |-> b, doc |-> database_backups'[b]] :
       b \in {c \in Backup : database_backups'[c].status = "expiring"}})
  /\ UNCHANGED <<databases, serverVars, backup_policies, faults, backupVars>>

Expire(e) ==
  /\ At("expire") /\ First(e) /\ Take(e, "expire_call")
  /\ UNCHANGED <<databases, serverVars, database_backups, backup_policies, faults, backupVars>>

DeleteObject ==
  /\ At("expire_call") /\ artifacts' = [artifacts EXCEPT ![alarm.id] = 0]
  /\ Go("expired")
  /\ UNCHANGED <<databases, serverVars, database_backups, backup_policies, faults, uploads,
                 interrupted>>

\* The document that was listed is saved as expired.
Expired ==
  /\ At("expired")
  /\ Put(alarm.id, [alarm.doc EXCEPT !.status = "expired"])
  /\ Continue("expire", alarm.todo)
  /\ UNCHANGED <<databases, serverVars, backup_policies, faults, backupVars>>

ExpireFails ==
  /\ Stage({"expire_call", "expired"}) /\ faults < MaxFaults
  /\ faults' = faults + 1
  /\ Continue("expire", alarm.todo)
  /\ UNCHANGED <<databases, serverVars, database_backups, backup_policies, backupVars>>

End ==
  /\ At("expire") /\ alarm.todo = {} /\ alarm' = Idle
  /\ UNCHANGED <<databases, serverVars, database_backups, backup_policies, faults, backupVars>>

\* The object is evicted: its handlers are lost, the alarm runs again.
Restart ==
  /\ faults < MaxFaults /\ faults' = faults + 1
  /\ alarm' = Idle /\ retrying' = NoRetry
  /\ uploads' = [b \in Backup |-> NoUpload]
  /\ interrupted' = interrupted \cup {b \in Backup : uploads[b] # NoUpload}
  /\ UNCHANGED <<databases, reserved, bindings, retained_volumes, jobs, runtime_stops,
                 overtaken, database_backups, backup_policies, artifacts>>
-----------------------------------------------------------------------------
BackupRequest ==
  \/ \E d \in Database : \/ QueueBackup(d)
                         \/ SetPolicy(d)
  \/ \E b \in Backup : \/ DeleteBackup(b) \/ RestoreBackup(b) \/ DataStored(b)
                       \/ ObjectStored(b)
                       \/ \E digest \in Digest : PutData(b, digest)

BackupAlarm ==
  \/ ListOperations \/ (\E e \in alarm.todo : OperationOverdue(e) \/ Begin(e) \/ Expire(e))
  \/ DestinationCreated \/ WatchJob \/ CheckObject \/ Sweep \/ CleanedUp
  \/ OperationFails \/ Retain \/ DeleteObject \/ Expired \/ ExpireFails \/ End

AlarmStep == BackupAlarm \/ ((Start \/ DatabaseAlarm) /\ UNCHANGED backupVars)

Next == \/ (DatabaseRequest /\ UNCHANGED backupVars)
        \/ BackupRequest \/ AlarmStep \/ Restart

Spec == Init /\ [][Next]_vars

\* The platform runs the alarm until it is done.
FairSpec == Spec /\ WF_vars(AlarmStep)
-----------------------------------------------------------------------------
(* Properties.                                                             *)

TypeOK ==
  /\ databases \in [Database ->
       [status : {"none", "pending", "healthy", "degraded", "failed", "deleting"},
        phase : {"none", "submit", "retry", "observe", "probe_submit", "probe_observe",
                 "probe_cleanup", "ready", "failed", "delete"},
        restore : 0..MaxBackups]]
  /\ \A d \in Database :
       /\ databases[d].phase = "failed" <=> databases[d].status = "failed"
       /\ databases[d].phase = "delete" <=> databases[d].status = "deleting"
  /\ reserved \in 0..MaxDatabases
  /\ bindings \in [Service -> 0..MaxDatabases]
  /\ retained_volumes \subseteq Database /\ jobs \subseteq Database
  /\ \A b \in Backup : database_backups[b].status \in
       {"none", "queued", "provisioning", "running", "succeeded", "failed", "expiring", "expired"}
  /\ artifacts \in [Backup -> Digest \cup {0}]

\* A copy that is offered as a success is in the object store with its checksum,
\* and so is the copy an active restore reads, whatever deletions, retention and
\* late uploads do (backups.ts:188-205, 411-441, 73-141).
CopiesAreKept ==
  \A b \in Backup :
    LET c == database_backups[b]
    IN  /\ c.kind = "backup" /\ c.status = "succeeded"
             => c.checksum # 0 /\ artifacts[b] = c.checksum
        /\ c.kind = "restore" /\ b \in Active => artifacts[c.source] = c.checksum

\* A database has one backup or restore at a time; it is not removed while one
\* works on it or a copy of it is kept; and the destination of a restore is not
\* attached before it succeeded (backups.ts:21-25, database.ts:19-36, 147-171).
OneOperation ==
  /\ \A b, c \in Active : database_backups[b].database = database_backups[c].database => b = c
  /\ \A b \in Backup :
       LET c == database_backups[b]
       IN  /\ c.kind = "backup" /\ (b \in Active \/ c.status = "succeeded")
                => databases[c.database].status \notin {"none", "deleting"}
           /\ c.kind = "restore" /\ b \in Active => databases[c.target].status # "deleting"
  /\ \A s \in Service : bindings[s] # 0 =>
       LET r == databases[bindings[s]].restore
       IN  r # 0 => database_backups[r].status = "succeeded"

\* A database that was removed has no server and nothing is attached to it,
\* unless a retry brought it back during its removal (database.ts:230-254, 326-340).
RemovedIsStopped ==
  \A d \in retained_volumes \ overtaken :
    ~Stored(d) /\ d \notin jobs /\ \A s \in Service : bindings[s] # d

\* A removal that was accepted is carried out, unless a retry that began before
\* it is answered after it (database.ts:110-142, 305-307).
RemovalHolds ==
  [][\A d \in Database \ overtaken' :
       databases[d].status = "deleting" => databases'[d].status \in {"deleting", "none"}]_vars

\* What the refusal of a retry promises: a database that is being removed is not
\* retried (database.ts:115).
RemovalIsFinal ==
  [][\A d \in Database : databases[d].status = "deleting"
                            => databases'[d].status \in {"deleting", "none"}]_vars

\* Nothing stays in the object store for a backup that has failed, even if its
\* dump arrives late, except that of an upload which was lost with the object and
\* of a copy that expired meanwhile (backups.ts:127-134, 262-278).
NoOrphan ==
  \A b \in Backup :
    database_backups[b].status \in {"none", "failed"} /\ artifacts[b] # 0
      => \/ database_backups[b].cleanup \/ uploads[b] # NoUpload
         \/ b \in interrupted

\* Together: servers, copies and bindings are where their documents say
\* (database.ts:143-178 and 230-254, backups.ts:21-63 and 128-137).
NothingMisplaced == OneOperation /\ RemovedIsStopped /\ NoOrphan

\* What has to be cleaned up is, unless the copy is deleted as well, and a deleted
\* copy expires, however calls fail (backups.ts:262-278, 432-441).
Reclaimed ==
  \A b \in Backup :
    LET c == database_backups[b]
    IN  /\ c.cleanup ~> ~c.cleanup \/ c.status = "expiring"
        /\ c.status = "expiring" ~> c.status = "expired"
=============================================================================
