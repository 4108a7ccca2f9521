------------------------ MODULE DatabaseBackupsProofs -----------------------
(***************************************************************************)
(* Theorems about DatabaseBackups, for any numbers of services, databases, *)
(* backups and faults: the documents are well formed; a removal that was   *)
(* accepted is taken back by nothing but a retry that began before it;     *)
(* copies stay in the object store while they are offered or read; and     *)
(* servers, copies and bindings are where their documents say.             *)
(***************************************************************************)
EXTENDS DatabaseBackups, TLAPS, WellFoundedInduction

DatabaseDoc ==
  {doc \in [status : {"none", "pending", "healthy", "degraded", "failed", "deleting"},
            phase : {"none", "submit", "retry", "observe", "probe_submit", "probe_observe",
                     "probe_cleanup", "ready", "failed", "delete"},
            restore : 0..MaxBackups] :
     /\ doc.phase = "failed" <=> doc.status = "failed"
     /\ doc.phase = "delete" <=> doc.status = "deleting"}

BackupStatus == {"none", "queued", "provisioning", "running", "succeeded", "failed",
                 "expiring", "expired"}

\* A restore names its copy, and has a destination while that is provisioned.
BackupDoc ==
  {c \in [kind : {"none", "backup", "restore"}, database : 0..MaxDatabases,
          source : 0..MaxBackups, target : 0..MaxDatabases, status : BackupStatus,
          checksum : Digest \cup {0}, job : BOOLEAN, cleanup : BOOLEAN] :
     /\ c.kind = "restore" => c.source # 0
     /\ c.status = "provisioning" => c.kind = "restore" /\ c.target # 0}

DatabaseItem == [id : Database, doc : DatabaseDoc]
BackupItem   == [id : Backup, doc : BackupDoc]

\* What is stored, and what requests in progress hold.
Documents ==
  /\ databases \in [Database -> DatabaseDoc]
  /\ database_backups \in [Backup -> BackupDoc]
  /\ retrying \in DatabaseItem \cup {NoRetry}
  /\ uploads \in [Backup -> [pc : {"none", "sending", "stored"}, digest : Digest \cup {0}]]
  /\ artifacts \in [Backup -> Digest \cup {0}]
  /\ reserved \in 0..MaxDatabases
  /\ bindings \in [Service -> 0..MaxDatabases]
  /\ retained_volumes \subseteq Database /\ jobs \subseteq Database

OperationCall == {"op_create", "op_watch", "op_head", "op_stop", "op_swept"}
BackupCall    == OperationCall \cup {"expire_call", "expired"}
BackupStage   == BackupCall \cup {"backups", "expire"}

\* What the alarm holds: databases first, backups and restores then.
Handler ==
  /\ alarm \in [pc : {"idle", "databases", "db_call"} \cup BackupStage,
                todo : SUBSET (DatabaseItem \cup BackupItem),
                id : Nat, doc : DatabaseDoc \cup BackupDoc, touched : BOOLEAN]
  /\ alarm.pc \in {"databases", "db_call"} => alarm.todo \subseteq DatabaseItem
  /\ alarm.pc = "db_call" => Item \in DatabaseItem
  /\ alarm.pc \in BackupStage => alarm.todo \subseteq BackupItem
  /\ alarm.pc \in BackupCall => Item \in BackupItem

\* A database that was not reserved yet is nowhere.
Reservations ==
  /\ \A d \in Database : d > reserved => databases[d] = NoDatabase
  /\ \A b \in Backup : database_backups[b].status = "provisioning"
                         => database_backups[b].target <= reserved
  /\ retrying.id <= reserved

\* A restore that the alarm holds as waiting for its destination still waits.
StillWaits(b, c) ==
  c.status = "provisioning" => /\ database_backups[b].status = "provisioning"
                               /\ database_backups[b].target = c.target

\* Nobody but the alarm changes such a restore, and it once per round; until the
\* destination is created, the restore protects it from removal.
Waiting ==
  /\ \A e, f \in alarm.todo : e.id = f.id => e = f
  /\ alarm.pc \in OperationCall => \A e \in alarm.todo : e.id # alarm.id
  /\ alarm.pc \in OperationCall \cup {"backups"} =>
       \A e \in alarm.todo : StillWaits(e.id, e.doc)
  /\ alarm.pc = "op_create" =>
       /\ alarm.doc.status = "provisioning" /\ StillWaits(alarm.id, alarm.doc)
       /\ databases[alarm.doc.target].status # "deleting"

IInv == Documents /\ Handler /\ Reservations /\ Waiting
-----------------------------------------------------------------------------
(* Documents.                                                              *)

\* The identity of a new backup is one that was not requested.
LEMMA NewIsUnused ==
  ASSUME Room PROVE New \in Backup /\ database_backups[New].kind = "none"
<1> DEFINE free == Backup \ Requested
<1>1. free \subseteq Nat /\ free # {}
  BY DatabasesAssumption DEF Room, Backup
<1>2. PICK k \in free : \A j \in free : <<j, k>> \notin OpToRel(<, Nat)
  <2> HIDE DEF free
  <2> QED
    BY <1>1, NatLessThanWellFounded, WFMin
<1>3. \A j \in free : k <= j
  <2> HIDE DEF free
  <2>1. \A j \in free : j \in Nat /\ k \in Nat
    BY <1>1
  <2>2. \A j \in free : ~ (j < k)
    BY <1>1, <1>2, Zenon DEF OpToRel
  <2> QED
    BY <2>1, <2>2
<1>4. New \in free
  BY <1>3 DEF New
<1> QED
  BY <1>4 DEF Requested

LEMMA FreshDocs ==
  /\ NoDatabase \in DatabaseDoc /\ Fresh \in DatabaseDoc
  /\ \A b \in Backup : [Fresh EXCEPT !.restore = b] \in DatabaseDoc
  /\ NoBackup \in BackupDoc
<1>1. NoDatabase \in DatabaseDoc
  BY DatabasesAssumption DEF NoDatabase, DatabaseDoc
<1>2. Fresh \in DatabaseDoc
  BY <1>1 DEF Fresh, DatabaseDoc
<1>3. \A b \in Backup : [Fresh EXCEPT !.restore = b] \in DatabaseDoc
  <2>1. \A b \in Backup : b \in 0..MaxBackups
    BY DatabasesAssumption DEF Backup
  <2> QED
    BY <1>2, <2>1 DEF DatabaseDoc
<1>4. NoBackup \in BackupDoc
  BY DatabasesAssumption DEF NoBackup, BackupDoc, BackupStatus
<1> QED
  BY <1>1, <1>2, <1>3, <1>4

\* What the alarm makes of a database is well formed and is not a removal.
LEMMA AlarmDocs ==
  ASSUME NEW doc \in DatabaseDoc
  PROVE  /\ Failed(doc) \in DatabaseDoc /\ Pending(doc) \in DatabaseDoc
         /\ Failed(doc).phase # "delete" /\ Pending(doc).phase # "delete"
         /\ \A new \in Outcomes(doc) : new \in DatabaseDoc /\ new.phase # "delete"
BY DEF Failed, Pending, Outcomes, DatabaseDoc

LEMMA DatabaseChanged ==
  ASSUME databases \in [Database -> DatabaseDoc], NEW d, NEW doc \in DatabaseDoc,
         Save(d, doc) \/ Keep(d, doc)
  PROVE  databases' \in [Database -> DatabaseDoc]
BY DEF Save, Keep

LEMMA BackupChanged ==
  ASSUME database_backups \in [Backup -> BackupDoc], NEW b, NEW doc \in BackupDoc, Put(b, doc)
  PROVE  database_backups' \in [Backup -> BackupDoc]
BY DEF Put

\* Answers, and documents that were listed, are saved as they should be.
LEMMA DatabaseDocsKept ==
  ASSUME Documents, Handler, Next
  PROVE  databases' \in [Database -> DatabaseDoc]
<1> USE DEF Documents
<1>1. ASSUME NEW S \in SUBSET Service, CreateDatabase(S)
      PROVE  databases' \in [Database -> DatabaseDoc]
  BY <1>1, FreshDocs, DatabaseChanged DEF CreateDatabase
<1>2. ASSUME NEW d \in Database, RemoveDatabase(d)
      PROVE  databases' \in [Database -> DatabaseDoc]
  <2>1. [databases[d] EXCEPT !.status = "deleting", !.phase = "delete"] \in DatabaseDoc
    BY DEF DatabaseDoc
  <2> QED
    BY <1>2, <2>1, DatabaseChanged DEF RemoveDatabase
<1>3. CASE RetryQueued
  <2>1. retrying.doc \in DatabaseDoc
    BY <1>3 DEF RetryQueued, DatabaseItem
  <2>2. [retrying.doc EXCEPT !.status = "pending", !.phase = "retry"] \in DatabaseDoc
    BY <2>1 DEF DatabaseDoc
  <2> QED
    BY <1>3, <2>2, DatabaseChanged DEF RetryQueued
<1>4. ASSUME NEW e \in alarm.todo, ReconcileOverdue(e) \/ ReconcileFailed(e)
      PROVE  databases' \in [Database -> DatabaseDoc]
  <2>1. e.doc \in DatabaseDoc /\ Failed(e.doc) \in DatabaseDoc
    BY <1>4, AlarmDocs DEF Handler, ReconcileOverdue, ReconcileFailed, At, DatabaseItem
  <2> QED
    BY <1>4, <2>1, DatabaseChanged DEF ReconcileOverdue, ReconcileFailed
<1>5. CASE Reconciled \/ ServerChanged \/ CallFails \/ Removed
  <2>1. alarm.doc \in DatabaseDoc
    BY <1>5 DEF Handler, Reconciled, ServerChanged, CallFails, Removed, At, Item, DatabaseItem
  <2>2. CASE Reconciled
    BY <2>1, <2>2, AlarmDocs, DatabaseChanged DEF Reconciled
  <2>3. CASE ServerChanged
    BY <2>1, <2>3, AlarmDocs, DatabaseChanged DEF ServerChanged
  <2>4. CASE CallFails
    BY <2>1, <2>4, AlarmDocs, DatabaseChanged DEF CallFails
  <2>5. CASE Removed
    BY <2>5, FreshDocs, DatabaseChanged DEF Removed
  <2> QED
    BY <1>5, <2>2, <2>3, <2>4, <2>5
<1>6. CASE DestinationCreated
  <2>1. alarm.id \in Backup
    BY <1>6 DEF Handler, DestinationCreated, At, BackupCall, OperationCall, Item, BackupItem
  <2> QED
    BY <1>6, <2>1, FreshDocs, DatabaseChanged DEF DestinationCreated
<1>7. ASSUME BackupRequest \/ Restart \/ Start \/ BackupAlarm, ~DestinationCreated
      PROVE  databases' = databases
  BY <1>7 DEF BackupRequest, QueueBackup, SetPolicy, DeleteBackup, RestoreBackup, PutData,
     ObjectStored, DataStored, Restart, Start, BackupAlarm, ListOperations,
     OperationOverdue, Begin, Expire, WatchJob, CheckObject, Sweep, CleanedUp,
     OperationFails, Retain, DeleteObject, Expired, ExpireFails, End, databaseVars
<1>8. CASE DatabaseRequest
  BY <1>8, <1>1, <1>2, <1>3
  DEF DatabaseRequest, AttachDatabase, DetachDatabase, RetryDatabase, RetryRefused
<1>9. CASE DatabaseAlarm
  BY <1>9, <1>4, <1>5 DEF DatabaseAlarm, ReconcileCalls, StopJob
<1> QED
  BY <1>6, <1>7, <1>8, <1>9 DEF Next, AlarmStep

LEMMA BackupDocsKept ==
  ASSUME Documents, Handler, Next
  PROVE  database_backups' \in [Backup -> BackupDoc]
<1> USE DEF Documents
<1>1. ASSUME NEW d \in Database, Queueable(d), Put(New, Queued(d))
      PROVE  database_backups' \in [Backup -> BackupDoc]
  <2>1. d \in 0..MaxDatabases
    BY DatabasesAssumption DEF Database
  <2>2. Queued(d) \in BackupDoc
    BY <2>1, FreshDocs DEF Queued, BackupDoc, BackupStatus
  <2> QED
    BY <1>1, <2>2, BackupChanged
<1>2. ASSUME NEW b \in Backup
      PROVE  /\ database_backups[b] \in BackupDoc /\ FailedBackup(b) \in BackupDoc
             /\ [database_backups[b] EXCEPT !.status = "expiring"] \in BackupDoc
             /\ Late(database_backups[b]) \in BackupDoc
             /\ [database_backups[b] EXCEPT !.cleanup = FALSE] \in BackupDoc
             /\ [database_backups[b] EXCEPT !.checksum = uploads[b].digest] \in BackupDoc
  <2>1. database_backups[b] \in BackupDoc /\ uploads[b].digest \in Digest \cup {0}
    OBVIOUS
  <2> QED
    BY <2>1 DEF FailedBackup, Late, BackupDoc, BackupStatus
<1>3. ASSUME NEW b \in Backup, DeleteBackup(b) \/ DataStored(b)
      PROVE  database_backups' \in [Backup -> BackupDoc]
  BY <1>3, <1>2, BackupChanged DEF DeleteBackup, DataStored
<1>4. ASSUME NEW b \in Backup, RestoreBackup(b)
      PROVE  database_backups' \in [Backup -> BackupDoc]
  <2> DEFINE c == database_backups[b]
             r == [NoBackup EXCEPT !.kind = "restore", !.database = c.database,
                                   !.source = b, !.target = reserved + 1,
                                   !.status = "provisioning", !.checksum = c.checksum]
  <2>1. c \in BackupDoc /\ b \in 1..MaxBackups /\ reserved + 1 \in 1..MaxDatabases
    BY <1>4, DatabasesAssumption DEF RestoreBackup, Backup
  <2>2. /\ c.database \in 0..MaxDatabases /\ c.checksum \in Digest \cup {0}
        /\ b \in 0..MaxBackups /\ b # 0
        /\ reserved + 1 \in 0..MaxDatabases /\ reserved + 1 # 0
    BY <2>1, DatabasesAssumption DEF BackupDoc
  <2>3. r \in BackupDoc
    <3> HIDE DEF c
    <3> QED
      BY <2>2, FreshDocs DEF BackupDoc, BackupStatus
  <2> QED
    BY <1>4, <2>3, BackupChanged DEF RestoreBackup
<1>5. CASE ListOperations
  BY <1>5, <1>1 DEF ListOperations
<1>6. ASSUME NEW e \in alarm.todo, OperationOverdue(e) \/ Begin(e)
      PROVE  database_backups' \in [Backup -> BackupDoc]
  <2>1. e.id \in Backup /\ e.doc \in BackupDoc
    BY <1>6 DEF Handler, BackupStage, BackupItem, OperationOverdue, Begin, At
  <2>2. [e.doc EXCEPT !.status = "running", !.job = TRUE] \in BackupDoc
    BY <2>1 DEF BackupDoc, BackupStatus
  <2>3. CASE OperationOverdue(e)
    BY <2>1, <2>3, <1>2, BackupChanged DEF OperationOverdue
  <2>4. CASE Begin(e)
    BY <2>1, <2>2, <2>4, <1>2, BackupChanged DEF Begin
  <2> QED
    BY <1>6, <2>3, <2>4
<1>7. ASSUME CheckObject \/ CleanedUp \/ OperationFails \/ Expired
      PROVE  database_backups' \in [Backup -> BackupDoc]
  <2>1. alarm.id \in Backup /\ alarm.doc \in BackupDoc
    BY <1>7 DEF Handler, BackupCall, OperationCall, Item, BackupItem, CheckObject, CleanedUp,
       OperationFails, Expired, At, Stage
  <2>2. CASE CheckObject
    <3> DEFINE digest == artifacts[Object(alarm.id, alarm.doc)]
    <3>1. Object(alarm.id, alarm.doc) \in Backup
      BY <2>1 DEF Object, BackupDoc, Backup
    <3>2. [alarm.doc EXCEPT !.status = "succeeded", !.checksum = digest, !.cleanup = TRUE]
            \in BackupDoc
      <4>1. digest \in Digest \cup {0}
        BY <3>1
      <4> QED
        BY <4>1, <2>1 DEF BackupDoc, BackupStatus
    <3> QED
      BY <2>1, <2>2, <3>2, <1>2, BackupChanged DEF CheckObject
  <2>3. CASE CleanedUp
    BY <2>1, <2>3, <1>2, BackupChanged DEF CleanedUp, Swept
  <2>4. CASE OperationFails
    BY <2>1, <2>4, <1>2, BackupChanged DEF OperationFails
  <2>5. CASE Expired
    <3>1. [alarm.doc EXCEPT !.status = "expired"] \in BackupDoc
      BY <2>1 DEF BackupDoc, BackupStatus
    <3> QED
      BY <2>1, <2>5, <3>1, BackupChanged DEF Expired
  <2> QED
    BY <1>7, <2>2, <2>3, <2>4, <2>5
<1>8. CASE Retain
  BY <1>8, <1>2 DEF Retain
<1>9. CASE BackupRequest
  BY <1>9, <1>1, <1>3, <1>4
  DEF BackupRequest, QueueBackup, SetPolicy, PutData, ObjectStored, databaseVars
<1>10. CASE BackupAlarm
  BY <1>10, <1>5, <1>6, <1>7, <1>8
  DEF BackupAlarm, Expire, DestinationCreated, WatchJob, Sweep, DeleteObject, ExpireFails, End
<1>11. CASE DatabaseRequest \/ Start \/ DatabaseAlarm \/ Restart
  BY <1>11 DEF DatabaseRequest, CreateDatabase, AttachDatabase, DetachDatabase, RetryDatabase,
     RetryQueued, RetryRefused, RemoveDatabase, Start, DatabaseAlarm, ReconcileOverdue,
     ReconcileFailed, ReconcileCalls, Reconciled, ServerChanged, StopJob, Removed, CallFails,
     Restart, records
<1> QED
  BY <1>9, <1>10, <1>11 DEF Next, AlarmStep

LEMMA DocumentsKept ==
  ASSUME Documents, Handler, [Next]_vars
  PROVE  Documents'
<1>1. CASE UNCHANGED vars
  BY <1>1 DEF Documents, vars, databaseVars, backupVars
<1>2. CASE Next
  <2> USE DEF Documents
  <2>1. databases' \in [Database -> DatabaseDoc] /\ database_backups' \in [Backup -> BackupDoc]
    BY <1>2, DatabaseDocsKept, BackupDocsKept
  <2>2. retrying' \in DatabaseItem \cup {NoRetry}
    <3>1. ASSUME NEW d \in Database, RetryDatabase(d)
          PROVE  retrying' \in DatabaseItem \cup {NoRetry}
      BY <3>1 DEF RetryDatabase, DatabaseItem
    <3> QED
      BY <1>2, <3>1 DEF Next, DatabaseRequest, BackupRequest, AlarmStep, Restart, CreateDatabase,
         AttachDatabase, DetachDatabase, RetryQueued, RetryRefused, RemoveDatabase,
         QueueBackup, SetPolicy, DeleteBackup, RestoreBackup, PutData, ObjectStored,
         DataStored, Start, DatabaseAlarm, ReconcileOverdue, ReconcileFailed,
         ReconcileCalls, Reconciled, ServerChanged, StopJob, Removed, CallFails,
         BackupAlarm, ListOperations, OperationOverdue, Begin, Expire, DestinationCreated,
         WatchJob, CheckObject, Sweep, CleanedUp, OperationFails, Retain, DeleteObject,
         Expired, ExpireFails, End, serverVars, databaseVars
  <2>3. /\ uploads' \in [Backup -> [pc : {"none", "sending", "stored"}, digest : Digest \cup {0}]]
        /\ artifacts' \in [Backup -> Digest \cup {0}]
    <3> DEFINE Uploads == [Backup -> [pc : {"none", "sending", "stored"}, digest : Digest \cup {0}]]
    <3>1. ASSUME NEW b \in Backup, NEW digest \in Digest, PutData(b, digest)
          PROVE  uploads' \in Uploads /\ artifacts' = artifacts
      BY <3>1 DEF PutData
    <3>2. ASSUME NEW b \in Backup, ObjectStored(b)
          PROVE  uploads' \in Uploads /\ artifacts' \in [Backup -> Digest \cup {0}]
      BY <3>2 DEF ObjectStored, StoredAs, NoUpload
    <3>3. ASSUME NEW b \in Backup, DataStored(b)
          PROVE  uploads' \in Uploads /\ artifacts' = artifacts
      BY <3>3 DEF DataStored, NoUpload
    <3>4. CASE Restart
      BY <3>4 DEF Restart, NoUpload
    <3>5. CASE Sweep \/ DeleteObject
      BY <3>5 DEF Sweep, DeleteObject
    <3>6. CASE BackupAlarm
      BY <3>6, <3>5 DEF BackupAlarm, ListOperations, OperationOverdue, Begin, Expire,
         DestinationCreated, WatchJob, CheckObject, CleanedUp, OperationFails, Retain, Expired,
         ExpireFails, End, backupVars
    <3>7. CASE BackupRequest
      BY <3>7, <3>1, <3>2, <3>3
      DEF BackupRequest, QueueBackup, SetPolicy, DeleteBackup, RestoreBackup, backupVars
    <3> QED
      BY <1>2, <3>4, <3>6, <3>7 DEF Next, AlarmStep, backupVars
  <2>4. /\ reserved' \in 0..MaxDatabases /\ bindings' \in [Service -> 0..MaxDatabases]
        /\ retained_volumes' \subseteq Database /\ jobs' \subseteq Database
    <3> DEFINE Goal == /\ reserved' \in 0..MaxDatabases /\ bindings' \in [Service -> 0..MaxDatabases]
                       /\ retained_volumes' \subseteq Database /\ jobs' \subseteq Database
    <3>1. ASSUME NEW S \in SUBSET Service, CreateDatabase(S) PROVE Goal
      <4>1. reserved' \in 0..MaxDatabases
        BY <3>1, DatabasesAssumption DEF CreateDatabase
      <4> QED
        BY <3>1, <4>1 DEF CreateDatabase
    <3>2. ASSUME NEW b \in Backup, RestoreBackup(b) PROVE Goal
      BY <3>2, DatabasesAssumption DEF RestoreBackup
    <3>3. ASSUME NEW s \in Service, NEW d \in 0..MaxDatabases,
                 bindings' = [bindings EXCEPT ![s] = d],
                 UNCHANGED <<reserved, retained_volumes, jobs>>
          PROVE  Goal
      BY <3>3
    <3>4. ASSUME Reconciled \/ StopJob \/ Removed \/ CallFails PROVE Goal
      <4>1. alarm.id \in Database
        BY <3>4 DEF Handler, Item, DatabaseItem, Reconciled, StopJob, Removed, CallFails, At
      <4> QED
        BY <3>4, <4>1, DatabasesAssumption DEF Reconciled, StopJob, Removed, CallFails, records
    <3>5. CASE DatabaseRequest
      <4>1. ASSUME NEW d \in Database, NEW s \in Service, AttachDatabase(d, s) PROVE Goal
        BY <4>1, <3>3, DatabasesAssumption DEF AttachDatabase, records, Database
      <4>2. ASSUME NEW s \in Service, DetachDatabase(s) PROVE Goal
        BY <4>2, <3>3, DatabasesAssumption DEF DetachDatabase, records
      <4> QED
        BY <3>5, <3>1, <4>1, <4>2
        DEF DatabaseRequest, RetryDatabase, RemoveDatabase, RetryQueued, RetryRefused, records
    <3>6. CASE DatabaseAlarm \/ Start
      BY <3>6, <3>4 DEF DatabaseAlarm, Start, ReconcileOverdue, ReconcileFailed,
         ReconcileCalls, ServerChanged, records
    <3>7. CASE BackupRequest
      BY <3>7, <3>2 DEF BackupRequest, QueueBackup, SetPolicy, DeleteBackup, PutData,
         ObjectStored, DataStored, serverVars, databaseVars
    <3>8. CASE BackupAlarm \/ Restart
      BY <3>8 DEF BackupAlarm, ListOperations, OperationOverdue, Begin, Expire,
         DestinationCreated, WatchJob, CheckObject, Sweep, CleanedUp, OperationFails, Retain,
         DeleteObject, Expired, ExpireFails, End, Restart, serverVars
    <3> QED
      BY <1>2, <3>5, <3>6, <3>7, <3>8 DEF Next, AlarmStep
  <2> QED
    BY <2>1, <2>2, <2>3, <2>4
<1> QED
  BY <1>1, <1>2
-----------------------------------------------------------------------------
(* What the alarm holds.                                                   *)

LEMMA IdleHandler ==
  ASSUME alarm' = Idle PROVE Handler'
<1>1. NoDatabase \in DatabaseDoc
  BY FreshDocs
<1> QED
  BY <1>1 DEF Handler, Idle, BackupStage, BackupCall, OperationCall, Item

LEMMA Continued ==
  ASSUME NEW pc \in {"databases", "backups", "expire"}, NEW todo, Continue(pc, todo),
         IF pc = "databases" THEN todo \subseteq DatabaseItem ELSE todo \subseteq BackupItem
  PROVE  Handler'
<1>1. NoDatabase \in DatabaseDoc
  BY FreshDocs
<1> QED
  BY <1>1 DEF Continue, Handler, Idle, BackupStage, BackupCall, OperationCall, Item

LEMMA Taken ==
  ASSUME Handler, alarm.pc \in BackupStage, NEW e \in alarm.todo, NEW pc \in BackupCall,
         Take(e, pc)
  PROVE  Handler'
<1>1. e \in BackupItem /\ alarm.todo \ {e} \subseteq BackupItem
  BY DEF Handler
<1>2. e.id \in Nat /\ e.id \in Backup /\ e.doc \in BackupDoc
  BY <1>1, DatabasesAssumption DEF BackupItem, Backup
<1> QED
  BY <1>1, <1>2 DEF Take, Handler, BackupStage, BackupCall, OperationCall, Item, BackupItem

LEMMA HandlerUntouched ==
  ASSUME Handler, alarm' = alarm \/ (\E b \in Backup : Touch(b))
  PROVE  Handler'
BY DEF Handler, Touch, Item

LEMMA HandlerKept ==
  ASSUME Documents, Handler, [Next]_vars
  PROVE  Handler'
<1>1. CASE UNCHANGED vars
  BY <1>1, HandlerUntouched DEF vars, databaseVars
<1>2. CASE DatabaseRequest
  BY <1>2, HandlerUntouched DEF DatabaseRequest, CreateDatabase, AttachDatabase, DetachDatabase,
     RetryDatabase, RemoveDatabase, RetryQueued, RetryRefused
<1>3. CASE BackupRequest
  BY <1>3, HandlerUntouched DEF BackupRequest, QueueBackup, SetPolicy, DeleteBackup,
     RestoreBackup, PutData, ObjectStored, DataStored, databaseVars
<1>4. CASE Restart
  BY <1>4, IdleHandler DEF Restart
<1>5. CASE Start
  <2> DEFINE todo == {[id |-> d, doc |-> databases[d]] : d \in {e \in Database : Stored(e)}}
  <2>1. todo \subseteq DatabaseItem
    BY DEF Documents, DatabaseItem
  <2>2. Continue("databases", todo)
    BY <1>5 DEF Start, Continue
  <2> QED
    BY <2>1, <2>2, Continued
<1>6. CASE DatabaseAlarm
  <2>1. ASSUME NEW e \in alarm.todo, ReconcileOverdue(e) \/ ReconcileFailed(e) \/ ReconcileCalls(e)
        PROVE  Handler'
    <3>1. alarm.todo \subseteq DatabaseItem /\ e \in DatabaseItem
      BY <2>1 DEF ReconcileOverdue, ReconcileFailed, ReconcileCalls, At, Handler
    <3>2. CASE ReconcileOverdue(e) \/ ReconcileFailed(e)
      BY <3>1, <3>2, Continued DEF ReconcileOverdue, ReconcileFailed, NextDocument
    <3>3. CASE ReconcileCalls(e)
      <4>1. e.id \in Nat /\ e.id \in Database /\ e.doc \in DatabaseDoc
        BY <3>1, DatabasesAssumption DEF DatabaseItem, Database
      <4> QED
        BY <3>1, <3>3, <4>1
        DEF ReconcileCalls, Handler, Item, DatabaseItem, BackupStage, BackupCall, OperationCall
    <3> QED
      BY <2>1, <3>2, <3>3
  <2>2. CASE Reconciled \/ ServerChanged \/ Removed \/ CallFails
    <3>1. alarm.todo \ {Item} \subseteq DatabaseItem
      BY <2>2 DEF Reconciled, ServerChanged, Removed, CallFails, At, Handler
    <3> QED
      BY <2>2, <3>1, Continued DEF Reconciled, ServerChanged, Removed, CallFails, NextDocument
  <2>3. CASE StopJob
    BY <2>3, HandlerUntouched DEF StopJob
  <2> QED
    BY <1>6, <2>1, <2>2, <2>3 DEF DatabaseAlarm
<1>7. CASE BackupAlarm
  <2>1. CASE ListOperations
    <3> DEFINE todo == {[id |-> b, doc |-> database_backups'[b]] :
                          b \in {c \in Backup : \/ database_backups'[c].status \in Operation
                                                \/ database_backups'[c].cleanup}}
    <3>1. database_backups' \in [Backup -> BackupDoc]
      BY <2>1, BackupDocsKept DEF Next, AlarmStep, BackupAlarm
    <3>2. todo \subseteq BackupItem
      BY <3>1 DEF BackupItem
    <3> QED
      BY <2>1, <3>2, Continued DEF ListOperations
  <2>2. CASE Retain
    <3> DEFINE todo == {[id |-> b, doc |-> database_backups'[b]] :
                          b \in {c \in Backup : database_backups'[c].status = "expiring"}}
    <3>1. database_backups' \in [Backup -> BackupDoc]
      BY <2>2, BackupDocsKept DEF Next, AlarmStep, BackupAlarm
    <3>2. todo \subseteq BackupItem
      BY <3>1 DEF BackupItem
    <3> QED
      BY <2>2, <3>2, Continued DEF Retain
  <2>3. ASSUME NEW e \in alarm.todo, OperationOverdue(e) \/ Begin(e) \/ Expire(e)
        PROVE  Handler'
    <3>1. alarm.pc \in BackupStage /\ alarm.todo \ {e} \subseteq BackupItem
      BY <2>3 DEF OperationOverdue, Begin, Expire, At, Handler, BackupStage
    <3>2. CASE Skip(e)
      BY <3>1, <3>2, Continued DEF Skip
    <3>3. CASE \E pc \in BackupCall : Take(e, pc)
      BY <3>1, <3>3, Taken
    <3> QED
      BY <2>3, <3>2, <3>3 DEF OperationOverdue, Begin, Expire, BackupCall, OperationCall
  <2>4. CASE DestinationCreated \/ CheckObject \/ CleanedUp \/ OperationFails
    <3>1. alarm.todo \subseteq BackupItem
      BY <2>4 DEF DestinationCreated, CheckObject, CleanedUp, OperationFails, At, Stage,
         Handler, BackupStage, BackupCall, OperationCall
    <3> QED
      BY <2>4, <3>1, Continued
      DEF DestinationCreated, CheckObject, CleanedUp, OperationFails, Advance
  <2>5. CASE Expired \/ ExpireFails
    <3>1. alarm.todo \subseteq BackupItem
      BY <2>5 DEF Expired, ExpireFails, At, Stage, Handler, BackupStage, BackupCall
    <3> QED
      BY <2>5, <3>1, Continued DEF Expired, ExpireFails
  <2>6. CASE WatchJob
    <3>1. alarm.todo \subseteq BackupItem /\ alarm.id \in Backup
      BY <2>6 DEF WatchJob, At, Handler, BackupStage, BackupCall, OperationCall, Item, BackupItem
    <3>2. database_backups[alarm.id] \in BackupDoc
      BY <3>1 DEF Documents
    <3>3. CASE Advance
      BY <3>1, <3>3, Continued DEF Advance
    <3>4. CASE alarm' = [alarm EXCEPT !.pc = "op_head", !.doc = database_backups[alarm.id]]
      BY <3>1, <3>2, <3>4 DEF Handler, BackupStage, BackupCall, OperationCall, Item, BackupItem
    <3> QED
      BY <2>6, <3>3, <3>4 DEF WatchJob
  <2>7. CASE Sweep \/ DeleteObject
    BY <2>7 DEF Sweep, DeleteObject, Go, At, Handler, BackupStage, BackupCall, OperationCall, Item
  <2>8. CASE End
    BY <2>8, IdleHandler DEF End
  <2> QED
    BY <1>7, <2>1, <2>2, <2>3, <2>4, <2>5, <2>6, <2>7, <2>8 DEF BackupAlarm
<1> QED
  BY <1>1, <1>2, <1>3, <1>4, <1>5, <1>6, <1>7 DEF Next, AlarmStep
-----------------------------------------------------------------------------
(* Reservations.                                                           *)

\* Only a restore begins to wait for a destination, which is a new one.
LEMMA ProvisioningIsKept ==
  ASSUME Documents, Handler, Next, NEW b \in Backup,
         database_backups'[b].status = "provisioning"
  PROVE  \/ /\ database_backups[b].status = "provisioning"
            /\ database_backups'[b].target = database_backups[b].target
         \/ /\ reserved' = reserved + 1 /\ database_backups'[b].target = reserved'
<1> USE DEF Documents
<1> DEFINE Kept == /\ database_backups[b].status = "provisioning"
                   /\ database_backups'[b].target = database_backups[b].target
<1>1. \A c \in Backup : database_backups[c] \in BackupDoc
  OBVIOUS
<1>2. ASSUME NEW c, NEW doc, Put(c, doc), doc.status # "provisioning" PROVE Kept
  BY <1>2 DEF Put
<1>3. \A d \in Database : Queued(d).status # "provisioning"
  <2>1. NoBackup \in BackupDoc
    BY FreshDocs
  <2> QED
    BY <2>1 DEF Queued, BackupDoc
<1>4. \A c \in Backup : FailedBackup(c).status # "provisioning"
  BY <1>1 DEF FailedBackup, BackupDoc
<1>5. ASSUME NEW c \in Backup, RestoreBackup(c)
      PROVE  Kept \/ (reserved' = reserved + 1 /\ database_backups'[b].target = reserved')
  <2> DEFINE r == [NoBackup EXCEPT !.kind = "restore", !.database = database_backups[c].database,
                                   !.source = c, !.target = reserved + 1,
                                   !.status = "provisioning",
                                   !.checksum = database_backups[c].checksum]
  <2>1. NoBackup \in BackupDoc
    BY FreshDocs
  <2>2. r.target = reserved + 1
    BY <2>1 DEF BackupDoc
  <2>3. Put(New, r) /\ reserved' = reserved + 1
    BY <1>5 DEF RestoreBackup
  <2> HIDE DEF r
  <2> QED
    BY <2>2, <2>3 DEF Put
<1>6. ASSUME NEW c \in Backup, DeleteBackup(c) \/ DataStored(c) PROVE Kept
  <2>1. database_backups[c] \in BackupDoc
    OBVIOUS
  <2>2. \A doc : [database_backups[c] EXCEPT !.checksum = doc].status = database_backups[c].status
    BY <2>1 DEF BackupDoc
  <2>3. \A doc : [database_backups[c] EXCEPT !.checksum = doc].target = database_backups[c].target
    BY <2>1 DEF BackupDoc
  <2>4. /\ Late(database_backups[c]).status = database_backups[c].status
        /\ Late(database_backups[c]).target = database_backups[c].target
        /\ [database_backups[c] EXCEPT !.status = "expiring"].status # "provisioning"
    BY <2>1 DEF BackupDoc, Late
  <2>5. CASE DeleteBackup(c)
    BY <2>5, <2>4, <1>2 DEF DeleteBackup
  <2>6. ASSUME NEW doc, Put(c, doc), doc.status = database_backups[c].status,
               doc.target = database_backups[c].target
        PROVE  Kept
    BY <2>6 DEF Put
  <2>7. CASE DataStored(c)
    BY <2>7, <2>2, <2>3, <2>4, <2>6 DEF DataStored
  <2> QED
    BY <1>6, <2>5, <2>7
<1>7. CASE BackupRequest
  BY <1>7, <1>2, <1>3, <1>5, <1>6
  DEF BackupRequest, QueueBackup, SetPolicy, PutData, ObjectStored, databaseVars
<1>8. CASE ListOperations
  BY <1>8, <1>2, <1>3 DEF ListOperations
<1>9. ASSUME NEW e \in alarm.todo, OperationOverdue(e) \/ Begin(e) PROVE Kept
  <2>1. e.id \in Backup /\ e.doc \in BackupDoc
    BY <1>9 DEF Handler, BackupStage, BackupItem, OperationOverdue, Begin, At
  <2>2. [e.doc EXCEPT !.status = "running", !.job = TRUE].status # "provisioning"
    BY <2>1 DEF BackupDoc
  <2> QED
    BY <1>9, <1>2, <1>4, <2>1, <2>2 DEF OperationOverdue, Begin
<1>10. ASSUME CheckObject \/ CleanedUp \/ OperationFails \/ Expired PROVE Kept
  <2>1. alarm.id \in Backup /\ alarm.doc \in BackupDoc
    BY <1>10 DEF Handler, BackupCall, OperationCall, Item, BackupItem, CheckObject, CleanedUp,
       OperationFails, Expired, At, Stage
  <2>2. CASE CheckObject
    <3>1. \A digest : [alarm.doc EXCEPT !.status = "succeeded", !.checksum = digest,
                                        !.cleanup = TRUE].status # "provisioning"
      BY <2>1 DEF BackupDoc
    <3> QED
      BY <2>1, <2>2, <3>1, <1>2, <1>4 DEF CheckObject
  <2>3. CASE CleanedUp
    <3>1. database_backups[alarm.id] \in BackupDoc
      BY <2>1
    <3> QED
      BY <2>1, <2>3, <3>1 DEF CleanedUp, Swept, Put, BackupDoc
  <2>4. CASE OperationFails
    BY <2>1, <2>4, <1>2, <1>4 DEF OperationFails
  <2>5. CASE Expired
    <3>1. [alarm.doc EXCEPT !.status = "expired"].status # "provisioning"
      BY <2>1 DEF BackupDoc
    <3> QED
      BY <2>5, <3>1, <1>2 DEF Expired
  <2> QED
    BY <1>10, <2>2, <2>3, <2>4, <2>5
<1>11. CASE Retain
  <2>1. database_backups[b] \in BackupDoc
    OBVIOUS
  <2> QED
    BY <1>11, <2>1 DEF Retain, BackupDoc
<1>12. CASE BackupAlarm
  BY <1>12, <1>8, <1>9, <1>10, <1>11
  DEF BackupAlarm, Expire, DestinationCreated, WatchJob, Sweep, DeleteObject, ExpireFails, End
<1>13. CASE DatabaseRequest \/ Start \/ DatabaseAlarm \/ Restart
  BY <1>13 DEF DatabaseRequest, CreateDatabase, AttachDatabase, DetachDatabase, RetryDatabase,
     RetryQueued, RetryRefused, RemoveDatabase, Start, DatabaseAlarm, ReconcileOverdue,
     ReconcileFailed, ReconcileCalls, Reconciled, ServerChanged, StopJob, Removed, CallFails,
     Restart, records
<1> QED
  BY <1>7, <1>12, <1>13 DEF Next, AlarmStep

LEMMA KeepSparesUnreserved ==
  ASSUME Documents, Reservations, NEW id, NEW doc, Keep(id, doc), NEW d \in Database, d > reserved
  PROVE  databases'[d] = NoDatabase
<1>1. databases[d] = NoDatabase /\ ~Stored(d)
  BY DEF Reservations, Stored, NoDatabase
<1> QED
  BY <1>1 DEF Keep, Superseded, Documents

LEMMA ReservationsKept ==
  ASSUME IInv, [Next]_vars PROVE Reservations'
<1>1. CASE UNCHANGED vars
  BY <1>1 DEF IInv, Reservations, vars, databaseVars
<1>2. CASE Next
  <2> USE DEF IInv
  <2>1. reserved' \in {reserved, reserved + 1} /\ reserved \in 0..MaxDatabases
    BY <1>2 DEF Documents, Next, DatabaseRequest, BackupRequest, AlarmStep, Restart,
       CreateDatabase, AttachDatabase, DetachDatabase, RetryDatabase, RetryQueued,
       RetryRefused, RemoveDatabase, QueueBackup, SetPolicy, DeleteBackup, RestoreBackup,
       PutData, ObjectStored, DataStored, Start, DatabaseAlarm, ReconcileOverdue,
       ReconcileFailed, ReconcileCalls, Reconciled, ServerChanged, StopJob, Removed,
       CallFails, BackupAlarm, ListOperations, OperationOverdue, Begin, Expire,
       DestinationCreated, WatchJob, CheckObject, Sweep, CleanedUp, OperationFails, Retain,
       DeleteObject, Expired, ExpireFails, End, serverVars, databaseVars, records
  <2>2. reserved' >= reserved /\ reserved \in Int /\ reserved' \in Int
    BY <2>1, DatabasesAssumption
  <2>3. ASSUME NEW d \in Database, d > reserved' PROVE databases'[d] = NoDatabase
    <3>1. d > reserved /\ d \in Int /\ databases[d] = NoDatabase /\ databases[d].status = "none"
      BY <2>2, <2>3 DEF Database, Reservations, NoDatabase
    <3>2. ASSUME NEW S \in SUBSET Service, CreateDatabase(S) PROVE databases'[d] = NoDatabase
      BY <3>1, <3>2, <2>3 DEF CreateDatabase, Save, Documents
    <3>3. ASSUME NEW e \in Database, RemoveDatabase(e) PROVE databases'[d] = NoDatabase
      BY <3>1, <3>3 DEF RemoveDatabase, Save, Stored, Documents
    <3>4. CASE RetryQueued
      BY <3>1, <3>4, <2>2 DEF RetryQueued, Save, Reservations, Documents
    <3>5. CASE DestinationCreated
      <4>1. /\ alarm.id \in Backup /\ alarm.doc \in BackupDoc
            /\ alarm.doc.target <= reserved /\ alarm.doc.target \in Int
        BY <3>5, DatabasesAssumption DEF DestinationCreated, At, Handler, BackupCall,
           OperationCall, Item, BackupItem, BackupDoc, Waiting, StillWaits, Reservations
      <4>2. alarm.doc.target # d
        BY <3>1, <4>1, <2>2
      <4> QED
        BY <3>1, <3>5, <4>2 DEF DestinationCreated, Save, Documents
    <3>6. CASE Removed
      BY <3>1, <3>6 DEF Removed, Save, Documents
    <3>7. ASSUME NEW e \in alarm.todo, ReconcileOverdue(e) \/ ReconcileFailed(e)
          PROVE  databases'[d] = NoDatabase
      BY <3>1, <3>7, KeepSparesUnreserved DEF ReconcileOverdue, ReconcileFailed
    <3>8. CASE Reconciled \/ ServerChanged \/ CallFails
      BY <3>1, <3>8, KeepSparesUnreserved DEF Reconciled, ServerChanged, CallFails
    <3>9. CASE DatabaseRequest
      BY <3>9, <3>1, <3>2, <3>3, <3>4
      DEF DatabaseRequest, AttachDatabase, DetachDatabase, RetryDatabase, RetryRefused
    <3>10. CASE DatabaseAlarm \/ Start
      BY <3>10, <3>1, <3>6, <3>7, <3>8 DEF DatabaseAlarm, ReconcileCalls, StopJob, Start
    <3>11. CASE BackupRequest \/ Restart
      BY <3>11, <3>1 DEF BackupRequest, QueueBackup, SetPolicy, DeleteBackup, RestoreBackup,
         PutData, ObjectStored, DataStored, Restart, databaseVars
    <3>12. CASE BackupAlarm
      BY <3>12, <3>1, <3>5 DEF BackupAlarm, ListOperations, OperationOverdue, Begin, Expire,
         WatchJob, CheckObject, Sweep, CleanedUp, OperationFails, Retain, DeleteObject, Expired,
         ExpireFails, End
    <3> QED
      BY <1>2, <3>9, <3>10, <3>11, <3>12 DEF Next, AlarmStep
  <2>4. ASSUME NEW b \in Backup, database_backups'[b].status = "provisioning"
        PROVE  database_backups'[b].target <= reserved'
    <3>1. CASE /\ database_backups[b].status = "provisioning"
               /\ database_backups'[b].target = database_backups[b].target
      <4>1. database_backups[b].target <= reserved /\ database_backups[b].target \in Int
        BY <3>1, DatabasesAssumption DEF Reservations, Documents, BackupDoc
      <4> QED
        BY <3>1, <4>1, <2>2
    <3>2. CASE database_backups'[b].target = reserved'
      BY <3>2, <2>2
    <3> QED
      BY <1>2, <2>4, <3>1, <3>2, ProvisioningIsKept
  <2>5. retrying'.id <= reserved'
    <3>1. retrying.id <= reserved /\ retrying.id \in Int
      BY DatabasesAssumption DEF Reservations, Documents, DatabaseItem, NoRetry, Database
    <3>2. retrying.id <= reserved' /\ NoRetry.id <= reserved'
      BY <3>1, <2>1, <2>2, DatabasesAssumption DEF NoRetry
    <3>3. ASSUME NEW d \in Database, RetryDatabase(d) PROVE retrying'.id <= reserved'
      <4>1. databases[d].status # "none" /\ d \in Int
        BY <3>3 DEF RetryDatabase, Database
      <4>2. d <= reserved
        BY <4>1, <2>2 DEF Reservations, NoDatabase
      <4> QED
        BY <3>3, <4>1, <4>2, <2>2 DEF RetryDatabase
    <3>4. retrying' = retrying \/ retrying' = NoRetry \/ \E d \in Database : RetryDatabase(d)
      BY <1>2 DEF Next, DatabaseRequest, BackupRequest, AlarmStep, Restart, CreateDatabase,
         AttachDatabase, DetachDatabase, RetryQueued, RetryRefused, RemoveDatabase,
         QueueBackup, SetPolicy, DeleteBackup, RestoreBackup, PutData, ObjectStored,
         DataStored, Start, DatabaseAlarm, ReconcileOverdue, ReconcileFailed,
         ReconcileCalls, Reconciled, ServerChanged, StopJob, Removed, CallFails,
         BackupAlarm, ListOperations, OperationOverdue, Begin, Expire, DestinationCreated,
         WatchJob, CheckObject, Sweep, CleanedUp, OperationFails, Retain, DeleteObject,
         Expired, ExpireFails, End, serverVars, databaseVars
    <3> QED
      BY <3>2, <3>3, <3>4
  <2> QED
    BY <2>3, <2>4, <2>5 DEF Reservations
<1> QED
  BY <1>1, <1>2
-----------------------------------------------------------------------------
(* Restores that wait for their destination.                               *)

\* No request touches one.
LEMMA RequestsSpareWaiting ==
  ASSUME Documents, BackupRequest, NEW b \in Backup,
         database_backups[b].status = "provisioning"
  PROVE  /\ database_backups'[b].status = "provisioning"
         /\ database_backups'[b].target = database_backups[b].target
<1> DEFINE Spared == /\ database_backups'[b].status = "provisioning"
                     /\ database_backups'[b].target = database_backups[b].target
<1>1. database_backups[b] \in BackupDoc /\ database_backups[b].kind = "restore" /\ b \in Active
  BY DEF Documents, BackupDoc, Active, Operation
<1>2. ASSUME NEW doc, Room, Put(New, doc) PROVE Spared
  BY <1>1, <1>2, NewIsUnused DEF Put, Documents
<1>3. ASSUME NEW c \in Backup, DeleteBackup(c) PROVE Spared
  BY <1>1, <1>3 DEF DeleteBackup, Put, Documents
<1>4. ASSUME NEW c \in Backup, DataStored(c) PROVE Spared
  <2>1. CASE c # b
    BY <2>1, <1>4 DEF DataStored, Put, Documents
  <2>2. CASE c = b
    <3>1. Put(b, Late(database_backups[b]))
      BY <1>4, <2>2 DEF DataStored
    <3>2. /\ Late(database_backups[b]).status = database_backups[b].status
          /\ Late(database_backups[b]).target = database_backups[b].target
      BY <1>1 DEF Late, BackupDoc
    <3> QED
      BY <3>1, <3>2 DEF Put, Documents
  <2> QED
    BY <2>1, <2>2
<1> QED
  BY <1>2, <1>3, <1>4 DEF BackupRequest, QueueBackup, Queueable, SetPolicy, RestoreBackup, PutData,
     ObjectStored, databaseVars

\* While the alarm creates the destination of a restore nobody removes it.
LEMMA DestinationSpared ==
  ASSUME IInv, DatabaseRequest, alarm.pc = "op_create"
  PROVE  databases'[alarm.doc.target].status # "deleting"
<1> DEFINE d == alarm.doc.target
<1>1. /\ alarm.id \in Backup /\ database_backups[alarm.id].status = "provisioning"
      /\ database_backups[alarm.id].target = d /\ databases[d].status # "deleting"
  BY DEF IInv, Handler, BackupCall, OperationCall, Item, BackupItem, Waiting, StillWaits
<1>2. d \in Database
  BY <1>1, DatabasesAssumption DEF IInv, Documents, BackupDoc, Database
<1>3. ~Removable(d)
  BY <1>1 DEF Removable, Active, Operation
<1>4. ASSUME NEW e, NEW doc, Save(e, doc), doc.status # "deleting"
      PROVE  databases'[d].status # "deleting"
  BY <1>1, <1>2, <1>4 DEF Save, IInv, Documents
<1>5. Fresh.status # "deleting"
  BY DEF Fresh, NoDatabase
<1>6. ASSUME NEW e \in Database, RemoveDatabase(e)
      PROVE  databases'[d].status # "deleting"
  BY <1>1, <1>3, <1>6 DEF RemoveDatabase, Save, IInv, Documents
<1>7. CASE RetryQueued
  <2>1. retrying.doc \in DatabaseDoc
    BY <1>7 DEF RetryQueued, IInv, Documents, DatabaseItem
  <2>2. [retrying.doc EXCEPT !.status = "pending", !.phase = "retry"].status # "deleting"
    BY <2>1 DEF DatabaseDoc
  <2> QED
    BY <1>7, <2>2, <1>4 DEF RetryQueued
<1> QED
  BY <1>1, <1>4, <1>5, <1>6, <1>7 DEF DatabaseRequest, CreateDatabase, AttachDatabase,
     DetachDatabase, RetryDatabase, RetryRefused

\* What was not handled yet is as it was listed.
LEMMA OthersWait ==
  ASSUME IInv, NEW b \in Backup, NEW doc, Put(b, doc) \/ UNCHANGED database_backups,
         NEW todo \in SUBSET alarm.todo, alarm.pc \in OperationCall \cup {"backups"},
         \A e \in todo : e.id # b
  PROVE  \A e \in todo : StillWaits(e.id, e.doc)'
<1>1. \A e \in todo : e.id \in Backup /\ StillWaits(e.id, e.doc) /\ e.id # b
  BY DEF IInv, Handler, BackupStage, BackupCall, OperationCall, BackupItem, Waiting
<1> QED
  BY <1>1 DEF IInv, Documents, Put, StillWaits

LEMMA ContinuedWaiting ==
  ASSUME NEW pc \in {"databases", "backups", "expire"}, NEW todo, Continue(pc, todo),
         \A e, f \in todo : e.id = f.id => e = f,
         pc = "backups" => \A e \in todo : StillWaits(e.id, e.doc)'
  PROVE  Waiting'
BY DEF Continue, Idle, Waiting, OperationCall

LEMMA WaitingKept ==
  ASSUME IInv, [Next]_vars PROVE Waiting'
<1> USE DEF IInv
<1>1. CASE UNCHANGED vars
  BY <1>1 DEF Waiting, StillWaits, vars, databaseVars
<1>2. CASE DatabaseRequest
  <2>1. UNCHANGED <<alarm, database_backups>>
    BY <1>2 DEF DatabaseRequest, CreateDatabase, AttachDatabase, DetachDatabase, RetryDatabase,
       RemoveDatabase, RetryQueued, RetryRefused, records
  <2> QED
    BY <1>2, <2>1, DestinationSpared DEF Waiting, StillWaits
<1>3. CASE BackupRequest
  <2>1. /\ alarm'.pc = alarm.pc /\ alarm'.todo = alarm.todo
        /\ alarm'.id = alarm.id /\ alarm'.doc = alarm.doc
    BY <1>3 DEF BackupRequest, QueueBackup, SetPolicy, DeleteBackup, RestoreBackup, PutData,
       ObjectStored, DataStored, Touch, databaseVars, Handler
  <2>2. databases' = databases
    BY <1>3 DEF BackupRequest, QueueBackup, SetPolicy, DeleteBackup, RestoreBackup, PutData,
       ObjectStored, DataStored, databaseVars
  <2>3. ASSUME NEW b \in Backup, NEW c, StillWaits(b, c) PROVE StillWaits(b, c)'
    BY <1>3, <2>3, RequestsSpareWaiting DEF StillWaits
  <2>4. ASSUME alarm.pc \in OperationCall \cup {"backups"}
        PROVE  \A e \in alarm.todo : e.id \in Backup
    BY <2>4 DEF Handler, BackupStage, BackupCall, BackupItem
  <2>5. alarm.pc = "op_create" => alarm.id \in Backup
    BY DEF Handler, BackupCall, OperationCall, Item, BackupItem
  <2> QED
    BY <2>1, <2>2, <2>3, <2>4, <2>5 DEF Waiting, StillWaits
<1>4. CASE Restart \/ End
  BY <1>4 DEF Restart, End, Idle, Waiting, OperationCall
<1>5. CASE Start
  <2> DEFINE todo == {[id |-> d, doc |-> databases[d]] : d \in {e \in Database : Stored(e)}}
  <2>1. \A e, f \in todo : e.id = f.id => e = f
    OBVIOUS
  <2>2. Continue("databases", todo)
    BY <1>5 DEF Start, Continue
  <2> HIDE DEF todo
  <2> QED
    BY <2>1, <2>2, ContinuedWaiting
<1>6. CASE DatabaseAlarm
  <2>1. ASSUME NEW e, NextDocument(e) PROVE Waiting'
    BY <2>1, ContinuedWaiting DEF NextDocument, Waiting
  <2>2. ASSUME NEW e \in alarm.todo, ReconcileCalls(e) PROVE Waiting'
    BY <2>2 DEF ReconcileCalls, Handler, Waiting, OperationCall
  <2>3. CASE StopJob
    BY <2>3 DEF StopJob, At, Waiting, OperationCall
  <2> QED
    BY <1>6, <2>1, <2>2, <2>3 DEF DatabaseAlarm, ReconcileOverdue, ReconcileFailed, Reconciled,
       ServerChanged, Removed, CallFails
<1>7. CASE ListOperations
  <2> DEFINE todo == {[id |-> b, doc |-> database_backups'[b]] :
                        b \in {c \in Backup : \/ database_backups'[c].status \in Operation
                                              \/ database_backups'[c].cleanup}}
  <2>1. Continue("backups", todo)
    BY <1>7 DEF ListOperations
  <2>2. \A e, f \in todo : e.id = f.id => e = f
    OBVIOUS
  <2>3. \A e \in todo : StillWaits(e.id, e.doc)'
    BY DEF StillWaits
  <2> HIDE DEF todo
  <2> QED
    BY <2>1, <2>2, <2>3, ContinuedWaiting
<1>8. CASE Retain
  <2> DEFINE todo == {[id |-> b, doc |-> database_backups'[b]] :
                        b \in {c \in Backup : database_backups'[c].status = "expiring"}}
  <2>1. Continue("expire", todo)
    BY <1>8 DEF Retain
  <2>2. \A e, f \in todo : e.id = f.id => e = f
    OBVIOUS
  <2> HIDE DEF todo
  <2> QED
    BY <2>1, <2>2, ContinuedWaiting
<1>9. ASSUME NEW e \in alarm.todo, OperationOverdue(e) \/ Begin(e) PROVE Waiting'
  <2> DEFINE rest == alarm.todo \ {e}
  <2>1. /\ alarm.pc = "backups" /\ e.id \in Backup /\ e.doc \in BackupDoc
        /\ \A f \in rest : f.id # e.id
        /\ \A f, g \in rest : f.id = g.id => f = g
        /\ StillWaits(e.id, e.doc)
    BY <1>9 DEF OperationOverdue, Begin, At, Handler, BackupStage, BackupItem, Waiting
  <2>2. (\E doc : Put(e.id, doc)) \/ UNCHANGED database_backups
    BY <1>9 DEF OperationOverdue, Begin
  <2>3. \A f \in rest : StillWaits(f.id, f.doc)'
    BY <2>1, <2>2, OthersWait
  <2>4. CASE Skip(e)
    BY <2>1, <2>3, <2>4, ContinuedWaiting DEF Skip
  <2>5. ASSUME NEW pc \in BackupCall, pc # "op_create", Take(e, pc) PROVE Waiting'
    BY <2>1, <2>3, <2>5 DEF Take, Waiting, Handler
  <2>6. CASE /\ Take(e, "op_create") /\ UNCHANGED <<database_backups, databases>>
             /\ e.doc.status = "provisioning" /\ ~Stored(e.doc.target)
    BY <2>1, <2>3, <2>6 DEF Take, Waiting, Handler, StillWaits, Stored
  <2> QED
    BY <1>9, <2>4, <2>5, <2>6 DEF OperationOverdue, Begin, BackupCall, OperationCall
<1>10. ASSUME CheckObject \/ CleanedUp \/ OperationFails \/ DestinationCreated \/ WatchJob
       PROVE  Waiting'
  <2>1. /\ alarm.pc \in OperationCall /\ alarm.id \in Backup
        /\ \A f \in alarm.todo : f.id # alarm.id
        /\ \A f, g \in alarm.todo : f.id = g.id => f = g
    BY <1>10 DEF CheckObject, CleanedUp, OperationFails, DestinationCreated, WatchJob, At, Stage,
       Handler, BackupCall, OperationCall, Item, BackupItem, Waiting
  <2>2. (\E doc : Put(alarm.id, doc)) \/ UNCHANGED database_backups
    BY <1>10 DEF CheckObject, CleanedUp, OperationFails, DestinationCreated, WatchJob
  <2>3. \A f \in alarm.todo : StillWaits(f.id, f.doc)'
    BY <2>1, <2>2, OthersWait
  <2>4. CASE Advance
    BY <2>1, <2>3, <2>4, ContinuedWaiting DEF Advance
  <2>5. CASE alarm' = [alarm EXCEPT !.pc = "op_head", !.doc = database_backups[alarm.id]]
    BY <2>1, <2>3, <2>5 DEF Waiting, Handler
  <2> QED
    BY <1>10, <2>4, <2>5 DEF CheckObject, CleanedUp, OperationFails, DestinationCreated, WatchJob
<1>11. CASE Sweep
  <2>1. /\ alarm' = [alarm EXCEPT !.pc = "op_swept"] /\ alarm.pc = "op_stop"
        /\ UNCHANGED <<databases, database_backups>>
    BY <1>11 DEF Sweep, Go, At
  <2> QED
    BY <2>1 DEF Waiting, StillWaits, Handler, OperationCall
<1>12. ASSUME NEW e \in alarm.todo, Expire(e) PROVE Waiting'
  BY <1>12 DEF Expire, Take, Waiting, Handler, OperationCall
<1>13. CASE DeleteObject
  BY <1>13 DEF DeleteObject, Go, Waiting, Handler, OperationCall
<1>14. CASE Expired \/ ExpireFails
  BY <1>14, ContinuedWaiting DEF Expired, ExpireFails, Waiting
<1> QED
  BY <1>1, <1>2, <1>3, <1>4, <1>5, <1>6, <1>7, <1>8, <1>9, <1>10, <1>11, <1>12, <1>13, <1>14
  DEF Next, AlarmStep, BackupAlarm
-----------------------------------------------------------------------------
(* The theorems.                                                           *)

LEMMA InitInv ==
  ASSUME Init PROVE IInv
<1>1. Documents
  BY FreshDocs, DatabasesAssumption DEF Init, DatabaseInit, Documents, NoUpload
<1>2. Handler
  <2>1. NoDatabase \in DatabaseDoc
    BY FreshDocs
  <2> QED
    BY <2>1 DEF Init, DatabaseInit, Handler, Idle, BackupStage, BackupCall, OperationCall
<1>3. Reservations
  BY DEF Init, DatabaseInit, Reservations, NoBackup, NoRetry
<1>4. Waiting
  BY DEF Init, DatabaseInit, Waiting, Idle, OperationCall
<1> QED
  BY <1>1, <1>2, <1>3, <1>4 DEF IInv

LEMMA Invariant == Spec => []IInv
<1>1. IInv /\ [Next]_vars => IInv'
  BY DocumentsKept, HandlerKept, ReservationsKept, WaitingKept DEF IInv
<1> QED
  BY <1>1, InitInv, PTL DEF Spec

\* Documents have the shape their handlers give them: what the alarm read before
\* its calls and saves after them is well formed, as is what a retry, a late dump or
\* a restart leaves behind (database.ts:230-340, backups.ts:73-441).
THEOREM TypeCorrect == Spec => []TypeOK
<1>1. IInv => TypeOK
  BY DEF IInv, Documents, TypeOK, DatabaseDoc, BackupDoc, BackupStatus
<1> QED
  BY <1>1, Invariant, PTL

\* An answer that comes after a removal was accepted does not undo it: it is saved
\* only if it is the answer of a removal itself.
LEMMA KeepSparesRemoved ==
  ASSUME Documents, NEW id, NEW doc, Keep(id, doc), NEW d \in Database,
         databases[d].status = "deleting", id = d /\ doc.phase = "delete" => doc.status = "deleting"
  PROVE  databases'[d].status = "deleting"
<1>1. databases[d].phase = "delete"
  BY DEF Documents, DatabaseDoc
<1> QED
  BY <1>1 DEF Keep, Superseded, Documents

LEMMA RemovalStep ==
  ASSUME IInv, Next, NEW d \in Database \ overtaken', databases[d].status = "deleting"
  PROVE  databases'[d].status \in {"deleting", "none"}
<1> USE DEF IInv
<1> DEFINE Held == databases'[d].status \in {"deleting", "none"}
<1>1. ASSUME NEW S \in SUBSET Service, CreateDatabase(S) PROVE Held
  <2>1. d # reserved + 1
    <3>1. d <= reserved
      BY DatabasesAssumption DEF Documents, Reservations, Database, NoDatabase
    <3> QED
      BY <3>1, DatabasesAssumption DEF Documents, Database
  <2> QED
    BY <1>1, <2>1 DEF CreateDatabase, Save, Documents
<1>2. ASSUME NEW e \in Database, RemoveDatabase(e) PROVE Held
  <2>1. [databases[e] EXCEPT !.status = "deleting", !.phase = "delete"].status = "deleting"
    BY DEF Documents, DatabaseDoc
  <2> QED
    BY <1>2, <2>1 DEF RemoveDatabase, Save, Documents
<1>3. CASE RetryQueued
  BY <1>3 DEF RetryQueued, Save, Documents
<1>4. ASSUME NEW e \in alarm.todo, ReconcileOverdue(e) \/ ReconcileFailed(e) PROVE Held
  <2>1. e.doc \in DatabaseDoc
    BY <1>4 DEF Handler, ReconcileOverdue, ReconcileFailed, At, DatabaseItem
  <2>2. Failed(e.doc).phase # "delete"
    BY <2>1, AlarmDocs
  <2> QED
    BY <1>4, <2>2, KeepSparesRemoved DEF ReconcileOverdue, ReconcileFailed
<1>5. CASE Reconciled \/ ServerChanged \/ CallFails
  <2>1. alarm.doc \in DatabaseDoc
    BY <1>5 DEF Handler, Reconciled, ServerChanged, CallFails, At, Item, DatabaseItem
  <2>2. /\ Failed(alarm.doc).phase # "delete" /\ Pending(alarm.doc).phase # "delete"
        /\ \A doc \in Outcomes(alarm.doc) : doc.phase # "delete"
        /\ alarm.doc.phase = "delete" => alarm.doc.status = "deleting"
    BY <2>1, AlarmDocs DEF DatabaseDoc
  <2>3. CASE Reconciled
    BY <2>2, <2>3, KeepSparesRemoved DEF Reconciled
  <2>4. CASE ServerChanged
    BY <2>2, <2>4, KeepSparesRemoved DEF ServerChanged
  <2>5. CASE CallFails
    BY <2>2, <2>5, KeepSparesRemoved DEF CallFails
  <2> QED
    BY <1>5, <2>3, <2>4, <2>5
<1>6. CASE Removed
  BY <1>6 DEF Removed, Save, Documents, NoDatabase
<1>7. CASE DestinationCreated
  <2>1. databases[alarm.doc.target].status # "deleting"
    BY <1>7 DEF DestinationCreated, At, Waiting
  <2> QED
    BY <1>7, <2>1 DEF DestinationCreated, Save, Documents
<1>8. CASE DatabaseRequest
  BY <1>8, <1>1, <1>2, <1>3
  DEF DatabaseRequest, AttachDatabase, DetachDatabase, RetryDatabase, RetryRefused
<1>9. CASE DatabaseAlarm \/ Start
  BY <1>9, <1>4, <1>5, <1>6 DEF DatabaseAlarm, ReconcileCalls, StopJob, Start
<1>10. CASE BackupRequest \/ Restart
  BY <1>10 DEF BackupRequest, QueueBackup, SetPolicy, DeleteBackup, RestoreBackup, PutData,
     ObjectStored, DataStored, Restart, databaseVars
<1>11. CASE BackupAlarm
  BY <1>11, <1>7 DEF BackupAlarm, ListOperations, OperationOverdue, Begin, Expire, WatchJob,
     CheckObject, Sweep, CleanedUp, OperationFails, Retain, DeleteObject, Expired, ExpireFails,
     End
<1> QED
  BY <1>8, <1>9, <1>10, <1>11 DEF Next, AlarmStep

\* A removal that was accepted is carried out, whatever answers, restores, restarts
\* and other requests come in between, unless a retry that began before it is
\* answered after it (database.ts:110-142, 305-307).
THEOREM RemovalIsKept == Spec => RemovalHolds
<1> DEFINE A == \A d \in Database \ overtaken' :
                  databases[d].status = "deleting" => databases'[d].status \in {"deleting", "none"}
<1>1. IInv /\ [Next]_vars => [A]_vars
  BY RemovalStep
<1> QED
  BY <1>1, Invariant, PTL DEF Spec, RemovalHolds
(***************************************************************************)
(* Copies, and the databases they are made of.                             *)
(***************************************************************************)

Dead == {"failed", "expiring", "expired"}

\* What identifies an operation is never changed.
SameOperation(b, c) ==
  /\ database_backups[b].kind = c.kind /\ database_backups[b].database = c.database
  /\ database_backups[b].source = c.source /\ database_backups[b].target = c.target

\* A copy has a database, and so has the destination of a restore.
Origins == \A b \in Backup :
  LET c == database_backups[b]
  IN  /\ c.kind = "none" => c.status = "none" /\ ~c.cleanup
      /\ c.kind # "none" => c.database # 0
      /\ c.kind = "restore" => c.target # 0
      /\ c.status = "running" => c.job
      /\ c.status = "queued" => c.kind = "backup"
      /\ c.status \in Operation => ~c.cleanup

\* Only a backup that was begun has a dump or receives one.
Dumps == \A b \in Backup :
  LET c == database_backups[b]
  IN  /\ uploads[b].pc = "none" => uploads[b] = NoUpload
      /\ uploads[b].pc # "none" => uploads[b].digest # 0
      /\ c.kind # "backup" \/ c.status \in {"none", "queued"}
           => artifacts[b] = 0 /\ uploads[b] = NoUpload

\* A dump that is there before its checksum is known was sent by a request which
\* was lost with the object.
Interruptions == \A b \in Backup :
  LET c == database_backups[b]
  IN  artifacts[b] # 0 =>
        /\ uploads[b].pc = "sending" => b \in interrupted
        /\ c.status = "running" /\ c.checksum = 0 /\ uploads[b] = NoUpload => b \in interrupted

CopyKept == \A b \in Backup :
  LET c == database_backups[b]
  IN  c.kind = "backup" /\ c.status = "succeeded" => c.checksum # 0 /\ artifacts[b] = c.checksum

\* An active restore protects the copy it reads.
SourceKept == \A b \in Active :
  LET c == database_backups[b]
      copy == database_backups[c.source]
  IN  c.kind = "restore" => /\ copy.kind = "backup" /\ copy.status = "succeeded"
                            /\ copy.checksum = c.checksum

\* What the alarm listed: operations, which only it carries on, and others that
\* are to be cleaned up.
Listed(b, c) ==
  LET now == database_backups[b]
  IN  /\ SameOperation(b, c) /\ c.kind # "none"
      /\ c.status \in Operation => ~c.cleanup /\ now.status = c.status
      /\ c.status \in {"queued", "provisioning"} => now = c
      /\ c.status \notin Operation =>
           c.cleanup /\ (now.status = c.status \/ now.status \in {"expiring", "expired"})

\* The operation that the alarm works on.
Works ==
  LET b   == alarm.id
      c   == alarm.doc
      now == database_backups[b]
  IN  /\ alarm.pc \in OperationCall => SameOperation(b, c)
      /\ alarm.pc = "op_create" => ~c.cleanup /\ now.status = "provisioning"
      /\ alarm.pc \in {"op_watch", "op_head"} => ~c.cleanup /\ now.status = "running"
      /\ alarm.pc \in {"op_stop", "op_swept"} => Listed(b, c) /\ c.status \notin Operation
      /\ alarm.pc = "op_swept" /\ c.kind = "backup" /\ c.status \in Dead /\ artifacts[b] # 0 =>
           b \in interrupted \/ uploads[b].pc = "stored" \/ alarm.touched

Expiring(b, c) == SameOperation(b, c) /\ database_backups[b].status = "expiring"

Lists ==
  /\ alarm.pc \in OperationCall \cup {"backups"} => \A e \in alarm.todo : Listed(e.id, e.doc)
  /\ alarm.pc \in {"expire", "expire_call", "expired"} =>
       \A e \in alarm.todo : Expiring(e.id, e.doc)
  /\ alarm.pc \in {"expire_call", "expired"} =>
       /\ Expiring(alarm.id, alarm.doc)
       /\ \A e \in alarm.todo : e.id # alarm.id

CopiesInv == /\ IInv /\ Origins /\ Dumps /\ Interruptions
             /\ CopyKept /\ SourceKept /\ Works /\ Lists
-----------------------------------------------------------------------------
(* What a step does to one backup or restore.                              *)

SameFields(n, c) ==
  n.kind = c.kind /\ n.database = c.database /\ n.source = c.source /\ n.target = c.target

Still(b)    == database_backups'[b] = database_backups[b]
DumpSame(b) == uploads'[b] = uploads[b] /\ artifacts'[b] = artifacts[b]

BeginsBackup(b) ==
  LET n == database_backups'[b]
  IN  /\ database_backups[b].kind = "none" /\ n.kind = "backup" /\ n.status = "queued"
      /\ ~n.cleanup /\ n.database \in Database /\ n.target = 0
      /\ Ready(databases[n.database]) /\ ~busy(n.database)
      /\ reserved' = reserved /\ \A a \in Backup : a # b => Still(a)

BeginsRestore(b) ==
  LET n    == database_backups'[b]
      copy == database_backups[n.source]
  IN  /\ database_backups[b].kind = "none" /\ n.kind = "restore" /\ n.status = "provisioning"
      /\ ~n.cleanup /\ n.source \in Backup
      /\ copy.kind = "backup" /\ copy.status = "succeeded" /\ n.checksum = copy.checksum
      /\ n.database = copy.database /\ ~busy(n.database)
      /\ n.target = reserved + 1 /\ reserved + 1 \in Database
      /\ \A a \in Backup : a # b => Still(a)

GivenUp(b) ==
  LET c == database_backups[b]
      n == database_backups'[b]
  IN  /\ c.kind = "backup" /\ b \notin Active /\ ~Restored(b)
      /\ SameFields(n, c) /\ n.status = "expiring" /\ n.cleanup = c.cleanup

Summed(b) ==
  LET c == database_backups[b]
      n == database_backups'[b]
  IN  /\ uploads[b].pc = "stored" /\ c.status = "running" /\ SameFields(n, c)
      /\ n.status = c.status /\ n.cleanup = c.cleanup /\ n.job = c.job
      /\ n.checksum = uploads[b].digest

LateFor(b) ==
  LET c == database_backups[b]
      n == database_backups'[b]
  IN  /\ uploads[b].pc = "stored" /\ c.status # "running" /\ SameFields(n, c)
      /\ n.status = c.status /\ n.cleanup /\ n.checksum = c.checksum
      /\ alarm.id = b /\ Stage({"op_stop", "op_swept"}) => alarm'.touched

Fails(b) ==
  LET c == database_backups[b]
      n == database_backups'[b]
  IN  /\ b \in Active /\ SameFields(n, c) /\ n.status = "failed" /\ n.cleanup = c.job

Runs(b) ==
  LET c == database_backups[b]
      n == database_backups'[b]
  IN  /\ c.status \in {"queued", "provisioning"} /\ SameFields(n, c)
      /\ n.status = "running" /\ n.checksum = c.checksum /\ n.job /\ ~n.cleanup

Succeeds(b) ==
  LET c == database_backups[b]
      n == database_backups'[b]
  IN  /\ c.status = "running" /\ SameFields(n, c) /\ n.status = "succeeded"
      /\ n.checksum # 0 /\ n.checksum = artifacts[Object(b, c)]

CleansUp(b) ==
  LET c == database_backups[b]
      n == database_backups'[b]
  IN  /\ alarm.pc = "op_swept" /\ alarm.id = b /\ ~alarm.touched /\ SameFields(n, c)
      /\ c.status \notin Operation
      /\ n.status = c.status /\ n.checksum = c.checksum /\ ~n.cleanup

Expires(b) ==
  LET c == database_backups[b]
      n == database_backups'[b]
  IN  /\ c.status = "expiring" /\ SameFields(n, c) /\ n.status = "expired"

\* What the alarm does to the operation it handles.
Handled(b) == Fails(b) \/ Runs(b) \/ Succeeds(b) \/ CleansUp(b) \/ Expires(b)

\* What requests do: a dump is sent, stored and recorded.
Sends(b) ==
  LET c == database_backups[b]
  IN  /\ uploads[b] = NoUpload /\ c.kind = "backup" /\ c.status = "running" /\ c.checksum = 0
      /\ uploads'[b].pc = "sending" /\ uploads'[b].digest # 0 /\ artifacts'[b] = artifacts[b]

Stores(b) ==
  /\ uploads[b].pc = "sending"
  /\ \/ /\ artifacts[b] = 0 /\ uploads'[b] = [pc |-> "stored", digest |-> uploads[b].digest]
     \/ /\ artifacts'[b] = artifacts[b] /\ artifacts[b] # 0
        /\ \/ uploads'[b] = [pc |-> "stored", digest |-> uploads[b].digest]
           \/ uploads'[b] = NoUpload

Ends(b) == uploads'[b] = NoUpload /\ artifacts'[b] = artifacts[b]

\* The object is lost, or the copy deleted.
Lost(b) == Ends(b) /\ (uploads[b] # NoUpload => b \in interrupted')

Emptied(b) ==
  /\ uploads'[b] = uploads[b] /\ artifacts'[b] = 0
  /\ database_backups[b].status \in Dead

Requests(b) ==
  \/ DumpSame(b) /\ (Still(b) \/ BeginsBackup(b) \/ BeginsRestore(b) \/ GivenUp(b))
  \/ Still(b) /\ (Sends(b) \/ Stores(b))
  \/ Ends(b) /\ (Summed(b) \/ LateFor(b)
                 \/ (Still(b) /\ database_backups[b].status = "succeeded"))

Changes(b) ==
  \/ Requests(b)
  \/ Still(b) /\ (Lost(b) \/ Emptied(b))
  \/ DumpSame(b) /\ Handled(b)

\* n is c with another status, checksum, and clean-up.
Edited(n, c, status, checksum, cleanup) ==
  SameFields(n, c) /\ n.status = status /\ n.checksum = checksum /\ n.cleanup = cleanup

LEMMA StatusEdited ==
  ASSUME NEW c \in BackupDoc, NEW x
  PROVE  Edited([c EXCEPT !.status = x], c, x, c.checksum, c.cleanup)
BY DEF BackupDoc, SameFields, Edited

LEMMA CleanupEdited ==
  ASSUME NEW c \in BackupDoc, NEW x
  PROVE  Edited([c EXCEPT !.cleanup = x], c, c.status, c.checksum, x)
BY DEF BackupDoc, SameFields, Edited

LEMMA ChecksumEdited ==
  ASSUME NEW c \in BackupDoc, NEW x
  PROVE  /\ Edited([c EXCEPT !.checksum = x], c, c.status, x, c.cleanup)
         /\ [c EXCEPT !.checksum = x].job = c.job
BY DEF BackupDoc, SameFields, Edited

LEMMA FailureEdited ==
  ASSUME NEW c \in BackupDoc, NEW x
  PROVE  Edited([c EXCEPT !.status = "failed", !.cleanup = x], c, "failed", c.checksum, x)
BY DEF BackupDoc, SameFields, Edited

LEMMA StartEdited ==
  ASSUME NEW c \in BackupDoc
  PROVE  /\ Edited([c EXCEPT !.status = "running", !.job = TRUE],
                   c, "running", c.checksum, c.cleanup)
         /\ [c EXCEPT !.status = "running", !.job = TRUE].job
BY DEF BackupDoc, SameFields, Edited

LEMMA SuccessEdited ==
  ASSUME NEW c \in BackupDoc, NEW x
  PROVE  Edited([c EXCEPT !.status = "succeeded", !.checksum = x, !.cleanup = TRUE],
                c, "succeeded", x, TRUE)
BY DEF BackupDoc, SameFields, Edited

\* A document is stored for one backup, the others are as they were.
LEMMA PutAt ==
  ASSUME Documents, NEW a \in Backup, NEW doc, Put(a, doc)
  PROVE  /\ database_backups'[a] = doc
         /\ \A b \in Backup : b # a => Still(b)
BY DEF Put, Documents, Still

LEMMA NewDocs ==
  /\ \A d \in Database :
       LET n == Queued(d)
       IN  /\ n.kind = "backup" /\ n.database = d /\ n.status = "queued" /\ ~n.cleanup
           /\ n.target = 0
  /\ \A c, b, t :
       LET n == [NoBackup EXCEPT !.kind = "restore", !.database = c.database,
                                 !.source = b, !.target = t,
                                 !.status = "provisioning", !.checksum = c.checksum]
       IN  /\ n.kind = "restore" /\ n.database = c.database /\ n.source = b /\ n.target = t
           /\ n.status = "provisioning" /\ n.checksum = c.checksum /\ ~n.cleanup
<1>1. NoBackup \in BackupDoc
  BY FreshDocs
<1>2. NoBackup.cleanup = FALSE /\ NoBackup.target = 0
  BY DEF NoBackup
<1> QED
  BY <1>1, <1>2 DEF Queued, BackupDoc

LEMMA QueuedBegins ==
  ASSUME Documents, NEW d \in Database, Queueable(d), Put(New, Queued(d)),
         UNCHANGED <<uploads, artifacts, reserved>>
  PROVE  \A b \in Backup : Requests(b)
<1>1. /\ New \in Backup /\ database_backups[New].kind = "none"
      /\ Ready(databases[d]) /\ ~busy(d)
  BY NewIsUnused DEF Queueable
<1>2. \A b \in Backup : DumpSame(b) /\ (b # New => Still(b))
  BY <1>1, PutAt DEF DumpSame
<1>3. database_backups'[New] = Queued(d)
  BY <1>1, PutAt
<1>4. BeginsBackup(New)
  BY <1>1, <1>2, <1>3, NewDocs DEF BeginsBackup
<1> QED
  BY <1>2, <1>4 DEF Requests

LEMMA RestoreBegins ==
  ASSUME Documents, NEW a \in Backup, RestoreBackup(a)
  PROVE  \A b \in Backup : Requests(b)
<1> DEFINE c == database_backups[a]
           r == [NoBackup EXCEPT !.kind = "restore", !.database = c.database,
                                 !.source = a, !.target = reserved + 1,
                                 !.status = "provisioning", !.checksum = c.checksum]
<1>1. /\ New \in Backup /\ database_backups[New].kind = "none" /\ Put(New, r)
      /\ c.kind = "backup" /\ c.status = "succeeded" /\ ~busy(c.database)
  BY NewIsUnused DEF RestoreBackup
<1>2. reserved + 1 \in Database
  BY DatabasesAssumption DEF RestoreBackup, Documents, Database
<1>3. /\ r.kind = "restore" /\ r.database = c.database /\ r.source = a
      /\ r.target = reserved + 1 /\ r.status = "provisioning" /\ r.checksum = c.checksum
      /\ ~r.cleanup
  BY NewDocs
<1>4. \A b \in Backup : DumpSame(b)
  BY DEF RestoreBackup, backupVars, DumpSame
<1> HIDE DEF r
<1>5. database_backups'[New] = r /\ \A b \in Backup : b # New => Still(b)
  BY <1>1, PutAt
<1>6. BeginsRestore(New)
  BY <1>1, <1>2, <1>3, <1>5 DEF BeginsRestore
<1> QED
  BY <1>4, <1>5, <1>6 DEF Requests

LEMMA DeletionGivesUp ==
  ASSUME Documents, NEW a \in Backup, DeleteBackup(a)
  PROVE  \A b \in Backup : Requests(b)
<1> DEFINE n == [database_backups[a] EXCEPT !.status = "expiring"]
<1>1. database_backups[a] \in BackupDoc
  BY DEF Documents
<1>2. SameFields(n, database_backups[a]) /\ n.status = "expiring"
      /\ n.cleanup = database_backups[a].cleanup
  BY <1>1, StatusEdited DEF Edited
<1>3. Put(a, n) /\ \A b \in Backup : DumpSame(b)
  BY DEF DeleteBackup, backupVars, DumpSame
<1> HIDE DEF n
<1>4. database_backups'[a] = n /\ \A b \in Backup : b # a => Still(b)
  BY <1>3, PutAt
<1>5. GivenUp(a)
  BY <1>2, <1>4 DEF GivenUp, DeleteBackup
<1> QED
  BY <1>3, <1>4, <1>5 DEF Requests

LEMMA DumpEnds ==
  ASSUME Documents, Handler, NEW a \in Backup, DataStored(a)
  PROVE  \A b \in Backup : Requests(b)
<1> DEFINE c == database_backups[a]
           x == uploads[a].digest
<1>1. c \in BackupDoc
  BY DEF Documents
<1>2. /\ uploads[a].pc = "stored" /\ Ends(a)
      /\ \A b \in Backup : b # a => DumpSame(b)
  BY DEF DataStored, Ends, DumpSame, Documents
<1>3. CASE c.status = "running" /\ Put(a, [c EXCEPT !.checksum = x])
  <2>1. database_backups'[a] = [c EXCEPT !.checksum = x] /\ \A b \in Backup : b # a => Still(b)
    BY <1>3, PutAt
  <2>2. Summed(a)
    BY <1>1, <1>2, <1>3, <2>1, ChecksumEdited DEF Summed, Edited
  <2> QED
    BY <1>2, <2>1, <2>2 DEF Requests
<1>4. CASE c.status = "succeeded" /\ UNCHANGED database_backups
  BY <1>2, <1>4 DEF Requests, Still
<1>5. CASE c.status # "running" /\ Put(a, Late(c)) /\ Touch(a)
  <2>1. database_backups'[a] = Late(c) /\ \A b \in Backup : b # a => Still(b)
    BY <1>5, PutAt
  <2>2. /\ SameFields(Late(c), c) /\ Late(c).status = c.status /\ Late(c).cleanup = TRUE
        /\ Late(c).checksum = c.checksum
    BY <1>1, CleanupEdited DEF Late, Edited
  <2> QED
    <3>1. LateFor(a)
      <4>2. alarm.id = a /\ Stage({"op_stop", "op_swept"}) => alarm'.touched
        BY <1>5 DEF Touch, Handler
      <4> QED
        BY <1>2, <1>5, <2>1, <2>2, <4>2 DEF LateFor
    <3> QED
      BY <1>2, <2>1, <3>1 DEF Requests
<1> QED
  BY <1>3, <1>4, <1>5 DEF DataStored

LEMMA RequestsOf ==
  ASSUME Documents, Handler, BackupRequest
  PROVE  \A b \in Backup : Requests(b)
<1>1. ASSUME NEW a \in Backup, NEW digest \in Digest, PutData(a, digest)
      PROVE  \A b \in Backup : Requests(b)
  <2>1. digest # 0
    BY BackupsAssumption
  <2>2. Sends(a) /\ \A b \in Backup : Still(b) /\ (b # a => DumpSame(b))
    BY <1>1, <2>1 DEF PutData, Sends, Still, DumpSame, databaseVars, Documents
  <2> QED
    BY <2>2 DEF Requests
<1>2. ASSUME NEW a \in Backup, ObjectStored(a)
      PROVE  \A b \in Backup : Requests(b)
  <2>1. \A b \in Backup : Still(b) /\ (b # a => DumpSame(b))
    BY <1>2 DEF ObjectStored, Still, DumpSame, databaseVars, Documents
  <2>2. /\ uploads[a].pc = "sending"
        /\ artifacts'[a] = StoredAs(a, uploads[a].digest)
        /\ uploads'[a] = IF artifacts'[a] = uploads[a].digest
                         THEN [uploads[a] EXCEPT !.pc = "stored"] ELSE NoUpload
    BY <1>2 DEF ObjectStored, Documents
  <2>3. [uploads[a] EXCEPT !.pc = "stored"] = [pc |-> "stored", digest |-> uploads[a].digest]
    <3>1. uploads[a] \in [pc : {"none", "sending", "stored"}, digest : Digest \cup {0}]
      BY DEF Documents
    <3> QED
      BY <3>1
  <2>4. Stores(a)
    BY <2>2, <2>3 DEF Stores, StoredAs
  <2> QED
    BY <2>1, <2>4 DEF Requests
<1>3. ASSUME NEW d \in Database, QueueBackup(d)
      PROVE  \A b \in Backup : Requests(b)
  BY <1>3, QueuedBegins DEF QueueBackup, serverVars, backupVars
<1>4. ASSUME NEW d \in Database, SetPolicy(d)
      PROVE  \A b \in Backup : Requests(b)
  BY <1>4 DEF SetPolicy, backupVars, Requests, Still, DumpSame
<1> QED
  BY <1>1, <1>2, <1>3, <1>4, RestoreBegins, DeletionGivesUp, DumpEnds DEF BackupRequest

\* What requests leave of the alarm.
LEMMA RequestsSpareAlarm ==
  ASSUME Handler, BackupRequest
  PROVE  /\ alarm'.pc = alarm.pc /\ alarm'.todo = alarm.todo
         /\ alarm'.id = alarm.id /\ alarm'.doc = alarm.doc
         /\ alarm.touched => alarm'.touched
         /\ interrupted' = interrupted
BY DEF BackupRequest, QueueBackup, SetPolicy, DeleteBackup, RestoreBackup, PutData,
   ObjectStored, DataStored, Touch, databaseVars, backupVars, Handler

LEMMA RestartLoses ==
  ASSUME Restart, NEW b \in Backup
  PROVE  Still(b) /\ Lost(b) /\ interrupted \subseteq interrupted'
BY DEF Restart, Still, Lost, Ends

LEMMA DatabasesSpareBackups ==
  ASSUME UNCHANGED vars \/ ((DatabaseRequest \/ Start \/ DatabaseAlarm) /\ UNCHANGED backupVars)
  PROVE  UNCHANGED <<database_backups, artifacts, uploads, interrupted>>
BY DEF DatabaseRequest, CreateDatabase, AttachDatabase, DetachDatabase, RetryDatabase,
   RetryQueued, RetryRefused, RemoveDatabase, Start, DatabaseAlarm, ReconcileOverdue,
   ReconcileFailed, ReconcileCalls, Reconciled, ServerChanged, StopJob, Removed, CallFails,
   records, vars, databaseVars, backupVars
-----------------------------------------------------------------------------
(* What the alarm does to backups and restores.                            *)

\* The operations that the alarm holds are documents of backups.
LEMMA HeldOperation ==
  ASSUME Handler, alarm.pc \in BackupCall
  PROVE  /\ alarm.id \in Backup /\ alarm.doc \in BackupDoc
         /\ \A e \in alarm.todo : e.id \in Backup /\ e.doc \in BackupDoc
BY DEF Handler, BackupStage, BackupCall, OperationCall, Item, BackupItem

LEMMA ListedOperations ==
  ASSUME Handler, alarm.pc \in BackupStage
  PROVE  \A e \in alarm.todo : e.id \in Backup /\ e.doc \in BackupDoc
BY DEF Handler, BackupStage, BackupItem

LEMMA FailureFails ==
  ASSUME Documents, NEW a \in Active, Put(a, FailedBackup(a))
  PROVE  Fails(a) /\ \A b \in Backup : b # a => Still(b)
<1>1. a \in Backup /\ database_backups[a] \in BackupDoc
  BY DEF Active, Documents
<1>2. /\ database_backups'[a] = FailedBackup(a)
      /\ \A b \in Backup : b # a => Still(b)
  BY <1>1, PutAt
<1>3. Edited(FailedBackup(a), database_backups[a], "failed", database_backups[a].checksum,
             database_backups[a].job)
  BY <1>1, FailureEdited DEF FailedBackup
<1> QED
  BY <1>2, <1>3 DEF Fails, Edited

\* An operation that fails is one in progress.
LEMMA OverdueFails ==
  ASSUME CopiesInv, NEW e \in alarm.todo, OperationOverdue(e)
  PROVE  /\ e.id \in Backup /\ DumpSame(e.id) /\ Fails(e.id)
         /\ \A b \in Backup : b # e.id => Still(b) /\ DumpSame(b)
<1>1. e.id \in Backup /\ Listed(e.id, e.doc) /\ ~e.doc.cleanup
  BY ListedOperations
  DEF OperationOverdue, At, BackupStage, CopiesInv, IInv, Lists
<1>2. e.id \in Active
  BY <1>1 DEF Listed, Active
<1> QED
  BY <1>1, <1>2, FailureFails DEF OperationOverdue, backupVars, DumpSame, CopiesInv, IInv

LEMMA WorkFails ==
  ASSUME CopiesInv, OperationFails
  PROVE  /\ alarm.id \in Backup /\ DumpSame(alarm.id)
         /\ Still(alarm.id) \/ Fails(alarm.id)
         /\ \A b \in Backup : b # alarm.id => Still(b) /\ DumpSame(b)
<1>1. alarm.id \in Backup
  BY HeldOperation DEF OperationFails, Stage, BackupCall, OperationCall, CopiesInv, IInv
<1>2. \A b \in Backup : DumpSame(b)
  BY DEF OperationFails, backupVars, DumpSame
<1>3. CASE UNCHANGED database_backups
  BY <1>1, <1>2, <1>3 DEF Still
<1>4. CASE ~alarm.doc.cleanup /\ Put(alarm.id, FailedBackup(alarm.id))
  <2>1. alarm.id \in Active
    BY <1>1, <1>4 DEF OperationFails, Stage, CopiesInv, Works, Listed, Active, Operation
  <2> QED
    BY <1>1, <1>2, <1>4, <2>1, FailureFails DEF CopiesInv, IInv
<1> QED
  BY <1>3, <1>4 DEF OperationFails

LEMMA BeginRuns ==
  ASSUME CopiesInv, NEW e \in alarm.todo, Begin(e)
  PROVE  /\ e.id \in Backup /\ DumpSame(e.id) /\ Listed(e.id, e.doc)
         /\ \/ Skip(e) /\ (Still(e.id) \/ Fails(e.id))
            \/ Take(e, "op_stop") /\ Still(e.id) /\ e.doc.cleanup
            \/ /\ Take(e, "op_create") /\ Still(e.id)
               /\ ~e.doc.cleanup /\ e.doc.status = "provisioning"
               /\ ~Stored(e.doc.target)
            \/ /\ Take(e, "op_watch") /\ ~e.doc.cleanup
               /\ Runs(e.id) \/ (Still(e.id) /\ e.doc.status = "running")
         /\ \A b \in Backup : b # e.id => Still(b) /\ DumpSame(b)
<1>1. e.id \in Backup /\ e.doc \in BackupDoc /\ Listed(e.id, e.doc)
  BY ListedOperations DEF Begin, At, BackupStage, CopiesInv, IInv, Lists
<1>2. \A b \in Backup : DumpSame(b)
  BY DEF Begin, backupVars, DumpSame
<1>3. ASSUME UNCHANGED database_backups PROVE \A b \in Backup : Still(b)
  BY <1>3 DEF Still
<1>4. CASE Skip(e) /\ Put(e.id, FailedBackup(e.id)) /\ ~e.doc.cleanup
  <2>1. e.id \in Active
    BY <1>1, <1>4 DEF Listed, Active
  <2> QED
    BY <1>1, <1>2, <1>4, <2>1, FailureFails DEF CopiesInv, IInv
<1>5. CASE /\ ~e.doc.cleanup /\ e.doc.status \in {"provisioning", "queued"}
           /\ Put(e.id, [e.doc EXCEPT !.status = "running", !.job = TRUE])
           /\ Take(e, "op_watch")
  <2> DEFINE n == [e.doc EXCEPT !.status = "running", !.job = TRUE]
  <2>1. database_backups[e.id] = e.doc
    BY <1>1, <1>5 DEF Listed
  <2>2. Edited(n, e.doc, "running", e.doc.checksum, e.doc.cleanup) /\ n.job
    BY <1>1, StartEdited
  <2>3. Put(e.id, n)
    BY <1>5
  <2> HIDE DEF n
  <2>4. database_backups'[e.id] = n /\ \A b \in Backup : b # e.id => Still(b)
    BY <1>1, <2>3, PutAt DEF CopiesInv, IInv
  <2>5. Runs(e.id)
    BY <1>5, <2>1, <2>2, <2>4 DEF Runs, Edited
  <2> QED
    BY <1>1, <1>2, <1>5, <2>4, <2>5
<1> QED
  BY <1>1, <1>2, <1>3, <1>4, <1>5 DEF Begin

LEMMA CheckEnds ==
  ASSUME CopiesInv, CheckObject
  PROVE  /\ alarm.id \in Backup /\ DumpSame(alarm.id)
         /\ Succeeds(alarm.id) \/ Fails(alarm.id)
         /\ \A b \in Backup : b # alarm.id => Still(b) /\ DumpSame(b)
<1> DEFINE b == alarm.id
           c == alarm.doc
           digest == artifacts[Object(b, c)]
           n == [c EXCEPT !.status = "succeeded", !.checksum = digest, !.cleanup = TRUE]
<1>1. b \in Backup /\ c \in BackupDoc
  BY HeldOperation DEF CheckObject, At, BackupCall, OperationCall, CopiesInv, IInv
<1>2. database_backups[b].status = "running" /\ SameOperation(b, c) /\ b \in Active
  BY <1>1 DEF CheckObject, At, CopiesInv, Works, OperationCall, Active, Operation
<1>3. \A a \in Backup : DumpSame(a)
  BY DEF CheckObject, backupVars, DumpSame
<1>4. CASE Put(b, FailedBackup(b))
  BY <1>1, <1>2, <1>3, <1>4, FailureFails DEF CopiesInv, IInv
<1>5. CASE digest # 0 /\ Put(b, n)
  <2>1. Edited(n, c, "succeeded", digest, TRUE)
    BY <1>1, SuccessEdited
  <2>2. digest = artifacts[Object(b, database_backups[b])]
    BY <1>2 DEF Object, SameOperation
  <2>3. Put(b, n) /\ digest # 0
    BY <1>5
  <2> HIDE DEF n, digest
  <2>4. database_backups'[b] = n /\ \A a \in Backup : a # b => Still(a)
    BY <1>1, <2>3, PutAt DEF CopiesInv, IInv
  <2>5. Succeeds(b)
    BY <1>2, <2>1, <2>2, <2>3, <2>4 DEF Succeeds, Edited, SameFields, SameOperation
  <2> QED
    BY <1>1, <1>3, <2>4, <2>5
<1>6. \/ Put(b, FailedBackup(b))
      \/ digest # 0 /\ Put(b, n)
  BY DEF CheckObject, Verified
<1> QED
  BY <1>4, <1>5, <1>6

LEMMA CleanUpEnds ==
  ASSUME CopiesInv, CleanedUp
  PROVE  /\ alarm.id \in Backup /\ DumpSame(alarm.id)
         /\ Still(alarm.id) \/ CleansUp(alarm.id)
         /\ \A b \in Backup : b # alarm.id => Still(b) /\ DumpSame(b)
<1> DEFINE b == alarm.id
<1>1. b \in Backup /\ database_backups[b] \in BackupDoc
  BY HeldOperation DEF CleanedUp, At, BackupCall, OperationCall, CopiesInv, IInv, Documents
<1>2. \A a \in Backup : DumpSame(a)
  BY DEF CleanedUp, backupVars, DumpSame
<1>3. database_backups'[b] = Swept(b) /\ \A a \in Backup : a # b => Still(a)
  BY <1>1, PutAt DEF CleanedUp, CopiesInv, IInv
<1>4. CASE alarm.touched
  BY <1>1, <1>2, <1>3, <1>4 DEF Swept, Still
<1>5. CASE ~alarm.touched
  <2>1. Edited(Swept(b), database_backups[b], database_backups[b].status,
               database_backups[b].checksum, FALSE)
    BY <1>1, <1>5, CleanupEdited DEF Swept
  <2>2. database_backups[b].status \notin Operation
    BY DEF CleanedUp, At, CopiesInv, Works, Listed, Operation
  <2>3. CleansUp(b)
    BY <1>3, <1>5, <2>1, <2>2 DEF CleansUp, Edited, CleanedUp, At
  <2> QED
    BY <1>1, <1>2, <1>3, <2>3
<1> QED
  BY <1>4, <1>5

LEMMA ExpiryExpires ==
  ASSUME CopiesInv, Expired
  PROVE  /\ alarm.id \in Backup /\ DumpSame(alarm.id) /\ Expires(alarm.id)
         /\ \A b \in Backup : b # alarm.id => Still(b) /\ DumpSame(b)
<1> DEFINE b == alarm.id
           n == [alarm.doc EXCEPT !.status = "expired"]
<1>1. b \in Backup /\ alarm.doc \in BackupDoc
  BY HeldOperation DEF Expired, At, BackupCall, CopiesInv, IInv
<1>2. \A a \in Backup : DumpSame(a)
  BY DEF Expired, backupVars, DumpSame
<1>3. Expiring(b, alarm.doc)
  BY DEF Expired, At, CopiesInv, Lists
<1>4. Edited(n, alarm.doc, "expired", alarm.doc.checksum, alarm.doc.cleanup)
  BY <1>1, StatusEdited
<1>5. Put(b, n)
  BY DEF Expired
<1> HIDE DEF n
<1>6. database_backups'[b] = n /\ \A a \in Backup : a # b => Still(a)
  BY <1>1, <1>5, PutAt DEF CopiesInv, IInv
<1>7. Expires(b)
  BY <1>3, <1>4, <1>6 DEF Expires, Expiring, Edited, SameFields, SameOperation
<1> QED
  BY <1>1, <1>2, <1>6, <1>7

LEMMA RetentionGivesUp ==
  ASSUME CopiesInv, Retain, NEW b \in Backup
  PROVE  DumpSame(b) /\ (Still(b) \/ GivenUp(b))
<1>1. DumpSame(b)
  BY DEF Retain, backupVars, DumpSame
<1>2. CASE ~Given(b)
  BY <1>1, <1>2 DEF Retain, Still
<1>3. CASE Given(b)
  <2>1. /\ database_backups[b].kind = "backup" /\ database_backups[b].status = "succeeded"
        /\ ~Restored(b)
    BY <1>3 DEF Given, Surplus, Copies
  <2>2. database_backups'[b] = [database_backups[b] EXCEPT !.status = "expiring"]
    BY <1>3 DEF Retain
  <2>3. database_backups[b] \in BackupDoc
    BY DEF CopiesInv, IInv, Documents
  <2>4. Edited(database_backups'[b], database_backups[b], "expiring",
               database_backups[b].checksum, database_backups[b].cleanup)
    BY <2>2, <2>3, StatusEdited
  <2>5. b \notin Active
    BY <2>1 DEF Active, Operation
  <2> QED
    BY <1>1, <2>1, <2>4, <2>5 DEF GivenUp, Edited
<1> QED
  BY <1>2, <1>3

LEMMA SweepEmpties ==
  ASSUME CopiesInv, Sweep \/ DeleteObject
  PROVE  /\ alarm.id \in Backup /\ Still(alarm.id)
         /\ DumpSame(alarm.id) \/ Emptied(alarm.id)
         /\ Sweep /\ alarm.doc.kind = "backup" /\ alarm.doc.status \in Dead => artifacts'[alarm.id] = 0
         /\ \A b \in Backup : b # alarm.id => Still(b) /\ DumpSame(b)
<1> DEFINE b == alarm.id
<1>1. b \in Backup /\ alarm.doc \in BackupDoc
  BY HeldOperation DEF Sweep, DeleteObject, At, BackupCall, OperationCall, CopiesInv, IInv
<1>2. /\ \A a \in Backup : Still(a) /\ (a # b => DumpSame(a))
      /\ uploads' = uploads
  BY DEF Sweep, DeleteObject, Still, DumpSame, CopiesInv, IInv, Documents
<1>3. CASE DeleteObject
  <2>1. artifacts'[b] = 0
    BY <1>1, <1>3 DEF DeleteObject, CopiesInv, IInv, Documents
  <2>2. database_backups[b].status \in Dead
    BY <1>3 DEF DeleteObject, At, CopiesInv, Lists, Expiring, Dead
  <2>3. ~Sweep
    BY <1>3 DEF DeleteObject, Sweep, At
  <2> QED
    BY <1>1, <1>2, <2>1, <2>2, <2>3 DEF Emptied
<1>4. CASE Sweep
  <2>1. alarm.pc = "op_stop" /\ Listed(b, alarm.doc) /\ alarm.doc.status \notin Operation
    BY <1>4 DEF Sweep, At, CopiesInv, Works
  <2>2. CASE alarm.doc.kind = "backup" /\ alarm.doc.status \in Dead
    <3>1. artifacts'[b] = 0
      BY <1>1, <1>4, <2>2 DEF Sweep, CopiesInv, IInv, Documents, Dead
    <3>2. database_backups[b].status \in Dead
      BY <2>1, <2>2 DEF Listed, Dead
    <3> QED
      BY <1>1, <1>2, <3>1, <3>2 DEF Emptied
  <2>3. CASE ~(alarm.doc.kind = "backup" /\ alarm.doc.status \in Dead)
    <3>1. artifacts' = artifacts
      BY <1>4, <2>3 DEF Sweep, Dead
    <3> QED
      BY <1>1, <1>2, <2>3, <3>1 DEF DumpSame
  <2> QED
    BY <2>2, <2>3
<1> QED
  BY <1>3, <1>4

LEMMA ListingQueues ==
  ASSUME CopiesInv, ListOperations, NEW b \in Backup
  PROVE  DumpSame(b) /\ (Still(b) \/ BeginsBackup(b)) /\ Requests(b)
<1>1. UNCHANGED <<uploads, artifacts, reserved>>
  BY DEF ListOperations, backupVars, serverVars
<1>2. CASE UNCHANGED database_backups
  BY <1>1, <1>2 DEF Still, DumpSame, Requests
<1>3. ASSUME NEW d \in Database, Queueable(d), Put(New, Queued(d))
      PROVE  DumpSame(b) /\ (Still(b) \/ BeginsBackup(b)) /\ Requests(b)
  <2>1. /\ New \in Backup /\ database_backups[New].kind = "none"
        /\ Ready(databases[d]) /\ ~busy(d)
    BY <1>3, NewIsUnused DEF Queueable
  <2>2. DumpSame(b)
    BY <1>1 DEF DumpSame
  <2>3. database_backups'[New] = Queued(d) /\ \A a \in Backup : a # New => Still(a)
    BY <1>3, <2>1, PutAt DEF CopiesInv, IInv
  <2>4. BeginsBackup(New)
    BY <1>1, <2>1, <2>3, NewDocs DEF BeginsBackup
  <2> QED
    BY <2>2, <2>3, <2>4 DEF Requests
<1> QED
  BY <1>2, <1>3 DEF ListOperations

\* No step does anything else to a backup or restore.
LEMMA ChangesOf ==
  ASSUME CopiesInv, [Next]_vars, NEW b \in Backup
  PROVE  Changes(b) /\ interrupted \subseteq interrupted'
<1> DEFINE Changed == Changes(b) /\ interrupted \subseteq interrupted'
<1>1. ASSUME UNCHANGED <<database_backups, artifacts, uploads, interrupted>> PROVE Changed
  BY <1>1 DEF Changes, Requests, Still, DumpSame
<1>2. CASE BackupRequest
  BY <1>2, RequestsOf, RequestsSpareAlarm DEF Changes, CopiesInv, IInv
<1>3. CASE Restart
  BY <1>3, RestartLoses DEF Changes
<1>4. CASE BackupAlarm
  <2>1. interrupted' = interrupted
    BY <1>4 DEF BackupAlarm, ListOperations, OperationOverdue, Begin, Expire,
       DestinationCreated, WatchJob, CheckObject, Sweep, CleanedUp, OperationFails, Retain,
       DeleteObject, Expired, ExpireFails, End, backupVars
  <2>2. ASSUME NEW a \in Backup, \A x \in Backup : x # a => Still(x) /\ DumpSame(x),
               Still(a) \/ Handled(a), DumpSame(a)
        PROVE  Changed
    <3>1. CASE b = a
      BY <2>1, <2>2, <3>1 DEF Changes, Requests
    <3>2. CASE b # a
      BY <2>1, <2>2, <3>2 DEF Changes, Requests
    <3> QED
      BY <3>1, <3>2
  <2>3. CASE ListOperations
    BY <2>1, <2>3, ListingQueues DEF Changes
  <2>4. ASSUME NEW e \in alarm.todo, OperationOverdue(e) PROVE Changed
    BY <2>2, <2>4, OverdueFails DEF Handled
  <2>5. ASSUME NEW e \in alarm.todo, Begin(e) PROVE Changed
    <3>1. /\ e.id \in Backup /\ DumpSame(e.id) /\ (Still(e.id) \/ Fails(e.id) \/ Runs(e.id))
          /\ \A x \in Backup : x # e.id => Still(x) /\ DumpSame(x)
      BY <2>5, BeginRuns
    <3> QED
      BY <2>2, <3>1 DEF Handled
  <2>6. CASE OperationFails
    BY <2>2, <2>6, WorkFails DEF Handled
  <2>7. CASE CheckObject
    BY <2>2, <2>7, CheckEnds DEF Handled
  <2>8. CASE CleanedUp
    BY <2>2, <2>8, CleanUpEnds DEF Handled
  <2>9. CASE Expired
    BY <2>2, <2>9, ExpiryExpires DEF Handled
  <2>10. CASE Retain
    BY <2>1, <2>10, RetentionGivesUp DEF Changes, Requests
  <2>11. CASE Sweep \/ DeleteObject
    <3>1. CASE b = alarm.id
      BY <2>1, <2>11, <3>1, SweepEmpties DEF Changes, Requests
    <3>2. CASE b # alarm.id
      BY <2>1, <2>11, <3>2, SweepEmpties DEF Changes, Requests
    <3> QED
      BY <3>1, <3>2
  <2>12. ASSUME \/ \E e \in alarm.todo : Expire(e)
                \/ DestinationCreated \/ WatchJob \/ ExpireFails \/ End
         PROVE  Changed
    BY <1>1, <2>12 DEF Expire, DestinationCreated, WatchJob, ExpireFails, End, backupVars
  <2> QED
    BY <1>4, <2>3, <2>4, <2>5, <2>6, <2>7, <2>8, <2>9, <2>10, <2>11, <2>12 DEF BackupAlarm
<1>5. CASE UNCHANGED vars \/ ((DatabaseRequest \/ Start \/ DatabaseAlarm) /\ UNCHANGED backupVars)
  BY <1>1, <1>5, DatabasesSpareBackups
<1> QED
  BY <1>2, <1>3, <1>4, <1>5 DEF Next, AlarmStep
-----------------------------------------------------------------------------
(* Backups, their dumps and their copies.                                  *)

\* A restore has no dump of its own, nor has a backup before it runs.
LEMMA DumpOfBackup ==
  ASSUME CopiesInv, NEW b \in Backup, uploads[b] # NoUpload \/ uploads[b].pc # "none"
                                      \/ artifacts[b] # 0
  PROVE  /\ database_backups[b].kind = "backup"
         /\ database_backups[b].status \notin {"none", "queued", "provisioning"}
<1>1. database_backups[b] \in BackupDoc
  BY DEF CopiesInv, IInv, Documents
<1>2. NoUpload.pc = "none"
  BY DEF NoUpload
<1> QED
  BY <1>1, <1>2 DEF CopiesInv, Dumps, BackupDoc

\* Operations only begin as new ones.
LEMMA ActiveBefore ==
  ASSUME CopiesInv, [Next]_vars, NEW b \in Backup, database_backups'[b].status \in Operation
  PROVE  \/ DumpSame(b) /\ (BeginsBackup(b) \/ BeginsRestore(b))
         \/ /\ b \in Active /\ SameFields(database_backups'[b], database_backups[b])
            /\ database_backups[b].kind # "backup" =>
                 database_backups'[b].checksum = database_backups[b].checksum
<1>1. Changes(b)
  BY ChangesOf
<1>2. SameFields(database_backups[b], database_backups[b])
  BY DEF SameFields
<1>3. CASE Still(b)
  BY <1>2, <1>3 DEF Still, Active
<1>4. CASE DumpSame(b) /\ Handled(b)
  BY <1>4 DEF Handled, Fails, Runs, Succeeds, CleansUp, Expires, Active, Operation
<1>5. CASE Summed(b) \/ LateFor(b)
  BY <1>5, DumpOfBackup DEF Summed, LateFor, Active, Operation
<1>6. CASE GivenUp(b)
  BY <1>6 DEF GivenUp, Operation
<1> QED
  BY <1>1, <1>3, <1>4, <1>5, <1>6 DEF Changes, Requests

LEMMA OriginsKept ==
  ASSUME CopiesInv, [Next]_vars PROVE Origins'
<1> SUFFICES ASSUME NEW b \in Backup
             PROVE  LET n == database_backups'[b]
                    IN  /\ n.kind = "none" => n.status = "none" /\ ~n.cleanup
                        /\ n.kind # "none" => n.database # 0
                        /\ n.kind = "restore" => n.target # 0
                        /\ n.status = "running" => n.job
                        /\ n.status = "queued" => n.kind = "backup"
                        /\ n.status \in Operation => ~n.cleanup
  BY DEF Origins
<1> DEFINE c == database_backups[b]
           n == database_backups'[b]
<1>1. Changes(b)
  BY ChangesOf
<1>2. /\ c.kind = "none" => c.status = "none" /\ ~c.cleanup
      /\ c.kind # "none" => c.database # 0
      /\ c.kind = "restore" => c.target # 0
      /\ c.status = "running" => c.job
      /\ c.status = "queued" => c.kind = "backup"
      /\ c.status \in Operation => ~c.cleanup
  BY DEF CopiesInv, Origins
<1>3. CASE Still(b)
  BY <1>2, <1>3 DEF Still
<1>4. CASE Handled(b)
  BY <1>2, <1>4 DEF Handled, Fails, Runs, Succeeds, CleansUp, Expires, SameFields, Active, Operation
<1>5. CASE Summed(b)
  BY <1>2, <1>5 DEF Summed, SameFields
<1>6. CASE LateFor(b)
  BY <1>2, <1>6, DumpOfBackup DEF LateFor, SameFields, Operation
<1>7. CASE GivenUp(b)
  BY <1>2, <1>7 DEF GivenUp, SameFields, Operation
<1>8. CASE BeginsBackup(b)
  BY <1>8, DatabasesAssumption DEF BeginsBackup, Database
<1>9. CASE BeginsRestore(b)
  <2>1. n.database = database_backups[n.source].database /\ n.source \in Backup
        /\ database_backups[n.source].kind = "backup"
    BY <1>9 DEF BeginsRestore
  <2>2. n.database # 0
    BY <2>1 DEF CopiesInv, Origins
  <2> QED
    BY <1>9, <2>2, DatabasesAssumption DEF BeginsRestore, Database
<1> QED
  BY <1>1, <1>3, <1>4, <1>5, <1>6, <1>7, <1>8, <1>9 DEF Changes, Requests

LEMMA DumpsKept ==
  ASSUME CopiesInv, [Next]_vars PROVE Dumps'
<1> SUFFICES ASSUME NEW b \in Backup
             PROVE  LET n == database_backups'[b]
                    IN  /\ uploads'[b].pc = "none" => uploads'[b] = NoUpload
                        /\ uploads'[b].pc # "none" => uploads'[b].digest # 0
                        /\ n.kind # "backup" \/ n.status \in {"none", "queued"}
                             => artifacts'[b] = 0 /\ uploads'[b] = NoUpload
  BY DEF Dumps
<1> DEFINE c == database_backups[b]
           n == database_backups'[b]
<1>1. Changes(b)
  BY ChangesOf
<1>2. /\ uploads[b].pc = "none" => uploads[b] = NoUpload
      /\ uploads[b].pc # "none" => uploads[b].digest # 0
      /\ c.kind # "backup" \/ c.status \in {"none", "queued"}
           => artifacts[b] = 0 /\ uploads[b] = NoUpload
  BY DEF CopiesInv, Dumps
<1>3. NoUpload.pc = "none"
  BY DEF NoUpload
<1>4. CASE DumpSame(b)
  <2>1. n.kind # "backup" \/ n.status \in {"none", "queued"}
          => c.kind # "backup" \/ c.status \in {"none", "queued"}
    BY <1>1, <1>4 DEF Changes, Requests, Still, Handled, Fails, Runs, Succeeds, CleansUp, Expires,
       Summed, LateFor, GivenUp, BeginsBackup, BeginsRestore, SameFields
  <2> QED
    BY <1>2, <1>4, <2>1 DEF DumpSame
<1>5. CASE Still(b) /\ Sends(b)
  BY <1>3, <1>5 DEF Sends, Still
<1>6. CASE Still(b) /\ Stores(b)
  <2>1. /\ uploads[b].pc # "none" /\ uploads[b].digest # 0
        /\ c.kind = "backup" /\ c.status \notin {"none", "queued"}
    BY <1>2, <1>6, DumpOfBackup DEF Stores
  <2> QED
    BY <1>3, <1>6, <2>1 DEF Stores, Still
<1>7. CASE Ends(b) /\ (Summed(b) \/ LateFor(b))
  BY <1>3, <1>7, DumpOfBackup DEF Ends, Summed, LateFor, SameFields
<1>8. CASE Still(b) /\ (Ends(b) \/ Emptied(b))
  BY <1>2, <1>3, <1>8 DEF Ends, Emptied, Still
<1> QED
  BY <1>1, <1>4, <1>5, <1>6, <1>7, <1>8 DEF Changes, Requests, Lost

LEMMA InterruptionsKept ==
  ASSUME CopiesInv, [Next]_vars PROVE Interruptions'
<1> SUFFICES ASSUME NEW b \in Backup, artifacts'[b] # 0
             PROVE  LET n == database_backups'[b]
                    IN  /\ uploads'[b].pc = "sending" => b \in interrupted'
                        /\ n.status = "running" /\ n.checksum = 0 /\ uploads'[b] = NoUpload
                             => b \in interrupted'
  BY DEF Interruptions
<1> DEFINE c == database_backups[b]
           n == database_backups'[b]
<1>1. Changes(b) /\ interrupted \subseteq interrupted'
  BY ChangesOf
<1>2. artifacts[b] # 0 =>
        /\ uploads[b].pc = "sending" => b \in interrupted
        /\ c.status = "running" /\ c.checksum = 0 /\ uploads[b] = NoUpload => b \in interrupted
  BY DEF CopiesInv, Interruptions
<1>3. /\ NoUpload.pc = "none"
      /\ uploads[b].pc = "none" => uploads[b] = NoUpload
      /\ uploads[b].pc # "none" => uploads[b].digest # 0
      /\ artifacts[b] # 0 => c.kind = "backup" /\ c.status \notin {"none", "queued", "provisioning"}
  BY DumpOfBackup DEF CopiesInv, Dumps, NoUpload
<1>4. CASE DumpSame(b)
  <2>1. n.status = "running" => c.status = "running" /\ (n.checksum = c.checksum \/ uploads[b].pc = "stored")
    BY <1>1, <1>3, <1>4 DEF Changes, Requests, Still, Handled, Fails, Runs, Succeeds, CleansUp,
       Expires, Summed, LateFor, GivenUp, BeginsBackup, BeginsRestore, DumpSame
  <2> QED
    BY <1>1, <1>2, <1>3, <1>4, <2>1 DEF DumpSame
<1>5. CASE Still(b) /\ (Sends(b) \/ Stores(b))
  BY <1>1, <1>2, <1>3, <1>5 DEF Sends, Stores, Still
<1>6. CASE Ends(b) /\ (Summed(b) \/ LateFor(b))
  BY <1>3, <1>6 DEF Ends, Summed, LateFor
<1>7. CASE Ends(b) /\ Still(b) /\ (c.status = "succeeded" \/ (uploads[b] # NoUpload => b \in interrupted'))
  BY <1>1, <1>2, <1>3, <1>7 DEF Ends, Still
<1>8. CASE Still(b) /\ Emptied(b)
  BY <1>8 DEF Emptied
<1> QED
  BY <1>1, <1>4, <1>5, <1>6, <1>7, <1>8 DEF Changes, Requests, Lost

LEMMA CopyKeptKept ==
  ASSUME CopiesInv, [Next]_vars PROVE CopyKept'
<1> SUFFICES ASSUME NEW b \in Backup,
                    database_backups'[b].kind = "backup", database_backups'[b].status = "succeeded"
             PROVE  LET n == database_backups'[b]
                    IN  n.checksum # 0 /\ artifacts'[b] = n.checksum
  BY DEF CopyKept
<1> DEFINE c == database_backups[b]
           n == database_backups'[b]
<1>1. Changes(b)
  BY ChangesOf
<1>2. c.kind = "backup" /\ c.status = "succeeded" => c.checksum # 0 /\ artifacts[b] = c.checksum
  BY DEF CopiesInv, CopyKept
<1>3. CASE DumpSame(b) /\ Handled(b)
  BY <1>2, <1>3 DEF DumpSame, Handled, Fails, Runs, Succeeds, CleansUp, Expires, SameFields, Object
<1>4. CASE Still(b) /\ (DumpSame(b) \/ Ends(b))
  BY <1>2, <1>4 DEF DumpSame, Ends, Still
<1>5. CASE Still(b) /\ (Sends(b) \/ Stores(b))
  BY <1>2, <1>5 DEF Sends, Stores, Still
<1>6. CASE Still(b) /\ Emptied(b)
  BY <1>6 DEF Still, Emptied, Dead
<1>7. CASE Ends(b) /\ (Summed(b) \/ LateFor(b))
  BY <1>2, <1>7 DEF Ends, Summed, LateFor, SameFields
<1>8. CASE BeginsBackup(b) \/ BeginsRestore(b) \/ GivenUp(b)
  BY <1>8 DEF BeginsBackup, BeginsRestore, GivenUp
<1> QED
  BY <1>1, <1>3, <1>4, <1>5, <1>6, <1>7, <1>8 DEF Changes, Requests, Lost

\* A copy that is read is neither given up nor replaced.
LEMMA SucceededStays ==
  ASSUME CopiesInv, [Next]_vars, NEW b \in Backup, database_backups[b].status = "succeeded",
         Restored(b) \/ database_backups[b].kind # "backup"
  PROVE  LET n == database_backups'[b]
             c == database_backups[b]
         IN  n.kind = c.kind /\ n.status = "succeeded" /\ n.checksum = c.checksum
<1>1. Changes(b)
  BY ChangesOf
<1>2. b \notin Active /\ database_backups[b].kind # "none"
  BY DEF Active, Operation, CopiesInv, Origins
<1> QED
  BY <1>1, <1>2 DEF Changes, Requests, Still, Handled, Fails, Runs, Succeeds, CleansUp, Expires,
     Summed, LateFor, GivenUp, BeginsBackup, BeginsRestore, SameFields

LEMMA SourceKeptKept ==
  ASSUME CopiesInv, [Next]_vars PROVE SourceKept'
<1> SUFFICES ASSUME NEW b \in Backup, database_backups'[b].status \in Operation,
                    database_backups'[b].kind = "restore"
             PROVE  LET n == database_backups'[b]
                        copy == database_backups'[n.source]
                    IN  /\ copy.kind = "backup" /\ copy.status = "succeeded"
                        /\ copy.checksum = n.checksum
  BY DEF SourceKept, Active
<1> DEFINE c == database_backups[b]
           n == database_backups'[b]
<1>1. CASE BeginsBackup(b)
  BY <1>1 DEF BeginsBackup
<1>2. CASE BeginsRestore(b)
  BY <1>2 DEF BeginsRestore, Still
<1>3. CASE b \in Active /\ SameFields(n, c) /\ (c.kind # "backup" => n.checksum = c.checksum)
  <2>1. PICK a : a = c.source
    OBVIOUS
  <2>2. /\ c.kind = "restore" /\ n.source = a /\ n.checksum = c.checksum
        /\ c \in BackupDoc
    BY <1>3, <2>1 DEF SameFields, CopiesInv, IInv, Documents
  <2>3. /\ a \in Backup
        /\ database_backups[a].kind = "backup" /\ database_backups[a].status = "succeeded"
        /\ database_backups[a].checksum = c.checksum
    <3>1. c.source \in 0..MaxBackups /\ c.source # 0
      BY <2>2 DEF BackupDoc
    <3>2. a \in Backup
      BY <2>1, <3>1, DatabasesAssumption DEF Backup
    <3> QED
      BY <1>3, <2>1, <2>2, <3>2 DEF CopiesInv, SourceKept
  <2>4. Restored(a)
    BY <1>3, <2>1 DEF Restored
  <2> QED
    BY <2>2, <2>3, <2>4, SucceededStays
<1> QED
  BY <1>1, <1>2, <1>3, ActiveBefore
-----------------------------------------------------------------------------
(* What the alarm knows of backups and restores.                           *)

LEMMA ContinueFields ==
  ASSUME NEW pc, NEW todo, Continue(pc, todo)
  PROVE  alarm'.pc = pc /\ alarm'.todo = todo
BY DEF Continue, Idle

LEMMA TakeFields ==
  ASSUME Handler, NEW e, NEW pc, Take(e, pc)
  PROVE  /\ alarm'.pc = pc /\ alarm'.todo = alarm.todo \ {e}
         /\ alarm'.id = e.id /\ alarm'.doc = e.doc
BY DEF Take, Handler

LEMMA GoFields ==
  ASSUME Handler, NEW pc, Go(pc)
  PROVE  /\ alarm'.pc = pc /\ alarm'.todo = alarm.todo
         /\ alarm'.id = alarm.id /\ alarm'.doc = alarm.doc /\ alarm'.touched = alarm.touched
BY DEF Go, Handler

\* Requests spare what the alarm lists: operations, and copies that expire.
LEMMA ListedStays ==
  ASSUME CopiesInv, NEW b \in Backup, NEW c, Still(b) \/ Requests(b)
  PROVE  /\ Listed(b, c) => Listed(b, c)'
         /\ Expiring(b, c) => Expiring(b, c)'
<1>1. ASSUME SameOperation(b, c), SameFields(database_backups'[b], database_backups[b])
      PROVE  SameOperation(b, c)'
  BY <1>1 DEF SameOperation, SameFields
<1>2. CASE Still(b)
  BY <1>2 DEF Still, Listed, Expiring, SameOperation
<1>3. CASE GivenUp(b)
  BY <1>1, <1>3 DEF GivenUp, Listed, Expiring, Active, Operation
<1>4. CASE Summed(b)
  BY <1>1, <1>4 DEF Summed, Listed, Expiring, Operation
<1>5. CASE LateFor(b)
  BY <1>1, <1>5, DumpOfBackup DEF LateFor, Listed, Expiring, Operation
<1>6. CASE BeginsBackup(b) \/ BeginsRestore(b)
  BY <1>6 DEF BeginsBackup, BeginsRestore, Listed, Expiring, SameOperation, CopiesInv, Origins
<1> QED
  BY <1>2, <1>3, <1>4, <1>5, <1>6 DEF Requests

\* What is left to do is as it was listed.
LEMMA RestStays ==
  ASSUME CopiesInv, alarm.pc \in BackupStage, NEW todo \in SUBSET alarm.todo,
         \A e \in todo : Still(e.id) \/ Requests(e.id)
  PROVE  /\ alarm.pc \in OperationCall \cup {"backups"} => \A e \in todo : Listed(e.id, e.doc)'
         /\ alarm.pc \in {"expire", "expire_call", "expired"} =>
              \A e \in todo : Expiring(e.id, e.doc)'
<1>1. \A e \in todo : e.id \in Backup
  BY ListedOperations DEF CopiesInv, IInv
<1>2. \A e \in todo : /\ Listed(e.id, e.doc) => Listed(e.id, e.doc)'
                      /\ Expiring(e.id, e.doc) => Expiring(e.id, e.doc)'
  BY <1>1, ListedStays
<1> QED
  BY <1>2 DEF CopiesInv, Lists

AlarmKept ==
  /\ alarm'.pc = alarm.pc /\ alarm'.todo = alarm.todo
  /\ alarm'.id = alarm.id /\ alarm'.doc = alarm.doc

LEMMA ListsKept ==
  ASSUME CopiesInv, [Next]_vars PROVE Lists'
<1> USE DEF CopiesInv, IInv
<1> DEFINE Goal ==
      /\ alarm'.pc \in OperationCall \cup {"backups"} => \A e \in alarm'.todo : Listed(e.id, e.doc)'
      /\ alarm'.pc \in {"expire", "expire_call", "expired"} =>
           \A e \in alarm'.todo : Expiring(e.id, e.doc)'
      /\ alarm'.pc \in {"expire_call", "expired"} =>
           Expiring(alarm.id, alarm.doc)' /\ \A e \in alarm'.todo : e.id # alarm'.id
<1> SUFFICES Goal
  BY DEF Lists
<1>1. ASSUME AlarmKept, \A b \in Backup : Still(b) \/ Requests(b) PROVE Goal
  <2>1. CASE alarm.pc \in BackupStage
    <3>1. \A e \in alarm.todo : e.id \in Backup
      BY <2>1, ListedOperations
    <3>2. /\ alarm.pc \in OperationCall \cup {"backups"} => \A e \in alarm.todo : Listed(e.id, e.doc)'
          /\ alarm.pc \in {"expire", "expire_call", "expired"} =>
               \A e \in alarm.todo : Expiring(e.id, e.doc)'
      BY <1>1, <2>1, <3>1, RestStays
    <3>3. alarm.pc \in {"expire_call", "expired"} =>
            Expiring(alarm.id, alarm.doc)' /\ \A e \in alarm'.todo : e.id # alarm'.id
      <4> SUFFICES ASSUME alarm.pc \in {"expire_call", "expired"}
                   PROVE  Expiring(alarm.id, alarm.doc)' /\ \A e \in alarm'.todo : e.id # alarm'.id
        OBVIOUS
      <4>1. PICK b, c : b = alarm.id /\ c = alarm.doc
        OBVIOUS
      <4>2. b \in Backup /\ Expiring(b, c)
        BY <2>1, <4>1, HeldOperation DEF BackupCall, Lists
      <4>3. Expiring(b, c)'
        BY <1>1, <4>2, ListedStays
      <4> QED
        BY <1>1, <4>1, <4>3 DEF AlarmKept, Lists
    <3> QED
      BY <1>1, <3>2, <3>3 DEF AlarmKept
  <2>2. CASE alarm.pc \notin BackupStage
    BY <1>1, <2>2 DEF AlarmKept, BackupStage, BackupCall
  <2> QED
    BY <2>1, <2>2
<1>2. CASE BackupRequest
  BY <1>1, <1>2, RequestsSpareAlarm, RequestsOf DEF AlarmKept
<1>3. CASE UNCHANGED vars \/ (DatabaseRequest /\ UNCHANGED backupVars)
  <2>1. alarm' = alarm /\ UNCHANGED database_backups
    BY <1>3 DEF DatabaseRequest, CreateDatabase, AttachDatabase, DetachDatabase, RetryDatabase,
       RetryQueued, RetryRefused, RemoveDatabase, records, vars, databaseVars
  <2> QED
    BY <1>1, <2>1 DEF AlarmKept, Still
<1>4. CASE Restart \/ End
  BY <1>4 DEF Restart, End, Idle, OperationCall
<1>5. CASE Start \/ DatabaseAlarm
  <2>1. alarm'.pc \in {"databases", "db_call"}
    <3>1. ASSUME NEW e, NextDocument(e) PROVE alarm'.pc = "databases"
      BY <3>1, ContinueFields DEF NextDocument
    <3> QED
      BY <1>5, <3>1 DEF Start, Idle, DatabaseAlarm, ReconcileOverdue, ReconcileFailed, ReconcileCalls,
         Reconciled, ServerChanged, StopJob, Removed, CallFails, Handler, At
  <2> QED
    BY <2>1 DEF OperationCall
<1>6. CASE ListOperations
  <2> DEFINE todo == {[id |-> b, doc |-> database_backups'[b]] :
                        b \in {c \in Backup : \/ database_backups'[c].status \in Operation
                                              \/ database_backups'[c].cleanup}}
  <2>1. alarm'.pc = "backups" /\ alarm'.todo = todo
    BY <1>6, ContinueFields DEF ListOperations
  <2>2. Origins'
    BY OriginsKept
  <2>3. \A e \in todo : Listed(e.id, e.doc)'
    BY <2>2 DEF Listed, SameOperation, Origins, Operation
  <2> HIDE DEF todo
  <2> QED
    BY <2>1, <2>3 DEF OperationCall
<1>7. CASE Retain
  <2> DEFINE todo == {[id |-> b, doc |-> database_backups'[b]] :
                        b \in {c \in Backup : database_backups'[c].status = "expiring"}}
  <2>1. alarm'.pc = "expire" /\ alarm'.todo = todo
    BY <1>7, ContinueFields DEF Retain
  <2>2. \A e \in todo : Expiring(e.id, e.doc)'
    BY DEF Expiring, SameOperation
  <2> HIDE DEF todo
  <2> QED
    BY <2>1, <2>2 DEF OperationCall
<1>8. ASSUME NEW e \in alarm.todo, OperationOverdue(e) \/ Begin(e) PROVE Goal
  <2>1. alarm.pc = "backups" /\ \A b \in Backup : b # e.id => Still(b)
    BY <1>8, OverdueFails, BeginRuns DEF OperationOverdue, Begin, At
  <2>2. \A f \in alarm.todo \ {e} : f.id \in Backup /\ f.id # e.id
    BY <2>1, ListedOperations DEF Waiting, BackupStage
  <2>3. \A f \in alarm.todo \ {e} : Listed(f.id, f.doc)'
    BY <2>1, <2>2, RestStays DEF BackupStage
  <2>4. alarm'.todo = alarm.todo \ {e} /\ alarm'.pc \in {"backups", "op_stop", "op_create", "op_watch"}
    BY <1>8, BeginRuns, TakeFields, ContinueFields DEF OperationOverdue, Skip
  <2> QED
    BY <2>3, <2>4
<1>9. ASSUME CheckObject \/ CleanedUp \/ OperationFails \/ WatchJob \/ DestinationCreated \/ Sweep
      PROVE  Goal
  <2>1. alarm.pc \in OperationCall
    BY <1>9 DEF CheckObject, CleanedUp, OperationFails, WatchJob, DestinationCreated, Sweep, At,
       Stage, OperationCall
  <2>2. \A f \in alarm.todo : f.id \in Backup /\ f.id # alarm.id
    BY <2>1, HeldOperation DEF Waiting, BackupCall
  <2>3. \A b \in Backup : b # alarm.id => Still(b)
    BY <1>9, CheckEnds, CleanUpEnds, WorkFails, SweepEmpties DEF WatchJob, DestinationCreated, Still
  <2>4. \A f \in alarm.todo : Listed(f.id, f.doc)'
    BY <2>1, <2>2, <2>3, RestStays DEF BackupStage, BackupCall
  <2>5. alarm'.todo = alarm.todo /\ alarm'.pc \in {"backups", "op_head", "op_swept"}
    <3>1. CASE Advance
      BY <3>1, ContinueFields DEF Advance
    <3>2. CASE alarm' = [alarm EXCEPT !.pc = "op_head", !.doc = database_backups[alarm.id]]
      BY <3>2 DEF Handler
    <3> QED
      BY <1>9, <3>1, <3>2, GoFields
      DEF CheckObject, CleanedUp, OperationFails, WatchJob, DestinationCreated, Sweep
  <2> QED
    BY <2>4, <2>5
<1>10. ASSUME NEW e \in alarm.todo, Expire(e) PROVE Goal
  <2>1. alarm.pc = "expire" /\ UNCHANGED database_backups
    BY <1>10 DEF Expire, At
  <2>2. /\ alarm'.pc = "expire_call" /\ alarm'.todo = alarm.todo \ {e}
        /\ alarm'.id = e.id /\ alarm'.doc = e.doc
    BY <1>10, TakeFields DEF Expire
  <2>3. \A f \in alarm.todo : Expiring(f.id, f.doc)'
    BY <2>1 DEF Lists, Expiring, SameOperation
  <2>4. \A f \in alarm.todo \ {e} : f.id # e.id
    BY DEF Waiting
  <2>5. Expiring(alarm.id, alarm.doc)'
    BY <2>2, <2>3 DEF Expiring, SameOperation
  <2> QED
    BY <2>2, <2>3, <2>4, <2>5 DEF OperationCall
<1>11. CASE DeleteObject
  <2>1. /\ alarm.pc = "expire_call" /\ alarm'.pc = "expired" /\ alarm'.todo = alarm.todo
        /\ alarm'.id = alarm.id /\ alarm'.doc = alarm.doc /\ UNCHANGED database_backups
    BY <1>11, GoFields DEF DeleteObject, At
  <2> QED
    BY <2>1 DEF Lists, Expiring, SameOperation, OperationCall
<1>12. CASE Expired \/ ExpireFails
  <2>1. alarm.pc \in {"expire_call", "expired"}
    BY <1>12 DEF Expired, ExpireFails, At, Stage
  <2>2. \A f \in alarm.todo : f.id \in Backup /\ f.id # alarm.id
    BY <2>1, HeldOperation DEF Lists, BackupCall
  <2>3. \A b \in Backup : b # alarm.id => Still(b)
    BY <1>12, ExpiryExpires DEF ExpireFails, Still
  <2>4. \A f \in alarm.todo : Expiring(f.id, f.doc)'
    BY <2>1, <2>2, <2>3, RestStays DEF BackupStage, BackupCall
  <2>5. alarm'.todo = alarm.todo /\ alarm'.pc = "expire"
    BY <1>12, ContinueFields DEF Expired, ExpireFails
  <2> QED
    BY <2>4, <2>5 DEF OperationCall
<1> QED
  BY <1>2, <1>3, <1>4, <1>5, <1>6, <1>7, <1>8, <1>9, <1>10, <1>11, <1>12
  DEF Next, AlarmStep, BackupAlarm

\* Requests may record a dump of the operation that the alarm works on, and note
\* that one has come too late.
LEMMA WorksSpared ==
  ASSUME CopiesInv, alarm.pc \in OperationCall, AlarmKept, Still(alarm.id) \/ Requests(alarm.id),
         DumpSame(alarm.id) \/ Requests(alarm.id),
         alarm.touched => alarm'.touched, interrupted \subseteq interrupted'
  PROVE  Works'
<1>1. PICK b, c : b = alarm.id /\ c = alarm.doc
  OBVIOUS
<1>2. b \in Backup /\ (Still(b) \/ Requests(b)) /\ alarm'.id = b /\ alarm'.doc = c
  BY <1>1, HeldOperation DEF CopiesInv, IInv, BackupCall, AlarmKept
<1>3. SameOperation(b, c) /\ (alarm.pc \in {"op_stop", "op_swept"} => Listed(b, c))
  BY <1>1 DEF CopiesInv, Works
<1>4. database_backups[b].kind # "none" \/ database_backups[b].status = "none"
  BY <1>2 DEF CopiesInv, Origins
<1>5. alarm.pc \in {"op_stop", "op_swept"} => Listed(b, c)' /\ c.status \notin Operation
  BY <1>1, <1>2, <1>3, ListedStays DEF CopiesInv, Works
<1>6. ASSUME alarm.pc \in {"op_create", "op_watch", "op_head"}
      PROVE  /\ SameOperation(b, c)' /\ ~c.cleanup
             /\ database_backups'[b].status = database_backups[b].status
  <2>1. b \in Active /\ database_backups[b].kind # "none" /\ ~c.cleanup
    BY <1>1, <1>2, <1>4, <1>6 DEF CopiesInv, Works, Active, Operation
  <2>2. Still(b) \/ Summed(b) \/ LateFor(b)
    BY <1>2, <2>1 DEF Requests, BeginsBackup, BeginsRestore, GivenUp
  <2> QED
    BY <1>3, <2>1, <2>2 DEF Still, Summed, LateFor, SameOperation, SameFields
<1>7. ASSUME alarm.pc = "op_swept", c.kind = "backup", c.status \in Dead, artifacts'[b] # 0
      PROVE  b \in interrupted' \/ uploads'[b].pc = "stored" \/ alarm'.touched
  <2>1. database_backups[b].status \in Dead
    BY <1>3, <1>7 DEF Listed, Dead, Operation
  <2>2. artifacts[b] # 0 => b \in interrupted' \/ uploads[b].pc = "stored" \/ alarm'.touched
    BY <1>1, <1>7 DEF CopiesInv, Works
  <2>3. CASE DumpSame(b)
    BY <1>7, <2>2, <2>3 DEF DumpSame
  <2>4. CASE Stores(b)
    BY <1>7, <2>2, <2>4 DEF Stores
  <2>5. CASE LateFor(b)
    BY <1>1, <1>7, <2>5 DEF LateFor, Stage
  <2>6. ~Sends(b) /\ ~Summed(b) /\ database_backups[b].status # "succeeded"
    BY <2>1 DEF Sends, Summed, Dead
  <2> QED
    BY <1>1, <2>3, <2>4, <2>5, <2>6 DEF Requests
<1>8. ASSUME alarm.pc \in {"op_stop", "op_swept"} PROVE SameOperation(b, c)'
  BY <1>5, <1>8 DEF Listed
<1> QED
  <2>1. alarm.pc \in OperationCall => SameOperation(alarm.id, alarm.doc)'
    BY <1>2, <1>6, <1>8 DEF OperationCall, SameOperation
  <2>2. alarm.pc = "op_create" => ~c.cleanup /\ database_backups'[b].status = "provisioning"
    BY <1>1, <1>6 DEF CopiesInv, Works
  <2>3. alarm.pc \in {"op_watch", "op_head"} => ~c.cleanup /\ database_backups'[b].status = "running"
    BY <1>1, <1>6 DEF CopiesInv, Works
  <2>4. alarm.pc \in {"op_stop", "op_swept"} =>
          Listed(alarm.id, alarm.doc)' /\ c.status \notin Operation
    BY <1>2, <1>5 DEF Listed, SameOperation
  <2> QED
    BY <1>2, <1>7, <2>1, <2>2, <2>3, <2>4 DEF Works, AlarmKept

LEMMA WorksKept ==
  ASSUME CopiesInv, [Next]_vars PROVE Works'
<1> USE DEF CopiesInv, IInv
<1>1. ASSUME alarm'.pc \notin OperationCall PROVE Works'
  BY <1>1 DEF Works, OperationCall
<1>2. ASSUME AlarmKept, \A b \in Backup : Requests(b), alarm.touched => alarm'.touched,
             interrupted' = interrupted
      PROVE  Works'
  <2>1. CASE alarm.pc \in OperationCall
    <3>1. alarm.id \in Backup
      BY <2>1, HeldOperation DEF BackupCall
    <3> QED
      BY <1>2, <2>1, <3>1, WorksSpared
  <2>2. CASE alarm.pc \notin OperationCall
    BY <1>1, <1>2, <2>2 DEF AlarmKept
  <2> QED
    BY <2>1, <2>2
<1>3. CASE BackupRequest
  BY <1>2, <1>3, RequestsSpareAlarm, RequestsOf DEF AlarmKept
<1>4. CASE UNCHANGED vars \/ (DatabaseRequest /\ UNCHANGED backupVars)
  <2>1. alarm' = alarm
    BY <1>4 DEF DatabaseRequest, CreateDatabase, AttachDatabase, DetachDatabase, RetryDatabase,
       RetryQueued, RetryRefused, RemoveDatabase, records, vars, databaseVars
  <2>2. UNCHANGED <<database_backups, artifacts, uploads, interrupted>>
    BY <1>4, DatabasesSpareBackups
  <2> QED
    BY <2>1, <2>2 DEF Works, Listed, SameOperation
<1>5. CASE Restart \/ End
  BY <1>1, <1>5 DEF Restart, End, Idle, OperationCall
<1>6. CASE Start \/ DatabaseAlarm
  <2>1. alarm'.pc \in {"databases", "db_call"}
    <3>1. ASSUME NEW e, NextDocument(e) PROVE alarm'.pc = "databases"
      BY <3>1, ContinueFields DEF NextDocument
    <3> QED
      BY <1>6, <3>1 DEF Start, Idle, DatabaseAlarm, ReconcileOverdue, ReconcileFailed, ReconcileCalls,
         Reconciled, ServerChanged, StopJob, Removed, CallFails, Handler, At
  <2> QED
    BY <1>1, <2>1 DEF OperationCall
<1>7. CASE \/ ListOperations \/ Retain \/ CheckObject \/ CleanedUp \/ OperationFails
           \/ DestinationCreated \/ Expired \/ ExpireFails \/ DeleteObject
           \/ \E e \in alarm.todo : OperationOverdue(e) \/ Expire(e)
  <2>1. alarm'.pc \in {"backups", "expire", "expire_call", "expired"}
    BY <1>7, ContinueFields, TakeFields, GoFields DEF ListOperations, Retain, CheckObject, CleanedUp,
       OperationFails, DestinationCreated, Expired, ExpireFails, DeleteObject, OperationOverdue,
       Expire, Advance, Skip
  <2> QED
    BY <1>1, <2>1 DEF OperationCall
<1>8. ASSUME NEW e \in alarm.todo, Begin(e) PROVE Works'
  <2>1. PICK b, c : b = e.id /\ c = e.doc
    OBVIOUS
  <2>2. b \in Backup /\ Listed(b, c) /\ SameOperation(b, c)
    BY <1>8, <2>1, BeginRuns DEF Listed
  <2>3. CASE Skip(e)
    BY <1>1, <2>3, ContinueFields DEF Skip, OperationCall
  <2>4. CASE Take(e, "op_stop") /\ Still(e.id) /\ e.doc.cleanup
    <3>1. alarm'.pc = "op_stop" /\ alarm'.id = b /\ alarm'.doc = c
      BY <2>1, <2>4, TakeFields
    <3>2. Listed(b, c)' /\ c.status \notin Operation
      BY <2>1, <2>2, <2>4 DEF Listed, SameOperation, Still
    <3> QED
      BY <3>1, <3>2 DEF Works, Listed, SameOperation, OperationCall
  <2>5. CASE Take(e, "op_create") /\ Still(e.id) /\ ~e.doc.cleanup /\ e.doc.status = "provisioning"
    <3>1. alarm'.pc = "op_create" /\ alarm'.id = b /\ alarm'.doc = c
      BY <2>1, <2>5, TakeFields
    <3>2. SameOperation(b, c)' /\ database_backups'[b].status = "provisioning"
      BY <2>1, <2>2, <2>5 DEF Listed, SameOperation, Still, Operation
    <3> QED
      BY <2>1, <2>5, <3>1, <3>2 DEF Works, SameOperation, OperationCall
  <2>6. CASE /\ Take(e, "op_watch") /\ ~e.doc.cleanup
             /\ Runs(e.id) \/ (Still(e.id) /\ e.doc.status = "running")
    <3>1. alarm'.pc = "op_watch" /\ alarm'.id = b /\ alarm'.doc = c
      BY <2>1, <2>6, TakeFields
    <3>2. SameOperation(b, c)' /\ database_backups'[b].status = "running"
      BY <2>1, <2>2, <2>6 DEF Listed, SameOperation, SameFields, Still, Runs, Operation
    <3> QED
      BY <2>1, <2>6, <3>1, <3>2 DEF Works, SameOperation, OperationCall
  <2> QED
    BY <1>8, <2>3, <2>4, <2>5, <2>6, BeginRuns
<1>9. CASE WatchJob
  <2>1. CASE Advance
    BY <1>1, <2>1, ContinueFields DEF Advance, OperationCall
  <2>2. CASE alarm' = [alarm EXCEPT !.pc = "op_head", !.doc = database_backups[alarm.id]]
    <3>1. alarm.pc = "op_watch" /\ UNCHANGED database_backups
      BY <1>9 DEF WatchJob, At
    <3>2. alarm'.pc = "op_head" /\ alarm'.id = alarm.id /\ alarm'.doc = database_backups[alarm.id]
      BY <2>2 DEF Handler
    <3>3. alarm.id \in Backup /\ database_backups[alarm.id].status = "running"
      BY <3>1, HeldOperation DEF Works, BackupCall, OperationCall
    <3>4. ~database_backups[alarm.id].cleanup
      BY <3>3 DEF Origins, Operation
    <3> QED
      BY <3>1, <3>2, <3>3, <3>4 DEF Works, SameOperation, OperationCall
  <2> QED
    BY <1>9, <2>1, <2>2 DEF WatchJob
<1>10. CASE Sweep
  <2>1. /\ alarm.pc = "op_stop" /\ alarm'.pc = "op_swept"
        /\ alarm'.id = alarm.id /\ alarm'.doc = alarm.doc /\ UNCHANGED database_backups
    BY <1>10, GoFields DEF Sweep, At
  <2>2. alarm.doc.kind = "backup" /\ alarm.doc.status \in Dead => artifacts'[alarm.id] = 0
    BY <1>10, SweepEmpties
  <2> QED
    BY <2>1, <2>2 DEF Works, Listed, SameOperation, OperationCall
<1> QED
  BY <1>3, <1>4, <1>5, <1>6, <1>7, <1>8, <1>9, <1>10 DEF Next, AlarmStep, BackupAlarm
-----------------------------------------------------------------------------
LEMMA CopiesInvariantInit ==
  ASSUME Init PROVE CopiesInv
<1>1. IInv
  BY InitInv
<1>2. /\ alarm.pc = "idle" /\ interrupted = {}
      /\ \A b \in Backup : /\ database_backups[b] = NoBackup
                           /\ artifacts[b] = 0 /\ uploads[b] = NoUpload
  BY DEF Init, DatabaseInit, Idle
<1>3. NoBackup.kind = "none" /\ NoBackup.status = "none" /\ ~NoBackup.cleanup /\ NoUpload.pc = "none"
  BY DEF NoBackup, NoUpload
<1> QED
  BY <1>1, <1>2, <1>3 DEF CopiesInv, Origins, Dumps, Interruptions, CopyKept, SourceKept, Works,
     Lists, Active, Operation, OperationCall

LEMMA CopiesInvKept ==
  ASSUME CopiesInv, [Next]_vars PROVE CopiesInv'
<1>1. IInv'
  BY DocumentsKept, HandlerKept, ReservationsKept, WaitingKept DEF CopiesInv, IInv
<1> QED
  BY <1>1, OriginsKept, DumpsKept, InterruptionsKept, CopyKeptKept, SourceKeptKept, WorksKept,
     ListsKept DEF CopiesInv

LEMMA CopiesInvariant == Spec => []CopiesInv
<1>1. Init => CopiesInv
  BY CopiesInvariantInit
<1>2. CopiesInv /\ [Next]_vars => CopiesInv'
  BY CopiesInvKept
<1> QED
  BY <1>1, <1>2, PTL DEF Spec

\* A copy that is offered as a success is in the object store with its checksum,
\* and so is the one an active restore reads, for any numbers of databases, backups
\* and faults, whatever deletions, retention, late dumps and restarts come in
\* between (backups.ts:188-205, 411-441, 73-141).
THEOREM CopiesStay == Spec => []CopiesAreKept
<1>1. CopiesInv => CopiesAreKept
  <2> SUFFICES ASSUME CopiesInv, NEW b \in Backup
               PROVE  LET c == database_backups[b]
                      IN  /\ c.kind = "backup" /\ c.status = "succeeded"
                               => c.checksum # 0 /\ artifacts[b] = c.checksum
                          /\ c.kind = "restore" /\ b \in Active => artifacts[c.source] = c.checksum
    BY DEF CopiesAreKept
  <2>1. ASSUME database_backups[b].kind = "restore", b \in Active
        PROVE  artifacts[database_backups[b].source] = database_backups[b].checksum
    <3>1. database_backups[b].source \in 0..MaxBackups /\ database_backups[b].source # 0
      BY <2>1 DEF CopiesInv, IInv, Documents, BackupDoc
    <3>2. database_backups[b].source \in Backup
      BY <3>1, DatabasesAssumption DEF Backup
    <3> QED
      BY <2>1, <3>2 DEF CopiesInv, SourceKept, CopyKept
  <2> QED
    BY <2>1 DEF CopiesInv, CopyKept
<1> QED
  BY <1>1, CopiesInvariant, PTL
(***************************************************************************)
(* Databases, their servers and what is attached to them.                  *)
(***************************************************************************)

\* No operation uses database d, and no copy of it is kept.
Clear(d) == \A b \in Backup :
  LET c == database_backups[b]
  IN  /\ b \in Active => d \notin {c.database, c.target}
      /\ c.database = d /\ c.kind = "backup" => c.status # "succeeded"

Deletions == \A d \in Database : databases[d].status = "deleting" => Clear(d)

OneActive == \A b, c \in Active :
  database_backups[b].database = database_backups[c].database => b = c

CopiesOfStored == \A b \in Backup :
  LET c == database_backups[b]
  IN  c.kind = "backup" /\ (b \in Active \/ c.status = "succeeded") => Stored(c.database)

\* What is attached is there, and a destination was filled before.
Attached == \A s \in Service : bindings[s] # 0 =>
  /\ Stored(bindings[s])
  /\ databases[bindings[s]].restore # 0 =>
       database_backups[databases[bindings[s]].restore].status = "succeeded"

\* A server whose shutdown was ordered is not registered again, unless its
\* removal was overtaken.
Stops ==
  /\ runtime_stops \subseteq Database /\ \A d \in runtime_stops : d <= reserved
  /\ retained_volumes \subseteq runtime_stops
  /\ \A d \in runtime_stops \ overtaken :
       /\ databases[d].status \in {"deleting", "none"} /\ d \notin jobs
       /\ d \in retained_volumes => ~Stored(d)

\* The reserved destination of a restore has no past.
Unborn(d) == ~Stored(d) /\ retrying.id # d /\ d \notin runtime_stops
Destinations ==
  /\ \A b \in Backup : database_backups[b].status = "provisioning" =>
       Stored(database_backups[b].target) \/ Unborn(database_backups[b].target)
  /\ alarm.pc = "op_create" => Unborn(alarm.doc.target)

\* The document that a retry read belongs to the same database still.
Retried == retrying # NoRetry /\ Stored(retrying.id) =>
  databases[retrying.id].restore = retrying.doc.restore

\* Where a database comes from is known by its restore.
IsRestore(b) == b # 0 => database_backups[b].kind = "restore"
Sources ==
  /\ \A d \in Database : IsRestore(databases[d].restore)
  /\ retrying # NoRetry => IsRestore(retrying.doc.restore)

\* A database that the alarm listed. One that is to be removed is in no use.
Reconciles(d, doc) ==
  /\ Stored(d) /\ doc.status # "none" /\ databases[d].restore = doc.restore
  /\ doc.phase = "delete" => /\ Clear(d) /\ ~Ready(databases[d])
                             /\ databases[d].status = "deleting" \/ d \in overtaken
  /\ doc.phase # "delete" => d \notin runtime_stops \ overtaken

Rounds ==
  /\ alarm.pc \in {"databases", "db_call"} => \A e \in alarm.todo : Reconciles(e.id, e.doc)
  /\ alarm.pc = "db_call" => Item \in alarm.todo

NoOrphans == \A b \in Backup :
  database_backups[b].status = "failed" /\ artifacts[b] # 0 =>
    database_backups[b].cleanup \/ uploads[b] # NoUpload \/ b \in interrupted

PlacesInv == /\ CopiesInv /\ NoOrphans /\ Deletions /\ OneActive /\ CopiesOfStored /\ Attached
             /\ Stops /\ Destinations /\ Retried /\ Sources /\ Rounds
-----------------------------------------------------------------------------
(* What a step does to one database.                                       *)

Creates(d) ==
  /\ ~Stored(d) /\ d = reserved + 1 /\ databases'[d] = Fresh
  /\ UNCHANGED <<database_backups, alarm>>

Condemns(d) ==
  LET n == databases'[d]
  IN  /\ Stored(d) /\ Removable(d) /\ n.status = "deleting" /\ n.phase = "delete"
      /\ n.restore = databases[d].restore
      /\ UNCHANGED <<database_backups, alarm>>

Revives(d) ==
  LET n == databases'[d]
  IN  /\ retrying # NoRetry /\ retrying' = NoRetry /\ retrying.id = d
      /\ n.status = "pending" /\ n.restore = retrying.doc.restore
      /\ databases[d].status \in {"deleting", "none"} => d \in overtaken'
      /\ UNCHANGED <<database_backups, alarm>>

\* The reply saves what the listed document has become.
Settles(d) ==
  LET n == databases'[d]
  IN  /\ alarm.pc \in {"databases", "db_call"} /\ UNCHANGED database_backups
      /\ \E e \in alarm.todo :
           /\ e.id = d /\ Reconciles(d, e.doc) /\ alarm'.todo = alarm.todo \ {e}
           /\ n.restore = e.doc.restore /\ n.status # "none"
           /\ n.status = "deleting" => e.doc.phase = "delete"
           /\ e.doc.phase = "delete" => n.status = "deleting"

Erases(d) ==
  /\ alarm.pc = "db_call" /\ alarm.id = d /\ Clear(d) /\ d \in runtime_stops
  /\ databases'[d] = NoDatabase /\ alarm'.todo = alarm.todo \ {Item}
  /\ bindings' = [s \in Service |-> IF bindings[s] = d THEN 0 ELSE bindings[s]]
  /\ retained_volumes' = retained_volumes \cup {d}
  /\ UNCHANGED database_backups

Fills(d) ==
  LET n == databases'[d]
  IN  /\ alarm.pc = "op_create" /\ alarm'.pc = "backups" /\ d = alarm.doc.target /\ Unborn(d)
      /\ n.status = "pending" /\ n.restore = alarm.id
      /\ UNCHANGED database_backups

Same(d) == databases'[d] = databases[d]
Becomes(d) ==
  Same(d) \/ Creates(d) \/ Condemns(d) \/ Revives(d) \/ Settles(d) \/ Erases(d) \/ Fills(d)

LEMMA SaveAt ==
  ASSUME Documents, NEW a \in Database, NEW doc, Save(a, doc)
  PROVE  databases'[a] = doc /\ \A d \in Database : d # a => Same(d)
BY DEF Save, Documents, Same

LEMMA KeepAt ==
  ASSUME Documents, NEW a \in Database, NEW doc, Keep(a, doc)
  PROVE  /\ \A d \in Database : d # a => Same(d)
         /\ \/ Same(a)
            \/ /\ databases'[a] = doc
               /\ databases[a].phase = "delete" => doc.phase = "delete"
BY DEF Keep, Superseded, Documents, Same

\* What the alarm makes of a document that it listed.
LEMMA ReplyDocs ==
  ASSUME NEW doc \in DatabaseDoc, doc.status # "none"
  PROVE  /\ \A new \in Outcomes(doc) \cup {Failed(doc), Pending(doc)} :
              /\ new.restore = doc.restore /\ new.status \notin {"none", "deleting"}
         /\ Outcomes(doc) # {} => doc.phase # "delete"
<1>1. /\ \A new \in Outcomes(doc) \cup {Failed(doc), Pending(doc)} :
           new.restore = doc.restore /\ new.status # "none" /\ new.phase # "delete"
      /\ Outcomes(doc) # {} => doc.phase # "delete"
  BY DEF Outcomes, Failed, Pending, DatabaseDoc
<1>2. \A new \in Outcomes(doc) \cup {Failed(doc), Pending(doc)} : new \in DatabaseDoc
  BY AlarmDocs
<1> QED
  BY <1>1, <1>2 DEF DatabaseDoc

LEMMA ListedDatabases ==
  ASSUME PlacesInv, alarm.pc \in {"databases", "db_call"}
  PROVE  /\ \A e \in alarm.todo : /\ e.id \in Database /\ e.doc \in DatabaseDoc
                                  /\ e.doc.status # "none" /\ Reconciles(e.id, e.doc)
         /\ alarm.pc = "db_call" => Item \in alarm.todo /\ Item.id = alarm.id /\ Item.doc = alarm.doc
<1>1. \A e \in alarm.todo : e.id \in Database /\ e.doc \in DatabaseDoc
  BY DEF PlacesInv, CopiesInv, IInv, Handler, DatabaseItem
<1>2. \A e \in alarm.todo : Reconciles(e.id, e.doc)
  BY DEF PlacesInv, Rounds
<1>3. alarm.pc = "db_call" => Item \in alarm.todo /\ Item.id = alarm.id /\ Item.doc = alarm.doc
  BY DEF PlacesInv, Rounds, Item
<1> QED
  BY <1>1, <1>2, <1>3 DEF Reconciles

\* A document that was listed is saved as what it has become.
LEMMA KeptSettles ==
  ASSUME PlacesInv, alarm.pc \in {"databases", "db_call"}, NEW e \in alarm.todo, NEW doc,
         Keep(e.id, doc), alarm'.todo = alarm.todo \ {e}, UNCHANGED database_backups,
         doc.restore = e.doc.restore, doc.status # "none",
         doc.status = "deleting" <=> e.doc.phase = "delete"
  PROVE  \A d \in Database : Becomes(d)
<1>1. e.id \in Database /\ Reconciles(e.id, e.doc)
  BY ListedDatabases
<1>2. Same(e.id) \/ databases'[e.id] = doc
  BY <1>1, KeepAt DEF PlacesInv, CopiesInv, IInv
<1>3. \A d \in Database : d # e.id => Same(d)
  BY <1>1, KeepAt DEF PlacesInv, CopiesInv, IInv
<1>4. CASE databases'[e.id] = doc
  <2>1. Settles(e.id)
    BY <1>1, <1>4 DEF Settles
  <2> QED
    BY <1>3, <2>1 DEF Becomes
<1> QED
  BY <1>2, <1>3, <1>4 DEF Becomes

LEMMA AlarmSettles ==
  ASSUME PlacesInv, DatabaseAlarm
  PROVE  \A d \in Database : Becomes(d)
<1> DEFINE All == \A d \in Database : Becomes(d)
<1>1. ASSUME NEW e \in alarm.todo, ReconcileOverdue(e) PROVE All
  <2>1. /\ alarm.pc = "databases" /\ Keep(e.id, Failed(e.doc)) /\ alarm'.todo = alarm.todo \ {e}
        /\ UNCHANGED database_backups /\ e.doc.status = "pending"
    BY <1>1, ContinueFields DEF ReconcileOverdue, At, NextDocument, records
  <2>2. e.doc \in DatabaseDoc /\ e.doc.status # "none"
    BY <2>1, ListedDatabases
  <2>3. /\ Failed(e.doc).restore = e.doc.restore /\ Failed(e.doc).status \notin {"none", "deleting"}
        /\ e.doc.phase # "delete"
    BY <2>1, <2>2, ReplyDocs DEF DatabaseDoc
  <2> QED
    BY <2>1, <2>3, KeptSettles
<1>2. ASSUME NEW e \in alarm.todo, ReconcileFailed(e) PROVE All
  <2>1. /\ alarm.pc = "databases" /\ Keep(e.id, e.doc) /\ alarm'.todo = alarm.todo \ {e}
        /\ UNCHANGED database_backups
    BY <1>2, ContinueFields DEF ReconcileFailed, At, NextDocument, records
  <2>2. e.doc \in DatabaseDoc /\ e.doc.status # "none"
    BY <2>1, ListedDatabases
  <2>3. e.doc.status = "deleting" <=> e.doc.phase = "delete"
    BY <2>2 DEF DatabaseDoc
  <2> QED
    BY <2>1, <2>2, <2>3, KeptSettles
<1>3. ASSUME Reconciled \/ ServerChanged \/ CallFails PROVE All
  <2>1. /\ alarm.pc = "db_call" /\ alarm'.todo = alarm.todo \ {Item} /\ UNCHANGED database_backups
    BY <1>3, ContinueFields DEF Reconciled, ServerChanged, CallFails, At, NextDocument, records
  <2>2. PICK e \in alarm.todo : e = Item /\ e.id = alarm.id /\ e.doc = alarm.doc
    BY <2>1, ListedDatabases
  <2>3. e.doc \in DatabaseDoc /\ e.doc.status # "none" /\ alarm'.todo = alarm.todo \ {e}
    BY <2>1, <2>2, ListedDatabases
  <2>4. e.doc.status = "deleting" <=> e.doc.phase = "delete"
    BY <2>3 DEF DatabaseDoc
  <2>5. ASSUME NEW doc \in Outcomes(e.doc) \cup {Failed(e.doc), Pending(e.doc)}, Keep(e.id, doc),
               e.doc.phase # "delete"
        PROVE  All
    <3>1. doc.restore = e.doc.restore /\ doc.status \notin {"none", "deleting"}
      BY <2>3, ReplyDocs
    <3> QED
      BY <2>1, <2>3, <2>5, <3>1, KeptSettles
  <2>6. CASE Reconciled
    <3>1. PICK doc \in Outcomes(e.doc) : Keep(e.id, doc)
      BY <2>2, <2>6 DEF Reconciled
    <3>2. e.doc.phase # "delete"
      BY <2>3, <3>1, ReplyDocs
    <3> QED
      BY <2>5, <3>1, <3>2
  <2>7. CASE ServerChanged
    <3>1. e.doc.phase = "ready" /\ (Keep(e.id, Failed(e.doc)) \/ Keep(e.id, Pending(e.doc)))
      BY <2>2, <2>7 DEF ServerChanged
    <3> QED
      BY <2>5, <3>1
  <2>8. CASE CallFails
    <3>1. CASE UNCHANGED databases
      BY <3>1 DEF Becomes, Same
    <3>2. CASE e.doc.phase \in {"delete", "probe_cleanup"} /\ Keep(e.id, e.doc)
      BY <2>1, <2>3, <2>4, <3>2, KeptSettles
    <3>3. CASE e.doc.phase \notin {"delete", "probe_cleanup"} /\ Keep(e.id, Failed(e.doc))
      BY <2>5, <3>3
    <3> QED
      BY <2>2, <2>8, <3>1, <3>2, <3>3 DEF CallFails
  <2> QED
    BY <1>3, <2>6, <2>7, <2>8
<1>4. CASE Removed
  <2>1. /\ alarm.pc = "db_call" /\ alarm'.todo = alarm.todo \ {Item} /\ alarm.doc.phase = "delete"
        /\ alarm.id \in runtime_stops /\ Save(alarm.id, NoDatabase)
    BY <1>4, ContinueFields DEF Removed, At, NextDocument
  <2>2. PICK e \in alarm.todo : e = Item /\ e.id = alarm.id /\ e.doc = alarm.doc
    BY <2>1, ListedDatabases
  <2>3. e.id \in Database /\ Clear(e.id)
    BY <2>1, <2>2, ListedDatabases DEF Reconciles
  <2>4. databases'[e.id] = NoDatabase /\ \A d \in Database : d # e.id => Same(d)
    BY <2>1, <2>2, <2>3, SaveAt DEF PlacesInv, CopiesInv, IInv
  <2>5. Erases(e.id)
    BY <1>4, <2>1, <2>2, <2>3, <2>4 DEF Erases, Removed
  <2> QED
    BY <2>4, <2>5 DEF Becomes
<1>5. ASSUME StopJob \/ \E e \in alarm.todo : ReconcileCalls(e) PROVE All
  BY <1>5 DEF StopJob, ReconcileCalls, Becomes, Same
<1> QED
  BY <1>1, <1>2, <1>3, <1>4, <1>5 DEF DatabaseAlarm

LEMMA BecomesOf ==
  ASSUME PlacesInv, [Next]_vars
  PROVE  \A d \in Database : Becomes(d)
<1> USE DEF PlacesInv, CopiesInv, IInv
<1> DEFINE All == \A d \in Database : Becomes(d)
<1>1. ASSUME UNCHANGED databases PROVE All
  BY <1>1 DEF Becomes, Same
<1>2. ASSUME NEW S \in SUBSET Service, CreateDatabase(S) PROVE All
  <2>1. reserved + 1 \in Database /\ reserved + 1 > reserved /\ reserved' = reserved + 1
    BY <1>2, DatabasesAssumption DEF CreateDatabase, Documents, Database
  <2>2. databases'[reserved + 1] = Fresh /\ \A d \in Database : d # reserved + 1 => Same(d)
    BY <1>2, <2>1, SaveAt DEF CreateDatabase
  <2>3. ~Stored(reserved + 1)
    BY <2>1 DEF Reservations, Stored, NoDatabase
  <2>4. Creates(reserved + 1)
    BY <1>2, <2>1, <2>2, <2>3 DEF Creates, CreateDatabase
  <2> QED
    BY <2>2, <2>4 DEF Becomes
<1>3. ASSUME NEW a \in Database, RemoveDatabase(a) PROVE All
  <2> DEFINE n == [databases[a] EXCEPT !.status = "deleting", !.phase = "delete"]
  <2>1. n.status = "deleting" /\ n.phase = "delete" /\ n.restore = databases[a].restore
    BY DEF Documents, DatabaseDoc
  <2>2. Save(a, n) /\ UNCHANGED <<database_backups, alarm>> /\ Stored(a) /\ Removable(a)
    BY <1>3 DEF RemoveDatabase, records
  <2> HIDE DEF n
  <2>3. databases'[a] = n /\ \A d \in Database : d # a => Same(d)
    BY <2>2, SaveAt
  <2>4. Condemns(a)
    BY <2>1, <2>2, <2>3 DEF Condemns
  <2> QED
    BY <2>3, <2>4 DEF Becomes
<1>4. CASE RetryQueued
  <2> DEFINE n == [retrying.doc EXCEPT !.status = "pending", !.phase = "retry"]
  <2>1. PICK a \in Database : a = retrying.id /\ retrying.doc \in DatabaseDoc
    BY <1>4 DEF RetryQueued, Documents, DatabaseItem
  <2>2. n.status = "pending" /\ n.restore = retrying.doc.restore
    BY <2>1 DEF DatabaseDoc
  <2>3. Save(a, n) /\ UNCHANGED <<database_backups, alarm>>
    BY <1>4, <2>1 DEF RetryQueued, records
  <2> HIDE DEF n
  <2>4. databases'[a] = n /\ \A d \in Database : d # a => Same(d)
    BY <2>3, SaveAt
  <2>5. Revives(a)
    BY <1>4, <2>1, <2>2, <2>3, <2>4 DEF Revives, RetryQueued
  <2> QED
    BY <2>4, <2>5 DEF Becomes
<1>5. CASE DestinationCreated
  <2> DEFINE n == [Fresh EXCEPT !.restore = alarm.id]
  <2>1. n.status = "pending" /\ n.restore = alarm.id
    BY DEF Fresh, NoDatabase
  <2>2. PICK t : t = alarm.doc.target
    OBVIOUS
  <2>3. t \in Database
    <3>1. alarm.doc \in BackupDoc /\ alarm.doc.status = "provisioning"
      BY <1>5, HeldOperation DEF DestinationCreated, At, Waiting, BackupCall, OperationCall
    <3> QED
      BY <2>2, <3>1, DatabasesAssumption DEF BackupDoc, Database
  <2>4. /\ Save(t, n) /\ UNCHANGED database_backups /\ alarm.pc = "op_create" /\ Unborn(t)
        /\ alarm'.pc = "backups"
    BY <1>5, <2>2, ContinueFields DEF DestinationCreated, At, Destinations, Advance
  <2> HIDE DEF n
  <2>5. databases'[t] = n /\ \A d \in Database : d # t => Same(d)
    BY <2>3, <2>4, SaveAt
  <2>6. Fills(t)
    BY <2>1, <2>2, <2>4, <2>5 DEF Fills
  <2> QED
    BY <2>5, <2>6 DEF Becomes
<1>6. ASSUME BackupRequest \/ Restart \/ Start \/ BackupAlarm, ~DestinationCreated PROVE All
  BY <1>1, <1>6 DEF BackupRequest, QueueBackup, SetPolicy, DeleteBackup, RestoreBackup, PutData,
     ObjectStored, DataStored, Restart, Start, BackupAlarm, ListOperations,
     OperationOverdue, Begin, Expire, WatchJob, CheckObject, Sweep, CleanedUp,
     OperationFails, Retain, DeleteObject, Expired, ExpireFails, End, databaseVars
<1>7. CASE DatabaseRequest
  BY <1>1, <1>7, <1>2, <1>3, <1>4
  DEF DatabaseRequest, AttachDatabase, DetachDatabase, RetryDatabase, RetryRefused
<1>8. CASE UNCHANGED vars
  BY <1>1, <1>8 DEF vars, databaseVars
<1> QED
  BY <1>5, <1>6, <1>7, <1>8, AlarmSettles DEF Next, AlarmStep
-----------------------------------------------------------------------------
(* Places.                                                                 *)

LEMMA NoOrphansKept ==
  ASSUME PlacesInv, [Next]_vars PROVE NoOrphans'
<1> USE DEF PlacesInv
<1> SUFFICES ASSUME NEW b \in Backup, database_backups'[b].status = "failed", artifacts'[b] # 0
             PROVE  \/ database_backups'[b].cleanup \/ uploads'[b] # NoUpload
                    \/ b \in interrupted'
  BY DEF NoOrphans
<1> DEFINE c == database_backups[b]
           n == database_backups'[b]
<1>1. Changes(b) /\ interrupted \subseteq interrupted'
  BY ChangesOf
<1>2. c.status = "failed" /\ artifacts[b] # 0 => c.cleanup \/ uploads[b] # NoUpload \/ b \in interrupted
  BY DEF NoOrphans
<1>3. NoUpload.pc = "none"
  BY DEF NoUpload
<1>4. artifacts[b] # 0 => c.kind = "backup" /\ c.status \notin {"none", "queued", "provisioning"}
  BY DumpOfBackup
<1>5. CASE Still(b) /\ DumpSame(b)
  BY <1>1, <1>2, <1>5 DEF Still, DumpSame
<1>6. CASE DumpSame(b) /\ Fails(b)
  <2>1. c.status = "running"
    BY <1>4, <1>6 DEF DumpSame, Fails, Active, Operation
  <2>2. c.job
    BY <2>1 DEF CopiesInv, Origins
  <2> QED
    BY <1>6, <2>2 DEF Fails
<1>7. CASE DumpSame(b) /\ CleansUp(b)
  <2>1. alarm.pc = "op_swept" /\ alarm.id = b /\ ~alarm.touched /\ c.status = "failed"
    BY <1>7 DEF CleansUp
  <2>2. PICK d : d = alarm.doc
    OBVIOUS
  <2>3. Listed(b, d) /\ d.status \notin Operation
    BY <2>1, <2>2 DEF CopiesInv, Works
  <2>4. d.status = "failed" /\ d.kind = "backup"
    BY <1>4, <1>7, <2>1, <2>3 DEF Listed, SameOperation, DumpSame
  <2>5. b \in interrupted \/ uploads[b].pc = "stored"
    BY <1>7, <2>1, <2>2, <2>4 DEF CopiesInv, Works, DumpSame, Dead
  <2> QED
    BY <1>1, <1>3, <1>7, <2>5 DEF DumpSame
<1>8. CASE Still(b) /\ Stores(b)
  <2>1. CASE uploads'[b] = [pc |-> "stored", digest |-> uploads[b].digest]
    BY <1>3, <2>1
  <2>2. CASE uploads'[b] = NoUpload
    <3>1. artifacts[b] # 0 /\ uploads[b].pc = "sending"
      BY <1>3, <1>8, <2>2 DEF Stores
    <3> QED
      BY <1>1, <3>1 DEF CopiesInv, Interruptions
  <2> QED
    BY <1>8, <2>1, <2>2 DEF Stores
<1>9. CASE Still(b) /\ Sends(b)
  BY <1>9 DEF Still, Sends
<1>10. CASE Still(b) /\ Ends(b) /\ (c.status = "succeeded" \/ (uploads[b] # NoUpload => b \in interrupted'))
  BY <1>1, <1>2, <1>10 DEF Still, Ends
<1>11. CASE \/ Summed(b) \/ LateFor(b) \/ BeginsBackup(b) \/ BeginsRestore(b) \/ GivenUp(b)
            \/ Runs(b) \/ Succeeds(b) \/ Expires(b)
  BY <1>11 DEF Summed, LateFor, BeginsBackup, BeginsRestore, GivenUp, Runs, Succeeds, Expires
<1>12. CASE Emptied(b)
  BY <1>12 DEF Emptied
<1> QED
  BY <1>1, <1>5, <1>6, <1>7, <1>8, <1>9, <1>10, <1>11, <1>12 DEF Changes, Requests, Handled, Lost

LEMMA OneActiveKept ==
  ASSUME PlacesInv, [Next]_vars PROVE OneActive'
<1> USE DEF PlacesInv
<1> SUFFICES ASSUME NEW a \in Backup, NEW b \in Backup,
                    database_backups'[a].status \in Operation, database_backups'[b].status \in Operation,
                    database_backups'[a].database = database_backups'[b].database
             PROVE  a = b
  BY DEF OneActive, Active
<1>1. ASSUME NEW x \in Backup, NEW y \in Backup, x # y, BeginsBackup(x) \/ BeginsRestore(x),
             database_backups'[y].status \in Operation
      PROVE  database_backups'[x].database # database_backups'[y].database
  <2>1. Still(y) /\ ~busy(database_backups'[x].database)
    BY <1>1 DEF BeginsBackup, BeginsRestore
  <2> QED
    BY <1>1, <2>1 DEF Still, busy, Active
<1>2. CASE \/ BeginsBackup(a) \/ BeginsRestore(a) \/ BeginsBackup(b) \/ BeginsRestore(b)
  BY <1>1, <1>2
<1>3. CASE ~(BeginsBackup(a) \/ BeginsRestore(a) \/ BeginsBackup(b) \/ BeginsRestore(b))
  <2>1. /\ a \in Active /\ b \in Active
        /\ database_backups'[a].database = database_backups[a].database
        /\ database_backups'[b].database = database_backups[b].database
    BY <1>3, ActiveBefore DEF SameFields
  <2> QED
    BY <2>1 DEF OneActive
<1> QED
  BY <1>2, <1>3

\* Nothing begins for a database that is not ready, and nobody uses.
LEMMA ClearStays ==
  ASSUME PlacesInv, [Next]_vars, NEW d \in Database, Clear(d), Stored(d), ~Ready(databases[d])
  PROVE  Clear(d)'
<1> USE DEF PlacesInv
<1>1. d # reserved + 1
  <2>1. ~(d > reserved) /\ d \in Int /\ reserved \in Int
    BY DatabasesAssumption
    DEF CopiesInv, IInv, Reservations, Documents, Database, Stored, NoDatabase
  <2> QED
    BY <2>1
<1> SUFFICES ASSUME NEW b \in Backup
             PROVE  LET n == database_backups'[b]
                    IN  /\ n.status \in Operation => d \notin {n.database, n.target}
                        /\ n.database = d /\ n.kind = "backup" => n.status # "succeeded"
  BY DEF Clear, Active
<1> DEFINE c == database_backups[b]
           n == database_backups'[b]
<1>2. /\ b \in Active => d \notin {c.database, c.target}
      /\ c.database = d /\ c.kind = "backup" => c.status # "succeeded"
  BY DEF Clear
<1>3. n.status \in Operation => d \notin {n.database, n.target}
  <2>1. CASE BeginsBackup(b)
    BY <2>1, DatabasesAssumption DEF BeginsBackup, Database
  <2>2. CASE BeginsRestore(b)
    <3>1. PICK s \in Backup : s = n.source
      BY <2>2 DEF BeginsRestore
    <3>2. n.database = database_backups[s].database /\ n.target = reserved + 1
          /\ database_backups[s].kind = "backup" /\ database_backups[s].status = "succeeded"
      BY <2>2, <3>1 DEF BeginsRestore
    <3>3. database_backups[s].database # d
      BY <3>2 DEF Clear
    <3> QED
      BY <1>1, <3>2, <3>3
  <2>3. CASE n.status \in Operation /\ b \in Active /\ SameFields(n, c)
    BY <1>2, <2>3 DEF SameFields
  <2> QED
    BY <2>1, <2>2, <2>3, ActiveBefore
<1>4. n.database = d /\ n.kind = "backup" => n.status # "succeeded"
  <2>1. Changes(b)
    BY ChangesOf
  <2> QED
    BY <1>2, <2>1 DEF Changes, Requests, Still, Handled, Fails, Runs, Succeeds, CleansUp, Expires,
       Summed, LateFor, GivenUp, BeginsBackup, BeginsRestore, SameFields, Active, Operation
<1> QED
  BY <1>3, <1>4

LEMMA DeletionsKept ==
  ASSUME PlacesInv, [Next]_vars PROVE Deletions'
<1> USE DEF PlacesInv
<1> SUFFICES ASSUME NEW d \in Database, databases'[d].status = "deleting"
             PROVE  Clear(d)'
  BY DEF Deletions
<1>1. Becomes(d)
  BY BecomesOf
<1>2. CASE Same(d)
  <2>1. databases[d].status = "deleting"
    BY <1>2 DEF Same
  <2> QED
    BY <2>1, ClearStays DEF Deletions, Stored, Ready
<1>3. CASE Condemns(d)
  <2>1. Clear(d) /\ UNCHANGED database_backups
    BY <1>3 DEF Condemns, Removable, Clear
  <2> QED
    BY <2>1 DEF Clear, Active
<1>4. CASE Settles(d)
  <2>1. Clear(d) /\ UNCHANGED database_backups
    BY <1>4 DEF Settles, Reconciles
  <2> QED
    BY <2>1 DEF Clear, Active
<1>5. CASE Creates(d) \/ Revives(d) \/ Erases(d) \/ Fills(d)
  <2>1. Fresh.status = "pending" /\ NoDatabase.status = "none"
    BY DEF Fresh, NoDatabase
  <2>2. databases'[d].status # "deleting"
    BY <1>5, <2>1 DEF Creates, Revives, Erases, Fills
  <2> QED
    BY <2>2
<1> QED
  BY <1>1, <1>2, <1>3, <1>4, <1>5 DEF Becomes

\* A database goes only when no operation uses it and no copy of it is kept.
LEMMA StoredStays ==
  ASSUME PlacesInv, [Next]_vars, NEW d \in Database, Stored(d)
  PROVE  Stored(d)' \/ (Clear(d) /\ Erases(d))
<1>1. Becomes(d)
  BY BecomesOf
<1> QED
  BY <1>1 DEF Becomes, Same, Creates, Condemns, Revives, Settles, Erases, Fills, Stored, Fresh,
     NoDatabase

LEMMA CopiesOfStoredKept ==
  ASSUME PlacesInv, [Next]_vars PROVE CopiesOfStored'
<1> USE DEF PlacesInv
<1> DEFINE c(b) == database_backups[b]
           n(b) == database_backups'[b]
<1> SUFFICES ASSUME NEW b \in Backup, n(b).kind = "backup",
                    n(b).status \in Operation \/ n(b).status = "succeeded"
             PROVE  databases'[n(b).database].status # "none"
  BY DEF CopiesOfStored, Active, Stored
<1>1. Changes(b)
  BY ChangesOf
<1>2. CASE BeginsBackup(b)
  <2>1. PICK d \in Database : d = n(b).database
    BY <1>2 DEF BeginsBackup
  <2>2. Stored(d)
    BY <1>2, <2>1 DEF BeginsBackup, Ready, Stored
  <2>3. ~Erases(d)
    BY <1>2 DEF BeginsBackup, Erases
  <2> QED
    BY <2>1, <2>2, <2>3, StoredStays DEF Stored
<1>3. CASE ~BeginsBackup(b)
  <2>1. /\ c(b).kind = "backup" /\ n(b).database = c(b).database
        /\ b \in Active \/ c(b).status = "succeeded"
    BY <1>1, <1>3 DEF Changes, Requests, Still, Handled, Fails, Runs, Succeeds, CleansUp, Expires,
       Summed, LateFor, GivenUp, BeginsRestore, SameFields, Active, Operation
  <2>2. PICK d : d = c(b).database
    OBVIOUS
  <2>3. d \in Database
    <3>1. c(b) \in BackupDoc /\ d # 0
      BY <2>1, <2>2 DEF CopiesInv, IInv, Documents, Origins
    <3> QED
      BY <2>2, <3>1, DatabasesAssumption DEF BackupDoc, Database
  <2>4. Stored(d)
    BY <2>1, <2>2 DEF CopiesOfStored
  <2>5. ~Clear(d)
    BY <2>1, <2>2 DEF Clear
  <2> QED
    BY <2>1, <2>2, <2>3, <2>4, <2>5, StoredStays DEF Stored
<1> QED
  BY <1>2, <1>3

\* A restore stays one.
LEMMA IsRestoreStays ==
  ASSUME PlacesInv, [Next]_vars, NEW r \in 0..MaxBackups, IsRestore(r)
  PROVE  IsRestore(r)'
<1>1. CASE r = 0
  BY <1>1 DEF IsRestore
<1>2. CASE r # 0
  <2>1. r \in Backup /\ database_backups[r].kind = "restore"
    BY <1>2, DatabasesAssumption DEF IsRestore, Backup
  <2>2. Changes(r)
    BY <2>1, ChangesOf DEF PlacesInv
  <2>3. database_backups'[r].kind = "restore"
    BY <2>1, <2>2 DEF Changes, Requests, Still, Handled, Fails, Runs, Succeeds, CleansUp, Expires,
       Summed, LateFor, GivenUp, BeginsBackup, BeginsRestore, SameFields
  <2> QED
    BY <2>3 DEF IsRestore
<1> QED
  BY <1>1, <1>2
-----------------------------------------------------------------------------
(* Where a database comes from, and what it is attached to.                *)

\* A retry reads a document that is stored.
Reads(d) ==
  /\ retrying = NoRetry /\ retrying' = [id |-> d, doc |-> databases[d]] /\ Stored(d)
  /\ UNCHANGED <<databases, database_backups, alarm, overtaken>>

LEMMA RetryingOf ==
  ASSUME [Next]_vars
  PROVE  \/ retrying' = retrying
         \/ retrying' = NoRetry
         \/ \E d \in Database : Reads(d)
<1>1. ASSUME NEW d \in Database, RetryDatabase(d) PROVE Reads(d)
  BY <1>1 DEF RetryDatabase, Reads, records, Stored
<1>2. CASE DatabaseRequest
  BY <1>1, <1>2 DEF DatabaseRequest, CreateDatabase, AttachDatabase, DetachDatabase, RemoveDatabase,
     RetryQueued, RetryRefused
<1>3. CASE BackupRequest
  BY <1>3 DEF BackupRequest, QueueBackup, SetPolicy, DeleteBackup, RestoreBackup, PutData,
     ObjectStored, DataStored, serverVars, databaseVars
<1>4. CASE BackupAlarm
  BY <1>4 DEF BackupAlarm, ListOperations, OperationOverdue, Begin, Expire, DestinationCreated,
     WatchJob, CheckObject, Sweep, CleanedUp, OperationFails, Retain, DeleteObject, Expired,
     ExpireFails, End, serverVars
<1>5. CASE Start \/ DatabaseAlarm
  BY <1>5 DEF Start, DatabaseAlarm, ReconcileOverdue, ReconcileFailed, ReconcileCalls, Reconciled,
     ServerChanged, StopJob, Removed, CallFails
<1>6. CASE Restart \/ UNCHANGED vars
  BY <1>6 DEF Restart, vars, databaseVars
<1> QED
  BY <1>2, <1>3, <1>4, <1>5, <1>6 DEF Next, AlarmStep

\* A database keeps the restore that it comes from for as long as it is stored.
LEMMA RestoreStays ==
  ASSUME PlacesInv, [Next]_vars, NEW d \in Database, Stored(d), Stored(d)'
  PROVE  databases'[d].restore = databases[d].restore
<1>1. Becomes(d)
  BY BecomesOf
<1>2. CASE Revives(d)
  BY <1>2 DEF Revives, PlacesInv, Retried
<1>3. CASE Settles(d)
  BY <1>3 DEF Settles, Reconciles
<1>4. NoDatabase.status = "none"
  BY DEF NoDatabase
<1> QED
  BY <1>1, <1>2, <1>3, <1>4 DEF Becomes, Same, Creates, Condemns, Erases, Fills, Unborn, Stored

LEMMA RetriedKept ==
  ASSUME PlacesInv, [Next]_vars PROVE Retried'
<1> USE DEF PlacesInv, CopiesInv, IInv
<1> SUFFICES ASSUME retrying' # NoRetry, Stored(retrying.id)'
             PROVE  databases'[retrying'.id].restore = retrying'.doc.restore
  BY DEF Retried
<1>1. CASE retrying' = retrying
  <2>1. PICK d \in Database : d = retrying.id
    BY <1>1 DEF Documents, DatabaseItem
  <2>2. Stored(d)'
    BY <1>1, <2>1 DEF Stored
  <2>3. CASE Stored(d)
    BY <1>1, <2>1, <2>2, <2>3, RestoreStays DEF Retried
  <2>4. CASE ~Stored(d)
    <3>1. Becomes(d)
      BY BecomesOf
    <3>2. d <= reserved /\ reserved \in Int /\ d \in Int
      BY <2>1 DEF Reservations, Documents, Database
    <3>3. ~Same(d)
      BY <2>2, <2>4 DEF Same, Stored
    <3>4. d # reserved + 1
      BY <3>2
    <3>5. ~Erases(d)
      BY <2>2 DEF Erases, Stored, NoDatabase
    <3> QED
      BY <1>1, <2>1, <2>4, <3>1, <3>3, <3>4, <3>5
      DEF Becomes, Creates, Condemns, Revives, Settles, Reconciles, Fills, Unborn
  <2> QED
    BY <2>3, <2>4
<1>2. ASSUME NEW d \in Database, Reads(d) PROVE databases'[retrying'.id].restore = retrying'.doc.restore
  BY <1>2 DEF Reads
<1> QED
  BY <1>1, <1>2, RetryingOf

LEMMA SourcesKept ==
  ASSUME PlacesInv, [Next]_vars PROVE Sources'
<1> USE DEF PlacesInv, CopiesInv, IInv
<1> DEFINE Known(r) == r # 0 => database_backups'[r].kind = "restore"
<1>1. ASSUME NEW r \in 0..MaxBackups, IsRestore(r) PROVE Known(r)
  BY <1>1, IsRestoreStays DEF IsRestore
<1>2. \A d \in Database : databases[d].restore \in 0..MaxBackups /\ Known(databases[d].restore)
  <2>1. \A d \in Database : databases[d].restore \in 0..MaxBackups /\ IsRestore(databases[d].restore)
    BY DEF Documents, DatabaseDoc, Sources
  <2> QED
    BY <1>1, <2>1
<1>3. retrying # NoRetry => Known(retrying.doc.restore)
  <2> SUFFICES ASSUME retrying # NoRetry PROVE Known(retrying.doc.restore)
    OBVIOUS
  <2>1. PICK r : r = retrying.doc.restore
    OBVIOUS
  <2>2. retrying.doc \in DatabaseDoc
    BY DEF Documents, DatabaseItem
  <2>3. r \in 0..MaxBackups /\ (r # 0 => database_backups[r].kind = "restore")
    BY <2>1, <2>2 DEF DatabaseDoc, Sources, IsRestore
  <2> QED
    BY <1>1, <2>1, <2>3 DEF IsRestore
<1>4. ASSUME NEW d \in Database PROVE Known(databases'[d].restore)
  <2>1. Becomes(d)
    BY BecomesOf
  <2>2. CASE Same(d) \/ Condemns(d)
    BY <1>2, <2>2 DEF Same, Condemns
  <2>3. CASE Creates(d) \/ Erases(d)
    <3>1. Fresh.restore = 0 /\ NoDatabase.restore = 0
      BY DEF Fresh, NoDatabase
    <3>2. databases'[d].restore = 0
      BY <2>3, <3>1 DEF Creates, Erases
    <3> QED
      BY <3>2
  <2>4. CASE Revives(d)
    BY <1>3, <2>4 DEF Revives
  <2>5. CASE Settles(d)
    BY <1>2, <2>5 DEF Settles, Reconciles
  <2>6. CASE Fills(d)
    <3>1. PICK b \in Backup : b = alarm.id
      BY <2>6, HeldOperation DEF Fills, BackupCall, OperationCall
    <3>2. database_backups[b].status = "provisioning" /\ database_backups[b] \in BackupDoc
      BY <2>6, <3>1 DEF Fills, Works, Documents
    <3> QED
      BY <2>6, <3>1, <3>2 DEF Fills, BackupDoc
  <2> QED
    BY <2>1, <2>2, <2>3, <2>4, <2>5, <2>6 DEF Becomes
<1>5. retrying' # NoRetry => Known(retrying'.doc.restore)
  <2>1. ASSUME NEW d \in Database, Reads(d) PROVE Known(retrying'.doc.restore)
    BY <1>2, <2>1 DEF Reads
  <2> QED
    BY <1>3, <2>1, RetryingOf
<1> QED
  BY <1>4, <1>5 DEF Sources, IsRestore

\* What is attached is what is stored now, and was filled.
Binds(s, d) ==
  LET n == databases'[d]
  IN  /\ bindings'[s] = d /\ n.status # "none"
      /\ n.restore # 0 => database_backups[n.restore].status = "succeeded"
      /\ UNCHANGED database_backups

LEMMA BindingsOf ==
  ASSUME PlacesInv, [Next]_vars, NEW s \in Service
  PROVE  bindings'[s] \in {0, bindings[s]} \/ \E d \in Database : Binds(s, d)
<1> USE DEF PlacesInv, CopiesInv, IInv
<1>1. ASSUME NEW S \in SUBSET Service, CreateDatabase(S), s \in S
      PROVE  \E d \in Database : Binds(s, d)
  <2>1. PICK d \in Database : d = reserved + 1
    BY <1>1, DatabasesAssumption DEF CreateDatabase, Documents, Database
  <2>2. databases'[d] = Fresh
    BY <1>1, <2>1, SaveAt DEF CreateDatabase
  <2>3. Fresh.status = "pending" /\ Fresh.restore = 0
    BY DEF Fresh, NoDatabase
  <2> QED
    BY <1>1, <2>1, <2>2, <2>3 DEF CreateDatabase, Binds
<1>2. ASSUME NEW S \in SUBSET Service, CreateDatabase(S), s \notin S
      PROVE  bindings'[s] = bindings[s]
  BY <1>2 DEF CreateDatabase
<1>3. ASSUME NEW d \in Database, NEW r \in Service, AttachDatabase(d, r)
      PROVE  bindings'[s] = bindings[s] \/ Binds(s, d)
  BY <1>3 DEF AttachDatabase, Binds, Bindable, Stored, records, Documents
<1>4. ASSUME NEW r \in Service, DetachDatabase(r)
      PROVE  bindings'[s] \in {0, bindings[s]}
  BY <1>4 DEF DetachDatabase, Documents
<1>5. CASE Removed
  BY <1>5 DEF Removed
<1>6. CASE DatabaseRequest
  BY <1>1, <1>2, <1>3, <1>4, <1>6 DEF DatabaseRequest, RetryDatabase, RemoveDatabase, RetryQueued, RetryRefused
<1>7. CASE BackupRequest
  BY <1>7 DEF BackupRequest, QueueBackup, SetPolicy, DeleteBackup, RestoreBackup, PutData,
     ObjectStored, DataStored, serverVars, databaseVars
<1>8. CASE BackupAlarm
  BY <1>8 DEF BackupAlarm, ListOperations, OperationOverdue, Begin, Expire, DestinationCreated,
     WatchJob, CheckObject, Sweep, CleanedUp, OperationFails, Retain, DeleteObject, Expired,
     ExpireFails, End, serverVars
<1>9. CASE Start \/ (DatabaseAlarm /\ ~Removed)
  BY <1>9 DEF Start, DatabaseAlarm, ReconcileOverdue, ReconcileFailed, ReconcileCalls, Reconciled,
     ServerChanged, StopJob, CallFails
<1>10. CASE Restart \/ UNCHANGED vars
  BY <1>10 DEF Restart, vars, databaseVars
<1> QED
  BY <1>5, <1>6, <1>7, <1>8, <1>9, <1>10 DEF Next, AlarmStep

LEMMA AttachedKept ==
  ASSUME PlacesInv, [Next]_vars PROVE Attached'
<1> USE DEF PlacesInv, CopiesInv, IInv
<1> SUFFICES ASSUME NEW s \in Service, NEW d, d = bindings'[s], d # 0
             PROVE  /\ databases'[d].status # "none"
                    /\ databases'[d].restore # 0 =>
                         database_backups'[databases'[d].restore].status = "succeeded"
  BY DEF Attached, Stored
<1>1. CASE \E a \in Database : Binds(s, a)
  BY <1>1 DEF Binds
<1>2. CASE d = bindings[s]
  <2>1. d \in Database
    <3>1. bindings[s] \in 0..MaxDatabases
      BY DEF Documents
    <3> QED
      BY <1>2, <3>1, DatabasesAssumption DEF Database
  <2>2. /\ Stored(d)
        /\ databases[d].restore # 0 => database_backups[databases[d].restore].status = "succeeded"
    BY <1>2 DEF Attached
  <2>3. ~Erases(d)
    BY <1>2, <2>1 DEF Erases
  <2>4. Stored(d)'
    BY <2>1, <2>2, <2>3, StoredStays
  <2>5. PICK r : r = databases[d].restore
    OBVIOUS
  <2>6. databases'[d].restore = r
    BY <2>1, <2>2, <2>4, <2>5, RestoreStays
  <2>7. ASSUME r # 0 PROVE database_backups'[r].status = "succeeded"
    <3>1. r \in 0..MaxBackups /\ IsRestore(r)
      BY <2>1, <2>5 DEF Documents, DatabaseDoc, Sources
    <3>2. r \in Backup /\ database_backups[r].kind = "restore"
      BY <2>7, <3>1, DatabasesAssumption DEF IsRestore, Backup
    <3> QED
      BY <2>2, <2>5, <2>7, <3>2, SucceededStays
  <2> QED
    BY <2>4, <2>6, <2>7 DEF Stored
<1> QED
  BY <1>1, <1>2, BindingsOf
-----------------------------------------------------------------------------
(* Servers.                                                                *)

\* A call registers the server of the database that it was listed for.
Registered == {d \in Database : /\ alarm.pc = "db_call" /\ d = alarm.id
                                /\ alarm.doc.phase \in {"submit", "retry"}}

Runnings == /\ jobs' \subseteq jobs \cup Registered
            /\ UNCHANGED <<runtime_stops, retained_volumes>>

\* A server is stopped for the database that is to be removed.
Halts(d) ==
  /\ alarm.pc = "db_call" /\ d = alarm.id /\ alarm.doc.phase = "delete" /\ d \notin runtime_stops
  /\ jobs' = jobs \ {d} /\ runtime_stops' = runtime_stops \cup {d}
  /\ UNCHANGED <<databases, retained_volumes, overtaken>>

Retains(d) ==
  /\ d \in runtime_stops /\ databases'[d] = NoDatabase
  /\ retained_volumes' = retained_volumes \cup {d}
  /\ UNCHANGED <<jobs, runtime_stops, overtaken>>

LEMMA StopsOf ==
  ASSUME PlacesInv, [Next]_vars
  PROVE  /\ overtaken \subseteq overtaken' /\ reserved' \in {reserved, reserved + 1}
         /\ Runnings \/ \E d \in Database : Halts(d) \/ Retains(d)
<1> USE DEF PlacesInv, CopiesInv, IInv
<1> DEFINE Goes == /\ overtaken \subseteq overtaken' /\ reserved' \in {reserved, reserved + 1}
                   /\ Runnings \/ \E d \in Database : Halts(d) \/ Retains(d)
<1>1. CASE DatabaseRequest
  BY <1>1 DEF DatabaseRequest, CreateDatabase, AttachDatabase, DetachDatabase, RetryDatabase,
     RemoveDatabase, RetryQueued, RetryRefused, records, Runnings
<1>2. CASE BackupRequest
  BY <1>2 DEF BackupRequest, QueueBackup, SetPolicy, DeleteBackup, RestoreBackup, PutData,
     ObjectStored, DataStored, serverVars, databaseVars, Runnings
<1>3. CASE BackupAlarm
  BY <1>3 DEF BackupAlarm, ListOperations, OperationOverdue, Begin, Expire, DestinationCreated,
     WatchJob, CheckObject, Sweep, CleanedUp, OperationFails, Retain, DeleteObject, Expired,
     ExpireFails, End, serverVars, Runnings
<1>4. CASE Restart \/ UNCHANGED vars
  BY <1>4 DEF Restart, vars, databaseVars, Runnings
<1>5. ASSUME \/ Start \/ ServerChanged
             \/ \E e \in alarm.todo : ReconcileOverdue(e) \/ ReconcileFailed(e) \/ ReconcileCalls(e)
      PROVE  Goes
  BY <1>5 DEF Start, ReconcileOverdue, ReconcileFailed, ReconcileCalls, ServerChanged, records,
     Runnings
<1>6. CASE Reconciled \/ CallFails
  <2>1. /\ alarm.pc = "db_call" /\ UNCHANGED <<records, runtime_stops, overtaken>>
        /\ \/ jobs' = jobs
           \/ alarm.doc.phase \in {"submit", "retry"} /\ jobs' = jobs \cup {alarm.id}
    BY <1>6 DEF Reconciled, CallFails, At
  <2>2. alarm.id \in Database
    BY <2>1 DEF Handler, Item, DatabaseItem
  <2> QED
    BY <2>1, <2>2 DEF Runnings, Registered, records
<1>7. CASE StopJob \/ Removed
  <2>1. PICK d \in Database : d = alarm.id
    BY <1>7 DEF StopJob, Removed, At, Handler, Item, DatabaseItem
  <2>2. CASE StopJob
    BY <2>1, <2>2 DEF StopJob, Halts, At, records
  <2>3. CASE Removed
    <3>1. databases'[d] = NoDatabase
      BY <2>1, <2>3, SaveAt DEF Removed
    <3> QED
      BY <2>1, <2>3, <3>1 DEF Removed, Retains
  <2> QED
    BY <1>7, <2>2, <2>3
<1> QED
  BY <1>1, <1>2, <1>3, <1>4, <1>5, <1>6, <1>7 DEF Next, AlarmStep, DatabaseAlarm

\* A database whose server was stopped is removed, or a retry brings it back.
LEMMA StoppedIsRemoved ==
  ASSUME PlacesInv, [Next]_vars, NEW d \in runtime_stops, d \notin overtaken'
  PROVE  /\ d \in Database /\ databases'[d].status \in {"deleting", "none"}
         /\ ~Stored(d) => ~Stored(d)'
<1> USE DEF PlacesInv, CopiesInv, IInv
<1>1. d \in Database /\ d <= reserved
  BY DEF Stops
<1>2. d \notin overtaken
  BY StopsOf
<1>3. databases[d].status \in {"deleting", "none"}
  BY <1>1, <1>2 DEF Stops
<1>4. Becomes(d)
  BY <1>1, BecomesOf
<1>5. d # reserved + 1
  BY <1>1 DEF Documents, Database
<1>6. CASE Revives(d)
  BY <1>3, <1>6 DEF Revives
<1>7. CASE Settles(d)
  <2>1. PICK e \in alarm.todo : /\ Reconciles(d, e.doc)
                                /\ e.doc.phase = "delete" => databases'[d].status = "deleting"
    BY <1>7 DEF Settles
  <2> QED
    BY <1>1, <1>2, <2>1 DEF Reconciles
<1>8. CASE Erases(d)
  BY <1>1, <1>8 DEF Erases, NoDatabase, Stored
<1> QED
  BY <1>1, <1>3, <1>4, <1>5, <1>6, <1>7, <1>8
  DEF Becomes, Same, Creates, Condemns, Fills, Unborn, Stored

LEMMA StopsKept ==
  ASSUME PlacesInv, [Next]_vars PROVE Stops'
<1> USE DEF PlacesInv, CopiesInv, IInv
<1>1. /\ runtime_stops \subseteq Database /\ retained_volumes \subseteq runtime_stops
      /\ \A d \in runtime_stops : d <= reserved
      /\ \A d \in runtime_stops \ overtaken : d \notin jobs /\ (d \in retained_volumes => ~Stored(d))
  BY DEF Stops
<1>2. reserved \in Int /\ reserved <= reserved'
  BY StopsOf DEF Documents
<1>3. overtaken \subseteq overtaken'
  BY StopsOf
<1>4. \A d \in runtime_stops : d \in Int /\ d <= reserved'
  <2>1. reserved' \in Int
    BY <1>2, StopsOf
  <2> QED
    BY <1>1, <1>2, <2>1 DEF Database
<1>5. CASE Runnings
  <2>1. ASSUME NEW d \in runtime_stops \ overtaken' PROVE d \notin jobs'
    <3>1. CASE d \in Registered
      <4>1. alarm.pc = "db_call" /\ d = alarm.id /\ alarm.doc.phase # "delete"
        BY <3>1 DEF Registered
      <4>2. Reconciles(d, alarm.doc)
        BY <4>1, ListedDatabases
      <4> QED
        BY <1>3, <2>1, <4>1, <4>2 DEF Reconciles
    <3> QED
      BY <1>1, <1>3, <1>5, <2>1, <3>1 DEF Runnings
  <2> QED
    BY <1>1, <1>3, <1>4, <1>5, <2>1, StoppedIsRemoved DEF Runnings, Stops
<1>6. ASSUME NEW a \in Database, Halts(a) PROVE Stops'
  <2>1. Reconciles(a, alarm.doc)
    BY <1>6, ListedDatabases DEF Halts
  <2>2. databases[a].status = "deleting" \/ a \in overtaken
    BY <1>6, <2>1 DEF Reconciles, Halts
  <2>3. a <= reserved'
    <3>1. ~(a > reserved)
      BY <2>1 DEF Reconciles, Reservations, Stored, NoDatabase
    <3> QED
      BY <1>2, <3>1, StopsOf DEF Database
  <2> QED
    BY <1>1, <1>3, <1>4, <1>6, <2>2, <2>3, StoppedIsRemoved DEF Halts, Stops, Stored
<1>7. ASSUME NEW a \in Database, Retains(a) PROVE Stops'
  <2>1. ~Stored(a)'
    BY <1>7 DEF Retains, Stored, NoDatabase
  <2> QED
    BY <1>1, <1>3, <1>4, <1>7, <2>1, StoppedIsRemoved DEF Retains, Stops
<1> QED
  BY <1>5, <1>6, <1>7, StopsOf
-----------------------------------------------------------------------------
(* Destinations of restores.                                               *)

\* Nobody learns of a destination before it is created.
LEMMA UnbornStays ==
  ASSUME PlacesInv, [Next]_vars, NEW d \in Database, Unborn(d), ~Stored(d)'
  PROVE  Unborn(d)'
<1> USE DEF PlacesInv, CopiesInv, IInv
<1>1. retrying'.id # d
  <2>1. NoRetry.id = 0 /\ d # 0
    BY DatabasesAssumption DEF NoRetry, Database
  <2>2. ASSUME NEW a \in Database, Reads(a) PROVE retrying'.id # d
    BY <2>2 DEF Reads, Unborn
  <2> QED
    BY <2>1, <2>2, RetryingOf DEF Unborn
<1>2. d \notin runtime_stops'
  <2>1. ASSUME NEW a \in Database, Halts(a) PROVE d \notin runtime_stops'
    <3>1. Reconciles(a, alarm.doc)
      BY <2>1, ListedDatabases DEF Halts
    <3> QED
      BY <2>1, <3>1 DEF Reconciles, Unborn, Halts
  <2> QED
    BY <2>1, StopsOf DEF Unborn, Runnings, Retains
<1> QED
  BY <1>1, <1>2 DEF Unborn

LEMMA UnreservedIsUnborn ==
  ASSUME PlacesInv, reserved + 1 \in Database PROVE Unborn(reserved + 1)
<1> USE DEF PlacesInv, CopiesInv, IInv
<1>1. reserved + 1 > reserved /\ ~(reserved + 1 <= reserved)
  BY DEF Documents
<1> QED
  BY <1>1 DEF Reservations, Stops, Unborn, Stored, NoDatabase

\* A restore whose destination is to be created waits for nothing else.
LEMMA WaitsForUnborn ==
  ASSUME PlacesInv, NEW b \in Backup, database_backups[b].status = "provisioning"
  PROVE  LET t == database_backups[b].target
         IN  t \in Database /\ b \in Active /\ ~Clear(t) /\ (Stored(t) \/ Unborn(t)) /\ t <= reserved
<1>1. database_backups[b] \in BackupDoc
  BY DEF PlacesInv, CopiesInv, IInv, Documents
<1>2. database_backups[b].target \in Database
  BY <1>1, DatabasesAssumption DEF BackupDoc, Database
<1> QED
  BY <1>2 DEF PlacesInv, Destinations, Clear, Active, Operation, CopiesInv, IInv, Reservations

\* While its creation is under way, nobody else creates the destination.
LEMMA CreationStays ==
  ASSUME PlacesInv, [Next]_vars, alarm.pc = "op_create", alarm'.pc = "op_create",
         alarm'.doc = alarm.doc
  PROVE  Unborn(alarm.doc.target)'
<1> USE DEF PlacesInv, CopiesInv, IInv
<1>1. PICK b, t : b = alarm.id /\ t = alarm.doc.target
  OBVIOUS
<1>2. /\ b \in Backup /\ database_backups[b].status = "provisioning"
      /\ database_backups[b].target = t
  BY <1>1, HeldOperation DEF Works, SameOperation, BackupCall, OperationCall
<1>3. t \in Database /\ t <= reserved /\ Unborn(t)
  BY <1>1, <1>2, WaitsForUnborn DEF Destinations
<1>4. Becomes(t)
  BY <1>3, BecomesOf
<1>5. t # reserved + 1
  BY <1>3 DEF Documents, Database
<1>6. ~Stored(t)'
  BY <1>3, <1>4, <1>5 DEF Becomes, Same, Creates, Condemns, Revives, Settles, Erases, Fills, Unborn,
     Stored
<1>7. Unborn(t)'
  BY <1>3, <1>6, UnbornStays
<1> QED
  BY <1>1, <1>7 DEF Unborn, Stored

\* The alarm takes up the creation of a destination that is not there.
Takes(e) ==
  /\ alarm'.id = e.id /\ alarm'.doc = e.doc /\ UNCHANGED <<databases, serverVars>>
  /\ e.id \in Backup /\ database_backups[e.id] = e.doc
  /\ e.doc.status = "provisioning" /\ ~Stored(e.doc.target)

LEMMA CreationBegins ==
  ASSUME PlacesInv, [Next]_vars, alarm'.pc = "op_create"
  PROVE  \/ alarm.pc = "op_create" /\ alarm'.doc = alarm.doc
         \/ \E e \in alarm.todo : Takes(e)
<1> USE DEF PlacesInv, CopiesInv, IInv
<1>1. CASE BackupRequest
  BY <1>1, RequestsSpareAlarm
<1>2. CASE DatabaseRequest \/ UNCHANGED vars
  BY <1>2 DEF DatabaseRequest, CreateDatabase, AttachDatabase, DetachDatabase, RetryDatabase,
     RetryQueued, RetryRefused, RemoveDatabase, records, vars, databaseVars
<1>3. ASSUME NEW e \in alarm.todo, Begin(e)
      PROVE  Takes(e)
  <2>1. Take(e, "op_create") /\ e.doc.status = "provisioning" /\ ~Stored(e.doc.target)
    <3>1. /\ Skip(e) => alarm'.pc = "backups"
          /\ Take(e, "op_stop") => alarm'.pc = "op_stop"
          /\ Take(e, "op_watch") => alarm'.pc = "op_watch"
      BY TakeFields, ContinueFields DEF Skip
    <3> QED
      BY <1>3, <3>1, BeginRuns
  <2>2. e.id \in Backup /\ database_backups[e.id] = e.doc
    BY <1>3, <2>1, BeginRuns DEF Listed
  <2>3. UNCHANGED <<databases, serverVars>>
    BY <1>3 DEF Begin
  <2> QED
    BY <2>1, <2>2, <2>3, TakeFields DEF Takes
<1>4. ASSUME NEW e \in alarm.todo, OperationOverdue(e) \/ Expire(e) PROVE FALSE
  BY <1>4, TakeFields, ContinueFields DEF OperationOverdue, Skip, Expire
<1>5. ~Restart /\ ~End /\ ~Start
  <2>1. Idle.pc = "idle" /\ \A todo : [Idle EXCEPT !.pc = "databases", !.todo = todo].pc = "databases"
    BY DEF Idle
  <2> QED
    BY <2>1 DEF Restart, End, Start
<1>6. ~(ListOperations \/ Retain \/ CheckObject \/ CleanedUp \/ OperationFails \/ DestinationCreated
        \/ Expired \/ ExpireFails)
  BY ContinueFields DEF ListOperations, Retain, CheckObject, CleanedUp, OperationFails,
     DestinationCreated, Expired, ExpireFails, Advance
<1>7. ~(WatchJob \/ Sweep \/ DeleteObject)
  <2>1. ~(Sweep \/ DeleteObject)
    BY GoFields DEF Sweep, DeleteObject
  <2>2. \A doc : [alarm EXCEPT !.pc = "op_head", !.doc = doc].pc = "op_head"
    BY DEF Handler
  <2>3. ASSUME WatchJob PROVE FALSE
    <3>1. ~Advance
      BY ContinueFields DEF Advance
    <3> QED
      BY <2>2, <2>3, <3>1 DEF WatchJob
  <2> QED
    BY <2>1, <2>3
<1>8. ~DatabaseAlarm
  <2>1. ASSUME NEW e, NextDocument(e) PROVE alarm'.pc = "databases"
    BY <2>1, ContinueFields DEF NextDocument
  <2> QED
    BY <2>1 DEF DatabaseAlarm, ReconcileOverdue, ReconcileFailed, ReconcileCalls,
       Reconciled, ServerChanged, StopJob, Removed, CallFails, Handler, At
<1> QED
  BY <1>1, <1>2, <1>3, <1>4, <1>5, <1>6, <1>7, <1>8 DEF Next, AlarmStep, BackupAlarm

LEMMA DestinationsKept ==
  ASSUME PlacesInv, [Next]_vars PROVE Destinations'
<1> USE DEF PlacesInv, CopiesInv, IInv
<1>1. ASSUME NEW b \in Backup, database_backups'[b].status = "provisioning",
             NEW t, t = database_backups'[b].target
      PROVE  Stored(t)' \/ Unborn(t)'
  <2>1. CASE BeginsBackup(b)
    BY <1>1, <2>1 DEF BeginsBackup
  <2>2. CASE BeginsRestore(b)
    <3>1. t \in Database /\ t = reserved + 1
      BY <1>1, <2>2 DEF BeginsRestore
    <3>2. Unborn(t) /\ Becomes(t)
      BY <3>1, UnreservedIsUnborn, BecomesOf
    <3>3. database_backups' # database_backups
      BY <2>2 DEF BeginsRestore
    <3>4. ~Stored(t)'
      BY <3>2, <3>3 DEF Becomes, Same, Creates, Condemns, Revives, Settles, Erases, Fills, Unborn,
         Stored
    <3>5. Unborn(t)'
      BY <3>1, <3>2, <3>4, UnbornStays
    <3> QED
      BY <3>5
  <2>3. CASE b \in Active /\ SameFields(database_backups'[b], database_backups[b])
    <3>1. database_backups[b].status = "provisioning"
      <4>1. Changes(b)
        BY ChangesOf
      <4> QED
        BY <1>1, <2>3, <4>1 DEF Changes, Requests, Still, Handled, Fails, Runs, Succeeds, CleansUp,
           Expires, Summed, LateFor, GivenUp, BeginsBackup, BeginsRestore, Origins, Active, Operation
    <3>2. t \in Database /\ ~Clear(t) /\ (Stored(t) \/ Unborn(t))
      BY <1>1, <2>3, <3>1, WaitsForUnborn DEF SameFields
    <3>3. Stored(t)' \/ Unborn(t)'
      <4>1. CASE Stored(t)
        BY <3>2, <4>1, StoredStays
      <4>2. CASE Unborn(t) /\ ~Stored(t)'
        BY <3>2, <4>2, UnbornStays
      <4> QED
        BY <3>2, <4>1, <4>2
    <3> QED
      BY <3>3
  <2> QED
    BY <1>1, <2>1, <2>2, <2>3, ActiveBefore DEF Operation
<1>2. ASSUME alarm'.pc = "op_create" PROVE Unborn(alarm.doc.target)'
  <2>1. CASE alarm.pc = "op_create" /\ alarm'.doc = alarm.doc
    <3>1. Unborn(alarm.doc.target)'
      BY <1>2, <2>1, CreationStays
    <3> QED
      BY <2>1, <3>1
  <2>2. ASSUME NEW e \in alarm.todo, Takes(e) PROVE Unborn(alarm.doc.target)'
    <3>1. PICK t : t = e.doc.target
      OBVIOUS
    <3>2. Unborn(t)
      BY <2>2, <3>1, WaitsForUnborn DEF Takes
    <3>3. UNCHANGED <<databases, retrying, runtime_stops>> /\ alarm'.doc.target = t
      BY <2>2, <3>1 DEF Takes, serverVars
    <3> QED
      BY <3>2, <3>3 DEF Unborn, Stored
  <2> QED
    BY <1>2, <2>1, <2>2, CreationBegins
<1> QED
  BY <1>1, <1>2 DEF Destinations, Stored, Unborn
-----------------------------------------------------------------------------
(* What the alarm knows of databases.                                      *)

LEMMA ReconcilesStays ==
  ASSUME PlacesInv, [Next]_vars, alarm.pc \in {"databases", "db_call"},
         NEW e \in alarm.todo, e \in alarm'.todo
  PROVE  Reconciles(e.id, e.doc)'
<1> USE DEF PlacesInv, CopiesInv, IInv
<1>0. PICK doc : doc = e.doc
  OBVIOUS
<1>1. PICK d \in Database : d = e.id /\ doc = e.doc
  BY <1>0, ListedDatabases
<1>2. /\ Stored(d) /\ doc.status # "none" /\ databases[d].restore = doc.restore
      /\ doc.phase = "delete" => /\ Clear(d) /\ ~Ready(databases[d])
                                 /\ databases[d].status = "deleting" \/ d \in overtaken
      /\ doc.phase # "delete" => d \notin runtime_stops \ overtaken
  BY <1>1, ListedDatabases DEF Reconciles
<1>3. \A f \in alarm.todo : f.id = d => f = e
  BY <1>1 DEF Waiting
<1>4. ~Settles(d)
  BY <1>3 DEF Settles
<1>5. ~Erases(d)
  <2> SUFFICES ASSUME Erases(d) PROVE FALSE
    OBVIOUS
  <2>1. Item \in alarm.todo /\ Item.id = d /\ e # Item
    BY ListedDatabases DEF Erases
  <2> QED
    BY <1>3, <2>1
<1>6. Same(d) \/ Condemns(d) \/ Revives(d)
  <2>1. Becomes(d)
    BY BecomesOf
  <2> QED
    BY <1>2, <1>4, <1>5, <2>1 DEF Becomes, Creates, Fills, Unborn
<1>7. Stored(d)' /\ databases'[d].restore = doc.restore
  <2>1. Stored(d)'
    BY <1>2, <1>5, StoredStays
  <2> QED
    BY <1>2, <2>1, RestoreStays
<1>8. overtaken \subseteq overtaken'
  BY StopsOf
<1>9. ASSUME doc.phase = "delete"
      PROVE  /\ Clear(d)' /\ ~Ready(databases'[d])
             /\ databases'[d].status = "deleting" \/ d \in overtaken'
  <2>1. Clear(d)'
    BY <1>2, <1>9, ClearStays
  <2>2. ~Ready(databases'[d])
    BY <1>2, <1>6, <1>9 DEF Same, Condemns, Revives, Ready
  <2>3. databases'[d].status = "deleting" \/ d \in overtaken'
    BY <1>2, <1>6, <1>8, <1>9 DEF Same, Condemns, Revives
  <2> QED
    BY <2>1, <2>2, <2>3
<1>10. ASSUME doc.phase # "delete" PROVE d \notin runtime_stops' \ overtaken'
  <2>1. ~Halts(d)
    <3> SUFFICES ASSUME Halts(d) PROVE FALSE
      OBVIOUS
    <3>1. Item \in alarm.todo /\ Item.id = d /\ Item.doc = alarm.doc /\ alarm.doc.phase = "delete"
      BY ListedDatabases DEF Halts
    <3>2. Item = e
      BY <1>3, <3>1
    <3> QED
      BY <1>1, <1>10, <3>1, <3>2
  <2> QED
    BY <1>2, <1>8, <1>10, <2>1, StopsOf DEF Runnings, Halts, Retains
<1>11. Reconciles(d, doc)'
  BY <1>2, <1>7, <1>9, <1>10 DEF Reconciles
<1> QED
  BY <1>1, <1>11

\* The alarm lists the databases that are stored, then goes through its list.
Proceeds ==
  /\ alarm.pc \in {"databases", "db_call"} /\ alarm'.todo \subseteq alarm.todo
  /\ alarm'.pc = "db_call" => Item' \in alarm'.todo

LEMMA ProceedsOf ==
  ASSUME PlacesInv, [Next]_vars, alarm'.pc \in {"databases", "db_call"}
  PROVE  Start \/ Proceeds
<1> USE DEF PlacesInv, CopiesInv, IInv
<1>1. ASSUME alarm'.pc = alarm.pc, alarm'.todo = alarm.todo, alarm'.id = alarm.id,
             alarm'.doc = alarm.doc
      PROVE  Proceeds
  BY <1>1, ListedDatabases DEF Proceeds, Item
<1>2. CASE BackupRequest
  BY <1>1, <1>2, RequestsSpareAlarm
<1>3. CASE DatabaseRequest \/ StopJob \/ UNCHANGED vars
  BY <1>1, <1>3 DEF DatabaseRequest, CreateDatabase, AttachDatabase, DetachDatabase, RetryDatabase,
     RetryQueued, RetryRefused, RemoveDatabase, StopJob, records, vars, databaseVars
<1>4. ~Restart /\ ~End
  BY DEF Restart, End, Idle
<1>5. ~BackupAlarm
  <2>1. ASSUME NEW e \in alarm.todo, OperationOverdue(e) \/ Expire(e) \/ Begin(e) PROVE FALSE
    <3>1. /\ Skip(e) => alarm'.pc = "backups"
          /\ \A pc : Take(e, pc) => alarm'.pc = pc
      BY TakeFields, ContinueFields DEF Skip
    <3> QED
      BY <2>1, <3>1 DEF OperationOverdue, Expire, Begin
  <2>2. ~(ListOperations \/ Retain \/ CheckObject \/ CleanedUp \/ OperationFails
          \/ DestinationCreated \/ Expired \/ ExpireFails)
    BY ContinueFields DEF ListOperations, Retain, CheckObject, CleanedUp, OperationFails,
       DestinationCreated, Expired, ExpireFails, Advance
  <2>3. ~(Sweep \/ DeleteObject)
    BY GoFields DEF Sweep, DeleteObject
  <2>4. ASSUME WatchJob PROVE FALSE
    <3>1. ~Advance
      BY ContinueFields DEF Advance
    <3>2. \A doc : [alarm EXCEPT !.pc = "op_head", !.doc = doc].pc = "op_head"
      BY DEF Handler
    <3> QED
      BY <2>4, <3>1, <3>2 DEF WatchJob
  <2> QED
    BY <1>4, <2>1, <2>2, <2>3, <2>4 DEF BackupAlarm
<1>6. ASSUME NEW e \in alarm.todo, ReconcileOverdue(e) \/ ReconcileFailed(e) PROVE Proceeds
  BY <1>6, ContinueFields DEF ReconcileOverdue, ReconcileFailed, NextDocument, At, Proceeds
<1>7. CASE Reconciled \/ ServerChanged \/ Removed \/ CallFails
  BY <1>7, ContinueFields DEF Reconciled, ServerChanged, Removed, CallFails, NextDocument, At,
     Proceeds
<1>8. ASSUME NEW e \in alarm.todo, ReconcileCalls(e) PROVE Proceeds
  <2>1. /\ alarm.pc = "databases" /\ alarm'.todo = alarm.todo
        /\ alarm'.id = e.id /\ alarm'.doc = e.doc
    BY <1>8 DEF ReconcileCalls, At, Handler
  <2>2. [id |-> e.id, doc |-> e.doc] = e
    BY <2>1 DEF Handler, DatabaseItem
  <2> QED
    BY <2>1, <2>2 DEF Proceeds, Item
<1> QED
  BY <1>2, <1>3, <1>4, <1>5, <1>6, <1>7, <1>8 DEF Next, AlarmStep, DatabaseAlarm

LEMMA RoundsKept ==
  ASSUME PlacesInv, [Next]_vars PROVE Rounds'
<1> USE DEF PlacesInv, CopiesInv, IInv
<1> SUFFICES ASSUME alarm'.pc \in {"databases", "db_call"}
             PROVE  /\ \A e \in alarm'.todo : Reconciles(e.id, e.doc)'
                    /\ alarm'.pc = "db_call" => Item' \in alarm'.todo
  BY DEF Rounds
<1>1. CASE Proceeds
  BY <1>1, ReconcilesStays DEF Proceeds
<1>2. CASE Start
  <2> DEFINE todo == {[id |-> d, doc |-> databases[d]] : d \in {e \in Database : Stored(e)}}
  <2>1. alarm'.pc = "databases" /\ alarm'.todo = todo
    BY <1>2 DEF Start, Idle
  <2>2. UNCHANGED <<databases, database_backups, runtime_stops, overtaken>>
    BY <1>2 DEF Start, records
  <2>3. ASSUME NEW d \in Database, Stored(d) PROVE Reconciles(d, databases[d])
    <3>1. databases[d] \in DatabaseDoc
      BY DEF Documents
    <3>2. databases[d].phase = "delete" <=> databases[d].status = "deleting"
      BY <3>1 DEF DatabaseDoc
    <3> QED
      BY <2>3, <3>2 DEF Reconciles, Stored, Deletions, Ready, Stops
  <2>4. ASSUME NEW e \in todo PROVE Reconciles(e.id, e.doc)'
    <3>1. PICK d \in Database : Stored(d) /\ e.id = d /\ e.doc = databases[d]
      OBVIOUS
    <3> QED
      BY <2>2, <2>3, <3>1 DEF Reconciles, Clear, Stored, Active, Ready
  <2> HIDE DEF todo
  <2> QED
    BY <2>1, <2>4
<1> QED
  BY <1>1, <1>2, ProceedsOf
-----------------------------------------------------------------------------
LEMMA PlacesInvariant == Spec => []PlacesInv
<1>1. Init => PlacesInv
  <2> SUFFICES ASSUME Init PROVE PlacesInv
    OBVIOUS
  <2>1. CopiesInv
    BY CopiesInvariantInit
  <2>2. /\ alarm.pc = "idle" /\ runtime_stops = {} /\ retained_volumes = {} /\ retrying = NoRetry
        /\ \A d \in Database : databases[d] = NoDatabase
        /\ \A s \in Service : bindings[s] = 0
        /\ \A b \in Backup : database_backups[b] = NoBackup
    BY DEF Init, DatabaseInit, Idle
  <2>3. /\ NoBackup.kind = "none" /\ NoBackup.status = "none"
        /\ NoDatabase.status = "none" /\ NoDatabase.restore = 0
    BY DEF NoBackup, NoDatabase
  <2>4. NoOrphans /\ Deletions /\ OneActive /\ CopiesOfStored
    BY <2>2, <2>3 DEF NoOrphans, Deletions, OneActive, CopiesOfStored, Active, Operation
  <2>5. Attached /\ Stops /\ Destinations
    BY <2>2, <2>3 DEF Attached, Stops, Destinations
  <2>6. Retried /\ Sources /\ Rounds
    BY <2>2, <2>3 DEF Retried, Sources, IsRestore, Rounds
  <2> QED
    BY <2>1, <2>4, <2>5, <2>6 DEF PlacesInv
<1>2. PlacesInv /\ [Next]_vars => PlacesInv'
  <2> SUFFICES ASSUME PlacesInv, [Next]_vars PROVE PlacesInv'
    OBVIOUS
  <2>1. CopiesInv'
    BY CopiesInvKept DEF PlacesInv
  <2>2. NoOrphans' /\ Deletions' /\ OneActive' /\ CopiesOfStored' /\ Attached'
    BY NoOrphansKept, DeletionsKept, OneActiveKept, CopiesOfStoredKept, AttachedKept
  <2>3. Stops' /\ Destinations' /\ Retried' /\ Sources' /\ Rounds'
    BY StopsKept, DestinationsKept, RetriedKept, SourcesKept, RoundsKept
  <2> QED
    BY <2>1, <2>2, <2>3 DEF PlacesInv
<1> QED
  BY <1>1, <1>2, PTL DEF Spec

\* A database has one operation at a time, none is removed under an operation or a
\* copy, none is attached before it was filled, what was removed has no server, and
\* no dump of a failed backup is forgotten: for any numbers of services, databases,
\* backups and faults (database.ts:143-178 and 230-254, backups.ts:21-63 and 128-137).
THEOREM NothingIsMisplaced == Spec => []NothingMisplaced
<1>1. PlacesInv => NothingMisplaced
  <2> SUFFICES ASSUME PlacesInv PROVE NothingMisplaced
    OBVIOUS
  <2> USE DEF PlacesInv, CopiesInv, IInv
  <2>1. ASSUME NEW b \in Backup PROVE
          LET c == database_backups[b]
          IN  /\ c.kind = "backup" /\ (b \in Active \/ c.status = "succeeded")
                   => databases[c.database].status \notin {"none", "deleting"}
              /\ c.kind = "restore" /\ b \in Active => databases[c.target].status # "deleting"
    <3> DEFINE c == database_backups[b]
    <3>1. c \in BackupDoc
      BY DEF Documents
    <3>2. c.kind # "none" => c.database \in Database
      BY <3>1, DatabasesAssumption DEF Origins, BackupDoc, Database
    <3>3. c.kind = "restore" => c.target \in Database
      BY <3>1, DatabasesAssumption DEF Origins, BackupDoc, Database
    <3> QED
      BY <3>2, <3>3 DEF CopiesOfStored, Stored, Deletions, Clear
  <2>2. OneOperation
    BY <2>1 DEF OneOperation, OneActive, Attached
  <2>3. RemovedIsStopped
    <3> SUFFICES ASSUME NEW d \in retained_volumes \ overtaken
                 PROVE  ~Stored(d) /\ d \notin jobs /\ \A s \in Service : bindings[s] # d
      BY DEF RemovedIsStopped
    <3>1. ~Stored(d) /\ d \notin jobs /\ d \in Database
      BY DEF Stops
    <3>2. d # 0
      BY <3>1, DatabasesAssumption DEF Database
    <3> QED
      BY <3>1, <3>2 DEF Attached
  <2>4. NoOrphan
    BY DEF NoOrphan, NoOrphans, Dumps
  <2> QED
    BY <2>2, <2>3, <2>4 DEF NothingMisplaced
<1> QED
  BY <1>1, PlacesInvariant, PTL
=============================================================================
