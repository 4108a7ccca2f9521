------------------------- MODULE MCDatabaseBackups --------------------------
(* Small instances of DatabaseBackups.                                     *)
EXTENDS DatabaseBackups, TLC
Symmetry == Permutations(Digest)

\* A reachable state: one database is ready, and one copy of it was kept.
\* From there a fault more may happen than from the initial state.
Seeded ==
  /\ databases = [d \in Database |-> IF d = 1 THEN [NoDatabase EXCEPT !.status = "healthy",
                                                                      !.phase = "ready"]
                                     ELSE NoDatabase]
  /\ reserved = 1 /\ jobs = {1}
  /\ bindings = [s \in Service |-> 0]
  /\ retained_volumes = {} /\ runtime_stops = {} /\ backup_policies = {}
  /\ retrying = NoRetry /\ overtaken = {} /\ alarm = Idle /\ faults = -1
  /\ \E x \in Digest :
       /\ database_backups = [b \in Backup |->
            IF b = 1 THEN [NoBackup EXCEPT !.kind = "backup", !.database = 1, !.job = TRUE,
                                           !.status = "succeeded", !.checksum = x]
            ELSE NoBackup]
       /\ artifacts = [b \in Backup |-> IF b = 1 THEN x ELSE 0]
  /\ uploads = [b \in Backup |-> NoUpload] /\ interrupted = {}
MCSpec == (Init \/ Seeded) /\ [][Next]_vars /\ WF_vars(AlarmStep)
=============================================================================
