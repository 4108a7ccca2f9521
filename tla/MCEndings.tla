------------------------------ MODULE MCEndings ------------------------------
(***************************************************************************)
(* What must end, in small instances of the parts of the hosted edition.   *)
(* The parts share nothing: in a behaviour one of them moves, the one that *)
(* focus names, and the others stay in their initial states.  Fairness is  *)
(* that of the part that moves.  The module extends the mailbox            *)
(* (CommandRelay), the part that moves when focus is "relay".              *)
(***************************************************************************)
EXTENDS CommandRelay, TLC

CONSTANTS Job, Limit, JobFaults, Delivery, Handler, PushFaults, Login, Cloud,
  Own, MaxRevoked, Workspace, Host, Service, Unowned, Foreign, MaxDomains,
  Application, MaxDatabases, MaxCreated, MaxBackups, Digest, KeepN

VARIABLES
  focus,  \* the part that moves in a behaviour
  apple_jobs, project, allocation, stops, helper, request, artifacts, round,
  lost, record, handler, webhooks, push_requests, service, deploying, queued,
  push_timer, run, upsets, user, memberships, sessions, flow, closing,
  connecting, sockets, timer, domains, added, domain_routes, dns, records,
  tunnel, addressed, alarm, unsure, failures, databases, reserved, bindings,
  retained_volumes, database_backups, backup_policies, database_jobs,
  runtime_stops, retrying, overtaken, database_alarm, troubles, copies, dumps,
  interrupted

A == INSTANCE AppleJobs
P == INSTANCE Pushes WITH timer <- push_timer
U == INSTANCE Accounts WITH Workspace <- Cloud
D == INSTANCE Domains WITH Nobody <- Unowned, created <- added, faults <- failures
B == INSTANCE DatabaseBackups WITH alarm <- database_alarm, faults <- troubles, uploads <- dumps, jobs <- database_jobs, artifacts <- copies, Service <- Application

appleVars == <<apple_jobs, project, allocation, stops, helper, request,
               artifacts, round, lost>>
pushesVars == <<record, handler, webhooks, push_requests, service, deploying,
                queued, push_timer, run, upsets>>
accountsVars == <<user, memberships, sessions, flow, closing, connecting,
                  sockets, timer>>
domainsVars == <<domains, added, domain_routes, dns, records, tunnel,
                 addressed, alarm, unsure, failures>>
backupsVars == <<databases, reserved, bindings, retained_volumes,
                 database_backups, backup_policies, database_jobs,
                 runtime_stops, retrying, overtaken, database_alarm, troubles,
                 copies, dumps, interrupted>>

EndingsInit ==
  /\ focus \in {"apple", "pushes", "accounts", "domains", "backups", "relay"}
  /\ Init /\ A!Init /\ P!Init /\ U!Init /\ D!Init /\ B!Init

EndingsNext ==
  \/ /\ focus = "apple" /\ A!Next
     /\ UNCHANGED <<focus, vars, pushesVars, accountsVars, domainsVars,
                    backupsVars>>
  \/ /\ focus = "pushes" /\ P!Next
     /\ UNCHANGED <<focus, vars, appleVars, accountsVars, domainsVars, backupsVars>>
  \/ /\ focus = "accounts" /\ U!Next
     /\ UNCHANGED <<focus, vars, appleVars, pushesVars, domainsVars, backupsVars>>
  \/ /\ focus = "domains" /\ D!Next
     /\ UNCHANGED <<focus, vars, appleVars, pushesVars, accountsVars, backupsVars>>
  \/ /\ focus = "backups" /\ B!Next
     /\ UNCHANGED <<focus, vars, appleVars, pushesVars, accountsVars, domainsVars>>
  \/ /\ focus = "relay" /\ Next
     /\ UNCHANGED <<focus, appleVars, pushesVars, accountsVars, domainsVars,
                    backupsVars>>

\* The fairness of each module, for the behaviours in which its part moves.
EndingsFairness ==
  /\ WF_appleVars(focus = "apple" /\ A!AlarmStep)
  /\ \A j \in Job : WF_appleVars(focus = "apple" /\ stops[j].phase = "observe" /\ A!Exit(j))
  /\ WF_pushesVars(focus = "pushes" /\ P!AlarmStep)
  /\ WF_pushesVars(focus = "pushes" /\ P!DeploymentEnds)
  /\ \A k \in [name : Login, workspace : Cloud] :
       WF_accountsVars(focus = "accounts" /\ U!CheckSocket(k))
  /\ \A w \in Workspace : WF_domainsVars(focus = "domains" /\ D!AlarmStep(w))
  /\ WF_backupsVars(focus = "backups" /\ B!AlarmStep)
  /\ WF_vars(focus = "relay" /\ Agent) /\ WF_vars(focus = "relay" /\ Handling)
  /\ WF_vars(focus = "relay" /\ Prune) /\ WF_vars(focus = "relay" /\ Tick)
  /\ \A p \in Caller : WF_vars(focus = "relay" /\ (Sealed(p) \/ Observe(p) \/ GiveUp(p)))

EndingsSpec ==
  /\ EndingsInit
  /\ [][EndingsNext]_<<focus, vars, appleVars, pushesVars, accountsVars, domainsVars, backupsVars>>
  /\ EndingsFairness
-----------------------------------------------------------------------------
(* Properties.  What each conjunct says, and of which code, is written     *)
(* where it is defined.                                                    *)

\* What was asked for is done or given up in the end, however its calls fail: a
\* build that is cancelled, a push that waits, an address or a copy that is removed
\* (apple-nomad.ts:99-109, workspace.ts:442-461 and 526-554, integrations.ts:550-640,
\* backups.ts:262-278 and 432-441).
WorkEnds == A!CancelEnds /\ P!PushTried /\ D!DeletionEnds /\ B!Reclaimed

\* What holds others up does not do so for ever: a socket whose session is over, and
\* a command whose outcome is unknown (workspace.ts:252-258, 387-394 and 482-497).
BlocksEnd == U!SocketsEnd /\ EventuallyUnblocked
=============================================================================
