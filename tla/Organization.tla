---------------------------- MODULE Organization ----------------------------
(***************************************************************************)
(* Projects, their services as documents, and the assignment of the        *)
(* resources of a connected Cloudflare account to projects                 *)
(* (project-organization.ts, cloudflare-overview.ts, workspace.ts).        *)
(*                                                                         *)
(* A handler runs in one step from one await to the next: it waits for the *)
(* body of its request or for Cloudflare.  Requests of the same connection *)
(* share one flight of requests to Cloudflare, kept with the object.       *)
(***************************************************************************)
EXTENDS Integers, FiniteSets

CONSTANTS
  Project,     \* identifiers of projects, each used at most once
  Title,       \* their names
  Account,     \* Cloudflare accounts
  Resource,    \* names of workers and pages, the same in every account
  Dashboard,   \* browsers, each with one request at a time
  MaxProjects, \* MAX_PROJECTS_PER_WORKSPACE
  MaxChanges,  \* bound: changes of the connection
  MaxOrganized \* bound: assignments

VARIABLES
  projects,    \* rows of projects: name, source, status
  services,    \* the service of a project
  assigned,    \* project_resources, by account and name
  orgrev,      \* the revision of the organization
  connection,  \* revision and account of the connection, if there is one
  cache,       \* the overview that is kept, as its revision and account
  flight,      \* the requests to Cloudflare under way
  attempt,     \* the connection being checked
  boards       \* what each dashboard has seen and asked for

orgvars == <<projects, services, assigned, orgrev, connection, cache, flight, attempt, boards>>
NoAccount == "none"
NoProject == "none"
NoTitle   == "none"
NoOverview == [rev |-> -1, account |-> NoAccount]
Unassigned == [project |-> NoProject, ignored |-> FALSE, known |-> FALSE]
Blank == [pc |-> "idle", rev |-> 0, rows |-> <<>>, conn |-> 0, account |-> NoAccount,
          resource |-> NoTitle, choice |-> NoTitle, project |-> NoProject, saw |-> "none"]

Init ==
  /\ projects = [p \in Project |-> [status |-> "none", title |-> NoTitle, source |-> 0]]
  /\ services = [p \in Project |-> "none"]
  /\ assigned = [a \in Account |-> [r \in Resource |-> Unassigned]] /\ orgrev = 0
  /\ connection = [rev |-> 0, account |-> NoAccount] /\ cache = NoOverview /\ flight = NoOverview
  /\ attempt = NoOverview /\ boards = [b \in Dashboard |-> Blank]

cloudflare == <<connection, cache, flight, attempt>>
Count     == Cardinality({p \in Project : projects[p].status \in {"active", "deleting"}})
Named(t)  == {p \in Project : projects[p].status \in {"active", "deleting"} /\ projects[p].title = t}
New(t)    == [status |-> "active", title |-> t, source |-> 0]
-----------------------------------------------------------------------------
(* Projects and their services.                                            *)

CreateProject(p, t) ==
  /\ projects[p].status = "none" /\ Count < MaxProjects
  /\ projects' = [projects EXCEPT ![p] = New(t)]
  /\ UNCHANGED <<services, assigned, orgrev, cloudflare, boards>>

\* The source stays while the project has services.
UpdateProject(p, source) ==
  /\ projects[p].status = "active" /\ (services[p] = "none" \/ source = projects[p].source)
  /\ projects' = [projects EXCEPT ![p].source = source]
  /\ UNCHANGED <<services, assigned, orgrev, cloudflare, boards>>

\* A request about a project or its service arrives, and its body is awaited.
ServiceRequest(b, p) ==
  /\ boards[b].pc = "idle" /\ projects[p].status \in {"active", "deleting"}
  /\ boards' = [boards EXCEPT ![b] = [Blank EXCEPT !.pc = "body", !.project = p, !.saw = projects[p].status]]
  /\ UNCHANGED <<projects, services, assigned, orgrev, cloudflare>>

BugOpenNow(b) == boards[b].saw = "active"
\* The project is read again after the body.
OpenNow(b) == projects[boards[b].project].status = "active"

CreateService(b) ==
  LET p == boards[b].project IN
  /\ boards[b].pc = "body" /\ boards' = [boards EXCEPT ![b] = Blank]
  /\ services' = IF OpenNow(b) /\ projects[p].source # 0 /\ services[p] = "none"
                 THEN [services EXCEPT ![p] = "live"] ELSE services
  /\ UNCHANGED <<projects, assigned, orgrev, cloudflare>>

\* Services with deployments, databases, domains or Apple jobs refuse this.
RemoveProject(p) ==
  /\ projects[p].status \in {"active", "deleting"}
  /\ projects' = [projects EXCEPT ![p].status = "deleting"]
  /\ services' = [services EXCEPT ![p] = IF @ = "none" THEN @ ELSE "deleting"]
  /\ UNCHANGED <<assigned, orgrev, cloudflare, boards>>

ServiceRemoved(p) ==
  /\ services[p] = "deleting" /\ services' = [services EXCEPT ![p] = "none"]
  /\ UNCHANGED <<projects, assigned, orgrev, cloudflare, boards>>

BugReleased(p) == assigned
\* releaseProjectResources.
Released(p) == [a \in Account |-> [r \in Resource |->
  IF assigned[a][r].project = p THEN [assigned[a][r] EXCEPT !.project = NoProject] ELSE assigned[a][r]]]

\* The alarm forgets a project without services, and its revision moves with its rows.
ForgetProject(p) ==
  /\ projects[p].status = "deleting" /\ services[p] = "none"
  /\ projects' = [projects EXCEPT ![p].status = "gone"]
  /\ assigned' = Released(p)
  /\ orgrev' = IF \E a \in Account, r \in Resource : assigned[a][r].project = p THEN orgrev + 1 ELSE orgrev
  /\ UNCHANGED <<services, cloudflare, boards>>
-----------------------------------------------------------------------------
(* The connection.                                                         *)

Changes == connection.rev < MaxChanges

\* One at a time: the account is read before its token is kept.
Connect(a) ==
  /\ attempt = NoOverview /\ Changes /\ attempt' = [rev |-> connection.rev, account |-> a]
  /\ UNCHANGED <<projects, services, assigned, orgrev, connection, cache, flight, boards>>

Connected(ok) ==
  /\ attempt # NoOverview /\ attempt' = NoOverview
  /\ IF ok /\ attempt.rev = connection.rev
     THEN /\ connection' = [rev |-> connection.rev + 1, account |-> attempt.account]
          /\ cache' = connection'
     ELSE UNCHANGED <<connection, cache>>
  /\ UNCHANGED <<projects, services, assigned, orgrev, flight, boards>>

Disconnect ==
  /\ Changes /\ connection' = [rev |-> connection.rev + 1, account |-> NoAccount]
  /\ cache' = NoOverview
  /\ UNCHANGED <<projects, services, assigned, orgrev, flight, attempt, boards>>
-----------------------------------------------------------------------------
(* The overview, and the assignment of resources.                          *)

\* The organization as a person sees it, before they choose.
View(b) ==
  /\ boards[b].pc = "idle"
  /\ boards' = [boards EXCEPT ![b] = [Blank EXCEPT !.pc = "viewed", !.rev = orgrev, !.rows = assigned]]
  /\ UNCHANGED <<projects, services, assigned, orgrev, cloudflare>>

\* read: the cache, the flight of this connection, or a new one.
Read(b, board) ==
  LET cached == connection.account = NoAccount \/ cache = connection IN
  /\ boards' = [boards EXCEPT ![b] = [board EXCEPT
        !.pc = IF cached THEN "read" ELSE "reading", !.conn = connection.rev, !.saw = connection.account]]
  /\ flight' = IF ~cached /\ flight # connection THEN connection ELSE flight

\* The dashboard's own request: whatever account it was told is current.
Show(b) ==
  /\ boards[b].pc = "idle" /\ Read(b, [Blank EXCEPT !.choice = "show"])
  /\ UNCHANGED <<projects, services, assigned, orgrev, connection, cache, attempt>>

Organize(b, a, r, choice) ==
  /\ boards[b].pc = "viewed"
  /\ Read(b, [boards[b] EXCEPT !.account = a, !.resource = r, !.choice = choice])
  /\ UNCHANGED <<projects, services, assigned, orgrev, connection, cache, attempt>>

CacheExpires ==
  /\ cache # NoOverview /\ cache' = NoOverview
  /\ UNCHANGED <<projects, services, assigned, orgrev, connection, flight, attempt, boards>>

BugSettled == TRUE
\* The connection is the one the flight left with.
Settled == flight.rev = connection.rev

\* Cloudflare answers, or fails; those who wait for another connection's flight wait on.
Landed(ok) ==
  /\ flight # NoOverview /\ flight' = NoOverview
  /\ cache' = IF ok /\ Settled THEN flight ELSE cache
  /\ boards' = [b \in Dashboard |->
       IF boards[b].pc # "reading" \/ boards[b].conn # flight.rev THEN boards[b]
       ELSE IF ok /\ Settled THEN [boards[b] EXCEPT !.pc = "read"] ELSE Blank]
  /\ UNCHANGED <<projects, services, assigned, orgrev, connection, attempt>>

\* A flight that was replaced lands too; its connection is no longer current.
Superseded(b) ==
  /\ boards[b].pc = "reading" /\ boards[b].conn # flight.rev
  /\ boards' = [boards EXCEPT ![b] = Blank]
  /\ UNCHANGED <<projects, services, assigned, orgrev, cloudflare>>

Shown(b) ==
  /\ boards[b].pc = "read" /\ boards[b].choice = "show" /\ boards' = [boards EXCEPT ![b] = Blank]
  /\ UNCHANGED <<projects, services, assigned, orgrev, cloudflare>>

BugCurrent(b) == boards[b].conn = connection.rev
\* The organization is the one the person saw, the connection the one that was read.
Current(b) == boards[b].conn = connection.rev /\ boards[b].rev = orgrev

Accepted(b) == Current(b) /\ boards[b].account = boards[b].saw

Save(b, p) ==
  LET o == boards[b] IN
  /\ orgrev < MaxOrganized
  /\ assigned' = [assigned EXCEPT ![o.account][o.resource] =
                    [project |-> p, ignored |-> o.choice = "ignore", known |-> TRUE]]
  /\ orgrev' = orgrev + 1 /\ boards' = [boards EXCEPT ![b] = Blank]

\* No project, a project that exists, or a name for one.
Leave(b) ==
  /\ boards[b].pc = "read" /\ boards[b].choice \in {"leave", "ignore"} /\ Accepted(b) /\ Save(b, NoProject)
  /\ UNCHANGED <<projects, services, cloudflare>>

Assign(b) ==
  LET p == boards[b].choice IN
  /\ boards[b].pc = "read" /\ p \in Project /\ Accepted(b) /\ projects[p].status = "active" /\ Save(b, p)
  /\ UNCHANGED <<projects, services, cloudflare>>

AssignByName(b, p) ==
  LET t == boards[b].choice IN
  /\ boards[b].pc = "read" /\ t \in Title /\ Accepted(b)
  /\ IF Named(t) = {} THEN projects[p].status = "none" /\ Count < MaxProjects
                      ELSE Named(t) = {p} /\ projects[p].status = "active"
  /\ projects' = [projects EXCEPT ![p] = IF @.status = "none" THEN New(t) ELSE @] /\ Save(b, p)
  /\ UNCHANGED <<services, cloudflare>>

Refused(b) ==
  LET o == boards[b] IN
  /\ o.pc = "read" /\ o.choice # "show"
  /\ \/ ~Accepted(b)
     \/ o.choice \in Project /\ projects[o.choice].status # "active"
     \/ o.choice \in Title /\ (IF Named(o.choice) = {} THEN Count >= MaxProjects
                               ELSE \A p \in Named(o.choice) : Named(o.choice) # {p} \/ projects[p].status # "active")
  /\ boards' = [boards EXCEPT ![b] = Blank]
  /\ UNCHANGED <<projects, services, assigned, orgrev, cloudflare>>
-----------------------------------------------------------------------------
Next ==
  \/ \E p \in Project : \/ (\E t \in Title : CreateProject(p, t)) \/ (UpdateProject(p, 1))
                        \/ RemoveProject(p) \/ ServiceRemoved(p) \/ ForgetProject(p)
                        \/ \E b \in Dashboard : ServiceRequest(b, p) \/ AssignByName(b, p)
  \/ \E a \in Account : Connect(a)
  \/ (\E ok \in BOOLEAN : Connected(ok) \/ Landed(ok))
  \/ Disconnect \/ CacheExpires
  \/ \E b \in Dashboard :
       \/ CreateService(b) \/ View(b) \/ Show(b) \/ Shown(b) \/ Superseded(b) \/ Leave(b) \/ Assign(b) \/ Refused(b)
       \/ \E a \in Account, r \in Resource, c \in Project \cup Title \cup {"leave", "ignore"} : Organize(b, a, r, c)

Spec == Init /\ [][Next]_orgvars
-----------------------------------------------------------------------------
(* Properties.                                                             *)

TypeOK ==
  /\ projects \in [Project -> [status : {"none", "active", "deleting", "gone"}, title : Title \cup {NoTitle},
                               source : 0..1]]
  /\ services \in [Project -> {"none", "live", "deleting"}] /\ Count <= MaxProjects
  /\ \A a \in Account, r \in Resource : assigned[a][r] \in
       [project : Project \cup {NoProject}, ignored : BOOLEAN, known : BOOLEAN]

\* A resource belongs to a project that exists, and an ignored one to none: a removal
\* releases what was assigned until its last step (project-organization.ts:42-56, 185-229).
RowsHaveProject ==
  \A a \in Account, r \in Resource :
    LET row == assigned[a][r] IN
    /\ row.project # NoProject => projects[row.project].status \in {"active", "deleting"} /\ ~row.ignored

\* A service is of a project that exists: a project that is being removed gets no new
\* one while its last one goes (workspace.ts:281-290, runtime.ts:476-491).
ServicesHaveProject == \A p \in Project : services[p] # "none" => projects[p].status \in {"active", "deleting"}

\* What a person assigns is decided on what they saw: nobody's assignment and no
\* release is overwritten by a choice made before it (project-organization.ts:121-123).
ViewHolds ==
  [][\A b \in Dashboard : boards[b].pc = "read" /\ orgrev' # orgrev /\ boards'[b] # boards[b]
       => boards[b].rows = assigned]_orgvars

\* The inventory shown is of the account that is connected when it is shown, and
\* disconnecting hides it (project-organization.ts:33, cloudflare-overview.ts:589-595).
ShownIsConnected ==
  [][\A b \in Dashboard : boards[b].pc = "reading" /\ boards'[b].pc = "read"
       => boards[b].saw = connection.account]_orgvars
=============================================================================
