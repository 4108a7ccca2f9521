---------------------------- MODULE MCSelfHosted -----------------------------
(***************************************************************************)
(* Small instances of the self-hosted edition, checked together.  The      *)
(* parts share nothing: in a behaviour one of them moves, the one that     *)
(* focus names, and the others stay in their initial states.               *)
(***************************************************************************)
EXTENDS TLC, Naturals

CONSTANTS Worker, MaxDeployments, SelfFaults, Domain, EdgeFaults, Person,
  Attempt, Installation, MaxTokens, GitFaults, MaxPushes, MaxDeploys,
  MaxStamps, PushTroubles, Caller, Base, MaxStarts, BaseFaults, Ticket, Host, Command,
  FleetMishaps
\* Of two persons one may see the installations.
CONSTANTS Stranger, OwnerOfApp, OneTicket
Sees == (Stranger :> {}) @@ (OwnerOfApp :> Installation)

\* Deployments that set the webhook up are alike, and so are commands.
Symmetry == Permutations(Caller)

\* Names the code keeps for "nobody" and "nothing" are not names of anybody.
ASSUME ParametersAssumption ==
  /\ "none" \notin Host \cup Ticket \cup OneTicket /\ "nobody" \notin Person
  /\ MaxTokens \in Nat /\ GitFaults \in Nat /\ MaxStarts \in Nat
  /\ MaxPushes \in Nat /\ "none" \notin Domain
  /\ MaxDeployments \in Nat \ {0}
  /\ Worker \cap {"reconciler", "observer", "creator", "free"} = {}

VARIABLES
  focus,  \* the part that moves in a behaviour
  rows, leased, srv, domain, config, serves, dlock, jobs, sick, task, trouble,
  row, held, act, tunnels, runs, zone, stops, registered, linked, token,
  grants, flow, try, sessions, idlock, use, installed, deleted, spent,
  revoked, untold, outrun, issued, gaps, head, sent, seen, posts, clock,
  request, known, sweep, table, busy, hooks, setup, hooklock, bother, base, retained, attached, baselock, crew, servers, up,
  starts, late, revived, upsets, tickets, hosts, nodes, nextslot, hub,
  configured, runtime, placed, asks, ready, saving, removing, calls, mishaps

L == INSTANCE SelfHostedDeploys WITH CutSaves <- FALSE, LateCleanups <- FALSE
N == INSTANCE SelfHostedDomains
H == INSTANCE SelfHostedGitHub
P == INSTANCE SelfHostedPushes
B == INSTANCE SelfHostedDatabases
F == INSTANCE SelfHostedFleet WITH Call <- {}
C == INSTANCE SelfHostedFleet WITH Call <- Command, Ticket <- OneTicket

deploysVars == <<rows, leased, srv, domain, config, serves, dlock, jobs, sick,
                 task, trouble>>
domainsVars == <<row, held, act, tunnels, runs, zone, stops>>
githubVars == <<registered, linked, token, grants, flow, try, sessions,
                idlock, use, installed, deleted, spent, revoked, untold,
                outrun, issued, gaps>>
pushesVars == <<head, sent, seen, posts, clock, request, known, sweep, table, busy, hooks,
                setup, hooklock, bother>>
databasesVars == <<base, retained, attached, baselock, crew, servers, up,
                   starts, late, revived, upsets>>
fleetVars == <<tickets, hosts, nodes, nextslot, hub, configured, runtime,
               placed, asks, ready, saving, removing, calls, mishaps>>

\* Of the zones domains may find, the other parts have the empty one.  The fleet
\* moves without requests to the scheduler ("fleet"), or with one machine and the
\* requests it is sent ("commands").
Init ==
  /\ focus \in {"deploys", "domains", "github", "pushes", "databases", "fleet",
                "commands"}
  /\ L!Init /\ N!Init /\ H!Init /\ P!Init /\ B!Init
  /\ IF focus = "commands" THEN C!Init ELSE F!Init
  /\ focus # "domains" => zone = N!NoRecord

Next ==
  \/ /\ focus = "deploys" /\ L!Next
     /\ UNCHANGED <<focus, domainsVars, githubVars, pushesVars, databasesVars,
                    fleetVars>>
  \/ /\ focus = "domains" /\ N!Next
     /\ UNCHANGED <<focus, deploysVars, githubVars, pushesVars, databasesVars,
                    fleetVars>>
  \/ /\ focus = "github" /\ H!Next
     /\ UNCHANGED <<focus, deploysVars, domainsVars, pushesVars,
                    databasesVars, fleetVars>>
  \/ /\ focus = "pushes" /\ P!Next
     /\ UNCHANGED <<focus, deploysVars, domainsVars, githubVars,
                    databasesVars, fleetVars>>
  \/ /\ focus = "databases" /\ B!Next
     /\ UNCHANGED <<focus, deploysVars, domainsVars, githubVars, pushesVars,
                    fleetVars>>
  \/ /\ focus = "fleet" /\ F!Next
     /\ UNCHANGED <<focus, deploysVars, domainsVars, githubVars, pushesVars,
                    databasesVars>>
  \/ /\ focus = "commands" /\ C!Next
     /\ UNCHANGED <<focus, deploysVars, domainsVars, githubVars, pushesVars,
                    databasesVars>>

Spec == Init /\ [][Next]_<<focus, deploysVars, domainsVars, githubVars, pushesVars,
                         databasesVars, fleetVars>>
-----------------------------------------------------------------------------
(* Properties.  What each conjunct says, and of which code, is written     *)
(* where it is defined.                                                    *)

\* The rows of every part, and what its tasks hold, have the shape the code gives.
TypeOK ==
  /\ L!TypeOK /\ N!TypeOK /\ H!TypeOK /\ P!TypeOK /\ B!TypeOK
  /\ IF focus = "commands" THEN C!TypeOK ELSE F!TypeOK

\* What serves visitors runs, and what was given up does not: the tasks that lease
\* deployments never stop the release that is current or routed, and nothing of a
\* removed service, database or domain stays (runtime/deploy.rs:136-560,
\* runtime/database.rs, integrations.rs:1074-1190).
RunningKept ==
  /\ L!CurrentRuns /\ L!RoutedRuns /\ L!PromotionIsActive /\ L!GoneIsStopped
  /\ B!RemovedHasNoServer /\ N!NoOrphan

\* What is claimed by several at once is given once: a push, a webhook, a command, an
\* enrollment token, the link of a GitHub account and what hangs on them
\* (integrations.rs:1196-1330, networking.rs:140-480, github_app.rs:380-600).
ClaimedOnce ==
  /\ P!DeployedOnce /\ P!NewerStays /\ P!OneHook /\ F!TicketOnce
  /\ F!PlacedKeepsMachine /\ H!UnlinkedIsClean /\ H!GrantsExist /\ H!TokenUsable
  /\ focus = "commands" => C!RunsOnce

\* Late steps undo nothing: only records of the product are removed, and edited ones
\* only if the edit came after a task had looked; a removal that was asked for stands,
\* a database is healthy only when its own server was probed, addresses and the App's
\* registration are given once (integrations.rs:143-160 and 1074-1190,
\* runtime/database.rs, networking.rs:180-260, github_app.rs:100-330).
StepsHold ==
  /\ N!NotOurs /\ B!RemovalStands /\ B!HealthyIsVerified /\ F!AddressesAreKept
  /\ H!SetOnce
=============================================================================
