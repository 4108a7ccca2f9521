--------------------------- MODULE MCHostedRecords ---------------------------
(***************************************************************************)
(* Small instances of what a workspace consists of, checked                   *)
(* together.  The parts share nothing: in a behaviour one of them moves,   *)
(* the one that focus names, and the others stay in their initial states.  *)
(***************************************************************************)
EXTENDS TLC, Naturals, FiniteSets

CONSTANTS Login, Workspace, Owned, MaxRevoked, Bundle, Second, Import,
  ImportFaults, Server, Volume, Project, Title, Account, Resource, Dashboard,
  MaxProjects, MaxChanges, MaxOrganized, Blob, Image, Index, Repo, Client

\* The user owns one of the workspaces; what the code writes for nothing, for a
\* workspace's own document, or for a request without a project names nothing else.
ASSUME RecordsAssumption ==
  /\ Owned \in Workspace /\ MaxRevoked \in Nat /\ MaxProjects \in Nat
  /\ {"none", "own"} \cap Bundle = {} /\ {"show", "ignore"} \cap (Project \cup Title) = {}

VARIABLES
  focus,  \* the part that moves in a behaviour
  user, memberships, sessions, flow, closing, connecting, sockets, timer,
  source, files, owner, members, machine_route, domain_route, documents,
  marker, writing, imports, stops, legacy, bundle, projects, services,
  assigned, orgrev, connection, cache, flight, attempt, boards, blobs,
  manifests, tag, pushing

U == INSTANCE Accounts WITH Own <- Owned
M == INSTANCE Migration WITH account <- owner
E == INSTANCE HostedExport
O == INSTANCE Organization
G == INSTANCE Registry

accountsVars == <<user, memberships, sessions, flow, closing, connecting,
                  sockets, timer>>
migrationVars == <<source, files, owner, members, machine_route, domain_route,
                   documents, marker, writing, imports, stops>>
exportVars == <<legacy, bundle>>
projectsVars == <<projects, services, assigned, orgrev, connection, cache,
                  flight, attempt, boards>>
registryVars == <<blobs, manifests, tag, pushing>>

\* Of the accounts a migration may find, the other parts have one.
Init ==
  /\ focus \in {"accounts", "migration", "export", "projects", "registry"}
  /\ U!Init /\ M!Init /\ E!Init /\ O!Init /\ G!Init
  /\ focus # "migration" => owner = "user"

Next ==
  \/ /\ focus = "accounts" /\ U!Next
     /\ UNCHANGED <<focus, migrationVars, exportVars, projectsVars,
                    registryVars>>
  \/ /\ focus = "migration" /\ M!Next
     /\ UNCHANGED <<focus, accountsVars, exportVars, projectsVars,
                    registryVars>>
  \/ /\ focus = "export" /\ E!Next
     /\ UNCHANGED <<focus, accountsVars, migrationVars, projectsVars,
                    registryVars>>
  \/ /\ focus = "projects" /\ O!Next
     /\ UNCHANGED <<focus, accountsVars, migrationVars, exportVars,
                    registryVars>>
  \/ /\ focus = "registry" /\ G!Next
     /\ UNCHANGED <<focus, accountsVars, migrationVars, exportVars,
                    projectsVars>>

Spec == Init /\ [][Next]_<<focus, accountsVars, migrationVars, exportVars,
                         projectsVars, registryVars>>

\* Bound: one limit of the import is exceeded at a time, and only where neither a
\* custom network nor a command of the fleet forbids the export.
Bounded ==
  legacy.over # {} => Cardinality(legacy.over) = 1 /\ ~legacy.custom /\ legacy.command = "none"

Symmetry == Permutations(Import) \cup Permutations(Server)
-----------------------------------------------------------------------------
(* Properties.  What each conjunct says, and of which code, is written     *)
(* where it is defined.                                                    *)

\* The documents and rows of every part have the shape their handlers give them.
TypeOK == U!TypeOK /\ M!TypeOK /\ E!TypeOK /\ O!TypeOK /\ G!TypeOK

\* What refers to something finds it: services and resources their project, a tag
\* its image, an export its import, a session its membership and its authorization
\* (runtime.ts:476-491, project-organization.ts:185-229, registry.ts:257-290,
\* migration.ts:82-341, auth.ts:281-328).
ReferencesHold ==
  /\ O!RowsHaveProject /\ O!ServicesHaveProject /\ G!Pullable /\ E!Importable
  /\ U!SessionsOfMembers /\ U!RevocationIsFinal

\* An import takes nothing from another workspace, is whole when it becomes active,
\* is made of one export and is paused until then; a person decides on what they
\* see, which is the account that is connected (migration.ts:356-393 and 467-551,
\* workspace.ts:184-185, project-organization.ts:121-123, cloudflare-overview.ts:589-595).
StepsHold ==
  /\ M!RoutesHold /\ M!ActiveIsWhole /\ M!ImportedOnce /\ M!StagedIsPaused
  /\ O!ViewHolds /\ O!ShownIsConnected
=============================================================================
