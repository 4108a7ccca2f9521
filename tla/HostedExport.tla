---------------------------- MODULE HostedExport ----------------------------
(***************************************************************************)
(* The export of a self-hosted installation for the hosted edition, and    *)
(* the validation of what was exported (export-hosted.mjs, migration.ts).  *)
(*                                                                         *)
(* The source changes in the steps that matter here, each of them modelled *)
(* by another module; the export reads it in one REPEATABLE READ           *)
(* transaction and is refused or yields a bundle.                          *)
(***************************************************************************)
EXTENDS Integers

CONSTANTS
  Server,   \* machines
  Volume    \* databases and what was retained of them, each used once

VARIABLES
  legacy,   \* the rows of the source
  bundle    \* what the last export wrote, or NoBundle

hexvars == <<legacy, bundle>>
NoServer == "none"
\* A document of the bundle has at most 1 MiB, a bundle at most 1000 installations and
\* 10,000 documents or 16 MiB: what of it is over its limit.
Limits   == {"document", "installations", "bundle"}
NoBundle == [written |-> FALSE]

Init ==
  /\ legacy = [machines |-> {}, nodes |-> {}, hub |-> NoServer, runtime |-> NoServer, custom |-> FALSE,
               service |-> "none", promoting |-> FALSE, deployment |-> "none", current |-> FALSE,
               volumes |-> [v \in Volume |-> [status |-> "none", on |-> NoServer]], bound |-> {},
               domain |-> "none", token |-> FALSE, github |-> FALSE, command |-> "none", push |-> FALSE,
               over |-> {}]
  /\ bundle = NoBundle

Becomes(new) == legacy' = new /\ new # legacy /\ bundle' = NoBundle
-----------------------------------------------------------------------------
(* The source.                                                             *)

BugRemovable == legacy.machines \ {legacy.runtime}
\* The coordinator and the machine of the runtime stay.
Removable == legacy.machines \ {legacy.hub, legacy.runtime}

Machines(h) ==
  \/ Becomes([legacy EXCEPT !.machines = @ \cup {h}])
  \/ /\ h \in legacy.machines
     /\ Becomes([legacy EXCEPT !.nodes = @ \cup {h}, !.hub = IF @ = NoServer THEN h ELSE @])
  \/ /\ h \in Removable
     /\ \A v \in Volume : legacy.volumes[v].on = h => legacy.volumes[v].status = "retained"
     /\ Becomes([legacy EXCEPT !.machines = @ \ {h}, !.nodes = @ \ {h}])

\* The agent on the hub, or a scheduler that is reached directly.
Runtime ==
  \/ legacy.hub # NoServer /\ Becomes([legacy EXCEPT !.runtime = legacy.hub])
  \/ Becomes([legacy EXCEPT !.runtime = "direct"])
  \/ Becomes([legacy EXCEPT !.custom = ~@])
  \/ \E c \in {"none", "read", "write"} : Becomes([legacy EXCEPT !.command = c])

Services ==
  \/ legacy.service = "none" /\ Becomes([legacy EXCEPT !.service = "live"])
  \/ /\ legacy.service = "live" /\ legacy.deployment \in {"none", "failed", "healthy"} /\ legacy.runtime # NoServer
     /\ Becomes([legacy EXCEPT !.deployment = "active"])
  \/ /\ legacy.deployment = "active"
     /\ \/ Becomes([legacy EXCEPT !.promoting = TRUE])
        \/ Becomes([legacy EXCEPT !.deployment = "failed", !.promoting = FALSE])
        \/ Becomes([legacy EXCEPT !.deployment = "healthy", !.promoting = FALSE, !.current = TRUE])
  \/ legacy.service = "live" /\ legacy.domain = "none" /\ Becomes([legacy EXCEPT !.service = "deleting"])
  \/ Becomes([legacy EXCEPT !.push = ~@ /\ legacy.service = "live"])

Databases(v) ==
  LET row == legacy.volumes[v] IN
  \/ row.status = "none" /\ \E h \in legacy.machines :
       Becomes([legacy EXCEPT !.volumes[v] = [status |-> "pending", on |-> h]])
  \/ row.status = "pending" /\ \E s \in {"healthy", "failed"} : Becomes([legacy EXCEPT !.volumes[v].status = s])
  \/ row.status = "healthy" /\ legacy.service = "live" /\ Becomes([legacy EXCEPT !.bound = {v}])
  \/ row.status \in {"healthy", "failed", "delete_failed"} /\ Becomes([legacy EXCEPT !.volumes[v].status = "deleting"])
  \/ row.status = "deleting" /\ Becomes([legacy EXCEPT !.volumes[v].status = "delete_failed"])
  \/ row.status = "deleting" /\ Becomes([legacy EXCEPT !.volumes[v].status = "retained", !.bound = @ \ {v}])

Routes ==
  \/ Becomes([legacy EXCEPT !.token = TRUE])
  \/ legacy.token /\ legacy.service = "live" /\ legacy.domain = "none" /\ Becomes([legacy EXCEPT !.domain = "new"])
  \/ legacy.domain = "new" /\ Becomes([legacy EXCEPT !.domain = "provisioned"])
  \/ legacy.domain # "none" /\ \E s \in {"deleting", "none"} : Becomes([legacy EXCEPT !.domain = s])
  \/ Becomes([legacy EXCEPT !.github = ~@, !.over = @ \ {"installations"}])

\* The log of a deployment, the installations of the owner and the events add up.
Grows ==
  \/ legacy.deployment = "active" /\ Becomes([legacy EXCEPT !.over = @ \cup {"document"}])
  \/ legacy.github /\ Becomes([legacy EXCEPT !.over = @ \cup {"installations"}])
  \/ Becomes([legacy EXCEPT !.over = @ \cup {"bundle"}])
-----------------------------------------------------------------------------
(* transformLegacy.                                                        *)

BugQuiet == legacy.deployment # "active" /\ legacy.command # "write" /\ ~legacy.push
\* Nothing under way.
Quiet ==
  /\ legacy.deployment # "active" /\ legacy.service # "deleting" /\ ~legacy.promoting
  /\ legacy.domain \in {"none", "provisioned"} /\ legacy.command # "write" /\ ~legacy.push
  /\ \A v \in Volume : legacy.volumes[v].status \notin {"pending", "deleting"}

\* A fleet, a runtime, images and a bundle the hosted edition can take over.
Transferable ==
  /\ ~legacy.custom /\ (legacy.machines # {} => legacy.hub # NoServer)
  /\ legacy.runtime # NoServer => legacy.runtime = legacy.hub
  /\ legacy.current => legacy.runtime # NoServer
  /\ legacy.domain # "none" => legacy.token
  /\ "bundle" \notin legacy.over

BugOwnerOf(v) == "present"
\* The machine of a retained volume may have been removed.
OwnerOf(v) == IF legacy.volumes[v].on \in legacy.machines THEN "present" ELSE "missing"

DatabasesOf == {v \in Volume : legacy.volumes[v].status \notin {"none", "retained"}}
RetainedOf  == {v \in Volume : legacy.volumes[v].status = "retained"}

Documents ==
  [written |-> TRUE, machines |-> legacy.machines, nodes |-> legacy.nodes, hub |-> legacy.hub,
   runtime |-> legacy.runtime, service |-> legacy.service, promoting |-> legacy.promoting,
   current |-> legacy.current, over |-> legacy.over, deployment |-> legacy.deployment,
   domain |-> legacy.domain, bound |-> legacy.bound,
   databases |-> [v \in DatabasesOf |-> [on |-> legacy.volumes[v].on,
                    phase |-> IF legacy.volumes[v].status = "failed" THEN "failed" ELSE "ready"]],
   retained |-> [v \in RetainedOf |-> [on |-> legacy.volumes[v].on, owner |-> OwnerOf(v)]],
   legacyruntime |-> legacy.runtime # NoServer, legacycloudflare |-> legacy.token,
   requirements |-> (IF legacy.domain # "none" THEN {"legacy-domain-tunnels"} ELSE {})
                    \cup (IF legacy.current THEN {"legacy-registry-pull"} ELSE {}),
   grants |-> legacy.github, app |-> legacy.github]

Export ==
  /\ Quiet /\ Transferable /\ bundle = NoBundle
  /\ bundle' = Documents /\ UNCHANGED legacy
-----------------------------------------------------------------------------
(* validateBundle.                                                         *)

ValidFleet(b) ==
  /\ (b.machines # {} => b.hub \in b.nodes) /\ b.nodes \subseteq b.machines
  /\ (b.runtime # NoServer => b.runtime = b.hub)

ValidWorkloads(b) ==
  /\ b.service # "deleting" /\ ~b.promoting /\ (b.current => b.deployment # "none")
  /\ b.deployment \in {"none", "healthy", "failed"}
  /\ b.deployment # "none" \/ b.domain # "none" \/ b.bound # {} => b.service # "none"
  /\ b.bound \subseteq DOMAIN b.databases

ValidVolumes(b) ==
  /\ \A v \in DOMAIN b.databases : b.databases[v].on \in b.machines
  /\ \A v \in DOMAIN b.retained :
       b.retained[v].owner = IF b.retained[v].on \in b.machines THEN "present" ELSE "missing"

ValidRoutes(b) == b.domain \in {"none", "provisioned"} /\ (b.grants => b.app)

\* What is in the bundle may be imported, if it is not too large.
Acceptable(b) == ValidFleet(b) /\ ValidWorkloads(b) /\ ValidVolumes(b) /\ ValidRoutes(b)
Valid(b) == b.over = {} /\ Acceptable(b)
-----------------------------------------------------------------------------
Next ==
  \/ \E h \in Server : Machines(h)
  \/ Runtime \/ Services \/ Routes \/ Grows
  \/ \E v \in Volume : Databases(v)
  \/ Export

Spec == Init /\ [][Next]_hexvars
-----------------------------------------------------------------------------
(* Properties.                                                             *)

TypeOK ==
  /\ legacy.nodes \subseteq legacy.machines /\ legacy.machines \subseteq Server
  /\ legacy.hub # NoServer => legacy.hub \in legacy.nodes
  /\ \A v \in Volume : legacy.volumes[v].status \notin {"none", "retained"} => legacy.volumes[v].on \in legacy.machines

\* A bundle that was written is accepted, up to a document of more than 1 MiB or more
\* than 1000 installations: of the rest, what the export checks on rows under foreign
\* keys is all that the import checks on documents (export-hosted.mjs:126-446 and
\* 490-493, migration.ts:82-341).
Importable ==
  bundle.written =>
    /\ Acceptable(bundle)
    /\ Valid(bundle) \/ bundle.over \cap {"document", "installations"} # {}

\* "this tool refuses oversized bundles": no bundle is written that the import finds
\* too large (docs/hosted-migration.md:95, migration.ts:97-103 and 140-151).
AlwaysImportable == bundle.written => Valid(bundle)

\* "Finish database provisioning/deletion before export": no database whose removal was
\* asked for is exported as one that is in use (export-hosted.mjs:141-146).
ExportIsSettled ==
  bundle.written => \A v \in DOMAIN bundle.databases : legacy.volumes[v].status # "delete_failed"
=============================================================================
