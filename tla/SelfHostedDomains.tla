-------------------------- MODULE SelfHostedDomains --------------------------
(***************************************************************************)
(* What the self-hosted control plane creates at Cloudflare for a public   *)
(* domain, and how it takes it back: the tunnel, its connector, and the    *)
(* record of the zone (crates/control-plane, integrations.rs).             *)
(*                                                                         *)
(* Three tasks work on the domains: the request that creates one, the      *)
(* request that removes one, and the observer.  A call of Cloudflare or of *)
(* the scheduler is a step, and so is a statement; what a task does with   *)
(* the provider it does under the advisory lock of the domain.  All        *)
(* domains have the same hostname, so that one follows another.            *)
(***************************************************************************)
EXTENDS Integers

CONSTANTS
  Domain,      \* identities of domains
  EdgeFaults   \* bound: calls that fail, requests cut off, restarts, changes by hand

Creator  == "creator"
Owner    == "owner"
Observer == "observer"
Task     == {Creator, Owner, Observer}
Nobody   == "nobody"
None     == "none"
Live     == {"pending"}     \* pending, healthy or degraded

VARIABLES
  row,        \* domains: status, and the identities kept: tunnel, record
  held,       \* the advisory lock of each domain
  act,        \* per task: next step, domain, what it read, and the status it listed
  tunnels,    \* Cloudflare: tunnels named after a domain
  runs,       \* Nomad: connectors
  zone,       \* Cloudflare: the record of the hostname, and whose it is: none, own,
              \* edited, overtaken (edited while a task was about to delete it) or foreign
  stops       \* faults so far

dvars   == <<row, held, act, tunnels, runs, zone, stops>>
provider == <<tunnels, runs, zone>>

Rest   == [pc |-> "rest", d |-> None, tunnel |-> FALSE, record |-> FALSE, listed |-> None]
NoRow  == [status |-> None, tunnel |-> FALSE, record |-> FALSE]
NoRecord == [kind |-> None, d |-> None]

Init ==
  /\ row = [d \in Domain |-> NoRow]
  /\ held = [d \in Domain |-> Nobody]
  /\ act = [t \in Task |-> Rest]
  /\ tunnels = {} /\ runs = {} /\ stops = 0
  /\ zone \in {NoRecord, [kind |-> "foreign", d |-> None]}

Exists(d) == row[d].status \notin {None, "gone"}
On(t, pc) == act[t].pc = pc
Go(t, pc) == act' = [act EXCEPT ![t].pc = pc]
End(t)    == act' = [act EXCEPT ![t] = Rest]
Fault     == stops < EdgeFaults /\ stops' = stops + 1
Unlock(t) == held' = [held EXCEPT ![act[t].d] = IF @ = t THEN Nobody ELSE @]
Set(d, status) == row' = IF Exists(d) THEN [row EXCEPT ![d].status = status] ELSE row

\* What follows an error in provision_domain or cleanup_domain; the lock goes.
Failure(t) ==
  /\ Unlock(t)
  /\ IF t = Creator /\ act[t].listed = "provisioning"
     THEN act' = [act EXCEPT ![t] = [Rest EXCEPT !.pc = "lock", !.d = act[t].d, !.listed = "deleting"]]
     ELSE IF t = Observer THEN End(t) ELSE Go(t, "unclean")

\* A call of a provider: it takes effect, or fails with or without effect.
Call(t, next, effect, none) ==
  \/ effect /\ next /\ UNCHANGED <<held, stops>>
  \/ Fault /\ (effect \/ none) /\ Failure(t)
-----------------------------------------------------------------------------
(* What starts the work.                                                   *)

Begin(t, d, listed) ==
  act' = [act EXCEPT ![t] = [Rest EXCEPT !.pc = "lock", !.d = d, !.listed = listed]]

\* create_domain; hostnames are unique.
CreateDomain(d) ==
  /\ On(Creator, "rest") /\ row[d].status = None /\ ~\E e \in Domain : Exists(e)
  /\ row' = [row EXCEPT ![d].status = "provisioning"]
  /\ Begin(Creator, d, "provisioning")
  /\ UNCHANGED <<held, provider, stops>>

DeleteDomain(d) ==
  /\ On(Owner, "rest") /\ Exists(d)
  /\ Set(d, "deleting") /\ Begin(Owner, d, "deleting")
  /\ UNCHANGED <<held, provider, stops>>

\* observe_domains: what it lists is acted on later.
List(d) ==
  /\ On(Observer, "rest") /\ row[d].status \in {"provisioning", "deleting"} \cup Live
  /\ Begin(Observer, d, row[d].status)
  /\ UNCHANGED <<row, held, provider, stops>>

\* The lock, and the row as it is under the lock.
Lock(t) ==
  LET d == act[t].d  a == act[t] IN
  /\ On(t, "lock") /\ held[d] = Nobody
  /\ IF ~Exists(d) THEN Failure(t)
     ELSE IF \/ a.listed = "provisioning" /\ row[d].status # "provisioning"
             \/ a.listed \in Live /\ row[d].status \notin Live
     THEN End(t) /\ UNCHANGED held
     ELSE /\ held' = [held EXCEPT ![d] = t]
          /\ act' = [act EXCEPT ![t] =
               [a EXCEPT !.tunnel = row[d].tunnel, !.record = row[d].record,
                         !.pc = CASE a.listed = "provisioning" -> "tunnel"
                                  [] a.listed = "deleting" -> "find"
                                  [] OTHER -> "route"]]
  /\ UNCHANGED <<row, provider, stops>>
-----------------------------------------------------------------------------
(* provision_domain.                                                       *)

\* A tunnel of that name is used again.
Tunnel(t) ==
  LET d == act[t].d IN
  /\ On(t, "tunnel")
  /\ IF act[t].tunnel THEN Go(t, "connector") /\ UNCHANGED <<held, tunnels, stops>>
     ELSE Call(t, Go(t, "savetunnel"), tunnels' = tunnels \cup {d}, UNCHANGED tunnels)
  /\ UNCHANGED <<row, runs, zone>>

SaveTunnel(t) ==
  /\ On(t, "savetunnel") /\ Go(t, "connector")
  /\ row' = [row EXCEPT ![act[t].d].tunnel = TRUE]
  /\ UNCHANGED <<held, provider, stops>>

\* The configuration, the token, and run_tunnel.
Connector(t) ==
  LET d == act[t].d IN
  /\ On(t, "connector")
  /\ IF d \notin tunnels THEN Failure(t) /\ UNCHANGED <<runs, stops>>
     ELSE Call(t, Go(t, IF act[t].record THEN "pending" ELSE "record"),
               runs' = runs \cup {d}, UNCHANGED runs)
  /\ UNCHANGED <<row, tunnels, zone>>

Own(d) == [kind |-> "own", d |-> d]

BugFree == TRUE
\* A name that has a record is not taken.
FreeName == zone.kind = None

Record(t) ==
  LET d == act[t].d IN
  /\ On(t, "record")
  /\ IF zone = Own(d) \/ FreeName
     THEN Call(t, Go(t, "saverecord"), zone' = Own(d), UNCHANGED zone)
     ELSE Failure(t) /\ UNCHANGED <<zone, stops>>
  /\ UNCHANGED <<row, tunnels, runs>>

SaveRecord(t) ==
  /\ On(t, "saverecord") /\ Go(t, "pending")
  /\ row' = [row EXCEPT ![act[t].d].record = TRUE]
  /\ UNCHANGED <<held, provider, stops>>

\* Whatever the status has become.
Pending(t) ==
  /\ On(t, "pending") /\ Set(act[t].d, "pending") /\ Unlock(t) /\ End(t)
  /\ UNCHANGED <<provider, stops>>
-----------------------------------------------------------------------------
(* cleanup_domain.                                                         *)

BugFound(t) == act[t].tunnel
\* The tunnel kept in the row, or the one that has the name of the domain.
Found(t) == act[t].tunnel \/ act[t].d \in tunnels

\* The record that was made for the domain, edited since or not.
Marked(d) == zone.kind \in {"own", "edited", "overtaken"} /\ zone.d = d

Find(t) ==
  LET d == act[t].d  tunnel == Found(t)  record == act[t].record \/ Marked(d) IN
  /\ On(t, "find")
  /\ \/ /\ act' = [act EXCEPT ![t].pc = IF record THEN "unrecord" ELSE "unconnect",
                              ![t].tunnel = tunnel, ![t].record = record]
        /\ row' = [row EXCEPT ![d].tunnel = tunnel, ![d].record = record]
        /\ UNCHANGED <<held, stops>>
     \/ Fault /\ Failure(t) /\ UNCHANGED row
  /\ UNCHANGED provider

BugOurs(d) == Marked(d)
\* The record is as it was made.
Ours(d) == zone = Own(d)

\* delete_owned_dns: the record is looked up and compared, and deleted by its
\* identity in a call of its own, whatever it has become by then.
CheckRecord(t) ==
  LET d == act[t].d IN
  /\ On(t, "unrecord")
  /\ \/ /\ Ours(d) \/ ~Marked(d)
        /\ Go(t, IF Ours(d) THEN "delrecord" ELSE "forgetrecord") /\ UNCHANGED <<held, stops>>
     \/ Marked(d) /\ ~Ours(d) /\ Failure(t) /\ UNCHANGED stops
     \/ Fault /\ Failure(t)
  /\ UNCHANGED <<row, provider>>

DeleteRecord(t) ==
  /\ On(t, "delrecord")
  /\ Call(t, Go(t, "forgetrecord"), zone' = IF Marked(act[t].d) THEN NoRecord ELSE zone, UNCHANGED zone)
  /\ UNCHANGED <<row, tunnels, runs>>

ForgetRecord(t) ==
  /\ On(t, "forgetrecord") /\ Go(t, "unconnect")
  /\ row' = [row EXCEPT ![act[t].d].record = FALSE]
  /\ UNCHANGED <<held, provider, stops>>

\* stop_tunnel, before its tunnel is deleted.
StopTunnel(t) ==
  LET d == act[t].d IN
  /\ On(t, "unconnect")
  /\ IF act[t].tunnel
     THEN Call(t, Go(t, IF d \in tunnels THEN "untunnel" ELSE "forgettunnel"),
               runs' = runs \ {d}, UNCHANGED runs)
     ELSE Go(t, "clean") /\ UNCHANGED <<held, runs, stops>>
  /\ UNCHANGED <<row, tunnels, zone>>

DeleteTunnel(t) ==
  /\ On(t, "untunnel")
  /\ Call(t, Go(t, "forgettunnel"), tunnels' = tunnels \ {act[t].d}, UNCHANGED tunnels)
  /\ UNCHANGED <<row, runs, zone>>

ForgetTunnel(t) ==
  /\ On(t, "forgettunnel") /\ Go(t, "clean")
  /\ row' = [row EXCEPT ![act[t].d].tunnel = FALSE]
  /\ UNCHANGED <<held, provider, stops>>

\* The lock goes before the row does.
Clean(t) ==
  /\ On(t, "clean") /\ Unlock(t) /\ Go(t, "cleaned")
  /\ UNCHANGED <<row, provider, stops>>

\* delete_domain and observe_domains drop the row, create_domain keeps it.
Cleaned(t) ==
  LET d == act[t].d IN
  /\ On(t, "cleaned") /\ End(t)
  /\ IF t = Creator THEN Set(d, "failed")
     ELSE IF t = Owner \/ row[d].status = "deleting" THEN Set(d, "gone")
     ELSE UNCHANGED row
  /\ UNCHANGED <<held, provider, stops>>

Unclean(t) ==
  /\ On(t, "unclean") /\ End(t) /\ Set(act[t].d, "cleanup_failed")
  /\ UNCHANGED <<held, provider, stops>>
-----------------------------------------------------------------------------
(* The route, the hand of the operator, and the end of a task.             *)

\* refresh_service_domains, when the address of the service has changed: the
\* status is written, whatever it has become.
Route ==
  LET d == act[Observer].d IN
  /\ On(Observer, "route") /\ Unlock(Observer) /\ End(Observer)
  /\ \/ d \in tunnels /\ Set(d, "pending")
     \/ UNCHANGED row
  /\ UNCHANGED <<provider, stops>>

\* A task has seen the record as it was made, and is about to delete it.
Doomed(d) == \E t \in Task : On(t, "delrecord") /\ act[t].d = d

\* The operator edits or removes the record, or takes the name.
Edit ==
  /\ Fault
  /\ \/ /\ zone.kind = "own"
        /\ zone' = [zone EXCEPT !.kind = IF Doomed(zone.d) THEN "overtaken" ELSE "edited"]
     \/ zone.kind # None /\ zone' = NoRecord
     \/ zone.kind = None /\ zone' = [kind |-> "foreign", d |-> None]
  /\ UNCHANGED <<row, held, act, tunnels, runs>>

\* A client that leaves ends its request.
Cut(t) ==
  /\ t # Observer /\ ~On(t, "rest") /\ Fault /\ Unlock(t) /\ End(t)
  /\ UNCHANGED <<row, provider>>

Restart ==
  /\ \E t \in Task : ~On(t, "rest")
  /\ Fault /\ act' = [t \in Task |-> Rest] /\ held' = [d \in Domain |-> Nobody]
  /\ UNCHANGED <<row, provider>>
-----------------------------------------------------------------------------
Provision(t) ==
  \/ Tunnel(t) \/ SaveTunnel(t) \/ Connector(t) \/ Record(t) \/ SaveRecord(t) \/ Pending(t)
Cleanup(t) ==
  \/ Find(t) \/ CheckRecord(t) \/ DeleteRecord(t) \/ ForgetRecord(t) \/ StopTunnel(t) \/ DeleteTunnel(t)
  \/ ForgetTunnel(t) \/ Clean(t) \/ Cleaned(t) \/ Unclean(t)

Next ==
  \/ \E d \in Domain : CreateDomain(d) \/ DeleteDomain(d) \/ List(d)
  \/ \E t \in Task : Lock(t) \/ Provision(t) \/ Cleanup(t) \/ Cut(t)
  \/ Route \/ Edit \/ Restart

Spec == Init /\ [][Next]_dvars
-----------------------------------------------------------------------------
(* Properties.                                                             *)

TypeOK ==
  /\ \A d \in Domain : held[d] \in Task \cup {Nobody}
  /\ tunnels \subseteq Domain /\ runs \subseteq Domain
  /\ \A t \in Task : act[t].d \in Domain \cup {None}
  /\ zone.kind \in {None, "own", "edited", "overtaken", "foreign"}

\* A domain leaves the table only when nothing made for it is left with the
\* providers, although creation, removal and observer overlap and any of them may
\* end at any call (integrations.rs:829, 880, 973-1073).
NoOrphan ==
  \A d \in Domain : row[d].status = "gone" => d \notin tunnels \cup runs /\ zone # Own(d)

\* A record that the operator made, or made his own by an edit, is neither replaced
\* nor deleted by any of the tasks (integrations.rs:143-160, 944-955).  Only an edit
\* that came after a task had looked at the record is lost, to a task about to delete.
NotOurs ==
  [][\/ zone.kind \in {None, "own"} \/ zone' = zone \/ Edit
     \/ zone.kind = "overtaken" /\ Doomed(zone.d)]_dvars

\* Finding: no record that the operator has edited is deleted
\* (integrations.rs:153-160).
EditedIsKept ==
  [][zone.kind \in {"edited", "overtaken"} => zone' = zone \/ Edit]_dvars

\* Finding: a removal that was accepted is not forgotten.  A route or a provisioning
\* that is on its way writes its status over it (integrations.rs:1144, 964).
StaysRemoved == [][\A d \in Domain : row[d].status = "deleting" => row'[d].status # "pending"]_dvars

\* Finding: no domain is routed without its tunnel; the observer would decode a null
\* and end (integrations.rs:1129, 1370).
RoutedHasTunnel == \A d \in Domain : On(Observer, "route") /\ act[Observer].d = d => act[Observer].tunnel

\* Finding: a domain that failed has nothing left with the providers
\* (integrations.rs:834).
FailedIsClean ==
  \A d \in Domain : row[d].status = "failed" => d \notin tunnels \cup runs
=============================================================================
