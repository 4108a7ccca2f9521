--------------------------- MODULE DomainsProofs ----------------------------
(***************************************************************************)
(* Theorems about Domains, for any workspaces, host names and services,    *)
(* and any numbers of domains and faults.                                  *)
(***************************************************************************)
EXTENDS Domains, TLAPS

\* The document the alarm of w holds for domain d is a (perhaps old) version of
\* a stored document of w.
Held(w, d, doc) ==
  /\ d \in Domain /\ Stored(d)
  /\ domains[d].workspace = w
  /\ doc.workspace = w /\ doc.hostname = domains[d].hostname
  /\ doc.status \in {"pending", "deleting"}

Working(w) == alarm[w].pc \notin {"idle", "next"}

\* Nobody but the alarm deletes documents: those it works on are still there,
\* and each is worked on once.
AlarmKnows == \A w \in Workspace :
  /\ Working(w) => Held(w, alarm[w].id, alarm[w].domain)
  /\ \A t \in alarm[w].todo : /\ Held(w, t.id, t.domain)
                              /\ Working(w) => t.id # alarm[w].id
  /\ \A t, u \in alarm[w].todo : t.id = u.id => t = u

\* Domains are numbered in the order in which they were added.
Fresh == \A d \in Domain : d > created => domains[d] = NoDomain

\* Reserved, from the reply of the directory on: also while the document is
\* still the request's.
NamesReserved ==
  \A d \in Domain :
    domains[d].status # "none" /\ <<"release", domains[d].hostname>> \notin unsure =>
      domain_routes[domains[d].hostname] = [workspace |-> domains[d].workspace, domain |-> d]

IInv == TypeOK /\ AlarmKnows /\ Fresh /\ NamesReserved

\* What nearly every step respects: stored documents stay, and names do not
\* change or appear.
KeepsStored ==
  \A d \in Domain : Stored(d) =>
    /\ Stored(d)'
    /\ domains'[d].workspace = domains[d].workspace
    /\ domains'[d].hostname = domains[d].hostname
NoNewNames ==
  \A d \in Domain : domains'[d].status # "none" =>
    /\ domains[d].status # "none"
    /\ domains'[d].workspace = domains[d].workspace
    /\ domains'[d].hostname = domains[d].hostname
\* What nearly every step of an alarm respects: no document is added to its list,
\* and the one it holds stays a version of the same domain.
SameList ==
  \A w \in Workspace :
    /\ alarm'[w].todo \subseteq alarm[w].todo
    /\ Working(w)' => /\ Working(w)
                      /\ alarm'[w].id = alarm[w].id
                      /\ alarm'[w].domain.workspace = alarm[w].domain.workspace
                      /\ alarm'[w].domain.hostname = alarm[w].domain.hostname
                      /\ alarm'[w].domain.status \in {"pending", "deleting"}
-----------------------------------------------------------------------------
\* A document is a document or the sentinel, and its status tells which.
LEMMA StatusTells ==
  ASSUME TypeOK, NEW d \in Domain
  PROVE  /\ domains[d].status # "none" => domains[d] \in Document
         /\ domains[d].status = "none" => domains[d] = NoDomain
         /\ Stored(d) => domains[d].status # "none"
  BY DEF TypeOK, Document, NoDomain, Stored, Live

\* What the alarm works on is a document of its workspace.
LEMMA HeldIsDocument ==
  ASSUME IInv, NEW w \in Workspace, Working(w)
  PROVE  /\ alarm[w].id \in Domain /\ Stored(alarm[w].id)
         /\ domains[alarm[w].id] \in Document
         /\ alarm[w].domain \in Document
         /\ alarm[w].domain.hostname = domains[alarm[w].id].hostname
         /\ alarm[w].domain.workspace = domains[alarm[w].id].workspace
         /\ alarm[w].domain.workspace = w
         /\ alarm[w].domain.status \in {"pending", "deleting"}
         /\ Name(w) \in Host
<1>1. Held(w, alarm[w].id, alarm[w].domain)
  BY DEF IInv, AlarmKnows
<1>2. domains[alarm[w].id] \in Document
  BY <1>1, StatusTells DEF IInv, Held
<1>3. alarm[w].domain \in Document \cup {NoDomain}
  BY DEF IInv, TypeOK
<1>4. alarm[w].domain \in Document
  BY <1>1, <1>3, DomainsAssumption DEF Held, NoDomain
<1> QED
  BY <1>1, <1>2, <1>4 DEF Held, Name, Document

\* The catch block stores a version of the document that is there.
LEMMA CaughtIsVersion ==
  ASSUME IInv, NEW d \in Domain, Stored(d), NEW read \in Document
  PROVE  /\ Caught(d, read) \in Document
         /\ Caught(d, read).status \in {"pending", "deleting"}
         /\ Caught(d, read).workspace = domains[d].workspace
         /\ Caught(d, read).hostname = domains[d].hostname
<1>1. domains[d] \in Document
  BY StatusTells DEF IInv
<1> QED
  BY <1>1 DEF Caught, Document

\* A stored document is replaced by a version of it.
LEMMA PutVersion ==
  ASSUME IInv, NEW d \in Domain, Stored(d), NEW doc \in Document,
         doc.status \in {"pending", "healthy", "deleting"},
         doc.workspace = domains[d].workspace, doc.hostname = domains[d].hostname,
         Put(d, doc)
  PROVE  /\ domains' \in [Domain -> Document \cup {NoDomain}]
         /\ KeepsStored /\ NoNewNames
<1>1. domains \in [Domain -> Document \cup {NoDomain}]
  BY DEF IInv, TypeOK
<1>2. \A e \in Domain : domains'[e] = IF e = d THEN doc ELSE domains[e]
  BY <1>1 DEF Put
<1>3. domains[d].status # "none"
  BY StatusTells DEF IInv
<1> QED
  BY <1>1, <1>2, <1>3 DEF Put, KeepsStored, NoNewNames, Stored, Live

LEMMA SameDomains ==
  ASSUME UNCHANGED domains
  PROVE  KeepsStored /\ NoNewNames
  BY DEF KeepsStored, NoNewNames, Stored, Live

LEMMA SameAlarm ==
  ASSUME IInv, UNCHANGED alarm
  PROVE  SameList
  BY HeldIsDocument DEF SameList, Working
-----------------------------------------------------------------------------
\* The parts of the invariant that follow from what a step respects.
LEMMA KeepKnows ==
  ASSUME IInv, KeepsStored, SameList
  PROVE  AlarmKnows'
<1> SUFFICES ASSUME NEW w \in Workspace
             PROVE  /\ Working(w)' => Held(w, alarm[w].id, alarm[w].domain)'
                    /\ \A t \in alarm'[w].todo : /\ Held(w, t.id, t.domain)'
                                                 /\ Working(w)' => t.id # alarm'[w].id
                    /\ \A t, u \in alarm'[w].todo : t.id = u.id => t = u
  BY DEF AlarmKnows
<1>1. \A d, doc : Held(w, d, doc) => Held(w, d, doc)'
  BY DEF Held, KeepsStored
<1>2. Working(w)' => Held(w, alarm[w].id, alarm[w].domain)'
  <2> SUFFICES ASSUME Working(w)'
               PROVE  Held(w, alarm[w].id, alarm[w].domain)'
    OBVIOUS
  <2>1. Held(w, alarm[w].id, alarm[w].domain)
    BY DEF IInv, AlarmKnows, SameList
  <2> QED
    BY <2>1 DEF Held, KeepsStored, SameList
<1> QED
  BY <1>1, <1>2 DEF IInv, AlarmKnows, SameList

LEMMA KeepNames ==
  ASSUME IInv, NoNewNames, UNCHANGED domain_routes, unsure \subseteq unsure'
  PROVE  NamesReserved'
  BY DEF IInv, NamesReserved, NoNewNames

LEMMA KeepFresh ==
  ASSUME IInv, NoNewNames, domains' \in [Domain -> Document \cup {NoDomain}],
         UNCHANGED created
  PROVE  Fresh'
<1> SUFFICES ASSUME NEW d \in Domain, d > created
             PROVE  domains'[d] = NoDomain
  BY DEF Fresh
<1>1. domains[d] = NoDomain
  BY DEF IInv, Fresh
<1>2. domains'[d].status = "none"
  BY <1>1 DEF NoNewNames, NoDomain
<1> QED
  BY <1>2 DEF Document
-----------------------------------------------------------------------------
(* Requests.                                                               *)

LEMMA AddStep ==
  ASSUME IInv, NEW w \in Workspace, NEW h \in Host, NEW s \in Service, Add(w, h, s)
  PROVE  IInv'
<1> DEFINE d == created + 1
           doc == [NoDomain EXCEPT !.workspace = w, !.hostname = h, !.service = s,
                                   !.status = "adding"]
<1>1. d \in Domain /\ domains[d] = NoDomain
  <2>1. created \in 0..MaxDomains /\ created < MaxDomains /\ MaxDomains \in Nat
    BY DomainsAssumption DEF IInv, TypeOK, Add
  <2>2. d \in Domain /\ d > created
    BY <2>1 DEF Domain
  <2> QED
    BY <2>2 DEF IInv, Fresh
<1>2. doc \in Document /\ doc.workspace = w /\ doc.hostname = h /\ doc.status = "adding"
  BY DEF Document, NoDomain
<1>3. /\ domains' \in [Domain -> Document \cup {NoDomain}]
      /\ domains'[d] = doc
      /\ \A e \in Domain \ {d} : domains'[e] = domains[e]
  BY <1>1, <1>2 DEF IInv, TypeOK, Add, Put
<1>4. domain_routes[h] = NoRoute
  BY DEF Add, Free
<1>5. /\ domain_routes' \in [Host -> [workspace : Workspace, domain : Domain] \cup {NoRoute}]
      /\ domain_routes'[h] = [workspace |-> w, domain |-> d]
      /\ \A g \in Host \ {h} : domain_routes'[g] = domain_routes[g]
  BY <1>1 DEF IInv, TypeOK, Add
<1>6. created' \in 0..MaxDomains
  BY <1>1 DEF Add, Domain
<1>7. TypeOK'
  BY <1>3, <1>5, <1>6 DEF IInv, TypeOK, Add
<1>8. KeepsStored
  BY <1>1, <1>3 DEF KeepsStored, Stored, Live, NoDomain
<1>9. AlarmKnows'
  BY <1>8, SameAlarm, KeepKnows DEF Add
<1>10. Fresh'
  BY <1>1, <1>3 DEF IInv, Fresh, Add, TypeOK, Domain
<1>11. NamesReserved'
  <2> SUFFICES ASSUME NEW e \in Domain, domains'[e].status # "none",
                      <<"release", domains'[e].hostname>> \notin unsure
               PROVE  domain_routes'[domains'[e].hostname]
                        = [workspace |-> domains'[e].workspace, domain |-> e]
    BY DEF NamesReserved, Add
  <2>1. CASE e = d
    BY <2>1, <1>2, <1>3, <1>5
  <2>2. CASE e # d
    <3>1. domains'[e] = domains[e]
      BY <1>3, <2>2
    <3>2. domain_routes[domains[e].hostname]
            = [workspace |-> domains[e].workspace, domain |-> e]
      BY <3>1 DEF IInv, NamesReserved
    <3>3. domains[e].hostname \in Host /\ domains[e].workspace \in Workspace
      BY <3>1, StatusTells DEF IInv, Document
    <3>4. domains[e].hostname # h
      BY <3>2, <3>3, <1>4, DomainsAssumption DEF NoRoute
    <3> QED
      BY <3>1, <3>2, <3>3, <3>4, <1>5
  <2> QED
    BY <2>1, <2>2
<1> QED
  BY <1>7, <1>9, <1>10, <1>11 DEF IInv

\* A document that is not stored yet is stored, or given up.
LEMMA AddedStep ==
  ASSUME IInv, NEW d \in Domain, Added(d) \/ AddFails(d)
  PROVE  IInv'
<1>1. domains[d].status = "adding" /\ domains[d] \in Document
  BY StatusTells DEF IInv, Added, AddFails
<1>2. PICK doc : /\ Put(d, doc) /\ doc \in Document \cup {NoDomain}
                 /\ doc.status # "none" => /\ doc.workspace = domains[d].workspace
                                           /\ doc.hostname = domains[d].hostname
  <2>1. CASE Added(d)
    BY <2>1, <1>1 DEF Added, Document
  <2>2. CASE AddFails(d)
    BY <2>2 DEF AddFails, NoDomain
  <2> QED
    BY <2>1, <2>2
<1>3. /\ domains' \in [Domain -> Document \cup {NoDomain}]
      /\ \A e \in Domain : domains'[e] = IF e = d THEN doc ELSE domains[e]
  BY <1>2 DEF IInv, TypeOK, Put
<1>4. KeepsStored /\ NoNewNames
  BY <1>1, <1>2, <1>3 DEF KeepsStored, NoNewNames, Stored, Live
<1>5. UNCHANGED <<created, cloud, addressed, alarm, unsure>> /\ faults' \in 0..MaxFaults
  BY DomainsAssumption DEF IInv, TypeOK, Added, AddFails
<1>6. TypeOK'
  BY <1>3, <1>5 DEF IInv, TypeOK, cloud
<1>7. AlarmKnows'
  BY <1>4, <1>5, SameAlarm, KeepKnows
<1> QED
  BY <1>3, <1>4, <1>5, <1>6, <1>7, KeepNames, KeepFresh DEF IInv, cloud

LEMMA DeleteStep ==
  ASSUME IInv, NEW d \in Domain, Delete(d)
  PROVE  IInv'
<1> DEFINE doc == [domains[d] EXCEPT !.status = "deleting"]
<1>1. Stored(d) /\ domains[d] \in Document
  BY StatusTells DEF IInv, Delete, Stored
<1>2. /\ doc \in Document /\ doc.status = "deleting"
      /\ doc.workspace = domains[d].workspace /\ doc.hostname = domains[d].hostname
  BY <1>1 DEF Document
<1>3. Put(d, doc) /\ UNCHANGED <<created, cloud, addressed, alarm, unsure, faults>>
  BY DEF Delete
<1>4. domains' \in [Domain -> Document \cup {NoDomain}] /\ KeepsStored /\ NoNewNames
  <2> HIDE DEF doc
  <2> QED
    BY <1>1, <1>2, <1>3, PutVersion
<1>5. TypeOK'
  BY <1>3, <1>4 DEF IInv, TypeOK, cloud
<1>6. AlarmKnows'
  BY <1>3, <1>4, SameAlarm, KeepKnows
<1> QED
  BY <1>3, <1>4, <1>5, <1>6, KeepNames, KeepFresh DEF IInv, cloud

LEMMA DeployStep ==
  ASSUME IInv, NEW w \in Workspace, NEW s \in Service, Deploy(w, s)
  PROVE  IInv'
<1>1. UNCHANGED <<domains, created, cloud, alarm, unsure, faults>>
  BY DEF Deploy
<1>2. TypeOK'
  BY <1>1 DEF IInv, TypeOK, Deploy, cloud
<1>3. AlarmKnows'
  BY <1>1, SameDomains, SameAlarm, KeepKnows
<1> QED
  BY <1>1, <1>2, <1>3 DEF IInv, Fresh, NamesReserved, cloud
-----------------------------------------------------------------------------
(* The alarm.                                                              *)

\* What the list of the alarm contains when it is read.
LEMMA TodoIsStored ==
  ASSUME IInv, NEW w \in Workspace
  PROVE  /\ Todo(w) \subseteq [id : Domain, domain : Document]
         /\ \A t \in Todo(w) : /\ Held(w, t.id, t.domain)
                               /\ t.domain.status \in {"pending", "deleting"}
         /\ \A t, u \in Todo(w) : t.id = u.id => t = u
<1>1. \A d \in Of(w) : d \in Domain /\ Stored(d) /\ domains[d] \in Document
                       /\ domains[d].workspace = w
  BY StatusTells DEF IInv, Of
<1> QED
  BY <1>1 DEF Todo, Held, Stored, Live

LEMMA IngressIsRoutes ==
  ASSUME IInv, NEW w \in Workspace
  PROVE  Ingress(w) \in Routes
<1>1. \A d \in Of(w) : domains[d] \in Document
  BY StatusTells DEF IInv, Of
<1> QED
  BY <1>1 DEF Ingress, Routes, Document

LEMMA StartStep ==
  ASSUME IInv, NEW w \in Workspace, Start(w)
  PROVE  IInv'
<1>1. /\ UNCHANGED <<domains, created, cloud, addressed, unsure, faults>>
      /\ alarm' = [alarm EXCEPT ![w] = [Idle EXCEPT !.pc = "next", !.todo = Todo(w)]]
  BY DEF Start
<1>2. /\ alarm'[w] = [pc |-> "next", todo |-> Todo(w), id |-> 0, domain |-> NoDomain, sent |-> {}]
      /\ \A v \in Workspace \ {w} : alarm'[v] = alarm[v]
  BY <1>1 DEF IInv, TypeOK, Idle
<1>3. alarm' \in [Workspace -> [pc : Location, todo : SUBSET [id : Domain, domain : Document],
                                id : 0..MaxDomains, domain : Document \cup {NoDomain},
                                sent : Routes]]
  <2>1. alarm'[w] \in [pc : Location, todo : SUBSET [id : Domain, domain : Document],
                       id : 0..MaxDomains, domain : Document \cup {NoDomain}, sent : Routes]
    BY <1>2, TodoIsStored, DomainsAssumption DEF Location, Routes
  <2> QED
    BY <1>1, <2>1 DEF IInv, TypeOK, Idle
<1>4. TypeOK'
  BY <1>1, <1>2, <1>3, TodoIsStored DEF IInv, TypeOK, cloud
<1>5. AlarmKnows'
  <2> SUFFICES ASSUME NEW v \in Workspace
               PROVE  /\ Working(v)' => Held(v, alarm[v].id, alarm[v].domain)'
                      /\ \A t \in alarm'[v].todo : /\ Held(v, t.id, t.domain)'
                                                   /\ Working(v)' => t.id # alarm'[v].id
                      /\ \A t, u \in alarm'[v].todo : t.id = u.id => t = u
    BY DEF AlarmKnows
  <2>1. \A d, doc : Held(v, d, doc) => Held(v, d, doc)'
    BY <1>1 DEF Held, Stored, Live
  <2>2. CASE v = w
    BY <2>1, <2>2, <1>2, TodoIsStored DEF Working
  <2>3. CASE v # w
    <3>1. alarm'[v] = alarm[v]
      BY <2>3, <1>2
    <3>2. Held(v, alarm[v].id, alarm[v].domain) => Held(v, alarm[v].id, alarm[v].domain)'
      BY <1>1, <3>1 DEF Held, Stored, Live
    <3> QED
      BY <2>1, <3>1, <3>2 DEF IInv, AlarmKnows, Working
  <2> QED
    BY <2>2, <2>3
<1> QED
  BY <1>1, <1>4, <1>5 DEF IInv, Fresh, NamesReserved, cloud

LEMMA TakeStep ==
  ASSUME IInv, NEW w \in Workspace, Take(w)
  PROVE  IInv'
<1>1. PICK t \in alarm[w].todo, pc \in {"connector", "put", "next"} :
        /\ alarm' = [alarm EXCEPT ![w] =
             [pc |-> pc, todo |-> alarm[w].todo \ {t}, id |-> t.id, domain |-> t.domain,
              sent |-> Ingress(w)]]
        /\ UNCHANGED domains \/ Put(t.id, Caught(t.id, t.domain))
        /\ UNCHANGED <<created, cloud, addressed, unsure, faults>>
  BY DEF Take, IInv, TypeOK
<1>2. Held(w, t.id, t.domain) /\ t \in [id : Domain, domain : Document]
  BY DEF IInv, AlarmKnows, TypeOK
<1>3. domains' \in [Domain -> Document \cup {NoDomain}] /\ KeepsStored /\ NoNewNames
  <2>1. CASE UNCHANGED domains
    BY <2>1, SameDomains DEF IInv, TypeOK
  <2>2. CASE Put(t.id, Caught(t.id, t.domain))
    BY <2>2, <1>2, CaughtIsVersion, PutVersion DEF Held
  <2> QED
    BY <1>1, <2>1, <2>2
<1>4. /\ alarm'[w] = [pc |-> pc, todo |-> alarm[w].todo \ {t}, id |-> t.id,
                      domain |-> t.domain, sent |-> Ingress(w)]
      /\ \A v \in Workspace \ {w} : alarm'[v] = alarm[v]
  BY <1>1 DEF IInv, TypeOK
<1>5. alarm' \in [Workspace -> [pc : Location, todo : SUBSET [id : Domain, domain : Document],
                                id : 0..MaxDomains, domain : Document \cup {NoDomain},
                                sent : Routes]]
  <2>1. alarm'[w] \in [pc : Location, todo : SUBSET [id : Domain, domain : Document],
                       id : 0..MaxDomains, domain : Document \cup {NoDomain}, sent : Routes]
    BY <1>2, <1>4, IngressIsRoutes, DomainsAssumption DEF IInv, TypeOK, Location, Domain
  <2> QED
    BY <1>1, <2>1, <1>4 DEF IInv, TypeOK
<1>6. TypeOK'
  BY <1>1, <1>3, <1>4, <1>5 DEF IInv, TypeOK, cloud
<1>7. AlarmKnows'
  <2> SUFFICES ASSUME NEW v \in Workspace
               PROVE  /\ Working(v)' => Held(v, alarm[v].id, alarm[v].domain)'
                      /\ \A u \in alarm'[v].todo : /\ Held(v, u.id, u.domain)'
                                                   /\ Working(v)' => u.id # alarm'[v].id
                      /\ \A u, x \in alarm'[v].todo : u.id = x.id => u = x
    BY DEF AlarmKnows
  <2>1. \A d, doc : Held(v, d, doc) => Held(v, d, doc)'
    BY <1>3 DEF Held, KeepsStored
  <2>2. CASE v = w
    <3>1. Held(w, alarm[w].id, alarm[w].domain)'
      BY <1>2, <1>3, <1>4 DEF Held, KeepsStored
    <3> QED
      BY <2>1, <2>2, <3>1, <1>4 DEF IInv, AlarmKnows
  <2>3. CASE v # w
    <3>1. alarm'[v] = alarm[v]
      BY <2>3, <1>4
    <3>2. Held(v, alarm[v].id, alarm[v].domain) => Held(v, alarm[v].id, alarm[v].domain)'
      BY <1>3, <3>1 DEF Held, KeepsStored
    <3> QED
      BY <2>1, <3>1, <3>2 DEF IInv, AlarmKnows, Working
  <2> QED
    BY <2>2, <2>3
<1> QED
  BY <1>1, <1>3, <1>6, <1>7, KeepNames, KeepFresh DEF IInv, cloud
-----------------------------------------------------------------------------
(* The alarm's calls and their replies.                                    *)

Documents == [Domain -> Document \cup {NoDomain}]
AlarmTyped ==
  /\ alarm \in [Workspace -> [pc : Location, todo : SUBSET [id : Domain, domain : Document],
                              id : 0..MaxDomains, domain : Document \cup {NoDomain},
                              sent : Routes]]
  /\ \A w \in Workspace : \A t \in alarm[w].todo : t.domain.status \in {"pending", "deleting"}
ZoneTyped ==
  /\ dns \in [Host -> [owner : Workspace, id : Nat \ {0}]
                      \cup {NoRecord, [owner |-> Foreign, id |-> 0]}]
  /\ records \in Nat
  /\ tunnel \in [Workspace -> [config_hash : SUBSET Routes, config : Routes]]

\* A step that respects documents, names and lists keeps the invariant, unless
\* it adds or releases a name.
LEMMA Assemble ==
  ASSUME IInv, domains' \in Documents, KeepsStored, NoNewNames, SameList, AlarmTyped',
         ZoneTyped', UNCHANGED <<created, domain_routes, addressed>>,
         unsure \subseteq unsure', unsure' \subseteq Location \X Host, faults' \in 0..MaxFaults
  PROVE  IInv'
<1>1. TypeOK'
  BY DEF IInv, TypeOK, Documents, AlarmTyped, ZoneTyped
<1> QED
  BY <1>1, KeepKnows, KeepNames, KeepFresh DEF IInv, Documents

\* Moving on in the code.
LEMMA GoKeeps ==
  ASSUME IInv, NEW w \in Workspace, NEW pc \in Location, Go(w, pc),
         Working(w) \/ pc \in {"idle", "next"}
  PROVE  AlarmTyped' /\ SameList
<1>1. /\ alarm'[w] = [alarm[w] EXCEPT !.pc = pc]
      /\ \A v \in Workspace \ {w} : alarm'[v] = alarm[v]
  BY DEF IInv, TypeOK, Go
<1>2. /\ alarm'[w].pc = pc /\ alarm'[w].todo = alarm[w].todo
      /\ alarm'[w].id = alarm[w].id /\ alarm'[w].domain = alarm[w].domain
  BY <1>1 DEF IInv, TypeOK
<1>3. AlarmTyped'
  <2>1. alarm'[w] \in [pc : Location, todo : SUBSET [id : Domain, domain : Document],
                       id : 0..MaxDomains, domain : Document \cup {NoDomain}, sent : Routes]
    BY <1>1 DEF IInv, TypeOK
  <2> QED
    BY <1>1, <1>2, <2>1 DEF IInv, TypeOK, AlarmTyped, Go
<1>4. SameList
  BY <1>1, <1>2, HeldIsDocument DEF SameList, Working
<1> QED
  BY <1>3, <1>4

LEMMA GiveUpKeeps ==
  ASSUME IInv, NEW w \in Workspace, Working(w), GiveUp(w)
  PROVE  domains' \in Documents /\ KeepsStored /\ NoNewNames /\ AlarmTyped' /\ SameList
<1>1. domains' \in Documents /\ KeepsStored /\ NoNewNames
  <2> DEFINE doc == Caught(alarm[w].id, alarm[w].domain)
  <2>1. /\ doc \in Document /\ doc.status \in {"pending", "deleting"}
        /\ doc.workspace = domains[alarm[w].id].workspace
        /\ doc.hostname = domains[alarm[w].id].hostname
    BY HeldIsDocument, CaughtIsVersion
  <2>2. Put(alarm[w].id, doc)
    BY DEF GiveUp
  <2> HIDE DEF doc
  <2> QED
    BY <2>1, <2>2, HeldIsDocument, PutVersion DEF Documents
<1>2. AlarmTyped' /\ SameList
  BY GoKeeps DEF GiveUp, Location
<1> QED
  BY <1>1, <1>2

LEMMA SaveKeeps ==
  ASSUME IInv, NEW w \in Workspace, Working(w), NEW pc \in Location, NEW doc \in Document,
         doc.status \in {"pending", "deleting"},
         doc.workspace = alarm[w].domain.workspace, doc.hostname = alarm[w].domain.hostname,
         Save(w, doc, pc)
  PROVE  domains' \in Documents /\ KeepsStored /\ NoNewNames /\ AlarmTyped' /\ SameList
<1>1. domains' \in Documents /\ KeepsStored /\ NoNewNames
  BY HeldIsDocument, PutVersion DEF Save, Documents
<1>2. alarm' = [alarm EXCEPT ![w].domain = doc, ![w].pc = pc]
  BY DEF Save
<1>3. /\ alarm'[w] = [alarm[w] EXCEPT !.domain = doc, !.pc = pc]
      /\ \A v \in Workspace \ {w} : alarm'[v] = alarm[v]
  BY <1>2 DEF IInv, TypeOK
<1>4. /\ alarm'[w].todo = alarm[w].todo /\ alarm'[w].id = alarm[w].id
      /\ alarm'[w].domain = doc
  BY <1>3 DEF IInv, TypeOK
<1>5. AlarmTyped'
  <2>1. alarm'[w] \in [pc : Location, todo : SUBSET [id : Domain, domain : Document],
                       id : 0..MaxDomains, domain : Document \cup {NoDomain}, sent : Routes]
    BY <1>3 DEF IInv, TypeOK
  <2> QED
    BY <1>2, <1>3, <1>4, <2>1 DEF IInv, TypeOK, AlarmTyped
<1>6. SameList
  BY <1>3, <1>4, HeldIsDocument DEF SameList, Working
<1> QED
  BY <1>1, <1>5, <1>6

\* What a call does at Cloudflare or in the directory.
LEMMA EffectTyped ==
  ASSUME IInv, NEW w \in Workspace, Working(w), Effect(w)
  PROVE  /\ ZoneTyped'
         /\ alarm[w].pc # "release" => UNCHANGED domain_routes
         /\ alarm[w].pc = "release" => Released(w)
<1>1. Name(w) \in Host /\ alarm[w].sent \in Routes
  BY HeldIsDocument DEF IInv, TypeOK
<1>2. CASE Routed(w)
  BY <1>1, <1>2 DEF IInv, TypeOK, ZoneTyped, Routed, At
<1>3. CASE RecordCreated(w)
  BY <1>1, <1>3 DEF IInv, TypeOK, ZoneTyped, RecordCreated, At
<1>4. CASE RecordDeleted(w)
  BY <1>1, <1>4 DEF IInv, TypeOK, ZoneTyped, RecordDeleted, At
<1>5. CASE Released(w)
  BY <1>1, <1>5 DEF IInv, TypeOK, ZoneTyped, Released, At
<1> QED
  BY <1>2, <1>3, <1>4, <1>5 DEF Effect

LEMMA ZoneKept ==
  ASSUME IInv, UNCHANGED <<dns, records, tunnel>>
  PROVE  ZoneTyped'
  BY DEF IInv, TypeOK, ZoneTyped
-----------------------------------------------------------------------------
LEMMA IdleKeeps ==
  ASSUME IInv, NEW w \in Workspace, alarm' = [alarm EXCEPT ![w] = Idle]
  PROVE  AlarmTyped' /\ SameList
<1>1. /\ alarm'[w] = [pc |-> "idle", todo |-> {}, id |-> 0, domain |-> NoDomain, sent |-> {}]
      /\ \A v \in Workspace \ {w} : alarm'[v] = alarm[v]
  BY DEF IInv, TypeOK, Idle
<1>2. alarm'[w] \in [pc : Location, todo : SUBSET [id : Domain, domain : Document],
                     id : 0..MaxDomains, domain : Document \cup {NoDomain}, sent : Routes]
  BY <1>1, DomainsAssumption DEF Location, Routes
<1>3. AlarmTyped'
  BY <1>1, <1>2 DEF IInv, TypeOK, AlarmTyped
<1>4. SameList
  BY <1>1, HeldIsDocument DEF SameList, Working
<1> QED
  BY <1>3, <1>4

LEMMA EndStep ==
  ASSUME IInv, NEW w \in Workspace, End(w)
  PROVE  IInv'
<1>1. /\ alarm' = [alarm EXCEPT ![w] = Idle]
      /\ UNCHANGED <<domains, created, cloud, addressed, unsure, faults>>
  BY DEF End
<1>2. KeepsStored /\ NoNewNames /\ domains' \in Documents
  BY <1>1, SameDomains DEF IInv, TypeOK, Documents
<1>3. unsure' \subseteq Location \X Host /\ faults' \in 0..MaxFaults
  BY <1>1 DEF IInv, TypeOK
<1> QED
  BY <1>1, <1>2, <1>3, IdleKeeps, ZoneKept, Assemble DEF cloud

LEMMA ConfiguredStep ==
  ASSUME IInv, NEW w \in Workspace, Configured(w)
  PROVE  IInv'
<1>1. Working(w) /\ Go(w, "connector")
  BY DEF Configured, At, Working
<1>2. AlarmTyped' /\ SameList
  BY <1>1, GoKeeps DEF Location
<1>3. UNCHANGED <<domains, created, domain_routes, dns, records, addressed, unsure, faults>>
  BY DEF Configured
<1>4. KeepsStored /\ NoNewNames /\ domains' \in Documents
  BY <1>3, SameDomains DEF IInv, TypeOK, Documents
<1>5. ZoneTyped'
  <2>1. alarm[w].sent \in Routes /\ {alarm[w].sent} \in SUBSET Routes
    BY DEF IInv, TypeOK
  <2> QED
    BY <1>3, <2>1 DEF IInv, TypeOK, ZoneTyped, Configured
<1>6. unsure' \subseteq Location \X Host /\ faults' \in 0..MaxFaults
  BY <1>3 DEF IInv, TypeOK
<1> QED
  BY <1>2, <1>3, <1>4, <1>5, <1>6, Assemble

LEMMA ConnectedStep ==
  ASSUME IInv, NEW w \in Workspace, Connected(w)
  PROVE  IInv'
<1> DEFINE pc == AfterConnector(alarm[w].domain)
<1>1. Working(w) /\ Go(w, pc) /\ pc \in Location
  BY DEF Connected, At, Working, AfterConnector, Location
<1>2. AlarmTyped' /\ SameList
  <2> HIDE DEF pc
  <2> QED
    BY <1>1, GoKeeps
<1>3. UNCHANGED <<domains, created, cloud, addressed, unsure, faults>>
  BY DEF Connected
<1>4. KeepsStored /\ NoNewNames /\ domains' \in Documents
  BY <1>3, SameDomains DEF IInv, TypeOK, Documents
<1>5. unsure' \subseteq Location \X Host /\ faults' \in 0..MaxFaults
  BY <1>3 DEF IInv, TypeOK
<1> QED
  BY <1>2, <1>3, <1>4, <1>5, ZoneKept, Assemble DEF cloud

\* The alarm's document is stored with its record, or without it.
LEMMA UnrouteStep ==
  ASSUME IInv, NEW w \in Workspace, Unroute(w)
  PROVE  IInv'
<1> DEFINE doc == [alarm[w].domain EXCEPT !.dns_deleted = TRUE]
<1>1. Working(w) /\ alarm[w].pc # "release" /\ Effect(w)
  BY DEF Unroute, RecordDeleted, Effect, At, Working
<1>2. ZoneTyped' /\ UNCHANGED domain_routes
  BY <1>1, EffectTyped
<1>3. alarm[w].domain \in Document /\ alarm[w].domain.status \in {"pending", "deleting"}
  BY <1>1, HeldIsDocument
<1>4. /\ doc \in Document /\ doc.workspace = alarm[w].domain.workspace
      /\ doc.hostname = alarm[w].domain.hostname /\ doc.status \in {"pending", "deleting"}
  BY <1>3 DEF Document
<1>5. domains' \in Documents /\ KeepsStored /\ NoNewNames /\ AlarmTyped' /\ SameList
  <2>1. Save(w, doc, "release") /\ "release" \in Location
    BY DEF Unroute, Location
  <2> HIDE DEF doc
  <2> QED
    BY <1>1, <1>4, <2>1, SaveKeeps
<1>6. UNCHANGED <<created, addressed, unsure, faults>>
  BY DEF Unroute
<1>7. unsure' \subseteq Location \X Host /\ faults' \in 0..MaxFaults
  BY <1>6 DEF IInv, TypeOK
<1> QED
  BY <1>2, <1>5, <1>6, <1>7, Assemble

LEMMA RecordedKeeps ==
  ASSUME IInv, NEW w \in Workspace, Working(w), NEW r \in Nat, Recorded(w, r)
  PROVE  domains' \in Documents /\ KeepsStored /\ NoNewNames /\ AlarmTyped' /\ SameList
<1> DEFINE doc == [alarm[w].domain EXCEPT !.dns_id = r, !.status = "pending"]
<1>1. alarm[w].domain \in Document
  BY HeldIsDocument
<1>2. /\ doc \in Document /\ doc.workspace = alarm[w].domain.workspace
      /\ doc.hostname = alarm[w].domain.hostname /\ doc.status \in {"pending", "deleting"}
  BY <1>1 DEF Document
<1>3. Save(w, doc, "probe") /\ "probe" \in Location
  BY DEF Recorded, Location
<1> HIDE DEF doc
<1> QED
  BY <1>2, <1>3, SaveKeeps

LEMMA LookupStep ==
  ASSUME IInv, NEW w \in Workspace, Lookup(w)
  PROVE  IInv'
<1>1. Working(w) /\ UNCHANGED <<created, cloud, addressed, unsure, faults>>
  BY DEF Lookup, At, Working
<1>2. domains' \in Documents /\ KeepsStored /\ NoNewNames /\ AlarmTyped' /\ SameList
  <2>1. CASE dns[Name(w)].owner = w /\ Recorded(w, dns[Name(w)].id)
    <3>1. dns[Name(w)].id \in Nat
      BY <1>1, HeldIsDocument DEF IInv, TypeOK, NoRecord
    <3> QED
      BY <1>1, <2>1, <3>1, RecordedKeeps
  <2>2. CASE GiveUp(w)
    BY <1>1, <2>2, GiveUpKeeps
  <2>3. CASE Go(w, "create") /\ UNCHANGED domains
    BY <1>1, <2>3, GoKeeps, SameDomains DEF Location, IInv, TypeOK, Documents
  <2> QED
    BY <2>1, <2>2, <2>3 DEF Lookup
<1>3. unsure' \subseteq Location \X Host /\ faults' \in 0..MaxFaults
  BY <1>1 DEF IInv, TypeOK
<1> QED
  BY <1>1, <1>2, <1>3, ZoneKept, Assemble DEF cloud

LEMMA CreateStep ==
  ASSUME IInv, NEW w \in Workspace, Create(w)
  PROVE  IInv'
<1>1. /\ Working(w) /\ alarm[w].pc # "release"
      /\ UNCHANGED <<created, addressed, unsure, faults>>
  BY DEF Create, RecordCreated, At, Working
<1>2. domains' \in Documents /\ KeepsStored /\ NoNewNames /\ AlarmTyped' /\ SameList
      /\ ZoneTyped' /\ UNCHANGED domain_routes
  <2>1. CASE RecordCreated(w) /\ Recorded(w, records + 1)
    <3>1. records + 1 \in Nat
      BY DEF IInv, TypeOK
    <3> QED
      BY <1>1, <2>1, <3>1, RecordedKeeps, EffectTyped DEF Effect
  <2>2. CASE GiveUp(w) /\ UNCHANGED cloud
    BY <1>1, <2>2, GiveUpKeeps, ZoneKept DEF cloud
  <2> QED
    BY <2>1, <2>2 DEF Create
<1>3. unsure' \subseteq Location \X Host /\ faults' \in 0..MaxFaults
  BY <1>1 DEF IInv, TypeOK
<1> QED
  BY <1>1, <1>2, <1>3, Assemble

LEMMA ProbeStep ==
  ASSUME IInv, NEW w \in Workspace, Probe(w) \/ NotReady(w)
  PROVE  IInv'
<1>1. Working(w) /\ UNCHANGED <<created, cloud, addressed, unsure, faults>>
  BY DEF Probe, NotReady, At, Working
<1>2. domains' \in Documents /\ KeepsStored /\ NoNewNames /\ AlarmTyped' /\ SameList
  <2>1. CASE Probe(w)
    <3> DEFINE doc == [domains[alarm[w].id] EXCEPT !.status = "healthy"]
    <3>1. /\ doc \in Document /\ doc.status = "healthy"
          /\ doc.workspace = domains[alarm[w].id].workspace
          /\ doc.hostname = domains[alarm[w].id].hostname
      BY <1>1, HeldIsDocument DEF Document
    <3>2. Put(alarm[w].id, doc) /\ Go(w, "next")
      BY <2>1 DEF Probe
    <3>3. AlarmTyped' /\ SameList
      BY <3>2, GoKeeps DEF Location
    <3> HIDE DEF doc
    <3> QED
      BY <1>1, <3>1, <3>2, <3>3, HeldIsDocument, PutVersion DEF Documents
  <2>2. CASE NotReady(w)
    BY <1>1, <2>2, GiveUpKeeps DEF NotReady
  <2> QED
    BY <2>1, <2>2
<1>3. unsure' \subseteq Location \X Host /\ faults' \in 0..MaxFaults
  BY <1>1 DEF IInv, TypeOK
<1> QED
  BY <1>1, <1>2, <1>3, ZoneKept, Assemble DEF cloud
-----------------------------------------------------------------------------
(* Names are released, and failures.                                       *)

\* What a release leaves: the names of other domains.  A name it may have taken
\* from a domain that was added since is one whose release was not noticed.
LEMMA ReleasedKeepsNames ==
  ASSUME IInv, NEW w \in Workspace, Working(w), Released(w), NoNewNames,
         unsure \subseteq unsure',
         \/ <<"release", Name(w)>> \in unsure'
         \/ domains'[alarm[w].id].status = "none"
  PROVE  NamesReserved' /\ domain_routes' \in [Host -> [workspace : Workspace, domain : Domain]
                                                       \cup {NoRoute}]
<1>1. /\ Name(w) \in Host /\ alarm[w].id \in Domain
      /\ domains[alarm[w].id].hostname = Name(w)
      /\ domains[alarm[w].id].workspace = w
      /\ domains[alarm[w].id].status # "none"
  BY HeldIsDocument, StatusTells DEF IInv, Name
<1>2. /\ domain_routes' \in [Host -> [workspace : Workspace, domain : Domain] \cup {NoRoute}]
      /\ \A h \in Host \ {Name(w)} : domain_routes'[h] = domain_routes[h]
  BY <1>1 DEF IInv, TypeOK, Released
<1>3. NamesReserved'
  <2> SUFFICES ASSUME NEW d \in Domain, domains'[d].status # "none",
                      <<"release", domains'[d].hostname>> \notin unsure'
               PROVE  domain_routes'[domains'[d].hostname]
                        = [workspace |-> domains'[d].workspace, domain |-> d]
    BY DEF NamesReserved
  <2>1. /\ domains[d].status # "none" /\ domains'[d].workspace = domains[d].workspace
        /\ domains'[d].hostname = domains[d].hostname
    BY DEF NoNewNames
  <2>2. <<"release", domains[d].hostname>> \notin unsure
    BY <2>1
  <2>3. domain_routes[domains[d].hostname]
          = [workspace |-> domains[d].workspace, domain |-> d]
    BY <2>1, <2>2 DEF IInv, NamesReserved
  <2>4. domains[d].hostname # Name(w)
    <3> SUFFICES ASSUME domains[d].hostname = Name(w)
                 PROVE  FALSE
      OBVIOUS
    <3>1. domains'[alarm[w].id].status = "none"
      BY <2>1
    <3>2. domain_routes[Name(w)] = [workspace |-> w, domain |-> alarm[w].id]
      BY <1>1, <2>2 DEF IInv, NamesReserved
    <3>3. d = alarm[w].id
      BY <2>3, <3>2
    <3> QED
      BY <3>1, <3>3
  <2>5. domains[d].hostname \in Host
    BY <2>1, StatusTells DEF IInv, Document
  <2> QED
    BY <1>2, <2>1, <2>3, <2>4, <2>5
<1> QED
  BY <1>2, <1>3

LEMMA ReleaseStep ==
  ASSUME IInv, NEW w \in Workspace, Release(w)
  PROVE  IInv'
<1>1. /\ Working(w) /\ Released(w) /\ Go(w, "next") /\ Put(alarm[w].id, NoDomain)
      /\ UNCHANGED <<created, dns, records, tunnel, addressed, unsure, faults>>
  BY DEF Release, Released, At, Working
<1>2. alarm[w].id \in Domain /\ Stored(alarm[w].id)
  BY <1>1, HeldIsDocument
<1>3. /\ domains' \in Documents
      /\ \A d \in Domain : domains'[d] = IF d = alarm[w].id THEN NoDomain ELSE domains[d]
  BY <1>1 DEF IInv, TypeOK, Put, Documents
<1>4. NoNewNames /\ domains'[alarm[w].id].status = "none"
  BY <1>2, <1>3 DEF NoNewNames, NoDomain
<1>5. AlarmTyped' /\ SameList
  BY <1>1, GoKeeps DEF Location
<1>6. NamesReserved' /\ domain_routes' \in [Host -> [workspace : Workspace, domain : Domain]
                                                    \cup {NoRoute}]
  BY <1>1, <1>4, ReleasedKeepsNames
<1>7. TypeOK'
  BY <1>1, <1>3, <1>5, <1>6 DEF IInv, TypeOK, Documents, AlarmTyped
<1>8. /\ alarm'[w].pc = "next" /\ alarm'[w].todo = alarm[w].todo
      /\ \A v \in Workspace \ {w} : alarm'[v] = alarm[v]
  BY <1>1 DEF IInv, TypeOK, Go
<1>9. AlarmKnows'
  <2> SUFFICES ASSUME NEW v \in Workspace
               PROVE  /\ Working(v)' => Held(v, alarm[v].id, alarm[v].domain)'
                      /\ \A t \in alarm'[v].todo : /\ Held(v, t.id, t.domain)'
                                                   /\ Working(v)' => t.id # alarm'[v].id
                      /\ \A t, u \in alarm'[v].todo : t.id = u.id => t = u
    BY DEF AlarmKnows
  <2>1. \A d, doc : Held(v, d, doc) /\ d # alarm[w].id => Held(v, d, doc)'
    BY <1>3 DEF Held, Stored, Live
  <2>2. CASE v = w
    BY <1>1, <1>8, <2>1, <2>2 DEF IInv, AlarmKnows, Working
  <2>3. CASE v # w
    <3>1. alarm'[v] = alarm[v]
      BY <1>8, <2>3
    <3>2. \A d, doc : Held(v, d, doc) => d # alarm[w].id
      BY <1>1, <2>3, HeldIsDocument DEF Held
    <3>3. Held(v, alarm[v].id, alarm[v].domain) => Held(v, alarm[v].id, alarm[v].domain)'
      BY <1>3, <3>1, <3>2 DEF Held, Stored, Live
    <3> QED
      BY <2>1, <3>1, <3>2, <3>3 DEF IInv, AlarmKnows, Working
  <2> QED
    BY <2>2, <2>3
<1> QED
  BY <1>1, <1>3, <1>4, <1>6, <1>7, <1>9, KeepFresh DEF IInv, Documents

LEMMA FailStep ==
  ASSUME IInv, NEW w \in Workspace, Fail(w)
  PROVE  IInv'
<1>1. /\ Working(w) /\ GiveUp(w) /\ UNCHANGED <<created, cloud, addressed, unsure>>
      /\ faults' \in 0..MaxFaults
  BY DomainsAssumption DEF Fail, Awaiting, Working, IInv, TypeOK
<1>2. unsure' \subseteq Location \X Host
  BY <1>1 DEF IInv, TypeOK
<1> QED
  BY <1>1, <1>2, GiveUpKeeps, ZoneKept, Assemble DEF cloud

\* An effect nobody noticed, together with anything that only respects documents.
LEMMA UnsureStep ==
  ASSUME IInv, NEW w \in Workspace, Unsure(w), domains' \in Documents, KeepsStored,
         NoNewNames, SameList, AlarmTyped', UNCHANGED <<created, addressed>>
  PROVE  IInv'
<1>1. /\ Effect(w) /\ faults' \in 0..MaxFaults
      /\ unsure' = unsure \cup {<<alarm[w].pc, Name(w)>>}
  BY DomainsAssumption DEF Unsure, IInv, TypeOK
<1>2. Working(w)
  BY <1>1 DEF Effect, Routed, RecordCreated, RecordDeleted, Released, At, Working
<1>3. unsure' \subseteq Location \X Host /\ unsure \subseteq unsure'
  BY <1>1, <1>2, HeldIsDocument DEF IInv, TypeOK
<1>4. ZoneTyped'
  BY <1>1, <1>2, EffectTyped
<1>5. CASE alarm[w].pc # "release"
  BY <1>1, <1>2, <1>3, <1>4, <1>5, EffectTyped, Assemble
<1>6. CASE alarm[w].pc = "release"
  <2>1. NamesReserved' /\ domain_routes' \in [Host -> [workspace : Workspace, domain : Domain]
                                                      \cup {NoRoute}]
    BY <1>1, <1>2, <1>3, <1>6, EffectTyped, ReleasedKeepsNames
  <2>2. TypeOK'
    BY <1>1, <1>3, <1>4, <2>1 DEF IInv, TypeOK, Documents, AlarmTyped, ZoneTyped
  <2> QED
    BY <2>1, <2>2, KeepKnows, KeepFresh DEF IInv, Documents
<1> QED
  BY <1>5, <1>6

LEMMA LoseReplyStep ==
  ASSUME IInv, NEW w \in Workspace, LoseReply(w)
  PROVE  IInv'
<1>1. Working(w)
  BY DEF LoseReply, Unsure, Effect, Routed, RecordCreated, RecordDeleted, Released, At, Working
<1> QED
  BY <1>1, GiveUpKeeps, UnsureStep DEF LoseReply

LEMMA EvictStep ==
  ASSUME IInv, NEW w \in Workspace, Evict(w)
  PROVE  IInv'
<1>1. Restart(w) /\ UNCHANGED <<created, addressed>>
  BY DEF Evict
<1>2. AlarmTyped' /\ SameList
  BY <1>1, IdleKeeps DEF Restart
<1>3. domains' \in Documents /\ KeepsStored /\ NoNewNames
  <2>1. /\ domains' \in Documents
        /\ \A d \in Domain : \/ domains'[d] = domains[d]
                             \/ domains'[d] = NoDomain /\ domains[d].status = "adding"
    BY <1>1 DEF Restart, IInv, TypeOK, Documents
  <2> QED
    BY <2>1 DEF KeepsStored, NoNewNames, Stored, Live, NoDomain
<1>4. CASE Unsure(w)
  BY <1>1, <1>2, <1>3, <1>4, UnsureStep
<1>5. CASE faults < MaxFaults /\ faults' = faults + 1 /\ UNCHANGED <<cloud, unsure>>
  <2>1. unsure' \subseteq Location \X Host /\ faults' \in 0..MaxFaults
    BY <1>5, DomainsAssumption DEF IInv, TypeOK
  <2> QED
    BY <1>1, <1>2, <1>3, <1>5, <2>1, ZoneKept, Assemble DEF cloud
<1> QED
  BY <1>4, <1>5 DEF Evict
-----------------------------------------------------------------------------
LEMMA InitIInv == Init => IInv
<1> SUFFICES ASSUME Init
             PROVE  IInv
  OBVIOUS
<1>1. TypeOK
  BY DomainsAssumption DEF Init, TypeOK, Idle, Location, Routes, NoRoute, NoRecord
<1>2. AlarmKnows
  BY DEF Init, AlarmKnows, Working, Idle
<1>3. Fresh /\ NamesReserved
  BY DEF Init, Fresh, NamesReserved, NoDomain
<1> QED
  BY <1>1, <1>2, <1>3 DEF IInv

LEMMA NextIInv == IInv /\ [Next]_vars => IInv'
<1> SUFFICES ASSUME IInv, [Next]_vars
             PROVE  IInv'
  OBVIOUS
<1>1. CASE UNCHANGED vars
  <2>1. TypeOK'
    BY <1>1 DEF vars, IInv, TypeOK
  <2>2. AlarmKnows'
    BY <1>1, SameDomains, SameAlarm, KeepKnows DEF vars
  <2> QED
    BY <1>1, <2>1, <2>2 DEF vars, IInv, Fresh, NamesReserved
<1>2. CASE \E w \in Workspace, h \in Host, s \in Service : Add(w, h, s)
  BY <1>2, AddStep
<1>3. CASE \E d \in Domain : Added(d) \/ AddFails(d) \/ Delete(d)
  BY <1>3, AddedStep, DeleteStep
<1>4. CASE \E w \in Workspace, s \in Service : Deploy(w, s)
  BY <1>4, DeployStep
<1>5. CASE \E w \in Workspace : AlarmStep(w)
  BY <1>5, StartStep, TakeStep, EndStep, ConfiguredStep, ConnectedStep, UnrouteStep,
     ReleaseStep, LookupStep, CreateStep, ProbeStep DEF AlarmStep
<1>6. CASE \E w \in Workspace : Fail(w) \/ LoseReply(w) \/ Evict(w)
  BY <1>6, FailStep, LoseReplyStep, EvictStep
<1> QED
  BY <1>1, <1>2, <1>3, <1>4, <1>5, <1>6 DEF Next

LEMMA Invariant == Spec => []IInv
  BY InitIInv, NextIInv, PTL DEF Spec

\* The documents, the directory, the zone, the tunnels and the alarms always have
\* the shape the handlers give them, whatever the sets and bounds.
THEOREM DomainsTyped == Spec => []TypeOK
<1>1. IInv => TypeOK
  BY DEF IInv
<1> QED
  BY <1>1, Invariant, PTL

\* A name for which a workspace has a document is reserved for that document, and
\* no other workspace can add it, unless a release of it went unnoticed
\* (integrations.ts 566-571, 681-697).
THEOREM NamesStayReserved == Spec => []Reserved
<1>1. IInv => Reserved
  BY StatusTells DEF IInv, NamesReserved, Reserved
<1> QED
  BY <1>1, Invariant, PTL

(***************************************************************************)
(* The zone and the tunnels.                                               *)
(***************************************************************************)

\* A document that was read is what is stored, unless a removal was accepted since.
AsRead(d, doc) == domains[d] = doc \/ domains[d] = [doc EXCEPT !.status = "deleting"]
Reads == \A w \in Workspace :
  /\ Working(w) => AsRead(alarm[w].id, alarm[w].domain)
  /\ \A t \in alarm[w].todo : AsRead(t.id, t.domain)

\* Domain d is live, or its alarm may bring it back to life with what it read.
Keeps(d) ==
  \/ Live(d)
  \/ \E w \in Workspace :
       \/ Working(w) /\ alarm[w].id = d /\ alarm[w].domain.status = "pending"
       \/ \E t \in alarm[w].todo : t.id = d /\ t.domain.status = "pending"

\* Where the alarm is, by what it read.
Stages == \A w \in Workspace :
  LET doc == alarm[w].domain IN
  /\ At(w, "unroute") => doc.status = "deleting" /\ doc.dns_id # 0
  /\ At(w, "release") => doc.status = "deleting" /\ (doc.dns_deleted \/ doc.dns_id = 0)
  /\ alarm[w].pc \in {"lookup", "create"} => doc.status = "pending" /\ doc.dns_id = 0
  /\ At(w, "probe") => doc.status = "pending" /\ doc.dns_id # 0

\* Identities of records are never given twice.
Records ==
  /\ \A h \in Host : dns[h].id <= records
  /\ \A g, h \in Host : dns[g].id # 0 /\ dns[g].id = dns[h].id => g = h

\* A record that a document remembers is a record of its name and its workspace,
\* or was removed.
Owned == \A d \in Domain :
  LET doc == domains[d] IN
  /\ doc.dns_id <= records
  /\ doc.status = "adding" => doc.dns_id = 0
  /\ doc.dns_deleted => doc.status = "deleting" /\ doc.dns_id # 0 /\ ~Keeps(d)
  /\ doc.status = "healthy" => doc.dns_id # 0
  /\ doc.dns_id # 0 => \A h \in Host : dns[h].id = doc.dns_id =>
       h = doc.hostname /\ dns[h].owner = doc.workspace /\ ~doc.dns_deleted

\* RecordKept, also of what may come back to life.
Kept == \A d \in Domain :
  LET doc == domains[d] IN
  Stored(d) /\ Keeps(d) /\ doc.dns_id # 0 /\ <<"release", doc.hostname>> \notin unsure =>
    dns[doc.hostname] = [owner |-> doc.workspace, id |-> doc.dns_id]

\* A record whose creation was noticed is remembered by a document of its name.
Known == \A h \in Host :
  dns[h].owner \in Workspace /\ {<<"create", h>>, <<"release", h>>} \cap unsure = {} =>
    \E d \in Domain : Stored(d) /\ domains[d].hostname = h /\ domains[d].dns_id = dns[h].id

\* No configuration was applied unnoticed.
Noticed == \A h \in Host : <<"put", h>> \notin unsure

\* The configuration that the alarm has sent, or found to be the one of the
\* stored hash, has every healthy domain, and of its own domain's name no
\* service but its own.
Configurations == \A w \in Workspace :
  /\ Noticed => tunnel[w].config_hash \subseteq {tunnel[w].config}
  /\ Working(w) =>
     /\ ~At(w, "put") => tunnel[w].config_hash = {alarm[w].sent}
     /\ \A d \in Domain : domains[d].status = "healthy" /\ domains[d].workspace = w =>
          <<domains[d].hostname, domains[d].service>> \in alarm[w].sent
     /\ <<"release", Name(w)>> \notin unsure =>
          \A s \in Service : <<Name(w), s>> \in alarm[w].sent => s = alarm[w].domain.service

Served == \A d \in Domain :
  LET doc == domains[d] IN
  doc.status = "healthy" /\ <<"release", doc.hostname>> \notin unsure =>
    /\ \E s \in Service : <<doc.hostname, s>> \in tunnel[doc.workspace].config
    /\ Noticed => <<doc.hostname, doc.service>> \in tunnel[doc.workspace].config

AlarmInv == IInv /\ Reads /\ Stages
ZoneInv == AlarmInv /\ Records /\ Owned
RoutesInv == ZoneInv /\ Kept /\ Known /\ Configurations /\ Served
-----------------------------------------------------------------------------
(* What a step does.                                                       *)

\* The alarm of w works on domain e: nobody else does, and what it holds of e is
\* what is stored of it.
Acts(w, e) ==
  /\ \A v \in Workspace \ {w} : alarm'[v] = alarm[v]
  /\ \A d \in Domain : d # e /\ Stored(d) => domains'[d] = domains[d]
  /\ \A v \in Workspace \ {w} : /\ Working(v) => alarm[v].id # e
                                /\ \A t \in alarm[v].todo : t.id # e
  /\ \A t \in alarm'[w].todo :
       /\ t.id # e
       /\ t \in alarm[w].todo \/ (t.id \in Domain /\ Stored(t.id) /\ t.domain = domains[t.id])
  /\ Working(w)' => /\ alarm'[w].id = e
                    /\ AsRead(e, alarm[w].domain)'
                    /\ alarm'[w].domain.status = "pending" => Keeps(e)
  /\ e \in Domain /\ Live(e)' => Keeps(e)
AlarmSame == UNCHANGED alarm /\ \A d \in Domain : Stored(d) =>
  domains'[d] = domains[d] \/ domains'[d] = [domains[d] EXCEPT !.status = "deleting"]

\* A document is not stored; is given another status; goes; remembers a record;
\* or forgets one that was removed.
StoredAnew(d) ==
  /\ ~Stored(d) /\ domains'[d].dns_id = 0 /\ ~domains'[d].dns_deleted
  /\ domains'[d].status # "healthy"
StatusSet(d) ==
  /\ Stored(d)
  /\ \E s \in {"pending", "healthy", "deleting"} :
       /\ domains'[d] = [domains[d] EXCEPT !.status = s]
       /\ s # "deleting" => Keeps(d)
       /\ s = "healthy" => domains[d].dns_id # 0
Gone(d) ==
  /\ Stored(d) /\ domains'[d] = NoDomain
  /\ domains[d].dns_deleted \/ domains[d].dns_id = 0
RecordSet(d) ==
  /\ Stored(d) /\ Keeps(d) /\ domains[d].dns_id = 0
  /\ \E k \in Nat \ {0} :
       /\ domains'[d] = [domains[d] EXCEPT !.dns_id = k, !.status = "pending"]
       /\ dns'[domains[d].hostname] = [owner |-> domains[d].workspace, id |-> k]
RecordGone(d) ==
  /\ Stored(d) /\ ~Keeps(d) /\ domains[d].status = "deleting" /\ domains[d].dns_id # 0
  /\ domains'[d] = [domains[d] EXCEPT !.dns_deleted = TRUE]
  /\ \A h \in Host : dns'[h].id # domains[d].dns_id
DocStep(d) ==
  \/ domains'[d] = domains[d]
  \/ StoredAnew(d) \/ StatusSet(d) \/ Gone(d) \/ RecordSet(d) \/ RecordGone(d)
DocSteps == \A d \in Domain : DocStep(d)

\* A record stays, is removed for a domain of its own, or is created.
RemovedAt(h) ==
  /\ dns'[h] = NoRecord
  /\ \E d \in Domain : /\ Stored(d) /\ ~Keeps(d) /\ domains[d].status = "deleting"
                       /\ domains[d].dns_id = dns[h].id /\ dns[h].id # 0
CreatedAt(h) ==
  /\ dns[h] = NoRecord /\ records' = records + 1
  /\ \E w \in Workspace : dns'[h] = [owner |-> w, id |-> records + 1]
  /\ \A g \in Host \ {h} : dns'[g] = dns[g]
  /\ \/ <<"create", h>> \in unsure'
     \/ \E d \in Domain : /\ Stored(d)' /\ domains'[d].hostname = h
                          /\ domains'[d].dns_id = records + 1
ZoneStep ==
  /\ records <= records'
  /\ \A h \in Host : dns'[h] = dns[h] \/ RemovedAt(h) \/ CreatedAt(h)

KeepsBack == \A d \in Domain : Stored(d) /\ Keeps(d)' => Keeps(d)
-----------------------------------------------------------------------------
\* The document the alarm works on and the stored one differ at most in that a
\* removal was accepted.
LEMMA HeldFacts ==
  ASSUME IInv, Reads, NEW w \in Workspace, Working(w),
         NEW e, e = alarm[w].id, NEW doc, doc = alarm[w].domain
  PROVE  /\ e \in Domain /\ Stored(e) /\ domains[e] \in Document /\ doc \in Document
         /\ domains[e].dns_id = doc.dns_id /\ domains[e].dns_deleted = doc.dns_deleted
         /\ domains[e].service = doc.service /\ domains[e].hostname = doc.hostname
         /\ domains[e].workspace = w /\ doc.workspace = w
         /\ doc.hostname = Name(w) /\ Name(w) \in Host
         /\ doc.status \in {"pending", "deleting"}
         /\ domains[e] \in {doc, [doc EXCEPT !.status = "deleting"]}
         /\ doc.status = "deleting" => domains[e] = doc
         /\ doc.status = "pending" => Keeps(e)
<1>1. /\ e \in Domain /\ Stored(e) /\ domains[e] \in Document /\ doc \in Document
      /\ doc.workspace = w /\ domains[e].workspace = w
      /\ doc.hostname = Name(w) /\ Name(w) \in Host
      /\ doc.status \in {"pending", "deleting"}
  BY HeldIsDocument DEF Name
<1>2. domains[e] \in {doc, [doc EXCEPT !.status = "deleting"]}
  BY DEF Reads, AsRead
<1>3. doc.status = "pending" => Keeps(e)
  BY DEF Keeps
<1>4. /\ domains[e].dns_id = doc.dns_id /\ domains[e].dns_deleted = doc.dns_deleted
      /\ domains[e].service = doc.service /\ domains[e].hostname = doc.hostname
      /\ doc.status = "deleting" => domains[e] = doc
  BY <1>1, <1>2 DEF Document
<1> QED
  BY <1>1, <1>2, <1>3, <1>4

\* A document is in one place of one alarm.
LEMMA HeldOnce ==
  ASSUME IInv, NEW w \in Workspace, NEW e \in Domain, domains[e].workspace = w
  PROVE  \A v \in Workspace \ {w} : /\ Working(v) => alarm[v].id # e
                                    /\ \A t \in alarm[v].todo : t.id # e
  BY DEF IInv, AlarmKnows, Held

\* What is being removed does not come back.
LEMMA NotKept ==
  ASSUME IInv, Reads, NEW w \in Workspace, Working(w), alarm[w].domain.status = "deleting"
  PROVE  ~Keeps(alarm[w].id)
<1> DEFINE e == alarm[w].id
<1>1. e \in Domain /\ domains[e].workspace = w /\ domains[e].status = "deleting"
  BY HeldFacts
<1>2. ~Live(e)
  BY <1>1 DEF Live
<1>3. \A t \in alarm[w].todo : t.id # e
  BY DEF IInv, AlarmKnows
<1> QED
  BY <1>1, <1>2, <1>3, HeldOnce DEF Keeps

\* A step of an alarm keeps what alarms read, and what is not kept stays so.
LEMMA ActsKeeps ==
  ASSUME IInv, Reads, NEW w \in Workspace, NEW e, Acts(w, e)
  PROVE  Reads' /\ KeepsBack
<1>1. \A v \in Workspace : \A t \in alarm[v].todo : t.id \in Domain /\ Stored(t.id)
  BY DEF IInv, AlarmKnows, Held
<1>2. ASSUME NEW v \in Workspace, v # w
      PROVE  /\ Working(v)' => AsRead(alarm[v].id, alarm[v].domain)'
             /\ \A t \in alarm'[v].todo : AsRead(t.id, t.domain)'
  <2>1. alarm'[v] = alarm[v]
    BY <1>2 DEF Acts
  <2>2. Working(v) => /\ alarm[v].id \in Domain /\ Stored(alarm[v].id)
                      /\ domains'[alarm[v].id] = domains[alarm[v].id]
    BY <1>2, HeldIsDocument DEF Acts
  <2>3. \A t \in alarm[v].todo : domains'[t.id] = domains[t.id]
    BY <1>1, <1>2 DEF Acts
  <2> QED
    BY <2>1, <2>2, <2>3 DEF Reads, AsRead, Working
<1>3. \A t \in alarm'[w].todo : /\ t.id \in Domain /\ Stored(t.id)
                                /\ domains'[t.id] = domains[t.id]
                                /\ t \in alarm[w].todo \/ t.domain = domains[t.id]
  BY <1>1 DEF Acts
<1>4. \A t \in alarm'[w].todo : AsRead(t.id, t.domain)'
  BY <1>3 DEF Reads, AsRead
<1>5. Working(w)' => AsRead(alarm[w].id, alarm[w].domain)'
  BY DEF Acts, AsRead
<1>6. Reads'
  BY <1>2, <1>4, <1>5 DEF Reads
<1>7. ASSUME NEW d \in Domain, Stored(d), Keeps(d)'
      PROVE  Keeps(d)
  <2>1. CASE Live(d)'
    <3>1. CASE d = e
      BY <2>1, <3>1 DEF Acts
    <3>2. CASE d # e
      BY <1>7, <2>1, <3>2 DEF Acts, Live, Keeps
    <3> QED
      BY <3>1, <3>2
  <2>2. ASSUME NEW v \in Workspace, Working(v)', alarm'[v].id = d,
               alarm'[v].domain.status = "pending"
        PROVE  Keeps(d)
    <3>1. CASE v = w
      BY <2>2, <3>1 DEF Acts
    <3>2. CASE v # w
      BY <2>2, <3>2 DEF Acts, Keeps, Working
    <3> QED
      BY <3>1, <3>2
  <2>3. ASSUME NEW v \in Workspace, NEW t \in alarm'[v].todo, t.id = d,
               t.domain.status = "pending"
        PROVE  Keeps(d)
    <3>1. CASE v = w
      <4>1. CASE t \in alarm[w].todo
        BY <2>3, <4>1 DEF Keeps
      <4>2. CASE t.domain = domains[t.id]
        BY <2>3, <4>2 DEF Keeps, Live
      <4> QED
        BY <2>3, <3>1, <1>3, <4>1, <4>2
    <3>2. CASE v # w
      BY <2>3, <3>2 DEF Acts, Keeps
    <3> QED
      BY <3>1, <3>2
  <2> QED
    BY <1>7, <2>1, <2>2, <2>3 DEF Keeps
<1> QED
  BY <1>6, <1>7 DEF KeepsBack

\* Neither does a request bring anything back.
LEMMA RequestKeeps ==
  ASSUME IInv, Reads, AlarmSame
  PROVE  Reads' /\ KeepsBack
<1>1. \A w \in Workspace : /\ Working(w)' <=> Working(w)
                           /\ Working(w) => alarm[w].id \in Domain /\ Stored(alarm[w].id)
                           /\ \A t \in alarm[w].todo : t.id \in Domain /\ Stored(t.id)
  BY DEF AlarmSame, Working, IInv, AlarmKnows, Held
<1>2. \A doc : \A d \in Domain : Stored(d) /\ AsRead(d, doc) =>
        domains'[d] = doc \/ domains'[d] = [doc EXCEPT !.status = "deleting"]
  <2> SUFFICES ASSUME NEW doc, NEW d \in Domain, Stored(d), AsRead(d, doc)
               PROVE  domains'[d] = doc \/ domains'[d] = [doc EXCEPT !.status = "deleting"]
    OBVIOUS
  <2>1. [[doc EXCEPT !.status = "deleting"] EXCEPT !.status = "deleting"]
          = [doc EXCEPT !.status = "deleting"]
    OBVIOUS
  <2> QED
    BY <2>1 DEF AlarmSame, AsRead
<1>3. Reads'
  <2>1. \A w \in Workspace : Working(w) => AsRead(alarm[w].id, alarm[w].domain)'
    BY <1>1, <1>2 DEF Reads, AlarmSame, AsRead
  <2>2. \A w \in Workspace : \A t \in alarm'[w].todo : AsRead(t.id, t.domain)'
    BY <1>1, <1>2 DEF Reads, AlarmSame, AsRead
  <2> QED
    BY <1>1, <2>1, <2>2 DEF Reads
<1>4. ASSUME NEW d \in Domain, Stored(d), Keeps(d)'
      PROVE  Keeps(d)
  <2>1. Live(d)' => Live(d)
    <3>1. domains[d] \in Document
      BY <1>4, StatusTells DEF IInv
    <3>2. [domains[d] EXCEPT !.status = "deleting"].status = "deleting"
      BY <3>1 DEF Document
    <3> QED
      BY <1>4, <3>2 DEF AlarmSame, Live
  <2> QED
    BY <1>1, <1>4, <2>1 DEF Keeps, AlarmSame
<1> QED
  BY <1>3, <1>4 DEF KeepsBack
-----------------------------------------------------------------------------
(* What follows of records from what a step does.                          *)

LEMMA ZoneTypes ==
  ASSUME IInv
  PROVE  /\ records \in Nat
         /\ \A h \in Host : /\ dns[h].id \in Nat
                            /\ dns[h].id = 0 => dns[h].owner \notin Workspace
                            /\ dns[h].owner \in Workspace => dns[h].id # 0
                            /\ dns[h] # NoRecord => dns[h].owner \in Workspace \cup {Foreign}
                            /\ dns[h].owner \in Workspace =>
                                 dns[h] = [owner |-> dns[h].owner, id |-> dns[h].id]
         /\ \A d \in Domain : /\ domains[d].dns_id \in Nat
                              /\ Stored(d) => domains[d] \in Document
  BY StatusTells, DomainsAssumption DEF IInv, TypeOK, NoRecord, Document, NoDomain

\* The record of a name stays, goes, or is a new one.
LEMMA ZoneAt ==
  ASSUME ZoneStep, NEW h \in Host
  PROVE  \/ dns'[h] = dns[h]
         \/ dns'[h].id = 0
         \/ /\ dns'[h].id = records + 1 /\ records' = records + 1
            /\ \A g \in Host \ {h} : dns'[g] = dns[g]
<1>1. CASE RemovedAt(h)
  <2>1. dns'[h] = [owner |-> Nobody, id |-> 0]
    BY <1>1 DEF RemovedAt, NoRecord
  <2> QED
    BY <2>1
<1>2. CASE CreatedAt(h)
  <2>1. PICK w : dns'[h] = [owner |-> w, id |-> records + 1]
    BY <1>2 DEF CreatedAt
  <2>2. dns'[h].id = records + 1
    BY <2>1
  <2> QED
    BY <1>2, <2>2 DEF CreatedAt
<1> QED
  BY <1>1, <1>2 DEF ZoneStep

LEMMA RecordsKept ==
  ASSUME IInv, IInv', Records, ZoneStep
  PROVE  Records'
<1>2. records \in Nat /\ records' \in Nat /\ records <= records'
  BY DEF ZoneStep, IInv, TypeOK
<1>3. \A h \in Host : dns[h].id \in Nat /\ dns[h].id <= records
  BY ZoneTypes DEF Records
<1>4. \A h \in Host : dns'[h].id <= records'
  BY <1>2, <1>3, ZoneAt
<1>5. ASSUME NEW g \in Host, NEW h \in Host, dns'[g].id # 0, dns'[g].id = dns'[h].id
      PROVE  g = h
  <2>1. CASE dns'[g] = dns[g] /\ dns'[h] = dns[h]
    BY <1>5, <2>1 DEF Records
  <2>2. ASSUME NEW x \in Host, NEW y \in Host, x # y, dns'[x].id = records + 1,
               \A z \in Host \ {x} : dns'[z] = dns[z]
        PROVE  dns'[x].id # dns'[y].id
    <3>1. dns'[y] = dns[y]
      BY <2>2
    <3>2. dns[y].id \in Nat /\ dns[y].id <= records
      BY <1>3
    <3> QED
      BY <1>2, <2>2, <3>1, <3>2
  <2>3. CASE dns'[g] # dns[g]
    BY <1>5, <2>2, <2>3, ZoneAt
  <2>4. CASE dns'[h] # dns[h]
    BY <1>5, <2>2, <2>4, ZoneAt
  <2> QED
    BY <2>1, <2>3, <2>4
<1> QED
  BY <1>4, <1>5 DEF Records

\* Where a remembered record is, if anywhere.
LEMMA SameRecord ==
  ASSUME IInv, Records, ZoneStep, NEW k \in Nat, k # 0, k <= records, NEW h \in Host,
         dns'[h].id = k
  PROVE  dns'[h] = dns[h]
<1>1. records \in Nat
  BY ZoneTypes
<1>2. k # records + 1
  BY <1>1
<1> QED
  BY <1>2, ZoneAt

LEMMA OwnedKept ==
  ASSUME ZoneInv, IInv', Records', DocSteps, ZoneStep, KeepsBack
  PROVE  Owned'
<1> USE DEF ZoneInv, AlarmInv
<1> SUFFICES ASSUME NEW d \in Domain
             PROVE  /\ domains'[d].dns_id <= records'
                    /\ domains'[d].status = "adding" => domains'[d].dns_id = 0
                    /\ domains'[d].dns_deleted =>
                         domains'[d].status = "deleting" /\ domains'[d].dns_id # 0 /\ ~Keeps(d)'
                    /\ domains'[d].status = "healthy" => domains'[d].dns_id # 0
                    /\ domains'[d].dns_id # 0 => \A h \in Host :
                         dns'[h].id = domains'[d].dns_id =>
                           /\ h = domains'[d].hostname
                           /\ dns'[h].owner = domains'[d].workspace
                           /\ ~domains'[d].dns_deleted
  BY DEF Owned
<1> DEFINE Old == \A h \in Host : dns[h].id = domains[d].dns_id =>
                    /\ h = domains[d].hostname
                    /\ dns[h].owner = domains[d].workspace
                    /\ ~domains[d].dns_deleted
<1>1. /\ domains[d].dns_id <= records
      /\ domains[d].status = "adding" => domains[d].dns_id = 0
      /\ domains[d].dns_deleted =>
           domains[d].status = "deleting" /\ domains[d].dns_id # 0 /\ ~Keeps(d)
      /\ domains[d].status = "healthy" => domains[d].dns_id # 0
      /\ domains[d].dns_id # 0 => Old
  BY DEF Owned
<1>2. records \in Nat /\ records' \in Nat /\ records <= records' /\ domains[d].dns_id \in Nat
  BY ZoneTypes DEF ZoneStep, IInv, TypeOK
<1>3. domains[d].dns_id # 0 => \A h \in Host : dns'[h].id = domains[d].dns_id =>
                    /\ h = domains[d].hostname
                    /\ dns'[h].owner = domains[d].workspace
                    /\ ~domains[d].dns_deleted
  BY <1>1, <1>2, SameRecord
<1>4. Stored(d) => domains[d] \in Document /\ (~Keeps(d) => ~Keeps(d)')
  BY ZoneTypes DEF KeepsBack
<1>5. CASE domains'[d] = domains[d]
  <2>1. domains[d].dns_deleted => Stored(d)
    BY <1>1 DEF Stored
  <2> QED
    BY <1>1, <1>2, <1>3, <1>4, <1>5, <2>1
<1>6. CASE StoredAnew(d)
  BY <1>2, <1>6 DEF StoredAnew
<1>7. CASE StatusSet(d)
  <2>1. PICK s \in {"pending", "healthy", "deleting"} :
          /\ domains'[d] = [domains[d] EXCEPT !.status = s]
          /\ s # "deleting" => Keeps(d)
          /\ s = "healthy" => domains[d].dns_id # 0
    BY <1>7 DEF StatusSet
  <2>2. domains[d] \in Document
    BY <1>4, <1>7 DEF StatusSet
  <2>3. /\ domains'[d].status = s /\ domains'[d].dns_id = domains[d].dns_id
        /\ domains'[d].dns_deleted = domains[d].dns_deleted
        /\ domains'[d].hostname = domains[d].hostname
        /\ domains'[d].workspace = domains[d].workspace
    BY <2>1, <2>2 DEF Document
  <2>4. Stored(d)
    BY <1>7 DEF StatusSet
  <2> QED
    BY <1>1, <1>2, <1>3, <1>4, <2>1, <2>3, <2>4
<1>8. CASE Gone(d)
  <2>1. domains'[d].dns_id = 0 /\ ~domains'[d].dns_deleted /\ domains'[d].status = "none"
    BY <1>8 DEF Gone, NoDomain
  <2> QED
    BY <1>2, <2>1
<1>9. CASE RecordSet(d)
  <2>1. PICK k \in Nat \ {0} :
          /\ domains'[d] = [domains[d] EXCEPT !.dns_id = k, !.status = "pending"]
          /\ dns'[domains[d].hostname] = [owner |-> domains[d].workspace, id |-> k]
    BY <1>9 DEF RecordSet
  <2>2. domains[d] \in Document /\ domains[d].hostname \in Host
    BY <1>4, <1>9 DEF RecordSet, Document
  <2>3. /\ domains'[d].status = "pending" /\ domains'[d].dns_id = k
        /\ domains'[d].dns_deleted = domains[d].dns_deleted
        /\ domains'[d].hostname = domains[d].hostname
        /\ domains'[d].workspace = domains[d].workspace
    BY <2>1, <2>2 DEF Document
  <2>4. ~domains[d].dns_deleted
    BY <1>1, <1>9 DEF RecordSet
  <2>5. \A h \in Host : dns'[h].id = k => h = domains[d].hostname
    BY <2>1, <2>2 DEF Records
  <2>6. k <= records'
    BY <2>1, <2>2 DEF Records
  <2> QED
    BY <2>1, <2>3, <2>4, <2>5, <2>6
<1>10. CASE RecordGone(d)
  <2>1. domains[d] \in Document /\ ~Keeps(d)'
    BY <1>4, <1>10 DEF RecordGone
  <2>2. /\ domains'[d].status = "deleting" /\ domains'[d].dns_id = domains[d].dns_id
        /\ \A h \in Host : dns'[h].id # domains[d].dns_id
        /\ domains[d].dns_id # 0
    BY <1>10, <2>1 DEF RecordGone, Document
  <2> QED
    BY <1>1, <1>2, <2>1, <2>2
<1> QED
  BY <1>5, <1>6, <1>7, <1>8, <1>9, <1>10 DEF DocSteps, DocStep

\* Two documents of a name are one.
LEMMA OneOfName ==
  ASSUME IInv, NEW d \in Domain, NEW e \in Domain, Stored(d), Stored(e),
         domains[d].hostname = domains[e].hostname,
         <<"release", domains[d].hostname>> \notin unsure
  PROVE  d = e
<1>1. domains[d].status # "none" /\ domains[e].status # "none"
  BY StatusTells DEF IInv
<1>2. [workspace |-> domains[d].workspace, domain |-> d]
        = [workspace |-> domains[e].workspace, domain |-> e]
  BY <1>1 DEF IInv, NamesReserved
<1> QED
  BY <1>2

LEMMA KeptKept ==
  ASSUME ZoneInv, Kept, DocSteps, ZoneStep, KeepsBack, unsure \subseteq unsure'
  PROVE  Kept'
<1> USE DEF ZoneInv, AlarmInv
<1> SUFFICES ASSUME NEW d \in Domain, Stored(d)', Keeps(d)', domains'[d].dns_id # 0,
                    <<"release", domains'[d].hostname>> \notin unsure'
             PROVE  dns'[domains'[d].hostname]
                      = [owner |-> domains'[d].workspace, id |-> domains'[d].dns_id]
  BY DEF Kept
<1>1. CASE /\ Stored(d) /\ domains'[d].hostname = domains[d].hostname
           /\ domains'[d].workspace = domains[d].workspace
           /\ domains'[d].dns_id = domains[d].dns_id
  <2> DEFINE h == domains[d].hostname
  <2>1. Keeps(d) /\ h \in Host /\ <<"release", h>> \notin unsure
    BY <1>1, ZoneTypes DEF KeepsBack, Document
  <2>2. dns[h] = [owner |-> domains[d].workspace, id |-> domains[d].dns_id]
    BY <1>1, <2>1 DEF Kept
  <2>3. ~CreatedAt(h)
    <3>1. dns[h].id # 0
      BY <1>1, <2>2
    <3> QED
      BY <3>1 DEF CreatedAt, NoRecord
  <2>4. ~RemovedAt(h)
    <3> SUFFICES ASSUME NEW e \in Domain, Stored(e), ~Keeps(e),
                        domains[e].dns_id = dns[h].id, dns[h].id # 0
                 PROVE  FALSE
      BY DEF RemovedAt
    <3>1. domains[e].hostname = h
      BY <2>1 DEF Owned
    <3> QED
      BY <1>1, <2>1, <3>1, OneOfName
  <2>5. dns'[h] = dns[h]
    BY <2>1, <2>3, <2>4 DEF ZoneStep
  <2> QED
    BY <1>1, <2>2, <2>5
<1>2. CASE domains'[d] = domains[d]
  BY <1>1, <1>2 DEF Stored, Live
<1>3. CASE StatusSet(d)
  <2>1. PICK s : domains'[d] = [domains[d] EXCEPT !.status = s]
    BY <1>3 DEF StatusSet
  <2>2. domains[d] \in Document /\ Stored(d)
    BY <1>3, ZoneTypes DEF StatusSet
  <2> QED
    BY <1>1, <2>1, <2>2 DEF Document
<1>4. CASE RecordSet(d)
  <2>1. PICK k :
          /\ domains'[d] = [domains[d] EXCEPT !.dns_id = k, !.status = "pending"]
          /\ dns'[domains[d].hostname] = [owner |-> domains[d].workspace, id |-> k]
    BY <1>4 DEF RecordSet
  <2>2. domains[d] \in Document
    BY <1>4, ZoneTypes DEF RecordSet
  <2> QED
    BY <2>1, <2>2 DEF Document
<1>5. ~StoredAnew(d) /\ ~Gone(d) /\ ~RecordGone(d)
  BY DEF StoredAnew, Gone, NoDomain, RecordGone, KeepsBack
<1> QED
  BY <1>2, <1>3, <1>4, <1>5 DEF DocSteps, DocStep

LEMMA KnownKept ==
  ASSUME ZoneInv, Known, DocSteps, ZoneStep, unsure \subseteq unsure'
  PROVE  Known'
<1> USE DEF ZoneInv, AlarmInv
<1> SUFFICES ASSUME NEW h \in Host, dns'[h].owner \in Workspace,
                    {<<"create", h>>, <<"release", h>>} \cap unsure' = {}
             PROVE  \E d \in Domain : /\ Stored(d)' /\ domains'[d].hostname = h
                                      /\ domains'[d].dns_id = dns'[h].id
  BY DEF Known
<1>1. CASE dns'[h] = dns[h]
  <2>1. {<<"create", h>>, <<"release", h>>} \cap unsure = {}
    OBVIOUS
  <2>2. PICK d \in Domain : Stored(d) /\ domains[d].hostname = h /\ domains[d].dns_id = dns[h].id
    BY <1>1, <2>1 DEF Known
  <2>3. domains[d].dns_id # 0 /\ domains[d] \in Document
    BY <1>1, <2>2, ZoneTypes
  <2>4. ~domains[d].dns_deleted
    BY <2>2, <2>3 DEF Owned
  <2>5. ~StoredAnew(d) /\ ~Gone(d) /\ ~RecordSet(d) /\ ~RecordGone(d)
    BY <1>1, <2>2, <2>3, <2>4 DEF StoredAnew, Gone, RecordSet, RecordGone
  <2>6. CASE domains'[d] = domains[d]
    BY <1>1, <2>2, <2>6 DEF Stored, Live
  <2>7. CASE StatusSet(d)
    <3>1. PICK s \in {"pending", "healthy", "deleting"} :
            domains'[d] = [domains[d] EXCEPT !.status = s]
      BY <2>7 DEF StatusSet
    <3>2. /\ domains'[d].status = s /\ domains'[d].hostname = h
          /\ domains'[d].dns_id = dns[h].id
      BY <2>2, <2>3, <3>1 DEF Document
    <3>3. Stored(d)'
      BY <3>2 DEF Stored, Live
    <3> QED
      BY <1>1, <3>2, <3>3
  <2> QED
    BY <2>5, <2>6, <2>7 DEF DocSteps, DocStep
<1>2. ~RemovedAt(h)
  BY DomainsAssumption DEF RemovedAt, NoRecord
<1>3. CASE CreatedAt(h)
  <2>1. dns'[h].id = records + 1
    <3>1. PICK w : dns'[h] = [owner |-> w, id |-> records + 1]
      BY <1>3 DEF CreatedAt
    <3> QED
      BY <3>1
  <2> QED
    BY <1>3, <2>1 DEF CreatedAt
<1> QED
  BY <1>1, <1>2, <1>3 DEF ZoneStep

\* A record is removed only for a domain of its name and its workspace.
LEMMA OwnRemoved ==
  ASSUME ZoneInv, ZoneStep, NEW h \in Host, dns[h] # NoRecord, dns'[h] # dns[h]
  PROVE  \E d \in Domain : /\ domains[d].status = "deleting"
                           /\ domains[d].workspace = dns[h].owner
                           /\ domains[d].hostname = h
<1>1. RemovedAt(h)
  BY DEF ZoneStep, CreatedAt
<1>2. PICK d \in Domain : /\ domains[d].status = "deleting"
                          /\ domains[d].dns_id = dns[h].id /\ dns[h].id # 0
  BY <1>1 DEF RemovedAt
<1> QED
  BY <1>2 DEF ZoneInv, Owned
-----------------------------------------------------------------------------
(* What each action does.                                                  *)

\* The alarm stays with its domain, or has done with it.
Others(w) == \A v \in Workspace \ {w} : alarm'[v] = alarm[v]
Moves(w, pc, doc) ==
  /\ Others(w)
  /\ alarm'[w].pc = pc /\ alarm'[w].domain = doc
  /\ alarm'[w].todo = alarm[w].todo /\ alarm'[w].id = alarm[w].id
  /\ alarm'[w].sent = alarm[w].sent
OnlyDoc(e, doc) == \A d \in Domain : domains'[d] = IF d = e THEN doc ELSE domains[d]

LEMMA GoMoves ==
  ASSUME IInv, NEW w \in Workspace, NEW pc, Go(w, pc)
  PROVE  Moves(w, pc, alarm[w].domain)
  BY DEF Go, IInv, TypeOK, Moves, Others

LEMMA SaveMoves ==
  ASSUME IInv, NEW w \in Workspace, NEW doc, NEW pc, Save(w, doc, pc)
  PROVE  Moves(w, pc, doc) /\ OnlyDoc(alarm[w].id, doc)
  BY DEF Save, Put, IInv, TypeOK, Moves, Others, OnlyDoc

LEMMA PutIs ==
  ASSUME IInv, NEW e, NEW doc, Put(e, doc)
  PROVE  OnlyDoc(e, doc)
  BY DEF Put, IInv, TypeOK, OnlyDoc

LEMMA SameZone ==
  ASSUME IInv, UNCHANGED <<dns, records>>
  PROVE  ZoneStep
  BY ZoneTypes DEF ZoneStep

LEMMA StagesBy ==
  ASSUME Stages, NEW w \in Workspace, Others(w),
         LET doc == alarm'[w].domain
             pc  == alarm'[w].pc
         IN /\ pc = "unroute" => doc.status = "deleting" /\ doc.dns_id # 0
            /\ pc = "release" => doc.status = "deleting" /\ (doc.dns_deleted \/ doc.dns_id = 0)
            /\ pc \in {"lookup", "create"} => doc.status = "pending" /\ doc.dns_id = 0
            /\ pc = "probe" => doc.status = "pending" /\ doc.dns_id # 0
  PROVE  Stages'
<1> SUFFICES ASSUME NEW v \in Workspace
             PROVE  LET doc == alarm'[v].domain
                        pc  == alarm'[v].pc
                    IN /\ pc = "unroute" => doc.status = "deleting" /\ doc.dns_id # 0
                       /\ pc = "release" => doc.status = "deleting" /\ (doc.dns_deleted \/ doc.dns_id = 0)
                       /\ pc \in {"lookup", "create"} => doc.status = "pending" /\ doc.dns_id = 0
                       /\ pc = "probe" => doc.status = "pending" /\ doc.dns_id # 0
  BY DEF Stages, At
<1>1. CASE v = w
  BY <1>1
<1>2. CASE v # w
  <2>1. alarm'[v] = alarm[v]
    BY <1>2 DEF Others
  <2> QED
    BY <2>1 DEF Stages, At
<1> QED
  BY <1>1, <1>2

\* The alarm moves on with the domain, which is stored as it reads it now.
LEMMA MovesActs ==
  ASSUME IInv, Reads, NEW w \in Workspace, Working(w), NEW pc, NEW doc,
         Moves(w, pc, doc), NEW e, e = alarm[w].id, NEW now, OnlyDoc(e, now),
         pc \in {"idle", "next"} \/ now \in {doc, [doc EXCEPT !.status = "deleting"]},
         pc \notin {"idle", "next"} /\ doc.status = "pending" => Keeps(e),
         now.status \in {"pending", "healthy"} => Keeps(e)
  PROVE  Acts(w, e)
<1>1. e \in Domain /\ domains[e].workspace = w
  BY HeldFacts
<1>2. \A t \in alarm'[w].todo : t.id # e /\ t \in alarm[w].todo
  BY DEF Moves, IInv, AlarmKnows
<1>3. domains'[e] = now /\ \A d \in Domain : d # e => domains'[d] = domains[d]
  BY <1>1 DEF OnlyDoc
<1>4. Working(w)' => /\ alarm'[w].id = e
                     /\ AsRead(e, alarm[w].domain)'
                     /\ alarm'[w].domain.status = "pending" => Keeps(e)
  BY <1>3 DEF Moves, Working, AsRead
<1>5. Live(e)' => Keeps(e)
  BY <1>3 DEF Live
<1> QED
  BY <1>1, <1>2, <1>3, <1>4, <1>5, HeldOnce DEF Acts, Moves, Others

LEMMA OneDocSteps ==
  ASSUME IInv, NEW e \in Domain, NEW now, OnlyDoc(e, now), DocStep(e)
  PROVE  DocSteps
  BY DEF OnlyDoc, DocSteps, DocStep

\* The catch block.
LEMMA CaughtIs ==
  ASSUME IInv, Reads, NEW w \in Workspace, Working(w)
  PROVE  Caught(alarm[w].id, alarm[w].domain)
           = [domains[alarm[w].id] EXCEPT !.status = alarm[w].domain.status]
<1>1. Stored(alarm[w].id) /\ alarm[w].domain.status \in {"pending", "deleting"}
  BY HeldFacts
<1> QED
  BY <1>1 DEF Caught

\* A document of a domain is given the status that its alarm read.
LEMMA SetStatus ==
  ASSUME IInv, NEW e \in Domain, Stored(e), NEW s \in {"pending", "deleting"},
         s = "pending" => Keeps(e),
         OnlyDoc(e, [domains[e] EXCEPT !.status = s])
  PROVE  DocSteps
<1>1. domains'[e] = [domains[e] EXCEPT !.status = s]
  BY DEF OnlyDoc
<1>2. StatusSet(e)
  BY <1>1 DEF StatusSet
<1> QED
  BY <1>2, OneDocSteps DEF DocStep

LEMMA GaveUp ==
  ASSUME AlarmInv, NEW w \in Workspace, Working(w), GiveUp(w), NEW e, e = alarm[w].id
  PROVE  Acts(w, e) /\ Stages' /\ DocSteps
<1> USE DEF AlarmInv
<1> DEFINE now == [domains[e] EXCEPT !.status = alarm[w].domain.status]
<1>1. Moves(w, "next", alarm[w].domain)
  BY GoMoves DEF GiveUp
<1>2. OnlyDoc(e, now)
  BY CaughtIs, PutIs DEF GiveUp
<1>3. /\ e \in Domain /\ Stored(e) /\ domains[e] \in Document
      /\ alarm[w].domain.status \in {"pending", "deleting"}
      /\ alarm[w].domain.status = "pending" => Keeps(e)
  BY HeldFacts
<1>4. now.status = alarm[w].domain.status
  BY <1>3 DEF Document
<1>5. DocSteps
  BY <1>2, <1>3, SetStatus
<1>6. Acts(w, e)
  <2> HIDE DEF now
  <2> QED
    BY <1>1, <1>2, <1>3, <1>4, MovesActs
<1>7. Stages'
  BY <1>1, StagesBy DEF Moves
<1> QED
  BY <1>5, <1>6, <1>7

\* What a step leaves: what alarms read, where they are, and what it did to
\* documents and records.
Effects == Reads' /\ KeepsBack /\ Stages' /\ DocSteps /\ ZoneStep

LEMMA ActsEffects ==
  ASSUME AlarmInv, NEW w \in Workspace, NEW e, Acts(w, e), Stages', DocSteps, ZoneStep
  PROVE  Effects
  BY ActsKeeps DEF Effects, AlarmInv

LEMMA SameDocSteps ==
  ASSUME UNCHANGED domains
  PROVE  DocSteps
  BY DEF DocSteps, DocStep

LEMMA StartEffects ==
  ASSUME AlarmInv, NEW w \in Workspace, Start(w)
  PROVE  Effects
<1> USE DEF AlarmInv
<1>1. UNCHANGED <<domains, dns, records>>
  BY DEF Start, cloud
<1>2. /\ Others(w)
      /\ alarm'[w] = [pc |-> "next", todo |-> Todo(w), id |-> 0, domain |-> NoDomain, sent |-> {}]
  BY DEF Start, IInv, TypeOK, Others, Idle
<1>3. \A t \in Todo(w) : t.id \in Domain /\ Stored(t.id) /\ t.domain = domains[t.id]
  BY DEF Todo, Of
<1>4. Acts(w, 0)
  <2>1. \A v \in Workspace : /\ Working(v) => alarm[v].id # 0
                             /\ \A t \in alarm[v].todo : t.id # 0
    BY DomainsAssumption DEF IInv, AlarmKnows, Held, Domain
  <2>2. 0 \notin Domain
    BY DEF Domain
  <2>3. ~Working(w)'
    BY <1>2 DEF Working
  <2> QED
    BY <1>1, <1>2, <1>3, <2>1, <2>2, <2>3 DEF Acts, Others
<1>5. Stages'
  BY <1>2, StagesBy
<1> QED
  BY <1>1, <1>4, <1>5, ActsEffects, SameDocSteps, SameZone

\* The alarm and what is lost with it are gone.
LEMMA IdleActs ==
  ASSUME AlarmInv, NEW w \in Workspace, alarm' = [alarm EXCEPT ![w] = Idle],
         \A d \in Domain : Stored(d) => domains'[d] = domains[d]
  PROVE  Acts(w, 0) /\ Stages'
<1> USE DEF AlarmInv
<1>1. /\ Others(w)
      /\ alarm'[w] = [pc |-> "idle", todo |-> {}, id |-> 0, domain |-> NoDomain, sent |-> {}]
  BY DEF IInv, TypeOK, Others, Idle
<1>2. \A v \in Workspace : /\ Working(v) => alarm[v].id # 0
                           /\ \A t \in alarm[v].todo : t.id # 0
  BY DomainsAssumption DEF IInv, AlarmKnows, Held, Domain
<1>3. 0 \notin Domain /\ ~Working(w)'
  BY <1>1 DEF Domain, Working
<1>4. Acts(w, 0)
  BY <1>1, <1>2, <1>3 DEF Acts, Others
<1>5. Stages'
  BY <1>1, StagesBy
<1> QED
  BY <1>4, <1>5

LEMMA EndEffects ==
  ASSUME AlarmInv, NEW w \in Workspace, End(w)
  PROVE  Effects
<1>1. UNCHANGED <<domains, dns, records>> /\ alarm' = [alarm EXCEPT ![w] = Idle]
  BY DEF End, cloud
<1> QED
  BY <1>1, IdleActs, ActsEffects, SameDocSteps, SameZone DEF AlarmInv

LEMMA TakeEffects ==
  ASSUME AlarmInv, NEW w \in Workspace, Take(w)
  PROVE  Effects
<1> USE DEF AlarmInv
<1>1. PICK t, pc :
        /\ t \in alarm[w].todo
        /\ alarm' = [alarm EXCEPT ![w] =
             [pc |-> pc, todo |-> alarm[w].todo \ {t}, id |-> t.id, domain |-> t.domain,
              sent |-> Ingress(w)]]
        /\ \/ pc \in {"connector", "put"} /\ UNCHANGED domains
           \/ pc = "next" /\ Put(t.id, Caught(t.id, t.domain))
        /\ UNCHANGED <<created, cloud, addressed, unsure, faults>>
  BY DEF Take
<1> DEFINE e == t.id
<1>2. /\ Others(w)
      /\ alarm'[w] = [pc |-> pc, todo |-> alarm[w].todo \ {t}, id |-> e,
                      domain |-> t.domain, sent |-> Ingress(w)]
  BY <1>1 DEF IInv, TypeOK, Others
<1>3. /\ e \in Domain /\ Stored(e) /\ domains[e].workspace = w
      /\ t.domain.status \in {"pending", "deleting"}
      /\ \A u \in alarm[w].todo : u.id = e => u = t
  BY <1>1 DEF IInv, AlarmKnows, Held
<1>4. t.domain.status = "pending" => Keeps(e)
  BY <1>1 DEF Keeps
<1>5. Stages'
  BY <1>1, <1>2, StagesBy
<1>6. ZoneStep
  BY <1>1, SameZone DEF cloud
<1>7. CASE pc \in {"connector", "put"} /\ UNCHANGED domains
  <2>1. AsRead(e, t.domain)
    BY <1>1 DEF Reads
  <2>2. Working(w)' => AsRead(e, alarm[w].domain)'
    BY <1>2, <1>7, <2>1 DEF AsRead
  <2>3. Live(e)' => Keeps(e)
    BY <1>7 DEF Live, Keeps
  <2>4. Acts(w, e)
    BY <1>2, <1>3, <1>4, <1>7, <2>2, <2>3, HeldOnce DEF Acts, Others
  <2> QED
    BY <1>5, <1>6, <1>7, <2>4, ActsEffects, SameDocSteps
<1>8. CASE pc = "next" /\ Put(e, Caught(e, t.domain))
  <2> DEFINE now == [domains[e] EXCEPT !.status = t.domain.status]
  <2>1. Caught(e, t.domain) = now
    BY <1>3 DEF Caught
  <2>2. OnlyDoc(e, now)
    BY <1>8, <2>1, PutIs
  <2>3. now.status = t.domain.status
    BY <1>3, ZoneTypes DEF Document
  <2>4. DocSteps
    BY <1>3, <1>4, <2>2, SetStatus
  <2>5. Acts(w, e)
    <3> HIDE DEF now
    <3>1. domains'[e] = now /\ \A d \in Domain : d # e => domains'[d] = domains[d]
      BY <1>3, <2>2 DEF OnlyDoc
    <3>2. Live(e)' => Keeps(e)
      BY <1>4, <1>3, <2>3, <3>1 DEF Live
    <3>3. ~Working(w)'
      BY <1>2, <1>8 DEF Working
    <3> QED
      BY <1>2, <1>3, <3>1, <3>2, <3>3, HeldOnce DEF Acts, Others
  <2> QED
    BY <1>5, <1>6, <2>4, <2>5, ActsEffects
<1> QED
  BY <1>1, <1>7, <1>8

\* The alarm goes on with its domain as it read it.
LEMMA GoesOn ==
  ASSUME AlarmInv, NEW w \in Workspace, Working(w), NEW pc, Go(w, pc),
         UNCHANGED <<domains, dns, records>>, pc \notin {"idle", "next"},
         LET doc == alarm[w].domain
         IN /\ pc = "unroute" => doc.status = "deleting" /\ doc.dns_id # 0
            /\ pc = "release" => doc.status = "deleting" /\ (doc.dns_deleted \/ doc.dns_id = 0)
            /\ pc \in {"lookup", "create"} => doc.status = "pending" /\ doc.dns_id = 0
            /\ pc = "probe" => doc.status = "pending" /\ doc.dns_id # 0
  PROVE  Effects
<1> USE DEF AlarmInv
<1>1. PICK e : e = alarm[w].id
  OBVIOUS
<1> DEFINE doc == alarm[w].domain
           now == domains[e]
<1>2. Moves(w, pc, doc)
  BY GoMoves
<1>3. OnlyDoc(e, now)
  BY DEF OnlyDoc
<1>4. /\ now \in {doc, [doc EXCEPT !.status = "deleting"]}
      /\ doc.status = "pending" => Keeps(e)
      /\ now.status \in {"pending", "healthy"} => Keeps(e)
  BY <1>1, HeldFacts DEF Keeps, Live
<1>5. Acts(w, e)
  <2> HIDE DEF now, doc
  <2> QED
    BY <1>1, <1>2, <1>3, <1>4, MovesActs
<1>6. Stages'
  BY <1>2, StagesBy DEF Moves
<1> QED
  BY <1>5, <1>6, ActsEffects, SameDocSteps, SameZone

LEMMA ConfiguredEffects ==
  ASSUME AlarmInv, NEW w \in Workspace, Configured(w)
  PROVE  Effects
<1>1. Working(w) /\ Go(w, "connector") /\ UNCHANGED <<domains, dns, records>>
  BY DEF Configured, At, Working
<1> QED
  BY <1>1, GoesOn

LEMMA ConnectedEffects ==
  ASSUME AlarmInv, NEW w \in Workspace, Connected(w)
  PROVE  Effects
<1> DEFINE pc == AfterConnector(alarm[w].domain)
<1>1. Working(w) /\ Go(w, pc) /\ UNCHANGED <<domains, dns, records>>
  BY DEF Connected, At, Working, cloud
<1>2. alarm[w].domain.status \in {"pending", "deleting"} /\ alarm[w].domain.dns_deleted \in BOOLEAN
  BY <1>1, HeldIsDocument DEF AlarmInv, Document
<1>3. LET doc == alarm[w].domain
      IN /\ pc \notin {"idle", "next"}
         /\ pc = "unroute" => doc.status = "deleting" /\ doc.dns_id # 0
         /\ pc = "release" => doc.status = "deleting" /\ (doc.dns_deleted \/ doc.dns_id = 0)
         /\ pc \in {"lookup", "create"} => doc.status = "pending" /\ doc.dns_id = 0
         /\ pc = "probe" => doc.status = "pending" /\ doc.dns_id # 0
  BY <1>2 DEF AfterConnector
<1> HIDE DEF pc
<1> QED
  BY <1>1, <1>3, GoesOn

\* The record of a domain that is being removed is deleted, with its effect noticed
\* or not.
LEMMA RecordDeletedStep ==
  ASSUME AlarmInv, NEW w \in Workspace, RecordDeleted(w)
  PROVE  /\ ZoneStep /\ Working(w)
         /\ \A h \in Host : dns'[h].id # domains[alarm[w].id].dns_id
         /\ alarm[w].domain.status = "deleting" /\ alarm[w].domain.dns_id # 0
<1> USE DEF AlarmInv
<1>1. /\ Working(w) /\ alarm[w].domain.status = "deleting" /\ alarm[w].domain.dns_id # 0
      /\ \A h \in Host : dns'[h] = IF dns[h].id = alarm[w].domain.dns_id THEN NoRecord ELSE dns[h]
      /\ records' = records
  BY DEF RecordDeleted, At, Working, Stages
<1> DEFINE e == alarm[w].id
<1>2. /\ e \in Domain /\ Stored(e) /\ ~Keeps(e) /\ domains[e].status = "deleting"
      /\ domains[e].dns_id = alarm[w].domain.dns_id
  BY <1>1, HeldFacts, NotKept
<1>3. ASSUME NEW h \in Host, dns[h].id = alarm[w].domain.dns_id
      PROVE  RemovedAt(h)
    BY <1>1, <1>2, <1>3 DEF RemovedAt
<1>4. ZoneStep
  <2>1. records <= records'
    BY <1>1, ZoneTypes
  <2> QED
    BY <1>1, <1>3, <2>1 DEF ZoneStep
<1>5. ASSUME NEW h \in Host
      PROVE  dns'[h].id # domains[e].dns_id
  <2>1. CASE dns[h].id = alarm[w].domain.dns_id
    <3>1. dns'[h] = [owner |-> Nobody, id |-> 0]
      BY <1>1, <2>1 DEF NoRecord
    <3>2. dns'[h].id = 0
      BY <3>1
    <3> QED
      BY <1>1, <1>2, <3>2
  <2>2. CASE dns[h].id # alarm[w].domain.dns_id
    BY <1>1, <1>2, <2>2
  <2> QED
    BY <2>1, <2>2
<1> QED
  BY <1>1, <1>4, <1>5

LEMMA UnrouteEffects ==
  ASSUME AlarmInv, NEW w \in Workspace, Unroute(w)
  PROVE  Effects
<1> USE DEF AlarmInv
<1>1. PICK e : e = alarm[w].id
  OBVIOUS
<1> DEFINE doc == [alarm[w].domain EXCEPT !.dns_deleted = TRUE]
<1>2. /\ ZoneStep /\ Working(w) /\ \A h \in Host : dns'[h].id # domains[e].dns_id
      /\ alarm[w].domain.status = "deleting" /\ alarm[w].domain.dns_id # 0
  BY <1>1, RecordDeletedStep DEF Unroute
<1>3. /\ e \in Domain /\ Stored(e) /\ alarm[w].domain \in Document
      /\ domains[e] = alarm[w].domain /\ ~Keeps(e)
  BY <1>1, <1>2, HeldFacts, NotKept
<1>4. Moves(w, "release", doc) /\ OnlyDoc(e, doc)
  BY <1>1, SaveMoves DEF Unroute
<1>5. doc.status = "deleting" /\ doc.dns_deleted
  BY <1>2, <1>3 DEF Document
<1>6. DocSteps
  <2>1. domains'[e] = [domains[e] EXCEPT !.dns_deleted = TRUE]
    BY <1>3, <1>4 DEF OnlyDoc
  <2>2. RecordGone(e)
    BY <1>2, <1>3, <2>1 DEF RecordGone
  <2> QED
    BY <1>3, <1>4, <2>2, OneDocSteps DEF DocStep
<1>7. Acts(w, e) /\ Stages'
  <2> HIDE DEF doc
  <2>1. Acts(w, e)
    BY <1>1, <1>2, <1>4, <1>5, MovesActs
  <2>2. Stages'
    BY <1>4, <1>5, StagesBy DEF Moves
  <2> QED
    BY <2>1, <2>2
<1> QED
  BY <1>2, <1>6, <1>7, ActsEffects

LEMMA ReleaseEffects ==
  ASSUME AlarmInv, NEW w \in Workspace, Release(w)
  PROVE  Effects
<1> USE DEF AlarmInv
<1>1. PICK e : e = alarm[w].id
  OBVIOUS
<1>2. /\ Working(w) /\ At(w, "release") /\ Go(w, "next") /\ Put(e, NoDomain)
      /\ UNCHANGED <<dns, records>>
  BY <1>1 DEF Release, Released, At, Working
<1>3. /\ alarm[w].domain.status = "deleting"
      /\ alarm[w].domain.dns_deleted \/ alarm[w].domain.dns_id = 0
  BY <1>2 DEF Stages
<1>4. e \in Domain /\ Stored(e) /\ domains[e] = alarm[w].domain
  BY <1>1, <1>2, <1>3, HeldFacts
<1>5. Moves(w, "next", alarm[w].domain) /\ OnlyDoc(e, NoDomain)
  BY <1>2, GoMoves, PutIs
<1>6. DocSteps
  <2>1. Gone(e)
    BY <1>3, <1>4, <1>5 DEF Gone, OnlyDoc
  <2> QED
    BY <1>4, <1>5, <2>1, OneDocSteps DEF DocStep
<1>7. Acts(w, e)
  <2>1. NoDomain.status \notin {"pending", "healthy"}
    BY DEF NoDomain
  <2> QED
    BY <1>1, <1>2, <1>5, <2>1, MovesActs
<1>8. Stages'
  BY <1>5, StagesBy DEF Moves
<1> QED
  BY <1>2, <1>6, <1>7, <1>8, ActsEffects, SameZone

\* The document remembers a record of its name and its workspace.
LEMMA RecordedStep ==
  ASSUME AlarmInv, NEW w \in Workspace, Working(w), NEW k \in Nat \ {0}, Recorded(w, k),
         alarm[w].domain.status = "pending", alarm[w].domain.dns_id = 0,
         dns'[Name(w)] = [owner |-> w, id |-> k], NEW e, e = alarm[w].id
  PROVE  /\ Acts(w, e) /\ Stages' /\ DocSteps
         /\ e \in Domain /\ Stored(e)' /\ domains'[e].hostname = Name(w)
         /\ domains'[e].dns_id = k
<1> USE DEF AlarmInv
<1> DEFINE doc == [alarm[w].domain EXCEPT !.dns_id = k, !.status = "pending"]
<1>1. Moves(w, "probe", doc) /\ OnlyDoc(e, doc)
  BY SaveMoves DEF Recorded
<1>2. /\ e \in Domain /\ Stored(e) /\ Keeps(e) /\ domains[e] \in Document
      /\ alarm[w].domain \in Document
      /\ domains[e] \in {alarm[w].domain, [alarm[w].domain EXCEPT !.status = "deleting"]}
      /\ domains[e].dns_id = 0 /\ domains[e].hostname = Name(w) /\ domains[e].workspace = w
      /\ alarm[w].domain.hostname = Name(w)
  <2> HIDE DEF doc
  <2>1. PICK read : read = alarm[w].domain
    OBVIOUS
  <2>2. /\ e \in Domain /\ Stored(e) /\ domains[e] \in Document /\ read \in Document
        /\ domains[e].dns_id = read.dns_id /\ domains[e].hostname = read.hostname
        /\ domains[e].workspace = w /\ read.hostname = Name(w)
        /\ domains[e] \in {read, [read EXCEPT !.status = "deleting"]}
        /\ read.status = "pending" => Keeps(e)
    BY <2>1, HeldFacts
  <2> QED
    BY <2>1, <2>2
<1>3. doc.status = "pending" /\ doc.dns_id = k /\ doc.hostname = Name(w)
  BY <1>2 DEF Document
<1>4. doc = [domains[e] EXCEPT !.dns_id = k, !.status = "pending"]
  <2>1. CASE domains[e] = alarm[w].domain
    BY <2>1
  <2>2. CASE domains[e] = [alarm[w].domain EXCEPT !.status = "deleting"]
    BY <1>2, <2>2 DEF Document
  <2> QED
    BY <1>2, <2>1, <2>2
<1>5. domains'[e] = doc
  BY <1>1, <1>2 DEF OnlyDoc
<1> HIDE DEF doc
<1>6. DocSteps
  <2>1. RecordSet(e)
    BY <1>2, <1>4, <1>5 DEF RecordSet
  <2> QED
    BY <1>1, <1>2, <2>1, OneDocSteps DEF DocStep
<1>7. Acts(w, e)
  BY <1>1, <1>2, MovesActs
<1>8. Stages'
  BY <1>1, <1>3, StagesBy DEF Moves
<1>9. Stored(e)' /\ domains'[e].hostname = Name(w) /\ domains'[e].dns_id = k
  BY <1>3, <1>5 DEF Stored, Live
<1> QED
  BY <1>2, <1>6, <1>7, <1>8, <1>9

LEMMA GiveUpEffects ==
  ASSUME AlarmInv, NEW w \in Workspace, Working(w), GiveUp(w), ZoneStep
  PROVE  Effects
<1>1. PICK e : e = alarm[w].id
  OBVIOUS
<1> QED
  BY <1>1, GaveUp, ActsEffects

LEMMA LookupEffects ==
  ASSUME AlarmInv, NEW w \in Workspace, Lookup(w)
  PROVE  Effects
<1> USE DEF AlarmInv
<1>1. /\ Working(w) /\ UNCHANGED <<dns, records>>
      /\ alarm[w].domain.status = "pending" /\ alarm[w].domain.dns_id = 0
  BY DEF Lookup, At, Working, Stages, cloud
<1>2. ZoneStep
  BY <1>1, SameZone
<1>3. CASE dns[Name(w)].owner = w /\ Recorded(w, dns[Name(w)].id)
  <2> DEFINE k == dns[Name(w)].id
  <2>1. /\ Name(w) \in Host /\ k \in Nat \ {0}
        /\ dns'[Name(w)] = [owner |-> w, id |-> k]
    BY <1>1, <1>3, HeldFacts, ZoneTypes
  <2>2. PICK e : e = alarm[w].id
    OBVIOUS
  <2>3. PICK r \in Nat \ {0} : r = k
    BY <2>1
  <2>4. Recorded(w, r) /\ dns'[Name(w)] = [owner |-> w, id |-> r]
    BY <1>3, <2>1, <2>3
  <2>5. Acts(w, e) /\ Stages' /\ DocSteps
    BY <1>1, <2>2, <2>4, RecordedStep
  <2> QED
    BY <1>2, <2>5, ActsEffects
<1>4. CASE GiveUp(w)
  BY <1>1, <1>2, <1>4, GiveUpEffects
<1>5. CASE Go(w, "create") /\ UNCHANGED domains
  BY <1>1, <1>5, GoesOn
<1> QED
  BY <1>3, <1>4, <1>5 DEF Lookup

LEMMA CreateEffects ==
  ASSUME AlarmInv, NEW w \in Workspace, Create(w)
  PROVE  Effects
<1> USE DEF AlarmInv
<1>1. /\ Working(w) /\ alarm[w].domain.status = "pending" /\ alarm[w].domain.dns_id = 0
  BY DEF Create, RecordCreated, At, Working, Stages
<1>2. CASE RecordCreated(w) /\ Recorded(w, records + 1)
  <2>1. PICK r : r = records + 1
    OBVIOUS
  <2>2. PICK e : e = alarm[w].id
    OBVIOUS
  <2>3. /\ r \in Nat \ {0} /\ records \in Nat /\ Name(w) \in Host
        /\ dns[Name(w)] = NoRecord /\ records' = records + 1
        /\ dns'[Name(w)] = [owner |-> w, id |-> r]
        /\ \A g \in Host \ {Name(w)} : dns'[g] = dns[g]
    BY <1>1, <1>2, <2>1, HeldFacts, ZoneTypes DEF RecordCreated, IInv, TypeOK
  <2>4. /\ Acts(w, e) /\ Stages' /\ DocSteps
        /\ e \in Domain /\ Stored(e)' /\ domains'[e].hostname = Name(w)
        /\ domains'[e].dns_id = r
    BY <1>1, <1>2, <2>1, <2>2, <2>3, RecordedStep
  <2>5. PICK h \in Host : h = Name(w)
    BY <2>3
  <2>6. CreatedAt(h)
    BY <2>1, <2>3, <2>4, <2>5 DEF CreatedAt
  <2>7. ZoneStep
    <3>1. records <= records'
      BY <2>3
    <3> QED
      BY <2>3, <2>5, <2>6, <3>1 DEF ZoneStep
  <2> QED
    BY <2>4, <2>7, ActsEffects
<1>3. CASE GiveUp(w) /\ UNCHANGED cloud
  BY <1>1, <1>3, GiveUpEffects, SameZone DEF cloud
<1> QED
  BY <1>2, <1>3 DEF Create

LEMMA ProbeEffects ==
  ASSUME AlarmInv, NEW w \in Workspace, Probe(w)
  PROVE  Effects
<1> USE DEF AlarmInv
<1>1. PICK e : e = alarm[w].id
  OBVIOUS
<1>2. /\ Working(w) /\ UNCHANGED <<dns, records>> /\ Go(w, "next")
      /\ Put(e, [domains[e] EXCEPT !.status = "healthy"])
      /\ alarm[w].domain.status = "pending" /\ alarm[w].domain.dns_id # 0
  BY <1>1 DEF Probe, At, Working, Stages, cloud
<1> DEFINE now == [domains[e] EXCEPT !.status = "healthy"]
<1>3. e \in Domain /\ Stored(e) /\ Keeps(e) /\ domains[e].dns_id # 0
  BY <1>1, <1>2, HeldFacts
<1>4. Moves(w, "next", alarm[w].domain) /\ OnlyDoc(e, now)
  BY <1>2, GoMoves, PutIs
<1>5. domains'[e] = now
  BY <1>3, <1>4 DEF OnlyDoc
<1>6. StatusSet(e)
  BY <1>3, <1>5 DEF StatusSet
<1>7. DocSteps
  BY <1>3, <1>4, <1>6, OneDocSteps DEF DocStep
<1> HIDE DEF now
<1>8. Acts(w, e)
  BY <1>1, <1>2, <1>3, <1>4, MovesActs
<1>9. Stages'
  BY <1>4, StagesBy DEF Moves
<1> QED
  BY <1>2, <1>7, <1>8, <1>9, ActsEffects, SameZone

LEMMA FailEffects ==
  ASSUME AlarmInv, NEW w \in Workspace, NotReady(w) \/ Fail(w)
  PROVE  Effects
<1>1. Working(w) /\ GiveUp(w) /\ UNCHANGED <<dns, records>>
  BY DEF NotReady, Fail, Awaiting, At, Working, cloud
<1> QED
  BY <1>1, GiveUpEffects, SameZone DEF AlarmInv

\* What happens in the zone without its workspace knowing.
LEMMA UnsureZone ==
  ASSUME AlarmInv, NEW w \in Workspace, Unsure(w)
  PROVE  ZoneStep /\ Working(w)
<1> USE DEF AlarmInv
<1>1. /\ Effect(w) /\ unsure' = unsure \cup {<<alarm[w].pc, Name(w)>>}
  BY DEF Unsure
<1>2. CASE Routed(w) \/ Released(w)
  <2>1. UNCHANGED <<dns, records>> /\ Working(w)
    BY <1>2 DEF Routed, Released, At, Working
  <2> QED
    BY <2>1, SameZone
<1>3. CASE RecordDeleted(w)
  BY <1>3, RecordDeletedStep
<1>4. CASE RecordCreated(w)
  <2>1. Working(w)
    BY <1>4 DEF RecordCreated, At, Working
  <2>2. PICK h \in Host : h = Name(w)
    BY <2>1, HeldFacts
  <2>3. /\ dns[h] = NoRecord /\ records' = records + 1 /\ records \in Nat
        /\ dns'[h] = [owner |-> w, id |-> records + 1]
        /\ \A g \in Host \ {h} : dns'[g] = dns[g]
    BY <1>4, <2>2 DEF RecordCreated, IInv, TypeOK
  <2>4. <<"create", h>> \in unsure'
    BY <1>1, <1>4, <2>2 DEF RecordCreated, At
  <2>5. CreatedAt(h)
    BY <2>3, <2>4 DEF CreatedAt
  <2>6. records <= records'
    BY <2>3
  <2> QED
    BY <2>1, <2>3, <2>5, <2>6 DEF ZoneStep
<1> QED
  BY <1>1, <1>2, <1>3, <1>4 DEF Effect

LEMMA LoseReplyEffects ==
  ASSUME AlarmInv, NEW w \in Workspace, LoseReply(w)
  PROVE  Effects
  BY UnsureZone, GiveUpEffects DEF LoseReply

LEMMA EvictEffects ==
  ASSUME AlarmInv, NEW w \in Workspace, Evict(w)
  PROVE  Effects
<1> USE DEF AlarmInv
<1>1. /\ alarm' = [alarm EXCEPT ![w] = Idle]
      /\ \A d \in Domain : domains'[d] = IF domains[d].status = "adding" /\ domains[d].workspace = w
                                         THEN NoDomain ELSE domains[d]
  BY DEF Evict, Restart
<1>2. \A d \in Domain : Stored(d) => domains'[d] = domains[d]
  BY <1>1 DEF Stored, Live
<1>3. Acts(w, 0) /\ Stages'
  BY <1>1, <1>2, IdleActs
<1>4. ASSUME NEW d \in Domain PROVE DocStep(d)
  <2>1. CASE domains'[d] = domains[d]
    BY <2>1 DEF DocStep
  <2>2. CASE domains[d].status = "adding" /\ domains'[d] = NoDomain
    BY <2>2 DEF DocStep, StoredAnew, Stored, Live, NoDomain
  <2> QED
    BY <1>1, <2>1, <2>2
<1>5. ZoneStep
  BY UnsureZone, SameZone DEF Evict, cloud
<1> QED
  BY <1>3, <1>4, <1>5, ActsEffects DEF DocSteps

LEMMA RequestEffects ==
  ASSUME AlarmInv, Owned, UNCHANGED <<alarm, dns, records>>,
         \A d \in Domain :
           \/ domains'[d] = domains[d] \/ StoredAnew(d)
           \/ Stored(d) /\ domains'[d] = [domains[d] EXCEPT !.status = "deleting"]
  PROVE  Effects
<1> USE DEF AlarmInv
<1>1. AlarmSame
  BY DEF AlarmSame, StoredAnew
<1>2. Stages'
  BY DEF Stages, At
<1>3. DocSteps
  BY DEF DocSteps, DocStep, StatusSet
<1> QED
  BY <1>1, <1>2, <1>3, RequestKeeps, SameZone DEF Effects

LEMMA RequestsEffects ==
  ASSUME AlarmInv, Owned,
         \/ \E w \in Workspace, h \in Host, s \in Service : Add(w, h, s)
         \/ \E d \in Domain : Added(d) \/ AddFails(d) \/ Delete(d)
         \/ \E w \in Workspace, s \in Service : Deploy(w, s)
         \/ UNCHANGED vars
  PROVE  Effects
<1> USE DEF AlarmInv
<1>1. ASSUME NEW w \in Workspace, NEW h \in Host, NEW s \in Service, Add(w, h, s)
      PROVE  Effects
  <2> DEFINE doc == [NoDomain EXCEPT !.workspace = w, !.hostname = h, !.service = s,
                                     !.status = "adding"]
  <2>0. doc.status = "adding" /\ doc.dns_id = 0 /\ doc.dns_deleted = FALSE
    BY DEF NoDomain
  <2>1. UNCHANGED <<alarm, dns, records>> /\ Put(created + 1, doc)
    <3>1. UNCHANGED <<alarm, dns, records>>
      BY <1>1 DEF Add
    <3>2. Put(created + 1, doc)
      BY <1>1 DEF Add
    <3> QED
      BY <3>1, <3>2
  <2>2. OnlyDoc(created + 1, doc)
    BY <2>1, PutIs
  <2>3. \A d \in Domain : d = created + 1 => domains[d] = NoDomain
    BY DEF IInv, Fresh, TypeOK, Domain
  <2>4. ASSUME NEW d \in Domain, d = created + 1
        PROVE  StoredAnew(d)
    <3> HIDE DEF doc
    <3>1. domains'[d] = doc /\ domains[d].status = "none"
      BY <2>2, <2>3, <2>4 DEF OnlyDoc, NoDomain
    <3> QED
      BY <2>0, <3>1 DEF StoredAnew, Stored, Live
  <2> QED
    BY <2>1, <2>2, <2>4, RequestEffects DEF OnlyDoc
<1>2. ASSUME NEW d \in Domain, Added(d) \/ AddFails(d)
      PROVE  Effects
  <2>1. /\ UNCHANGED <<alarm, dns, records>> /\ domains[d].status = "adding"
        /\ Put(d, [domains[d] EXCEPT !.status = "pending"]) \/ Put(d, NoDomain)
    <3>1. CASE Added(d)
      BY <3>1 DEF Added, cloud
    <3>2. CASE AddFails(d)
      BY <3>2 DEF AddFails, cloud
    <3> QED
      BY <1>2, <3>1, <3>2
  <2>2. domains[d].dns_id = 0 /\ ~domains[d].dns_deleted /\ domains[d] \in Document
    <3>1. domains[d] \in Document
      BY <2>1, StatusTells DEF IInv
    <3> QED
      BY <2>1, <3>1 DEF Owned, Document
  <2>3. ~Stored(d)
    BY <2>1 DEF Stored, Live
  <2>4. \A e \in Domain : e # d => domains'[e] = domains[e]
    BY <2>1, PutIs DEF OnlyDoc
  <2>5. CASE Put(d, NoDomain)
    <3>1. domains'[d] = NoDomain
      BY <2>5, PutIs DEF OnlyDoc
    <3>2. StoredAnew(d)
      BY <2>3, <3>1 DEF StoredAnew, NoDomain
    <3> QED
      BY <2>1, <2>4, <3>2, RequestEffects
  <2>6. CASE Put(d, [domains[d] EXCEPT !.status = "pending"])
    <3>1. domains'[d] = [domains[d] EXCEPT !.status = "pending"]
      BY <2>6, PutIs DEF OnlyDoc
    <3>2. StoredAnew(d)
      BY <2>2, <2>3, <3>1 DEF StoredAnew, Document
    <3> QED
      BY <2>1, <2>4, <3>2, RequestEffects
  <2> QED
    BY <2>1, <2>5, <2>6
<1>3. ASSUME NEW d \in Domain, Delete(d)
      PROVE  Effects
  <2>1. /\ UNCHANGED <<alarm, dns, records>> /\ Stored(d)
        /\ OnlyDoc(d, [domains[d] EXCEPT !.status = "deleting"])
    BY <1>3, PutIs DEF Delete, Stored, cloud
  <2> QED
    BY <2>1, RequestEffects DEF OnlyDoc
<1>4. CASE \E w \in Workspace, s \in Service : Deploy(w, s)
  BY <1>4, RequestEffects DEF Deploy, cloud
<1>5. CASE UNCHANGED vars
  BY <1>5, RequestEffects DEF vars
<1> QED
  BY <1>1, <1>2, <1>3, <1>4, <1>5

LEMMA NextEffects ==
  ASSUME AlarmInv, Owned, [Next]_vars
  PROVE  Effects /\ unsure \subseteq unsure'
<1>1. unsure \subseteq unsure'
  BY DEF Next, Add, Added, AddFails, Delete, Deploy, AlarmStep, Start, Take, End, Configured,
         Connected, Unroute, Release, Lookup, Create, Probe, NotReady, Fail, LoseReply, Evict,
         Unsure, vars
<1>2. ASSUME NEW w \in Workspace, AlarmStep(w) \/ Fail(w) \/ LoseReply(w) \/ Evict(w)
      PROVE  Effects
  BY <1>2, StartEffects, TakeEffects, EndEffects, ConfiguredEffects, ConnectedEffects,
     UnrouteEffects, ReleaseEffects, LookupEffects, CreateEffects, ProbeEffects, FailEffects,
     LoseReplyEffects, EvictEffects DEF AlarmStep
<1> QED
  BY <1>1, <1>2, RequestsEffects DEF Next
-----------------------------------------------------------------------------
(* What follows of tunnels.                                                *)

LEMMA PutOther ==
  ASSUME IInv, NEW e, NEW doc, Put(e, doc), doc.status # "healthy",
         NEW d \in Domain, domains'[d].status = "healthy"
  PROVE  domains'[d] = domains[d]
  BY PutIs DEF OnlyDoc

\* Only the probe makes a domain healthy.
LEMMA HealthyBefore ==
  ASSUME AlarmInv, [Next]_vars, NEW d \in Domain, domains'[d].status = "healthy"
  PROVE  \/ domains'[d] = domains[d]
         \/ \E w \in Workspace : /\ Probe(w) /\ d = alarm[w].id /\ domains[d].workspace = w
                                 /\ domains'[d] = [domains[d] EXCEPT !.status = "healthy"]
<1> USE DEF AlarmInv
<1>1. CASE UNCHANGED domains
  BY <1>1
<1>2. ASSUME NEW w \in Workspace, NEW h \in Host, NEW s \in Service, Add(w, h, s)
      PROVE  domains'[d] = domains[d]
  <2> DEFINE doc == [NoDomain EXCEPT !.workspace = w, !.hostname = h, !.service = s,
                                     !.status = "adding"]
  <2>1. Put(created + 1, doc)
    BY <1>2 DEF Add
  <2>2. doc.status # "healthy"
    BY DEF NoDomain
  <2> HIDE DEF doc
  <2> QED
    BY <2>1, <2>2, PutOther
<1>3. ASSUME NEW e \in Domain, Added(e) \/ AddFails(e) \/ Delete(e)
      PROVE  domains'[d] = domains[d]
  <2>1. /\ domains[e] \in Document
        /\ \/ Put(e, NoDomain)
           \/ \E s \in {"pending", "deleting"} : Put(e, [domains[e] EXCEPT !.status = s])
    <3>1. CASE Added(e)
      BY <3>1, StatusTells DEF Added, IInv
    <3>2. CASE AddFails(e)
      BY <3>2, StatusTells DEF AddFails, IInv
    <3>3. CASE Delete(e)
      BY <3>3, ZoneTypes DEF Delete, Stored
    <3> QED
      BY <1>3, <3>1, <3>2, <3>3
  <2>2. NoDomain.status # "healthy"
    BY DEF NoDomain
  <2>3. \A s : [domains[e] EXCEPT !.status = s].status = s
    BY <2>1 DEF Document
  <2> QED
    BY <2>1, <2>2, <2>3, PutOther
<1>4. ASSUME NEW w \in Workspace, Working(w), GiveUp(w)
      PROVE  domains'[d] = domains[d]
  <2>1. /\ domains[alarm[w].id] \in Document
        /\ alarm[w].domain.status \in {"pending", "deleting"}
    BY <1>4, HeldIsDocument
  <2>2. [domains[alarm[w].id] EXCEPT !.status = alarm[w].domain.status].status # "healthy"
    BY <2>1 DEF Document
  <2> QED
    BY <1>4, <2>2, CaughtIs, PutOther DEF GiveUp
<1>5. ASSUME NEW w \in Workspace, Take(w)
      PROVE  domains'[d] = domains[d]
  <2>1. PICK t \in alarm[w].todo : UNCHANGED domains \/ Put(t.id, Caught(t.id, t.domain))
    BY <1>5 DEF Take
  <2>2. t.domain.status \in {"pending", "deleting"} /\ t.id \in Domain /\ Stored(t.id)
    BY DEF IInv, AlarmKnows, Held
  <2>3. Caught(t.id, t.domain).status # "healthy"
    <3>1. Caught(t.id, t.domain) = [domains[t.id] EXCEPT !.status = t.domain.status]
      BY <2>2 DEF Caught
    <3> QED
      BY <2>2, <3>1, ZoneTypes DEF Document
  <2> QED
    BY <2>1, <2>3, PutOther
<1>6. ASSUME NEW w \in Workspace, Working(w), NEW k, Recorded(w, k)
      PROVE  domains'[d] = domains[d]
  <2> DEFINE doc == [alarm[w].domain EXCEPT !.dns_id = k, !.status = "pending"]
  <2>1. Put(alarm[w].id, doc)
    BY <1>6 DEF Recorded, Save
  <2>2. alarm[w].domain \in Document
    BY <1>6, HeldIsDocument
  <2>3. doc.status # "healthy"
    BY <2>2 DEF Document
  <2> HIDE DEF doc
  <2> QED
    BY <2>1, <2>3, PutOther
<1>7. ASSUME NEW w \in Workspace, Unroute(w)
      PROVE  domains'[d] = domains[d]
  <2> DEFINE doc == [alarm[w].domain EXCEPT !.dns_deleted = TRUE]
  <2>1. Working(w) /\ Put(alarm[w].id, doc)
    BY <1>7 DEF Unroute, RecordDeleted, Save, At, Working
  <2>2. alarm[w].domain \in Document /\ alarm[w].domain.status # "healthy"
    BY <2>1, HeldIsDocument
  <2>3. doc.status # "healthy"
    BY <2>2 DEF Document
  <2> HIDE DEF doc
  <2> QED
    BY <2>1, <2>3, PutOther
<1>8. ASSUME NEW w \in Workspace, Release(w)
      PROVE  domains'[d] = domains[d]
  <2>1. NoDomain.status # "healthy"
    BY DEF NoDomain
  <2> QED
    BY <1>8, <2>1, PutOther DEF Release
<1>9. ASSUME NEW w \in Workspace, Evict(w)
      PROVE  domains'[d] = domains[d]
  BY <1>9 DEF Evict, Restart, NoDomain
<1>10. ASSUME NEW w \in Workspace, Probe(w)
       PROVE  \/ domains'[d] = domains[d]
              \/ /\ d = alarm[w].id /\ domains[d].workspace = w
                 /\ domains'[d] = [domains[d] EXCEPT !.status = "healthy"]
  <2>1. Working(w)
    BY <1>10 DEF Probe, At, Working
  <2>2. OnlyDoc(alarm[w].id, [domains[alarm[w].id] EXCEPT !.status = "healthy"])
    BY <1>10, PutIs DEF Probe
  <2> QED
    BY <2>1, <2>2, HeldIsDocument DEF OnlyDoc
<1>11. ASSUME NEW w \in Workspace, Lookup(w) \/ Create(w) \/ NotReady(w) \/ Fail(w) \/ LoseReply(w)
       PROVE  domains'[d] = domains[d]
  <2>1. Working(w)
    BY <1>11, UnsureZone DEF Lookup, Create, RecordCreated, NotReady, Fail, LoseReply, Awaiting, At, Working
  <2>2. GiveUp(w) \/ (\E k : Recorded(w, k)) \/ UNCHANGED domains
    BY <1>11 DEF Lookup, Create, NotReady, Fail, LoseReply
  <2> QED
    BY <2>1, <2>2, <1>4, <1>6
<1>12. CASE \E w \in Workspace : Start(w) \/ End(w) \/ Configured(w) \/ Connected(w)
  BY <1>1, <1>12 DEF Start, End, Configured, Connected
<1>13. CASE \E w \in Workspace, s \in Service : Deploy(w, s)
  BY <1>1, <1>13 DEF Deploy
<1>14. CASE UNCHANGED vars
  BY <1>1, <1>14 DEF vars
<1> QED
  BY <1>2, <1>3, <1>5, <1>7, <1>8, <1>9, <1>10, <1>11, <1>12, <1>13, <1>14
     DEF Next, AlarmStep

\* A tunnel changes by a call of its workspace, noticed or not.
LEMMA TunnelBefore ==
  ASSUME AlarmInv, [Next]_vars, NEW v \in Workspace
  PROVE  \/ tunnel'[v] = tunnel[v]
         \/ /\ At(v, "put") /\ <<"put", Name(v)>> \in unsure'
            /\ tunnel'[v] = [tunnel[v] EXCEPT !.config = alarm[v].sent]
         \/ /\ At(v, "put")
            /\ tunnel'[v] = [config_hash |-> {alarm[v].sent}, config |-> alarm[v].sent]
<1> USE DEF AlarmInv
<1>1. CASE UNCHANGED tunnel
  BY <1>1
<1>2. ASSUME NEW w \in Workspace, Unsure(w)
      PROVE  \/ UNCHANGED tunnel
             \/ /\ At(w, "put") /\ <<"put", Name(w)>> \in unsure'
                /\ tunnel' = [tunnel EXCEPT ![w].config = alarm[w].sent]
  BY <1>2 DEF Unsure, Effect, Routed, RecordCreated, RecordDeleted, Released, At
<1>3. ASSUME NEW w \in Workspace, Unsure(w)
      PROVE  \/ tunnel'[v] = tunnel[v]
             \/ /\ At(v, "put") /\ <<"put", Name(v)>> \in unsure'
                /\ tunnel'[v] = [tunnel[v] EXCEPT !.config = alarm[v].sent]
  BY <1>2, <1>3 DEF IInv, TypeOK
<1>4. ASSUME NEW w \in Workspace, Configured(w)
      PROVE  \/ tunnel'[v] = tunnel[v]
             \/ /\ At(v, "put")
                /\ tunnel'[v] = [config_hash |-> {alarm[v].sent}, config |-> alarm[v].sent]
  BY <1>4 DEF Configured, IInv, TypeOK
<1>5. ASSUME NEW w \in Workspace, Evict(w)
      PROVE  Unsure(w) \/ UNCHANGED tunnel
  BY <1>5 DEF Evict, cloud
<1>6. ASSUME NEW w \in Workspace, AlarmStep(w) \/ Fail(w)
      PROVE  UNCHANGED tunnel \/ Configured(w)
  BY <1>6 DEF AlarmStep, Start, Take, End, Connected, Unroute, RecordDeleted, Release, Released,
              Lookup, Create, RecordCreated, Probe, NotReady, Fail, cloud
<1>7. CASE \/ \E w \in Workspace, h \in Host, s \in Service : Add(w, h, s)
           \/ \E d \in Domain : Added(d) \/ AddFails(d) \/ Delete(d)
           \/ \E w \in Workspace, s \in Service : Deploy(w, s)
           \/ UNCHANGED vars
  <2>1. UNCHANGED tunnel
    BY <1>7 DEF Add, Added, AddFails, Delete, Deploy, cloud, vars
  <2> QED
    BY <2>1
<1>8. CASE \E w \in Workspace : LoseReply(w)
  BY <1>3, <1>8 DEF LoseReply
<1> QED
  BY <1>3, <1>4, <1>5, <1>6, <1>7, <1>8 DEF Next

\* While the alarm works on a domain, what it sent is what its tunnel is to have.
Continues(w) ==
  /\ Working(w) /\ alarm'[w].id = alarm[w].id /\ alarm'[w].sent = alarm[w].sent
  /\ alarm'[w].domain.hostname = alarm[w].domain.hostname
  /\ alarm'[w].domain.service = alarm[w].domain.service

LEMMA MovesContinues ==
  ASSUME IInv, NEW w \in Workspace, Working(w), NEW pc, NEW doc, Moves(w, pc, doc),
         doc.hostname = alarm[w].domain.hostname, doc.service = alarm[w].domain.service
  PROVE  Continues(w)
  BY DEF Moves, Continues

LEMMA RestsNot ==
  ASSUME IInv, NEW w \in Workspace, Go(w, "next") \/ alarm' = [alarm EXCEPT ![w] = Idle]
  PROVE  ~Working(w)' /\ Others(w)
  BY DEF Go, Idle, Working, Others, IInv, TypeOK

LEMMA WorkingBefore ==
  ASSUME AlarmInv, [Next]_vars, NEW v \in Workspace, Working(v)'
  PROVE  \/ Take(v)
         \/ Configured(v) /\ Continues(v)
         \/ Continues(v) /\ alarm'[v] = alarm[v] /\ tunnel'[v] = tunnel[v]
         \/ Continues(v) /\ ~At(v, "put") /\ tunnel'[v] = tunnel[v]
<1> USE DEF AlarmInv
<1>1. CASE alarm'[v] = alarm[v]
  <2>1. Continues(v)
    BY <1>1 DEF Continues, Working
  <2>2. CASE tunnel'[v] = tunnel[v]
    BY <1>1, <2>1, <2>2
  <2>3. CASE tunnel'[v] # tunnel[v]
    <3>1. At(v, "put")
      BY <2>3, TunnelBefore
    <3>2. ASSUME NEW w \in Workspace, Unsure(w), GiveUp(w) \/ Restart(w)
          PROVE  v # w
      BY <3>2, RestsNot DEF GiveUp, Restart
    <3>3. PICK w \in Workspace : Configured(w) \/ (Unsure(w) /\ (GiveUp(w) \/ Restart(w)))
      BY <2>3 DEF Next, AlarmStep, Add, Added, AddFails, Delete, Deploy, Start, Take, End,
             Connected, Unroute, RecordDeleted, Release, Released, Lookup, Create, RecordCreated,
             Probe, NotReady, Fail, LoseReply, Evict, cloud, vars
    <3>4. CASE Configured(w)
      <4>1. tunnel' = [tunnel EXCEPT ![w] = [config_hash |-> {alarm[w].sent},
                                             config |-> alarm[w].sent]]
        BY <3>4 DEF Configured
      <4>2. v = w
        BY <2>3, <4>1 DEF IInv, TypeOK
      <4> QED
        BY <2>1, <3>4, <4>2
    <3>5. CASE Unsure(w) /\ (GiveUp(w) \/ Restart(w))
      <4>1. v # w
        BY <3>2, <3>5
      <4>2. tunnel'[v] = tunnel[v]
        BY <3>5, <4>1 DEF Unsure, Effect, Routed, RecordCreated, RecordDeleted, Released, IInv, TypeOK
      <4> QED
        BY <2>3, <4>2
    <3> QED
      BY <3>3, <3>4, <3>5
  <2> QED
    BY <2>2, <2>3
<1>2. CASE alarm'[v] # alarm[v]
  <2>1. PICK w \in Workspace : AlarmStep(w) \/ Fail(w) \/ LoseReply(w) \/ Evict(w)
    BY <1>2 DEF Next, Add, Added, AddFails, Delete, Deploy, vars
  <2>2. ~(GiveUp(v) \/ Go(v, "next") \/ Restart(v) \/ Start(v) \/ End(v))
    <3>1. Start(v) => alarm'[v].pc = "next"
      BY DEF Start, Idle, IInv, TypeOK
    <3> QED
      BY <3>1, RestsNot DEF GiveUp, Restart, End, Working
  <2>3. v = w
    <3>1. \E x : alarm' = [alarm EXCEPT ![w] = x]
      <4>1. CASE Start(w) \/ Take(w) \/ End(w)
        BY <4>1 DEF Start, Take, End
      <4>2. CASE Configured(w) \/ Connected(w) \/ Release(w) \/ Probe(w)
        BY <4>2 DEF Configured, Connected, Release, Probe, Go
      <4>3. CASE Unroute(w)
        BY <4>3 DEF Unroute, Save
      <4>4. CASE Lookup(w) \/ Create(w)
        BY <4>4 DEF Lookup, Create, Recorded, Save, GiveUp, Go
      <4>5. CASE NotReady(w) \/ Fail(w) \/ LoseReply(w) \/ Evict(w)
        BY <4>5 DEF NotReady, Fail, LoseReply, Evict, GiveUp, Go, Restart
      <4> QED
        BY <2>1, <4>1, <4>2, <4>3, <4>4, <4>5 DEF AlarmStep
    <3> QED
      BY <1>2, <3>1 DEF IInv, TypeOK
  <2>4. CASE Connected(v)
    <3>1. Working(v) /\ ~At(v, "put") /\ UNCHANGED tunnel
      BY <2>4 DEF Connected, At, Working, cloud
    <3>2. Moves(v, AfterConnector(alarm[v].domain), alarm[v].domain)
      BY <2>4, GoMoves DEF Connected
    <3> QED
      BY <3>1, <3>2, MovesContinues
  <2>5. CASE Configured(v)
    <3>1. Working(v)
      BY <2>5 DEF Configured, At, Working
    <3>2. Moves(v, "connector", alarm[v].domain)
      BY <2>5, GoMoves DEF Configured
    <3> QED
      BY <2>5, <3>1, <3>2, MovesContinues
  <2>6. CASE Unroute(v)
    <3>1. Working(v) /\ ~At(v, "put") /\ UNCHANGED tunnel
      BY <2>6 DEF Unroute, RecordDeleted, At, Working
    <3> DEFINE doc == [alarm[v].domain EXCEPT !.dns_deleted = TRUE]
    <3>2. Moves(v, "release", doc)
      BY <2>6, SaveMoves DEF Unroute
    <3>3. doc.hostname = alarm[v].domain.hostname /\ doc.service = alarm[v].domain.service
      BY <3>1, HeldIsDocument DEF Document
    <3> HIDE DEF doc
    <3> QED
      BY <3>1, <3>2, <3>3, MovesContinues
  <2>7. CASE Lookup(v) \/ Create(v)
    <3>1. Working(v) /\ ~At(v, "put") /\ UNCHANGED tunnel
      BY <2>7 DEF Lookup, Create, RecordCreated, At, Working, cloud
    <3>2. CASE Go(v, "create")
      BY <3>1, <3>2, GoMoves, MovesContinues
    <3>3. ASSUME NEW k, Recorded(v, k)
          PROVE  Continues(v)
      <4> DEFINE doc == [alarm[v].domain EXCEPT !.dns_id = k, !.status = "pending"]
      <4>1. Moves(v, "probe", doc)
        BY <3>3, SaveMoves DEF Recorded
      <4>2. doc.hostname = alarm[v].domain.hostname /\ doc.service = alarm[v].domain.service
        BY <3>1, HeldIsDocument DEF Document
      <4> HIDE DEF doc
      <4> QED
        BY <3>1, <4>1, <4>2, MovesContinues
    <3> QED
      BY <2>2, <2>7, <3>1, <3>2, <3>3 DEF Lookup, Create
  <2> QED
    BY <2>1, <2>2, <2>3, <2>4, <2>5, <2>6, <2>7
       DEF AlarmStep, Release, Probe, NotReady, Fail, LoseReply, Evict
<1> QED
  BY <1>1, <1>2

LEMMA ConfigurationsKept ==
  ASSUME RoutesInv, [Next]_vars, unsure \subseteq unsure'
  PROVE  Configurations'
<1> USE DEF RoutesInv, ZoneInv, AlarmInv
<1> SUFFICES ASSUME NEW w \in Workspace
             PROVE  /\ Noticed' => tunnel'[w].config_hash \subseteq {tunnel'[w].config}
                    /\ Working(w)' =>
                       /\ alarm'[w].pc # "put" => tunnel'[w].config_hash = {alarm'[w].sent}
                       /\ \A d \in Domain : domains'[d].status = "healthy" /\ domains'[d].workspace = w =>
                            <<domains'[d].hostname, domains'[d].service>> \in alarm'[w].sent
                       /\ <<"release", Name(w)'>> \notin unsure' =>
                            \A s \in Service : <<Name(w)', s>> \in alarm'[w].sent =>
                              s = alarm'[w].domain.service
  BY DEF Configurations, At
<1>1. Noticed' => Noticed
  BY DEF Noticed
<1>2. Noticed' => tunnel'[w].config_hash \subseteq {tunnel'[w].config}
  <2>1. CASE tunnel'[w] = tunnel[w]
    BY <1>1, <2>1 DEF Configurations
  <2>2. CASE At(w, "put") /\ <<"put", Name(w)>> \in unsure'
    <3>1. Name(w) \in Host
      BY <2>2, HeldIsDocument DEF At, Working
    <3> QED
      BY <2>2, <3>1 DEF Noticed
  <2>3. CASE tunnel'[w] = [config_hash |-> {alarm[w].sent}, config |-> alarm[w].sent]
    BY <2>3
  <2> QED
    BY <2>1, <2>2, <2>3, TunnelBefore
<1> SUFFICES ASSUME Working(w)'
             PROVE  /\ alarm'[w].pc # "put" => tunnel'[w].config_hash = {alarm'[w].sent}
                    /\ \A d \in Domain : domains'[d].status = "healthy" /\ domains'[d].workspace = w =>
                         <<domains'[d].hostname, domains'[d].service>> \in alarm'[w].sent
                    /\ <<"release", Name(w)'>> \notin unsure' =>
                         \A s \in Service : <<Name(w)', s>> \in alarm'[w].sent =>
                           s = alarm'[w].domain.service
  BY <1>2
<1>3. \A d \in Domain : domains'[d].status = "healthy" /\ domains'[d].workspace = w =>
        domains'[d] = domains[d]
  <2> SUFFICES ASSUME NEW d \in Domain, domains'[d].status = "healthy",
                      domains'[d].workspace = w
               PROVE  domains'[d] = domains[d]
    OBVIOUS
  <2>1. ASSUME NEW v \in Workspace, Probe(v), d = alarm[v].id, domains[d].workspace = v,
               domains'[d] = [domains[d] EXCEPT !.status = "healthy"]
        PROVE  FALSE
    <3>1. Working(v)
      BY <2>1 DEF Probe, At, Working
    <3>2. domains[d] \in Document
      BY <2>1, <3>1, HeldIsDocument
    <3>3. v = w
      BY <2>1, <3>2 DEF Document
    <3> QED
      BY <2>1, <3>3, RestsNot DEF Probe
  <2> QED
    BY <2>1, HealthyBefore
<1>4. CASE Take(w)
  <2>1. PICK t, pc :
          /\ t \in alarm[w].todo
          /\ alarm' = [alarm EXCEPT ![w] =
               [pc |-> pc, todo |-> alarm[w].todo \ {t}, id |-> t.id, domain |-> t.domain,
                sent |-> Ingress(w)]]
          /\ pc # "next" => pc = IF tunnel[w].config_hash = {Ingress(w)} THEN "connector" ELSE "put"
          /\ UNCHANGED <<tunnel, unsure>>
    BY <1>4 DEF Take, cloud
  <2>2. alarm'[w] = [pc |-> pc, todo |-> alarm[w].todo \ {t}, id |-> t.id, domain |-> t.domain,
                     sent |-> Ingress(w)]
    BY <2>1 DEF IInv, TypeOK
  <2>3. alarm'[w].pc = pc /\ alarm'[w].domain = t.domain /\ alarm'[w].sent = Ingress(w)
    BY <2>2
  <2>4. alarm'[w].pc # "put" => tunnel'[w].config_hash = {alarm'[w].sent}
    BY <2>1, <2>3 DEF Working
  <2>5. ASSUME NEW d \in Domain, domains'[d].status = "healthy", domains'[d].workspace = w
        PROVE  <<domains'[d].hostname, domains'[d].service>> \in alarm'[w].sent
    <3>1. domains'[d] = domains[d] /\ d \in Of(w) /\ Live(d)
      BY <1>3, <2>5 DEF Of, Stored, Live
    <3> QED
      BY <2>3, <3>1 DEF Ingress
  <2>6. ASSUME <<"release", Name(w)'>> \notin unsure', NEW s \in Service,
               <<Name(w)', s>> \in alarm'[w].sent
        PROVE  s = alarm'[w].domain.service
    <3>1. Name(w)' = t.domain.hostname
      BY <2>3 DEF Name
    <3>2. PICK e \in Of(w) : Live(e) /\ domains[e].hostname = t.domain.hostname
                             /\ domains[e].service = s
      BY <2>3, <2>6, <3>1 DEF Ingress
    <3>3. t.id \in Domain /\ Stored(t.id) /\ domains[t.id].hostname = t.domain.hostname
      BY <2>1 DEF IInv, AlarmKnows, Held
    <3>4. e = t.id
      BY <2>1, <2>6, <3>1, <3>2, <3>3, OneOfName DEF Of
    <3>5. domains[t.id] = t.domain \/ domains[t.id] = [t.domain EXCEPT !.status = "deleting"]
      BY <2>1 DEF Reads, AsRead
    <3>6. t.domain \in Document
      BY <2>1 DEF IInv, TypeOK
    <3>7. domains[t.id].service = t.domain.service
      BY <3>5, <3>6 DEF Document
    <3> QED
      BY <2>3, <3>2, <3>4, <3>7
  <2> QED
    BY <2>4, <2>5, <2>6
<1>5. CASE Continues(w) /\ (Configured(w) \/ (tunnel'[w] = tunnel[w] /\ alarm'[w] = alarm[w])
                            \/ (tunnel'[w] = tunnel[w] /\ ~At(w, "put")))
  <2>1. alarm'[w].pc # "put" => tunnel'[w].config_hash = {alarm'[w].sent}
    <3>1. CASE Configured(w)
      <4>1. tunnel'[w] = [config_hash |-> {alarm[w].sent}, config |-> alarm[w].sent]
        BY <3>1 DEF Configured, IInv, TypeOK
      <4> QED
        BY <1>5, <4>1 DEF Continues
    <3>2. CASE tunnel'[w] = tunnel[w] /\ alarm'[w] = alarm[w]
      BY <1>5, <3>2 DEF Continues, Configurations, At
    <3>3. CASE tunnel'[w] = tunnel[w] /\ ~At(w, "put")
      BY <1>5, <3>3 DEF Continues, Configurations
    <3> QED
      BY <1>5, <3>1, <3>2, <3>3
  <2>2. \A d \in Domain : domains'[d].status = "healthy" /\ domains'[d].workspace = w =>
          <<domains'[d].hostname, domains'[d].service>> \in alarm'[w].sent
    BY <1>3, <1>5 DEF Continues, Configurations
  <2>3. Name(w)' = Name(w) /\ (<<"release", Name(w)>> \notin unsure' => <<"release", Name(w)>> \notin unsure)
    BY <1>5 DEF Continues, Name
  <2>4. <<"release", Name(w)>> \notin unsure' =>
          \A s \in Service : <<Name(w), s>> \in alarm'[w].sent => s = alarm'[w].domain.service
    BY <1>5, <2>3 DEF Continues, Configurations
  <2> QED
    BY <2>1, <2>2, <2>3, <2>4
<1> QED
  BY <1>4, <1>5, WorkingBefore

LEMMA ServedKept ==
  ASSUME RoutesInv, [Next]_vars, unsure \subseteq unsure'
  PROVE  Served'
<1> USE DEF RoutesInv, ZoneInv, AlarmInv
<1> SUFFICES ASSUME NEW d \in Domain, domains'[d].status = "healthy",
                    <<"release", domains'[d].hostname>> \notin unsure'
             PROVE  LET doc == domains'[d] IN
                    /\ \E s \in Service : <<doc.hostname, s>> \in tunnel'[doc.workspace].config
                    /\ Noticed' => <<doc.hostname, doc.service>> \in tunnel'[doc.workspace].config
  BY DEF Served
<1>1. Noticed' => Noticed
  BY DEF Noticed
<1>2. CASE domains'[d] = domains[d]
  <2>1. PICK w, h, s : w = domains[d].workspace /\ h = domains[d].hostname /\ s = domains[d].service
    OBVIOUS
  <2>2. w \in Workspace /\ h \in Host /\ s \in Service /\ Stored(d)
    <3>1. Stored(d)
      BY <1>2 DEF Stored, Live
    <3>2. domains[d] \in Document
      BY <3>1, StatusTells DEF IInv
    <3> QED
      BY <2>1, <3>1, <3>2 DEF Document
  <2>3. /\ \E x \in Service : <<h, x>> \in tunnel[w].config
        /\ Noticed => <<h, s>> \in tunnel[w].config
    BY <1>2, <2>1 DEF Served
  <2>4. CASE tunnel'[w] = tunnel[w]
    BY <1>1, <1>2, <2>1, <2>3, <2>4
  <2>5. CASE At(w, "put") /\ tunnel'[w].config = alarm[w].sent
    <3>1. <<h, s>> \in alarm[w].sent
      BY <1>2, <2>1, <2>2, <2>5 DEF Configurations, At, Working
    <3> QED
      BY <1>2, <2>1, <2>2, <2>5, <3>1
  <2>6. CASE At(w, "put") /\ tunnel'[w] = [tunnel[w] EXCEPT !.config = alarm[w].sent]
    <3>1. [tunnel[w] EXCEPT !.config = alarm[w].sent].config = alarm[w].sent
      BY <2>2 DEF IInv, TypeOK
    <3> QED
      BY <2>5, <2>6, <3>1
  <2>7. CASE At(w, "put") /\ tunnel'[w] = [config_hash |-> {alarm[w].sent}, config |-> alarm[w].sent]
    BY <2>5, <2>7
  <2> QED
    BY <2>2, <2>4, <2>6, <2>7, TunnelBefore
<1>3. ASSUME NEW w \in Workspace, Probe(w), d = alarm[w].id, domains[d].workspace = w,
             domains'[d] = [domains[d] EXCEPT !.status = "healthy"]
      PROVE  LET doc == domains'[d] IN
             /\ \E s \in Service : <<doc.hostname, s>> \in tunnel'[doc.workspace].config
             /\ Noticed' => <<doc.hostname, doc.service>> \in tunnel'[doc.workspace].config
  <2>1. /\ Working(w) /\ At(w, "probe") /\ Answers(Name(w)) /\ UNCHANGED <<tunnel, unsure>>
    BY <1>3 DEF Probe, At, Working, cloud
  <2>2. alarm[w].domain.status = "pending" /\ alarm[w].domain.dns_id # 0
    BY <2>1 DEF Stages
  <2>3. /\ domains[d] \in Document /\ Stored(d) /\ Keeps(d) /\ domains[d].dns_id # 0
        /\ domains[d].hostname = Name(w) /\ domains[d].service = alarm[w].domain.service
        /\ Name(w) \in Host
    BY <1>3, <2>1, <2>2, HeldFacts
  <2>4. /\ domains'[d].hostname = Name(w) /\ domains'[d].workspace = w
        /\ domains'[d].service = alarm[w].domain.service
    BY <1>3, <2>3 DEF Document
  <2>5. <<"release", Name(w)>> \notin unsure
    BY <2>1, <2>4
  <2>6. dns[Name(w)].owner = w
    <3>1. dns[Name(w)] = [owner |-> domains[d].workspace, id |-> domains[d].dns_id]
      BY <2>3, <2>5 DEF Kept
    <3> QED
      BY <1>3, <3>1
  <2>7. \E s \in Service : <<Name(w), s>> \in tunnel[w].config
    BY <2>1, <2>6, DomainsAssumption DEF Answers
  <2>8. ASSUME Noticed
        PROVE  <<Name(w), alarm[w].domain.service>> \in tunnel[w].config
    <3>1. tunnel[w].config = alarm[w].sent
      BY <2>1, <2>8 DEF Configurations, At
    <3> QED
      BY <2>1, <2>5, <2>7, <3>1 DEF Configurations
  <2> QED
    BY <1>1, <2>1, <2>4, <2>7, <2>8
<1> QED
  BY <1>2, <1>3, HealthyBefore
-----------------------------------------------------------------------------
LEMMA InitRoutes == Init => RoutesInv
<1> SUFFICES ASSUME Init
             PROVE  RoutesInv
  OBVIOUS
<1>1. IInv
  BY InitIInv
<1>2. /\ \A d \in Domain : domains[d] = NoDomain
      /\ \A w \in Workspace : ~Working(w) /\ alarm[w].pc = "idle" /\ alarm[w].todo = {}
      /\ \A h \in Host : dns[h] \in {NoRecord, [owner |-> Foreign, id |-> 0]}
      /\ \A w \in Workspace : tunnel[w].config_hash = {}
      /\ records = 0
  BY DEF Init, Idle, Working
<1>3. /\ NoDomain.status = "none" /\ NoDomain.dns_id = 0 /\ ~NoDomain.dns_deleted
  BY DEF NoDomain
<1>4. \A h \in Host : dns[h].id = 0 /\ dns[h].owner \notin Workspace
  <2>1. \A h \in Host : dns[h].id = 0 /\ dns[h].owner \in {Nobody, Foreign}
    BY <1>2 DEF NoRecord
  <2> QED
    BY <2>1, DomainsAssumption
<1>5. Reads /\ Stages
  BY <1>2 DEF Reads, Stages, At
<1>6. Records /\ Owned
  BY <1>2, <1>3, <1>4 DEF Records, Owned
<1>7. Kept /\ Known /\ Configurations /\ Served
  BY <1>2, <1>3, <1>4 DEF Kept, Known, Configurations, Served, Stored, Live
<1> QED
  BY <1>1, <1>5, <1>6, <1>7 DEF RoutesInv, ZoneInv, AlarmInv

LEMMA NextRoutes == RoutesInv /\ [Next]_vars => RoutesInv' /\ ZoneStep
<1> SUFFICES ASSUME RoutesInv, [Next]_vars
             PROVE  RoutesInv' /\ ZoneStep
  OBVIOUS
<1> USE DEF RoutesInv, ZoneInv, AlarmInv
<1>1. IInv'
  BY NextIInv
<1>2. Effects /\ unsure \subseteq unsure'
  BY NextEffects
<1>3. Reads' /\ KeepsBack /\ Stages' /\ DocSteps /\ ZoneStep
  BY <1>2 DEF Effects
<1>4. Records'
  BY <1>1, <1>3, RecordsKept
<1>5. Owned'
  BY <1>1, <1>3, <1>4, OwnedKept
<1>6. Kept' /\ Known'
  BY <1>2, <1>3, KeptKept, KnownKept
<1>7. Configurations' /\ Served'
  BY <1>2, ConfigurationsKept, ServedKept
<1> QED
  BY <1>1, <1>3, <1>4, <1>5, <1>6, <1>7

LEMMA RoutesInvariant == Spec => []RoutesInv
<1>1. RoutesInv /\ [Next]_vars => RoutesInv'
  BY NextRoutes
<1> QED
  BY <1>1, InitRoutes, PTL DEF Spec

LEMMA RoutesInvAgree == RoutesInv => RoutesAgree
<1> SUFFICES ASSUME RoutesInv
             PROVE  RoutesAgree
  OBVIOUS
<1> USE DEF RoutesInv, ZoneInv, AlarmInv
<1>1. RecordKept
  BY DEF Kept, RecordKept, Keeps, Stored
<1>2. HealthyIsServed
  <2> SUFFICES ASSUME NEW d \in Domain, domains[d].status = "healthy",
                      <<"release", domains[d].hostname>> \notin unsure
               PROVE  LET doc == domains[d]
                          route == <<doc.hostname, doc.service>>
                      IN /\ dns[doc.hostname].owner = doc.workspace
                         /\ \E s \in Service : <<doc.hostname, s>> \in tunnel[doc.workspace].config
                         /\ route \notin tunnel[doc.workspace].config =>
                              \E h \in Host : <<"put", h>> \in unsure
    BY DEF HealthyIsServed
  <2>1. dns[domains[d].hostname] = [owner |-> domains[d].workspace, id |-> domains[d].dns_id]
    BY <1>1 DEF RecordKept, Live, Owned
  <2> QED
    BY <2>1 DEF Served, Noticed
<1>3. FreeIsClean
  <2> SUFFICES ASSUME NEW h \in Host, Free(h), {<<"create", h>>, <<"release", h>>} \cap unsure = {}
               PROVE  dns[h].owner \in {Nobody, Foreign}
    BY DEF FreeIsClean
  <2>1. dns[h].owner \notin Workspace
    <3> SUFFICES ASSUME dns[h].owner \in Workspace
                 PROVE  FALSE
      OBVIOUS
    <3>1. PICK d \in Domain : Stored(d) /\ domains[d].hostname = h
      BY DEF Known
    <3>2. domain_routes[h] = [workspace |-> domains[d].workspace, domain |-> d]
      BY <3>1, StatusTells DEF IInv, NamesReserved
    <3>3. d = 0
      BY <3>2 DEF Free, NoRoute
    <3> QED
      BY <3>3 DEF Domain
  <2>2. CASE dns[h] = NoRecord
    BY <2>2 DEF NoRecord
  <2>3. CASE dns[h] # NoRecord
    BY <2>1, <2>3, ZoneTypes
  <2> QED
    BY <2>2, <2>3
<1> QED
  BY <1>1, <1>2, <1>3 DEF RoutesAgree

\* What the user is told of an address, the zone and the tunnels agree, for any
\* workspaces, names and services, although records, tunnels and reservations are
\* changed by different calls that fail one by one (integrations.ts 550-640).
THEOREM RoutesAlwaysAgree == Spec => []RoutesAgree
  BY RoutesInvariant, RoutesInvAgree, PTL

\* A record changes only when the workspace it leads to removes a domain of its
\* name, whatever the alarm read before (integrations.ts 563-565).
THEOREM OnlyOwnAreRemoved == Spec => OnlyOwnRemoved
<1>1. RoutesInv /\ [Next]_vars =>
        [\A h \in Host : dns[h] # NoRecord /\ dns'[h] # dns[h] =>
           \E d \in Domain : /\ domains[d].status = "deleting"
                             /\ domains[d].workspace = dns[h].owner
                             /\ domains[d].hostname = h]_vars
  BY NextRoutes, OwnRemoved DEF RoutesInv
<1> QED
  BY <1>1, RoutesInvariant, PTL DEF Spec, OnlyOwnRemoved
=============================================================================
