--------------------------- MODULE SelfHostedProofs ---------------------------
(***************************************************************************)
(* Theorems about the self-hosted edition: for each part an inductive      *)
(* invariant, that it holds at first, that a step of the part keeps it,    *)
(* and what follows from it; in the end the parts together, as             *)
(* MCSelfHosted composes them.  The two fleets, one without and one with   *)
(* commands of the scheduler, are FleetInv and RelayInv.                   *)
(***************************************************************************)
EXTENDS MCSelfHosted, FiniteSets, Integers, Sequences, FiniteSetTheorems, WellFoundedInduction, TLAPS
-----------------------------------------------------------------------------
(***************************************************************************)
(* The fleet, whose machines answer no requests.                            *)
(***************************************************************************)

FleetRow == [host : Host \cup {F!NoHost}, row : {"none", "stored", "late", "claimed", "answered", "deleted"},
             caller : {"none", "waiting", "dropped", "answered", "failed"}, held : BOOLEAN, runs : Nat]

FleetTyped ==
  /\ tickets \in [Ticket -> {"none", "new", "used", "expired"}]
  /\ hosts \in [Host -> [state : {"none", "joined", "gone"}, ticket : Ticket \cup {F!NoTicket}]]
  /\ nodes \in [Host -> Nat] /\ nextslot \in Nat \ {0} /\ hub \subseteq Host
  /\ runtime \in Host \cup {F!NoHost} /\ placed \subseteq Host
  /\ asks \in [Host -> {"none", "peer", "first"}]
  /\ ready \subseteq Host /\ saving \subseteq Host /\ removing \subseteq Host
  /\ calls \in [{} -> FleetRow]

\* A token that admitted a machine is used, and admitted one machine.
FleetAdmits ==
  /\ \A h \in Host : hosts[h].ticket # F!NoTicket => tickets[hosts[h].ticket] = "used"
  /\ \A g, h \in Host : hosts[g].ticket = hosts[h].ticket /\ hosts[g].ticket # F!NoTicket => g = h

\* A machine with an address exists, and one of them is the hub.
FleetPlaced ==
  /\ \A h \in Host : nodes[h] # 0 => hosts[h].state = "joined" /\ nodes[h] < nextslot
  /\ \A h \in hub : nodes[h] # 0
  /\ \A g, h \in hub : g = h
  /\ \A h \in placed : hosts[h].state = "joined"

\* A command is in the hands of an agent only between its claim and its run.
FleetOneRun(call) ==
  /\ call.row \in {"none", "stored"} => call.runs = 0 /\ ~call.held
  /\ call.held => call.runs = 0 /\ call.host # F!NoHost
  /\ call.runs <= 1
  /\ call.row = "answered" => call.runs = 1
  /\ call.caller = "answered" => call.runs = 1
FleetRuns == \A c \in {} : FleetOneRun(calls[c])

FleetInv == FleetTyped /\ FleetAdmits /\ FleetPlaced /\ FleetRuns

LEMMA FleetBegins ==
  ASSUME F!Init
  PROVE  FleetInv
BY DEF F!Init, FleetInv, FleetTyped, FleetAdmits, FleetPlaced, FleetRuns, FleetOneRun, FleetRow, F!NoHost, F!NoTicket

LEMMA FleetEnrolls ==
  ASSUME FleetInv, NEW t \in Ticket,
         \/ F!CreateEnrollment(t) \/ F!EnrollmentExpires(t)
         \/ \E h \in Host : F!Enroll(h, t)
  PROVE  FleetInv'
<1>1. FleetTyped /\ FleetAdmits /\ FleetPlaced /\ FleetRuns /\ t # "none"
  BY ParametersAssumption DEF FleetInv
<1>2. CASE F!CreateEnrollment(t) \/ F!EnrollmentExpires(t)
  <2>1. /\ tickets[t] # "used" /\ \E s \in {"new", "expired"} : tickets' = [tickets EXCEPT ![t] = s]
        /\ UNCHANGED <<hosts, nodes, nextslot, hub, runtime, placed, asks, ready, saving, removing, calls>>
    BY <1>2 DEF F!CreateEnrollment, F!EnrollmentExpires, F!pending
  <2>3. FleetTyped'
    BY <1>1, <2>1 DEF FleetTyped
  <2>4. FleetAdmits'
    BY <1>1, <2>1 DEF FleetTyped, FleetAdmits
  <2>2. FleetPlaced' /\ FleetRuns'
    BY <1>1, <2>1 DEF FleetPlaced, FleetRuns
  <2> QED
    BY <2>2, <2>3, <2>4 DEF FleetInv
<1>3. ASSUME NEW h \in Host, F!Enroll(h, t) PROVE FleetInv'
  <2>1. PICK n : n = [state |-> "joined", ticket |-> t]
    OBVIOUS
  <2>2. /\ hosts' = [hosts EXCEPT ![h] = n] /\ n.state = "joined" /\ n.ticket = t
        /\ n \in [state : {"none", "joined", "gone"}, ticket : Ticket \cup {F!NoTicket}]
        /\ tickets' = [tickets EXCEPT ![t] = "used"] /\ tickets[t] = "new" /\ hosts[h].state = "none"
    BY <1>3, <2>1 DEF F!Enroll, F!Valid
  <2>3. FleetTyped'
    BY <1>1, <1>3, <2>2 DEF FleetTyped, F!Enroll, F!pending
  <2>4. FleetAdmits'
    BY <1>1, <2>2 DEF FleetTyped, FleetAdmits, F!NoTicket
  <2>5. FleetPlaced' /\ FleetRuns'
    BY <1>1, <1>3, <2>2 DEF FleetTyped, FleetPlaced, FleetRuns, F!Enroll, F!pending
  <2> QED
    BY <2>3, <2>4, <2>5 DEF FleetInv
<1> QED
  BY <1>2, <1>3

LEMMA FleetConnects ==
  ASSUME FleetInv, NEW h \in Host, F!AskConfig(h) \/ F!JoinNetwork(h)
  PROVE  FleetInv'
<1>1. FleetTyped /\ FleetAdmits /\ FleetPlaced /\ FleetRuns
  BY DEF FleetInv
<1>2. CASE F!AskConfig(h)
  BY <1>1, <1>2 DEF FleetInv, FleetTyped, FleetAdmits, FleetPlaced, FleetRuns, F!AskConfig, F!rows
<1>3. CASE F!JoinNetwork(h)
  <2>4. /\ UNCHANGED <<tickets, hosts, runtime, placed, ready, saving, removing, calls>>
        /\ asks' = [asks EXCEPT ![h] = "none"] /\ nextslot' \in {nextslot, nextslot + 1}
        /\ \/ UNCHANGED <<nodes, hub>>
           \/ /\ nodes[h] = 0 /\ hosts[h].state = "joined" /\ nextslot' = nextslot + 1
              /\ nodes' = [nodes EXCEPT ![h] = nextslot]
              /\ hub' = hub \/ (hub = {} /\ hub' = {h})
    BY <1>3 DEF F!JoinNetwork, F!First, F!Joined, F!NeedsSlot
  <2>1. FleetTyped'
    <3>1. nodes' \in [Host -> Nat] /\ hub' \subseteq Host /\ nextslot' \in Nat \ {0}
      <4>1. CASE UNCHANGED <<nodes, hub>>
        BY <1>1, <2>4, <4>1 DEF FleetTyped
      <4>2. CASE nodes' = [nodes EXCEPT ![h] = nextslot] /\ (hub' = hub \/ hub' = {h})
        BY <1>1, <2>4, <4>2 DEF FleetTyped
      <4> QED
        BY <2>4, <4>1, <4>2
    <3>2. asks' \in [Host -> {"none", "peer", "first"}]
      BY <1>1, <2>4 DEF FleetTyped
    <3> QED
      BY <1>1, <2>4, <3>1, <3>2 DEF FleetTyped
  <2>2. FleetPlaced'
    <3>1. CASE UNCHANGED <<nodes, hub>>
      BY <1>1, <2>4, <3>1 DEF FleetTyped, FleetPlaced
    <3>2. CASE nodes' = [nodes EXCEPT ![h] = nextslot] /\ ~UNCHANGED <<nodes, hub>>
      BY <1>1, <2>4, <3>2 DEF FleetTyped, FleetPlaced
    <3> QED
      BY <2>4, <3>1, <3>2
  <2>3. FleetAdmits' /\ FleetRuns'
    BY <1>1, <1>3 DEF FleetAdmits, FleetRuns, F!JoinNetwork
  <2> QED
    BY <2>1, <2>2, <2>3 DEF FleetInv
<1> QED
  BY <1>2, <1>3

LEMMA FleetServes ==
  ASSUME FleetInv, NEW h \in Host,
         \/ F!CheckReady(h) \/ F!RuntimeReady(h) \/ F!CheckRuntime(h) \/ F!SaveRuntime(h)
         \/ F!Place(h) \/ F!CheckRemoval(h)
  PROVE  FleetInv'
<1>1. FleetTyped /\ FleetAdmits /\ FleetPlaced /\ FleetRuns
  BY DEF FleetInv
<1>2. CASE \/ F!CheckReady(h) \/ F!RuntimeReady(h) \/ F!CheckRuntime(h) \/ F!SaveRuntime(h)
           \/ F!CheckRemoval(h)
  <2>1. /\ UNCHANGED <<tickets, hosts, nodes, nextslot, hub, placed, asks, calls>>
        /\ runtime' \in {runtime, h}
    BY <1>2 DEF F!CheckReady, F!RuntimeReady, F!CheckRuntime, F!SaveRuntime, F!CheckRemoval, F!rows
  <2>2. ready' \subseteq Host /\ saving' \subseteq Host /\ removing' \subseteq Host
    <3>1. CASE F!CheckReady(h) \/ F!RuntimeReady(h)
      BY <1>1, <3>1 DEF FleetTyped, F!CheckReady, F!RuntimeReady
    <3>2. CASE F!CheckRuntime(h) \/ F!SaveRuntime(h)
      BY <1>1, <3>2 DEF FleetTyped, F!CheckRuntime, F!SaveRuntime
    <3>3. CASE F!CheckRemoval(h)
      BY <1>1, <3>3 DEF FleetTyped, F!CheckRemoval
    <3> QED
      BY <1>2, <3>1, <3>2, <3>3
  <2> QED
    BY <1>1, <2>1, <2>2 DEF FleetInv, FleetTyped, FleetAdmits, FleetPlaced, FleetRuns
<1>3. CASE F!Place(h)
  BY <1>1, <1>3 DEF FleetInv, FleetTyped, FleetAdmits, FleetPlaced, FleetRuns, F!Place, F!Joined, F!pending
<1> QED
  BY <1>2, <1>3

\* What a step of the relay does to one command.
LEMMA FleetOneCall ==
  ASSUME FleetInv, FleetTyped', FleetRuns',
         UNCHANGED <<tickets, hosts, nodes, nextslot, hub, configured, runtime, placed>>
  PROVE  FleetInv'
BY DEF FleetInv, FleetAdmits, FleetPlaced

LEMMA FleetRemoves ==
  ASSUME FleetInv, NEW h \in Host, F!DeleteMachine(h)
  PROVE  FleetInv'
<1>1. FleetTyped /\ FleetAdmits /\ FleetPlaced /\ FleetRuns
  BY DEF FleetInv
<1>2. CASE F!Restricted(h)
  BY <1>1, <1>2 DEF FleetInv, FleetTyped, FleetAdmits, FleetPlaced, FleetRuns, F!DeleteMachine
<1>3. CASE ~F!Restricted(h)
  <2>1. PICK n : n = [hosts[h] EXCEPT !.state = "gone"]
    OBVIOUS
  <2>2. /\ hosts' = [hosts EXCEPT ![h] = n] /\ n.state = "gone" /\ n.ticket = hosts[h].ticket
        /\ n \in [state : {"none", "joined", "gone"}, ticket : Ticket \cup {F!NoTicket}]
    <3>1. hosts[h] \in [state : {"none", "joined", "gone"}, ticket : Ticket \cup {F!NoTicket}]
      BY <1>1 DEF FleetTyped
    <3>2. /\ n \in [state : {"none", "joined", "gone"}, ticket : Ticket \cup {F!NoTicket}]
          /\ n.state = "gone" /\ n.ticket = hosts[h].ticket
      BY <2>1, <3>1
    <3>3. hosts' = [hosts EXCEPT ![h] = n]
      BY <1>3, <2>1 DEF F!DeleteMachine
    <3> QED
      BY <3>2, <3>3
  <2>3. /\ nodes' = [nodes EXCEPT ![h] = 0] /\ hub' = hub \ {h} /\ h \notin placed
        /\ UNCHANGED <<tickets, nextslot, runtime, placed>>
    BY <1>3 DEF F!DeleteMachine, F!Restricted
  <2>4. ASSUME NEW c \in {} PROVE calls'[c] \in FleetRow /\ FleetOneRun(calls'[c])
    <3>1. PICK d : d = [calls[c] EXCEPT !.row = "deleted"]
      OBVIOUS
    <3>2. calls[c] \in FleetRow /\ FleetOneRun(calls[c])
      BY <1>1 DEF FleetTyped, FleetRuns
    <3>3. d \in FleetRow /\ d.row = "deleted" /\ d.runs = calls[c].runs /\ d.held = calls[c].held
          /\ d.host = calls[c].host /\ d.caller = calls[c].caller
      BY <3>1, <3>2 DEF FleetRow
    <3>4. calls'[c] \in {d, calls[c]}
      BY <1>3, <3>1 DEF F!DeleteMachine
    <3> QED
      BY <3>2, <3>3, <3>4 DEF FleetOneRun
  <2>5. /\ calls' \in [{} -> FleetRow]
        /\ FleetRuns'
    <3>1. \E f : calls' = [c \in {} |-> f[c]]
      BY <1>3 DEF F!DeleteMachine
    <3> QED
      BY <2>4, <3>1 DEF FleetRuns
  <2>6. FleetTyped'
    BY <1>1, <1>3, <2>2, <2>3, <2>5 DEF FleetTyped, F!DeleteMachine
  <2>7. FleetAdmits'
    BY <1>1, <2>2, <2>3 DEF FleetTyped, FleetAdmits
  <2>8. FleetPlaced'
    BY <1>1, <2>2, <2>3 DEF FleetTyped, FleetPlaced
  <2> QED
    BY <2>5, <2>6, <2>7, <2>8 DEF FleetInv
<1> QED
  BY <1>2, <1>3

LEMMA FleetOneMoves ==
  ASSUME FleetInv, NEW c \in {}, NEW n \in FleetRow, FleetOneRun(n), calls' = [calls EXCEPT ![c] = n],
         UNCHANGED <<F!rows, F!pending>>
  PROVE  FleetInv'
<1>1. FleetTyped'
  BY DEF FleetInv, FleetTyped, F!rows, F!pending
<1>2. FleetRuns'
  BY DEF FleetInv, FleetTyped, FleetRuns
<1> QED
  BY <1>1, <1>2, FleetOneCall DEF F!rows

LEMMA FleetSomeMove ==
  ASSUME FleetInv, NEW f, calls' = [c \in {} |-> f[c]], \A c \in {} : f[c] \in FleetRow /\ FleetOneRun(f[c]),
         UNCHANGED <<F!rows, F!pending>>
  PROVE  FleetInv'
<1>1. FleetTyped'
  BY DEF FleetInv, FleetTyped, F!rows, F!pending
<1>2. FleetRuns'
  BY DEF FleetRuns
<1> QED
  BY <1>1, <1>2, FleetOneCall DEF F!rows

LEMMA FleetRelays ==
  ASSUME FleetInv, NEW c \in {},
         \/ F!NomadRequest(c) \/ F!MinuteEnds(c) \/ F!Poll(c) \/ F!CallerDropped(c) \/ F!Sweep(c)
  PROVE  FleetInv'
<1>1. FleetTyped /\ calls[c] \in FleetRow /\ FleetOneRun(calls[c])
  BY DEF FleetInv, FleetTyped, FleetRuns
<1>2. CASE F!NomadRequest(c)
  <2>1. PICK n : n = [calls[c] EXCEPT !.host = runtime, !.row = "stored", !.caller = "waiting"]
    OBVIOUS
  <2>2. n \in FleetRow /\ FleetOneRun(n)
    BY <1>1, <1>2, <2>1 DEF FleetTyped, FleetRow, FleetOneRun, F!NomadRequest
  <2>3. calls' = [calls EXCEPT ![c] = n] /\ UNCHANGED <<F!rows, F!pending>>
    BY <1>1, <1>2, <2>1 DEF FleetTyped, F!NomadRequest
  <2> QED
    BY <2>2, <2>3, FleetOneMoves
<1>3. CASE F!MinuteEnds(c)
  <2>1. PICK n : n = [calls[c] EXCEPT !.row = "late"]
    OBVIOUS
  <2>2. n \in FleetRow /\ FleetOneRun(n)
    BY <1>1, <1>3, <2>1 DEF FleetRow, FleetOneRun, F!MinuteEnds
  <2>3. calls' = [calls EXCEPT ![c] = n] /\ UNCHANGED <<F!rows, F!pending>>
    BY <1>1, <1>3, <2>1 DEF FleetTyped, F!MinuteEnds, F!Wait
  <2> QED
    BY <2>2, <2>3, FleetOneMoves
<1>4. CASE F!Poll(c)
  <2>1. PICK n : n = [calls[c] EXCEPT !.caller = IF calls[c].row = "answered" THEN "answered" ELSE "failed",
                                      !.row = "deleted"]
    OBVIOUS
  <2>2. n \in FleetRow /\ FleetOneRun(n)
    BY <1>1, <1>4, <2>1 DEF FleetRow, FleetOneRun, F!Poll
  <2>3. calls' = [calls EXCEPT ![c] = n] /\ UNCHANGED <<F!rows, F!pending>>
    BY <1>1, <1>4, <2>1 DEF FleetTyped, F!Poll
  <2> QED
    BY <2>2, <2>3, FleetOneMoves
<1>5. CASE F!CallerDropped(c)
  <2>1. PICK n : n = [calls[c] EXCEPT !.caller = "dropped"]
    OBVIOUS
  <2>2. n \in FleetRow /\ FleetOneRun(n)
    BY <1>1, <1>5, <2>1 DEF FleetRow, FleetOneRun, F!CallerDropped
  <2>3. calls' = [calls EXCEPT ![c] = n] /\ UNCHANGED <<F!rows, F!pending>>
    BY <1>1, <1>5, <2>1 DEF FleetTyped, F!CallerDropped, F!Wait
  <2> QED
    BY <2>2, <2>3, FleetOneMoves
<1>6. CASE F!Sweep(c)
  <2>1. PICK n : n = [calls[c] EXCEPT !.row = "deleted"]
    OBVIOUS
  <2>2. n \in FleetRow /\ FleetOneRun(n)
    BY <1>1, <1>6, <2>1 DEF FleetRow, FleetOneRun, F!Sweep
  <2>3. calls' = [calls EXCEPT ![c] = n] /\ UNCHANGED <<F!rows, F!pending>>
    BY <1>1, <1>6, <2>1 DEF FleetTyped, F!Sweep, F!Wait
  <2> QED
    BY <2>2, <2>3, FleetOneMoves
<1> QED
  BY <1>2, <1>3, <1>4, <1>5, <1>6

LEMMA FleetAgents ==
  ASSUME FleetInv, NEW h \in Host,
         F!AgentStops(h) \/ \E lost \in BOOLEAN : F!Claim(h, lost)
  PROVE  FleetInv'
<1>1. FleetTyped /\ \A c \in {} : calls[c] \in FleetRow /\ FleetOneRun(calls[c])
  BY DEF FleetInv, FleetTyped, FleetRuns
<1>2. CASE F!AgentStops(h)
  <2>1. PICK f : f = [c \in {} |-> IF calls[c].host = h THEN [calls[c] EXCEPT !.held = FALSE] ELSE calls[c]]
    OBVIOUS
  <2>2. \A c \in {} : f[c] \in FleetRow /\ FleetOneRun(f[c])
    BY <1>1, <2>1 DEF FleetRow, FleetOneRun
  <2>3. calls' = [c \in {} |-> f[c]] /\ UNCHANGED <<F!rows, F!pending>>
    BY <1>2, <2>1 DEF F!AgentStops
  <2> QED
    BY <2>2, <2>3, FleetSomeMove
<1>3. ASSUME NEW lost \in BOOLEAN, F!Claim(h, lost) PROVE FleetInv'
  <2>1. PICK f : f = [c \in {} |-> IF calls[c].host = h /\ calls[c].row = "stored"
                                   THEN [calls[c] EXCEPT !.row = "claimed", !.held = ~lost] ELSE calls[c]]
    OBVIOUS
  <2>2. \A c \in {} : f[c] \in FleetRow /\ FleetOneRun(f[c])
    BY <1>1, <2>1, ParametersAssumption DEF FleetRow, FleetOneRun, F!NoHost
  <2>3. calls' = [c \in {} |-> f[c]] /\ UNCHANGED <<F!rows, F!pending>>
    BY <1>3, <2>1 DEF F!Claim, F!Claimable
  <2> QED
    BY <2>2, <2>3, FleetSomeMove
<1> QED
  BY <1>2, <1>3

LEMMA FleetAfterRun ==
  ASSUME NEW call \in FleetRow, NEW e \in {call.row, "answered"},
         NEW n, n = [call EXCEPT !.held = FALSE, !.runs = @ + 1, !.row = e]
  PROVE  n \in FleetRow /\ n.runs = call.runs + 1 /\ ~n.held /\ n.row \in {call.row, "answered"}
<1>1. n.runs = call.runs + 1 /\ ~n.held /\ n.row = e
  BY DEF FleetRow
<1>2. e \in {"none", "stored", "late", "claimed", "answered", "deleted"} /\ call.runs + 1 \in Nat
  BY DEF FleetRow
<1>3. n \in FleetRow
  BY <1>2 DEF FleetRow
<1> QED
  BY <1>1, <1>3

LEMMA FleetExecutes ==
  ASSUME FleetInv, NEW c \in {}, NEW lost \in BOOLEAN, F!Execute(c, lost)
  PROVE  FleetInv'
<1>1. FleetTyped /\ \A d \in {} : calls[d] \in FleetRow /\ FleetOneRun(calls[d])
  BY DEF FleetInv, FleetTyped, FleetRuns
<1> DEFINE refused == lost \/ calls[c].row # "claimed"
<1>2. PICK f : f = [d \in {} |->
       IF d = c THEN [calls[c] EXCEPT !.held = FALSE, !.runs = @ + 1,
                                      !.row = IF refused THEN @ ELSE "answered"]
       ELSE IF refused /\ calls[d].host = calls[c].host THEN [calls[d] EXCEPT !.held = FALSE] ELSE calls[d]]
  OBVIOUS
<1>3. ASSUME NEW d \in {} PROVE f[d] \in FleetRow /\ FleetOneRun(f[d])
  <2>1. CASE d = c
    <3>1. PICK n : n = [calls[c] EXCEPT !.held = FALSE, !.runs = @ + 1,
                                        !.row = IF refused THEN @ ELSE "answered"]
      OBVIOUS
    <3>2. f[d] = n /\ calls[c] \in FleetRow /\ FleetOneRun(calls[c]) /\ calls[c].held
      BY <1>1, <1>2, <2>1, <3>1 DEF F!Execute
    <3>3. n \in FleetRow /\ n.runs = 1 /\ ~n.held /\ n.row \notin {"none", "stored"}
      <4>1. calls[c].runs = 0 /\ calls[c].row \notin {"none", "stored"}
        BY <3>2 DEF FleetOneRun
      <4>2. n \in FleetRow /\ n.runs = calls[c].runs + 1 /\ ~n.held /\ n.row \in {calls[c].row, "answered"}
        <5>1. PICK e : e = IF refused THEN calls[c].row ELSE "answered"
          OBVIOUS
        <5>2. n = [calls[c] EXCEPT !.held = FALSE, !.runs = @ + 1, !.row = e]
          BY <3>1, <5>1
        <5>3. e \in {calls[c].row, "answered"} /\ calls[c] \in FleetRow
          BY <3>2, <5>1
        <5> QED
          BY <5>2, <5>3, FleetAfterRun
      <4> QED
        BY <4>1, <4>2
    <3> QED
      BY <3>2, <3>3 DEF FleetOneRun
  <2>2. CASE d # c
    BY <1>1, <1>2, <2>2 DEF FleetRow, FleetOneRun
  <2> QED
    BY <2>1, <2>2
<1>4. calls' = [d \in {} |-> f[d]] /\ UNCHANGED <<F!rows, F!pending>>
  BY <1>2 DEF F!Execute
<1> QED
  BY <1>3, <1>4, FleetSomeMove

LEMMA FleetKept ==
  ASSUME FleetInv, [F!Next]_F!shfvars
  PROVE  FleetInv'
<1>1. CASE UNCHANGED F!shfvars
  BY <1>1 DEF FleetInv, FleetTyped, FleetAdmits, FleetPlaced, FleetRuns, F!shfvars
<1>2. ASSUME NEW t \in Ticket,
             F!CreateEnrollment(t) \/ F!EnrollmentExpires(t) \/ \E h \in Host : F!Enroll(h, t)
      PROVE  FleetInv'
  BY <1>2, FleetEnrolls
<1>3. CASE F!SetNetwork
  BY <1>3 DEF FleetInv, FleetTyped, FleetAdmits, FleetPlaced, FleetRuns, F!SetNetwork, F!pending
<1>4. ASSUME NEW h \in Host,
             \/ F!AskConfig(h) \/ F!JoinNetwork(h) \/ F!CheckReady(h) \/ F!RuntimeReady(h)
             \/ F!CheckRuntime(h) \/ F!SaveRuntime(h) \/ F!Place(h) \/ F!CheckRemoval(h) \/ F!DeleteMachine(h)
             \/ F!AgentStops(h) \/ (\E lost \in BOOLEAN : F!Claim(h, lost))
      PROVE  FleetInv'
  BY <1>4, FleetConnects, FleetServes, FleetRemoves, FleetAgents
<1>5. ASSUME NEW c \in {},
             \/ F!NomadRequest(c) \/ F!MinuteEnds(c) \/ F!Poll(c) \/ F!CallerDropped(c) \/ F!Sweep(c)
             \/ \E lost \in BOOLEAN : F!Execute(c, lost)
      PROVE  FleetInv'
  BY <1>5, FleetRelays, FleetExecutes
<1> QED
  BY <1>1, <1>2, <1>3, <1>4, <1>5 DEF F!Next

LEMMA FleetPromises ==
  ASSUME FleetInv
  PROVE  F!TypeOK /\ F!TicketOnce /\ F!RunsOnce /\ F!PlacedKeepsMachine
<1>1. FleetTyped /\ FleetAdmits /\ FleetPlaced /\ FleetRuns
  BY DEF FleetInv
<1>2. F!Cardinality(hub) <= 1
  <2>1. \A S : F!Cardinality(S) = Cardinality(S)
    BY Zenon DEF F!Cardinality, Cardinality
  <2>2. CASE hub = {}
    BY <2>1, <2>2, FS_EmptySet
  <2>3. ASSUME NEW h \in hub PROVE F!Cardinality(hub) <= 1
    <3>1. hub = {h}
      BY <1>1 DEF FleetPlaced
    <3> QED
      BY <2>1, <3>1, FS_Singleton
  <2> QED
    BY <2>2, <2>3
<1> QED
  BY <1>1, <1>2 DEF FleetTyped, FleetAdmits, FleetPlaced, FleetRuns, FleetOneRun, FleetRow, F!TypeOK, F!TicketOnce,
       F!RunsOnce, F!PlacedKeepsMachine, F!Joined

LEMMA FleetAddressesKept ==
  ASSUME FleetInv, F!Next
  PROVE  \A h \in Host : nodes[h] # 0 /\ asks[h] # "none" /\ asks'[h] = "none"
           => nodes'[h] = nodes[h] /\ nextslot' = nextslot
<1>1. CASE \E h \in Host : F!JoinNetwork(h)
  BY <1>1 DEF FleetInv, FleetTyped, F!JoinNetwork, F!NeedsSlot
<1>2. CASE \E h \in Host : F!AskConfig(h)
  BY <1>2 DEF FleetInv, FleetTyped, F!AskConfig
<1>3. CASE UNCHANGED asks
  BY <1>3
<1> QED
  BY <1>1, <1>2, <1>3 DEF F!Next, F!CreateEnrollment, F!EnrollmentExpires, F!Enroll, F!SetNetwork,
       F!CheckReady, F!RuntimeReady, F!CheckRuntime, F!SaveRuntime, F!Place, F!CheckRemoval,
       F!DeleteMachine, F!AgentStops, F!Claim, F!NomadRequest, F!MinuteEnds, F!Poll, F!CallerDropped,
       F!Sweep, F!Execute, F!pending

-----------------------------------------------------------------------------
(***************************************************************************)
(* The relay: a fleet with one token, and the requests its runtime is sent.  *)
(***************************************************************************)

RelayRow == [host : Host \cup {C!NoHost}, row : {"none", "stored", "late", "claimed", "answered", "deleted"},
             caller : {"none", "waiting", "dropped", "answered", "failed"}, held : BOOLEAN, runs : Nat]

RelayTyped ==
  /\ tickets \in [OneTicket -> {"none", "new", "used", "expired"}]
  /\ hosts \in [Host -> [state : {"none", "joined", "gone"}, ticket : OneTicket \cup {C!NoTicket}]]
  /\ nodes \in [Host -> Nat] /\ nextslot \in Nat \ {0} /\ hub \subseteq Host
  /\ runtime \in Host \cup {C!NoHost} /\ placed \subseteq Host
  /\ asks \in [Host -> {"none", "peer", "first"}]
  /\ ready \subseteq Host /\ saving \subseteq Host /\ removing \subseteq Host
  /\ calls \in [Command -> RelayRow]

\* A token that admitted a machine is used, and admitted one machine.
RelayAdmits ==
  /\ \A h \in Host : hosts[h].ticket # C!NoTicket => tickets[hosts[h].ticket] = "used"
  /\ \A g, h \in Host : hosts[g].ticket = hosts[h].ticket /\ hosts[g].ticket # C!NoTicket => g = h

\* A machine with an address exists, and one of them is the hub.
RelayPlaced ==
  /\ \A h \in Host : nodes[h] # 0 => hosts[h].state = "joined" /\ nodes[h] < nextslot
  /\ \A h \in hub : nodes[h] # 0
  /\ \A g, h \in hub : g = h
  /\ \A h \in placed : hosts[h].state = "joined"

\* A command is in the hands of an agent only between its claim and its run.
RelayOneRun(call) ==
  /\ call.row \in {"none", "stored"} => call.runs = 0 /\ ~call.held
  /\ call.held => call.runs = 0 /\ call.host # C!NoHost
  /\ call.runs <= 1
  /\ call.row = "answered" => call.runs = 1
  /\ call.caller = "answered" => call.runs = 1
RelayRuns == \A c \in Command : RelayOneRun(calls[c])

RelayInv == RelayTyped /\ RelayAdmits /\ RelayPlaced /\ RelayRuns

LEMMA RelayBegins ==
  ASSUME C!Init
  PROVE  RelayInv
BY DEF C!Init, RelayInv, RelayTyped, RelayAdmits, RelayPlaced, RelayRuns, RelayOneRun, RelayRow, C!NoHost, C!NoTicket

LEMMA RelayEnrolls ==
  ASSUME RelayInv, NEW t \in OneTicket,
         \/ C!CreateEnrollment(t) \/ C!EnrollmentExpires(t)
         \/ \E h \in Host : C!Enroll(h, t)
  PROVE  RelayInv'
<1>1. RelayTyped /\ RelayAdmits /\ RelayPlaced /\ RelayRuns /\ t # "none"
  BY ParametersAssumption DEF RelayInv
<1>2. CASE C!CreateEnrollment(t) \/ C!EnrollmentExpires(t)
  <2>1. /\ tickets[t] # "used" /\ \E s \in {"new", "expired"} : tickets' = [tickets EXCEPT ![t] = s]
        /\ UNCHANGED <<hosts, nodes, nextslot, hub, runtime, placed, asks, ready, saving, removing, calls>>
    BY <1>2 DEF C!CreateEnrollment, C!EnrollmentExpires, C!pending
  <2>3. RelayTyped'
    BY <1>1, <2>1 DEF RelayTyped
  <2>4. RelayAdmits'
    BY <1>1, <2>1 DEF RelayTyped, RelayAdmits
  <2>2. RelayPlaced' /\ RelayRuns'
    BY <1>1, <2>1 DEF RelayPlaced, RelayRuns
  <2> QED
    BY <2>2, <2>3, <2>4 DEF RelayInv
<1>3. ASSUME NEW h \in Host, C!Enroll(h, t) PROVE RelayInv'
  <2>1. PICK n : n = [state |-> "joined", ticket |-> t]
    OBVIOUS
  <2>2. /\ hosts' = [hosts EXCEPT ![h] = n] /\ n.state = "joined" /\ n.ticket = t
        /\ n \in [state : {"none", "joined", "gone"}, ticket : OneTicket \cup {C!NoTicket}]
        /\ tickets' = [tickets EXCEPT ![t] = "used"] /\ tickets[t] = "new" /\ hosts[h].state = "none"
    BY <1>3, <2>1 DEF C!Enroll, C!Valid
  <2>3. RelayTyped'
    BY <1>1, <1>3, <2>2 DEF RelayTyped, C!Enroll, C!pending
  <2>4. RelayAdmits'
    BY <1>1, <2>2 DEF RelayTyped, RelayAdmits, C!NoTicket
  <2>5. RelayPlaced' /\ RelayRuns'
    BY <1>1, <1>3, <2>2 DEF RelayTyped, RelayPlaced, RelayRuns, C!Enroll, C!pending
  <2> QED
    BY <2>3, <2>4, <2>5 DEF RelayInv
<1> QED
  BY <1>2, <1>3

LEMMA RelayConnects ==
  ASSUME RelayInv, NEW h \in Host, C!AskConfig(h) \/ C!JoinNetwork(h)
  PROVE  RelayInv'
<1>1. RelayTyped /\ RelayAdmits /\ RelayPlaced /\ RelayRuns
  BY DEF RelayInv
<1>2. CASE C!AskConfig(h)
  BY <1>1, <1>2 DEF RelayInv, RelayTyped, RelayAdmits, RelayPlaced, RelayRuns, C!AskConfig, C!rows
<1>3. CASE C!JoinNetwork(h)
  <2>4. /\ UNCHANGED <<tickets, hosts, runtime, placed, ready, saving, removing, calls>>
        /\ asks' = [asks EXCEPT ![h] = "none"] /\ nextslot' \in {nextslot, nextslot + 1}
        /\ \/ UNCHANGED <<nodes, hub>>
           \/ /\ nodes[h] = 0 /\ hosts[h].state = "joined" /\ nextslot' = nextslot + 1
              /\ nodes' = [nodes EXCEPT ![h] = nextslot]
              /\ hub' = hub \/ (hub = {} /\ hub' = {h})
    BY <1>3 DEF C!JoinNetwork, C!First, C!Joined, C!NeedsSlot
  <2>1. RelayTyped'
    <3>1. nodes' \in [Host -> Nat] /\ hub' \subseteq Host /\ nextslot' \in Nat \ {0}
      <4>1. CASE UNCHANGED <<nodes, hub>>
        BY <1>1, <2>4, <4>1 DEF RelayTyped
      <4>2. CASE nodes' = [nodes EXCEPT ![h] = nextslot] /\ (hub' = hub \/ hub' = {h})
        BY <1>1, <2>4, <4>2 DEF RelayTyped
      <4> QED
        BY <2>4, <4>1, <4>2
    <3>2. asks' \in [Host -> {"none", "peer", "first"}]
      BY <1>1, <2>4 DEF RelayTyped
    <3> QED
      BY <1>1, <2>4, <3>1, <3>2 DEF RelayTyped
  <2>2. RelayPlaced'
    <3>1. CASE UNCHANGED <<nodes, hub>>
      BY <1>1, <2>4, <3>1 DEF RelayTyped, RelayPlaced
    <3>2. CASE nodes' = [nodes EXCEPT ![h] = nextslot] /\ ~UNCHANGED <<nodes, hub>>
      BY <1>1, <2>4, <3>2 DEF RelayTyped, RelayPlaced
    <3> QED
      BY <2>4, <3>1, <3>2
  <2>3. RelayAdmits' /\ RelayRuns'
    BY <1>1, <1>3 DEF RelayAdmits, RelayRuns, C!JoinNetwork
  <2> QED
    BY <2>1, <2>2, <2>3 DEF RelayInv
<1> QED
  BY <1>2, <1>3

LEMMA RelayServes ==
  ASSUME RelayInv, NEW h \in Host,
         \/ C!CheckReady(h) \/ C!RuntimeReady(h) \/ C!CheckRuntime(h) \/ C!SaveRuntime(h)
         \/ C!Place(h) \/ C!CheckRemoval(h)
  PROVE  RelayInv'
<1>1. RelayTyped /\ RelayAdmits /\ RelayPlaced /\ RelayRuns
  BY DEF RelayInv
<1>2. CASE \/ C!CheckReady(h) \/ C!RuntimeReady(h) \/ C!CheckRuntime(h) \/ C!SaveRuntime(h)
           \/ C!CheckRemoval(h)
  <2>1. /\ UNCHANGED <<tickets, hosts, nodes, nextslot, hub, placed, asks, calls>>
        /\ runtime' \in {runtime, h}
    BY <1>2 DEF C!CheckReady, C!RuntimeReady, C!CheckRuntime, C!SaveRuntime, C!CheckRemoval, C!rows
  <2>2. ready' \subseteq Host /\ saving' \subseteq Host /\ removing' \subseteq Host
    <3>1. CASE C!CheckReady(h) \/ C!RuntimeReady(h)
      BY <1>1, <3>1 DEF RelayTyped, C!CheckReady, C!RuntimeReady
    <3>2. CASE C!CheckRuntime(h) \/ C!SaveRuntime(h)
      BY <1>1, <3>2 DEF RelayTyped, C!CheckRuntime, C!SaveRuntime
    <3>3. CASE C!CheckRemoval(h)
      BY <1>1, <3>3 DEF RelayTyped, C!CheckRemoval
    <3> QED
      BY <1>2, <3>1, <3>2, <3>3
  <2> QED
    BY <1>1, <2>1, <2>2 DEF RelayInv, RelayTyped, RelayAdmits, RelayPlaced, RelayRuns
<1>3. CASE C!Place(h)
  BY <1>1, <1>3 DEF RelayInv, RelayTyped, RelayAdmits, RelayPlaced, RelayRuns, C!Place, C!Joined, C!pending
<1> QED
  BY <1>2, <1>3

\* What a step of the relay does to one command.
LEMMA RelayOneCall ==
  ASSUME RelayInv, RelayTyped', RelayRuns',
         UNCHANGED <<tickets, hosts, nodes, nextslot, hub, configured, runtime, placed>>
  PROVE  RelayInv'
BY DEF RelayInv, RelayAdmits, RelayPlaced

LEMMA RelayRemoves ==
  ASSUME RelayInv, NEW h \in Host, C!DeleteMachine(h)
  PROVE  RelayInv'
<1>1. RelayTyped /\ RelayAdmits /\ RelayPlaced /\ RelayRuns
  BY DEF RelayInv
<1>2. CASE C!Restricted(h)
  BY <1>1, <1>2 DEF RelayInv, RelayTyped, RelayAdmits, RelayPlaced, RelayRuns, C!DeleteMachine
<1>3. CASE ~C!Restricted(h)
  <2>1. PICK n : n = [hosts[h] EXCEPT !.state = "gone"]
    OBVIOUS
  <2>2. /\ hosts' = [hosts EXCEPT ![h] = n] /\ n.state = "gone" /\ n.ticket = hosts[h].ticket
        /\ n \in [state : {"none", "joined", "gone"}, ticket : OneTicket \cup {C!NoTicket}]
    <3>1. hosts[h] \in [state : {"none", "joined", "gone"}, ticket : OneTicket \cup {C!NoTicket}]
      BY <1>1 DEF RelayTyped
    <3>2. /\ n \in [state : {"none", "joined", "gone"}, ticket : OneTicket \cup {C!NoTicket}]
          /\ n.state = "gone" /\ n.ticket = hosts[h].ticket
      BY <2>1, <3>1
    <3>3. hosts' = [hosts EXCEPT ![h] = n]
      BY <1>3, <2>1 DEF C!DeleteMachine
    <3> QED
      BY <3>2, <3>3
  <2>3. /\ nodes' = [nodes EXCEPT ![h] = 0] /\ hub' = hub \ {h} /\ h \notin placed
        /\ UNCHANGED <<tickets, nextslot, runtime, placed>>
    BY <1>3 DEF C!DeleteMachine, C!Restricted
  <2>4. ASSUME NEW c \in Command PROVE calls'[c] \in RelayRow /\ RelayOneRun(calls'[c])
    <3>1. PICK d : d = [calls[c] EXCEPT !.row = "deleted"]
      OBVIOUS
    <3>2. calls[c] \in RelayRow /\ RelayOneRun(calls[c])
      BY <1>1 DEF RelayTyped, RelayRuns
    <3>3. d \in RelayRow /\ d.row = "deleted" /\ d.runs = calls[c].runs /\ d.held = calls[c].held
          /\ d.host = calls[c].host /\ d.caller = calls[c].caller
      BY <3>1, <3>2 DEF RelayRow
    <3>4. calls'[c] \in {d, calls[c]}
      BY <1>3, <3>1 DEF C!DeleteMachine
    <3> QED
      BY <3>2, <3>3, <3>4 DEF RelayOneRun
  <2>5. /\ calls' \in [Command -> RelayRow]
        /\ RelayRuns'
    <3>1. \E f : calls' = [c \in Command |-> f[c]]
      BY <1>3 DEF C!DeleteMachine
    <3> QED
      BY <2>4, <3>1 DEF RelayRuns
  <2>6. RelayTyped'
    BY <1>1, <1>3, <2>2, <2>3, <2>5 DEF RelayTyped, C!DeleteMachine
  <2>7. RelayAdmits'
    BY <1>1, <2>2, <2>3 DEF RelayTyped, RelayAdmits
  <2>8. RelayPlaced'
    BY <1>1, <2>2, <2>3 DEF RelayTyped, RelayPlaced
  <2> QED
    BY <2>5, <2>6, <2>7, <2>8 DEF RelayInv
<1> QED
  BY <1>2, <1>3

LEMMA RelayOneMoves ==
  ASSUME RelayInv, NEW c \in Command, NEW n \in RelayRow, RelayOneRun(n), calls' = [calls EXCEPT ![c] = n],
         UNCHANGED <<C!rows, C!pending>>
  PROVE  RelayInv'
<1>1. RelayTyped'
  BY DEF RelayInv, RelayTyped, C!rows, C!pending
<1>2. RelayRuns'
  BY DEF RelayInv, RelayTyped, RelayRuns
<1> QED
  BY <1>1, <1>2, RelayOneCall DEF C!rows

LEMMA RelaySomeMove ==
  ASSUME RelayInv, NEW f, calls' = [c \in Command |-> f[c]], \A c \in Command : f[c] \in RelayRow /\ RelayOneRun(f[c]),
         UNCHANGED <<C!rows, C!pending>>
  PROVE  RelayInv'
<1>1. RelayTyped'
  BY DEF RelayInv, RelayTyped, C!rows, C!pending
<1>2. RelayRuns'
  BY DEF RelayRuns
<1> QED
  BY <1>1, <1>2, RelayOneCall DEF C!rows

LEMMA RelayRelays ==
  ASSUME RelayInv, NEW c \in Command,
         \/ C!NomadRequest(c) \/ C!MinuteEnds(c) \/ C!Poll(c) \/ C!CallerDropped(c) \/ C!Sweep(c)
  PROVE  RelayInv'
<1>1. RelayTyped /\ calls[c] \in RelayRow /\ RelayOneRun(calls[c])
  BY DEF RelayInv, RelayTyped, RelayRuns
<1>2. CASE C!NomadRequest(c)
  <2>1. PICK n : n = [calls[c] EXCEPT !.host = runtime, !.row = "stored", !.caller = "waiting"]
    OBVIOUS
  <2>2. n \in RelayRow /\ RelayOneRun(n)
    BY <1>1, <1>2, <2>1 DEF RelayTyped, RelayRow, RelayOneRun, C!NomadRequest
  <2>3. calls' = [calls EXCEPT ![c] = n] /\ UNCHANGED <<C!rows, C!pending>>
    BY <1>1, <1>2, <2>1 DEF RelayTyped, C!NomadRequest
  <2> QED
    BY <2>2, <2>3, RelayOneMoves
<1>3. CASE C!MinuteEnds(c)
  <2>1. PICK n : n = [calls[c] EXCEPT !.row = "late"]
    OBVIOUS
  <2>2. n \in RelayRow /\ RelayOneRun(n)
    BY <1>1, <1>3, <2>1 DEF RelayRow, RelayOneRun, C!MinuteEnds
  <2>3. calls' = [calls EXCEPT ![c] = n] /\ UNCHANGED <<C!rows, C!pending>>
    BY <1>1, <1>3, <2>1 DEF RelayTyped, C!MinuteEnds, C!Wait
  <2> QED
    BY <2>2, <2>3, RelayOneMoves
<1>4. CASE C!Poll(c)
  <2>1. PICK n : n = [calls[c] EXCEPT !.caller = IF calls[c].row = "answered" THEN "answered" ELSE "failed",
                                      !.row = "deleted"]
    OBVIOUS
  <2>2. n \in RelayRow /\ RelayOneRun(n)
    BY <1>1, <1>4, <2>1 DEF RelayRow, RelayOneRun, C!Poll
  <2>3. calls' = [calls EXCEPT ![c] = n] /\ UNCHANGED <<C!rows, C!pending>>
    BY <1>1, <1>4, <2>1 DEF RelayTyped, C!Poll
  <2> QED
    BY <2>2, <2>3, RelayOneMoves
<1>5. CASE C!CallerDropped(c)
  <2>1. PICK n : n = [calls[c] EXCEPT !.caller = "dropped"]
    OBVIOUS
  <2>2. n \in RelayRow /\ RelayOneRun(n)
    BY <1>1, <1>5, <2>1 DEF RelayRow, RelayOneRun, C!CallerDropped
  <2>3. calls' = [calls EXCEPT ![c] = n] /\ UNCHANGED <<C!rows, C!pending>>
    BY <1>1, <1>5, <2>1 DEF RelayTyped, C!CallerDropped, C!Wait
  <2> QED
    BY <2>2, <2>3, RelayOneMoves
<1>6. CASE C!Sweep(c)
  <2>1. PICK n : n = [calls[c] EXCEPT !.row = "deleted"]
    OBVIOUS
  <2>2. n \in RelayRow /\ RelayOneRun(n)
    BY <1>1, <1>6, <2>1 DEF RelayRow, RelayOneRun, C!Sweep
  <2>3. calls' = [calls EXCEPT ![c] = n] /\ UNCHANGED <<C!rows, C!pending>>
    BY <1>1, <1>6, <2>1 DEF RelayTyped, C!Sweep, C!Wait
  <2> QED
    BY <2>2, <2>3, RelayOneMoves
<1> QED
  BY <1>2, <1>3, <1>4, <1>5, <1>6

LEMMA RelayAgents ==
  ASSUME RelayInv, NEW h \in Host,
         C!AgentStops(h) \/ \E lost \in BOOLEAN : C!Claim(h, lost)
  PROVE  RelayInv'
<1>1. RelayTyped /\ \A c \in Command : calls[c] \in RelayRow /\ RelayOneRun(calls[c])
  BY DEF RelayInv, RelayTyped, RelayRuns
<1>2. CASE C!AgentStops(h)
  <2>1. PICK f : f = [c \in Command |-> IF calls[c].host = h THEN [calls[c] EXCEPT !.held = FALSE] ELSE calls[c]]
    OBVIOUS
  <2>2. \A c \in Command : f[c] \in RelayRow /\ RelayOneRun(f[c])
    BY <1>1, <2>1 DEF RelayRow, RelayOneRun
  <2>3. calls' = [c \in Command |-> f[c]] /\ UNCHANGED <<C!rows, C!pending>>
    BY <1>2, <2>1 DEF C!AgentStops
  <2> QED
    BY <2>2, <2>3, RelaySomeMove
<1>3. ASSUME NEW lost \in BOOLEAN, C!Claim(h, lost) PROVE RelayInv'
  <2>1. PICK f : f = [c \in Command |-> IF calls[c].host = h /\ calls[c].row = "stored"
                                   THEN [calls[c] EXCEPT !.row = "claimed", !.held = ~lost] ELSE calls[c]]
    OBVIOUS
  <2>2. \A c \in Command : f[c] \in RelayRow /\ RelayOneRun(f[c])
    <3> SUFFICES ASSUME NEW c \in Command PROVE f[c] \in RelayRow /\ RelayOneRun(f[c])
      OBVIOUS
    <3>1. CASE calls[c].host = h /\ calls[c].row = "stored"
      <4>1. f[c] = [calls[c] EXCEPT !.row = "claimed", !.held = ~lost]
        BY <2>1, <3>1
      <4>2. calls[c] \in RelayRow /\ RelayOneRun(calls[c])
        BY <1>1
      <4>3. /\ f[c] \in RelayRow /\ f[c].row = "claimed" /\ f[c].host = h
            /\ f[c].runs = calls[c].runs /\ f[c].caller = calls[c].caller
        BY <4>1, <4>2, <3>1 DEF RelayRow
      <4> QED
        BY <4>2, <4>3, <3>1, ParametersAssumption DEF RelayOneRun, C!NoHost
    <3>2. CASE ~(calls[c].host = h /\ calls[c].row = "stored")
      <4>1. f[c] = calls[c]
        BY <2>1, <3>2
      <4> QED
        BY <4>1, <1>1
    <3> QED
      BY <3>1, <3>2
  <2>3. calls' = [c \in Command |-> f[c]] /\ UNCHANGED <<C!rows, C!pending>>
    BY <1>3, <2>1 DEF C!Claim, C!Claimable
  <2> QED
    BY <2>2, <2>3, RelaySomeMove
<1> QED
  BY <1>2, <1>3

LEMMA RelayAfterRun ==
  ASSUME NEW call \in RelayRow, NEW e \in {call.row, "answered"},
         NEW n, n = [call EXCEPT !.held = FALSE, !.runs = @ + 1, !.row = e]
  PROVE  n \in RelayRow /\ n.runs = call.runs + 1 /\ ~n.held /\ n.row \in {call.row, "answered"}
<1>1. n.runs = call.runs + 1 /\ ~n.held /\ n.row = e
  BY DEF RelayRow
<1>2. e \in {"none", "stored", "late", "claimed", "answered", "deleted"} /\ call.runs + 1 \in Nat
  BY DEF RelayRow
<1>3. n \in RelayRow
  BY <1>2 DEF RelayRow
<1> QED
  BY <1>1, <1>3

LEMMA RelayExecutes ==
  ASSUME RelayInv, NEW c \in Command, NEW lost \in BOOLEAN, C!Execute(c, lost)
  PROVE  RelayInv'
<1>1. RelayTyped /\ \A d \in Command : calls[d] \in RelayRow /\ RelayOneRun(calls[d])
  BY DEF RelayInv, RelayTyped, RelayRuns
<1> DEFINE refused == lost \/ calls[c].row # "claimed"
<1>2. PICK f : f = [d \in Command |->
       IF d = c THEN [calls[c] EXCEPT !.held = FALSE, !.runs = @ + 1,
                                      !.row = IF refused THEN @ ELSE "answered"]
       ELSE IF refused /\ calls[d].host = calls[c].host THEN [calls[d] EXCEPT !.held = FALSE] ELSE calls[d]]
  OBVIOUS
<1>3. ASSUME NEW d \in Command PROVE f[d] \in RelayRow /\ RelayOneRun(f[d])
  <2>1. CASE d = c
    <3>1. PICK n : n = [calls[c] EXCEPT !.held = FALSE, !.runs = @ + 1,
                                        !.row = IF refused THEN @ ELSE "answered"]
      OBVIOUS
    <3>2. f[d] = n /\ calls[c] \in RelayRow /\ RelayOneRun(calls[c]) /\ calls[c].held
      BY <1>1, <1>2, <2>1, <3>1 DEF C!Execute
    <3>3. n \in RelayRow /\ n.runs = 1 /\ ~n.held /\ n.row \notin {"none", "stored"}
      <4>1. calls[c].runs = 0 /\ calls[c].row \notin {"none", "stored"}
        BY <3>2 DEF RelayOneRun
      <4>2. n \in RelayRow /\ n.runs = calls[c].runs + 1 /\ ~n.held /\ n.row \in {calls[c].row, "answered"}
        <5>1. PICK e : e = IF refused THEN calls[c].row ELSE "answered"
          OBVIOUS
        <5>2. n = [calls[c] EXCEPT !.held = FALSE, !.runs = @ + 1, !.row = e]
          BY <3>1, <5>1
        <5>3. e \in {calls[c].row, "answered"} /\ calls[c] \in RelayRow
          BY <3>2, <5>1
        <5> QED
          BY <5>2, <5>3, RelayAfterRun
      <4> QED
        BY <4>1, <4>2
    <3> QED
      BY <3>2, <3>3 DEF RelayOneRun
  <2>2. CASE d # c
    BY <1>1, <1>2, <2>2 DEF RelayRow, RelayOneRun
  <2> QED
    BY <2>1, <2>2
<1>4. calls' = [d \in Command |-> f[d]] /\ UNCHANGED <<C!rows, C!pending>>
  BY <1>2 DEF C!Execute
<1> QED
  BY <1>3, <1>4, RelaySomeMove

LEMMA RelayKept ==
  ASSUME RelayInv, [C!Next]_C!shfvars
  PROVE  RelayInv'
<1>1. CASE UNCHANGED C!shfvars
  BY <1>1 DEF RelayInv, RelayTyped, RelayAdmits, RelayPlaced, RelayRuns, C!shfvars
<1>2. ASSUME NEW t \in OneTicket,
             C!CreateEnrollment(t) \/ C!EnrollmentExpires(t) \/ \E h \in Host : C!Enroll(h, t)
      PROVE  RelayInv'
  BY <1>2, RelayEnrolls
<1>3. CASE C!SetNetwork
  BY <1>3 DEF RelayInv, RelayTyped, RelayAdmits, RelayPlaced, RelayRuns, C!SetNetwork, C!pending
<1>4. ASSUME NEW h \in Host,
             \/ C!AskConfig(h) \/ C!JoinNetwork(h) \/ C!CheckReady(h) \/ C!RuntimeReady(h)
             \/ C!CheckRuntime(h) \/ C!SaveRuntime(h) \/ C!Place(h) \/ C!CheckRemoval(h) \/ C!DeleteMachine(h)
             \/ C!AgentStops(h) \/ (\E lost \in BOOLEAN : C!Claim(h, lost))
      PROVE  RelayInv'
  BY <1>4, RelayConnects, RelayServes, RelayRemoves, RelayAgents
<1>5. ASSUME NEW c \in Command,
             \/ C!NomadRequest(c) \/ C!MinuteEnds(c) \/ C!Poll(c) \/ C!CallerDropped(c) \/ C!Sweep(c)
             \/ \E lost \in BOOLEAN : C!Execute(c, lost)
      PROVE  RelayInv'
  BY <1>5, RelayRelays, RelayExecutes
<1> QED
  BY <1>1, <1>2, <1>3, <1>4, <1>5 DEF C!Next

LEMMA RelayPromises ==
  ASSUME RelayInv
  PROVE  C!TypeOK /\ C!TicketOnce /\ C!RunsOnce /\ C!PlacedKeepsMachine
<1>1. RelayTyped /\ RelayAdmits /\ RelayPlaced /\ RelayRuns
  BY DEF RelayInv
<1>2. C!Cardinality(hub) <= 1
  <2>1. \A S : C!Cardinality(S) = Cardinality(S)
    BY Zenon DEF C!Cardinality, Cardinality
  <2>2. CASE hub = {}
    BY <2>1, <2>2, FS_EmptySet
  <2>3. ASSUME NEW h \in hub PROVE C!Cardinality(hub) <= 1
    <3>1. hub = {h}
      BY <1>1 DEF RelayPlaced
    <3> QED
      BY <2>1, <3>1, FS_Singleton
  <2> QED
    BY <2>2, <2>3
<1> QED
  BY <1>1, <1>2 DEF RelayTyped, RelayAdmits, RelayPlaced, RelayRuns, RelayOneRun, RelayRow, C!TypeOK, C!TicketOnce,
       C!RunsOnce, C!PlacedKeepsMachine, C!Joined

LEMMA RelayAddressesKept ==
  ASSUME RelayInv, C!Next
  PROVE  \A h \in Host : nodes[h] # 0 /\ asks[h] # "none" /\ asks'[h] = "none"
           => nodes'[h] = nodes[h] /\ nextslot' = nextslot
<1>1. CASE \E h \in Host : C!JoinNetwork(h)
  BY <1>1 DEF RelayInv, RelayTyped, C!JoinNetwork, C!NeedsSlot
<1>2. CASE \E h \in Host : C!AskConfig(h)
  BY <1>2 DEF RelayInv, RelayTyped, C!AskConfig
<1>3. CASE UNCHANGED asks
  BY <1>3
<1> QED
  BY <1>1, <1>2, <1>3 DEF C!Next, C!CreateEnrollment, C!EnrollmentExpires, C!Enroll, C!SetNetwork,
       C!CheckReady, C!RuntimeReady, C!CheckRuntime, C!SaveRuntime, C!Place, C!CheckRemoval,
       C!DeleteMachine, C!AgentStops, C!Claim, C!NomadRequest, C!MinuteEnds, C!Poll, C!CallerDropped,
       C!Sweep, C!Execute, C!pending

-----------------------------------------------------------------------------
(***************************************************************************)
(* The GitHub App.  The lock of the identity covers what is read from the  *)
(* token to what is saved of it, and every number is issued once.          *)
(***************************************************************************)

GitToken == [person : Person \cup {H!Nobody}, n : 0..MaxTokens]
GitTry   == [pc : {"rest", "away", "exchange", "accept", "session"},
             person : Person \cup {H!Nobody}, n : 0..MaxTokens]
GitUse   == [pc : {"rest", "refresh", "save", "have", "list", "store"}, tok : GitToken,
             list : SUBSET Installation]
GitFlow  == [purpose : {"none", "link", "login"}, used : BOOLEAN]

GitTyped ==
  /\ registered \in 0..2 /\ linked \in Person \cup {H!Nobody} /\ token \in GitToken
  /\ grants \subseteq Installation /\ flow \in [Attempt -> GitFlow] /\ try \in [Attempt -> GitTry]
  /\ idlock \in H!Holder \cup {H!Free} /\ use \in [H!Holder -> GitUse]
  /\ installed \subseteq Installation /\ deleted \subseteq Installation
  /\ issued \in 0..MaxTokens /\ gaps \in Nat
  /\ \A a \in Attempt : try[a].pc \in {"accept", "session"} => try[a].person \in Person

\* Who works with the token under the lock has it, and nobody unlinks meanwhile.
GitLocked ==
  /\ linked = H!Nobody => token = H!NoToken /\ grants = {}
  /\ \A h \in H!Holder : use[h].pc \in {"refresh", "save", "list", "store"} => idlock = h
  /\ \A h \in H!Holder : use[h].pc \in {"refresh", "save"} => linked # H!Nobody
  /\ grants \subseteq installed \cup deleted
  /\ use[H!Sync].pc = "store" => use[H!Sync].list \subseteq installed \cup deleted

\* A token that is on its way was issued to one, and nobody has spent it.
GitFresh ==
  /\ spent \subseteq 0..issued
  /\ token # H!NoToken => token.n \in 1..issued
  /\ \A a \in Attempt : try[a].pc = "accept" =>
       /\ try[a].n \in 1..issued /\ try[a].n \notin spent /\ try[a].n # token.n
       /\ \A b \in Attempt : try[b].pc = "accept" /\ try[b].n = try[a].n => a = b
  /\ \A h \in H!Holder : use[h].pc = "refresh" => use[h].tok = token /\ token # H!NoToken
  /\ \A h \in H!Holder : use[h].pc = "save" =>
       /\ use[h].tok.n \in 1..issued /\ use[h].tok.n \notin spent
       /\ \A a \in Attempt : try[a].pc = "accept" => try[a].n # use[h].tok.n
  /\ gaps = 0 /\ token # H!NoToken /\ (\A h \in H!Holder : use[h].pc # "save") => token.n \notin spent

GitCore == GitTyped /\ GitLocked /\ GitFresh

\* What is constant of the records.
LEMMA GitConstants ==
  /\ MaxTokens \in Nat /\ H!Nobody \notin Person /\ H!Free \notin H!Holder
  /\ H!NoToken \in GitToken /\ H!NoToken.n = 0 /\ H!NoToken.person = H!Nobody
  /\ H!NoTry \in GitTry /\ H!NoTry.pc = "rest"
  /\ H!NoFlow \in GitFlow
  /\ H!NoUse \in GitUse /\ H!NoUse.pc = "rest"
  /\ H!Sync \in H!Holder /\ H!Work \in H!Holder
<1>1. /\ MaxTokens \in Nat /\ H!NoToken \in GitToken /\ H!NoToken.n = 0 /\ H!NoToken.person = H!Nobody
      /\ H!NoTry \in GitTry /\ H!NoTry.pc = "rest" /\ H!NoFlow \in GitFlow
  BY ParametersAssumption DEF GitToken, GitTry, GitFlow, H!NoToken, H!NoTry, H!NoFlow
<1>2. H!NoUse \in GitUse /\ H!NoUse.pc = "rest"
  BY <1>1 DEF GitUse, H!NoUse
<1> QED
  BY <1>1, <1>2, ParametersAssumption DEF H!Nobody, H!Free, H!Holder, H!Sync, H!Work

LEMMA GitCoreBegins ==
  ASSUME H!Init
  PROVE  GitCore
<1>1. GitTyped
  BY GitConstants DEF H!Init, GitTyped
<1>2. GitLocked
  BY GitConstants DEF H!Init, GitLocked
<1>3. GitFresh
  BY GitConstants DEF H!Init, GitFresh
<1> QED
  BY <1>1, <1>2, <1>3 DEF GitCore

\* A step of an attempt that touches nothing but its own records.
LEMMA GitTryMoves ==
  ASSUME GitCore, NEW a \in Attempt, NEW n \in GitTry, try' = [try EXCEPT ![a] = n],
         n.pc # "accept", n.pc = "session" => n.person \in Person,
         flow' \in [Attempt -> GitFlow],
         UNCHANGED <<registered, linked, token, grants, idlock, use, installed, deleted, spent, issued, gaps>>
  PROVE  GitCore'
<1>1. GitTyped'
  BY DEF GitCore, GitTyped
<1>2. GitLocked'
  BY DEF GitCore, GitLocked
<1>3. GitFresh'
  BY DEF GitCore, GitTyped, GitFresh
<1> QED
  BY <1>1, <1>2, <1>3 DEF GitCore

LEMMA GitRegisters ==
  ASSUME GitCore, NEW k \in 1..2, H!Register(k)
  PROVE  GitCore'
BY DEF GitCore, GitTyped, GitLocked, GitFresh, H!Register, H!github

LEMMA GitStarts ==
  ASSUME GitCore, NEW a \in Attempt, NEW purpose \in {"link", "login"}, H!Start(a, purpose)
  PROVE  GitCore'
<1>1. PICK n : n = [H!NoTry EXCEPT !.pc = "away"]
  OBVIOUS
<1>2. n \in GitTry /\ n.pc = "away"
  BY <1>1, GitConstants DEF GitTry
<1>3. flow' \in [Attempt -> GitFlow]
  BY DEF GitCore, GitTyped, GitFlow, H!Start
<1> QED
  BY <1>1, <1>2, <1>3, GitTryMoves DEF H!Start, H!local, H!github

LEMMA GitConsumes ==
  ASSUME GitCore, NEW a \in Attempt, H!Consume(a)
  PROVE  GitCore'
<1>1. CASE flow[a].purpose # "none" /\ ~flow[a].used
  <2>1. PICK n : n = [try[a] EXCEPT !.pc = "exchange"]
    OBVIOUS
  <2>2. n \in GitTry /\ n.pc = "exchange"
    <3>1. try[a] \in GitTry
      BY DEF GitCore, GitTyped
    <3> QED
      BY <2>1, <3>1 DEF GitTry
  <2>3. PICK f : f = [flow[a] EXCEPT !.used = TRUE]
    OBVIOUS
  <2>4. f \in GitFlow
    <3>1. flow[a] \in GitFlow
      BY DEF GitCore, GitTyped
    <3> QED
      BY <2>3, <3>1 DEF GitFlow
  <2>5. flow' = [flow EXCEPT ![a] = f] /\ try' = [try EXCEPT ![a] = n]
    BY <1>1, <2>1, <2>3 DEF H!Consume
  <2>6. flow' \in [Attempt -> GitFlow]
    BY <2>4, <2>5 DEF GitCore, GitTyped
  <2> QED
    BY <2>2, <2>5, <2>6, GitTryMoves DEF H!Consume, H!local, H!github
<1>2. CASE ~(flow[a].purpose # "none" /\ ~flow[a].used)
  <2>1. try' = [try EXCEPT ![a] = H!NoTry] /\ UNCHANGED flow
    BY <1>2 DEF H!Consume
  <2>2. flow' \in [Attempt -> GitFlow]
    BY <2>1 DEF GitCore, GitTyped
  <2> QED
    BY <2>1, <2>2, GitConstants, GitTryMoves DEF H!Consume, H!local, H!github
<1> QED
  BY <1>1, <1>2

LEMMA GitExchanges ==
  ASSUME GitCore, NEW a \in Attempt, NEW p \in Person, H!Exchange(a, p)
  PROVE  GitCore'
<1>1. PICK n : n = [pc |-> "accept", person |-> p, n |-> issued + 1]
  OBVIOUS
<1>2. /\ try' = [try EXCEPT ![a] = n] /\ issued' = issued + 1 /\ issued' \in 0..MaxTokens
      /\ issued \in 0..MaxTokens
      /\ n.pc = "accept" /\ n.person = p /\ n.n = issued + 1
      /\ UNCHANGED <<registered, linked, token, grants, sessions, flow, idlock, use, installed,
                     deleted, spent, gaps>>
  BY <1>1, GitConstants DEF GitCore, GitTyped, H!Exchange, H!local
<1>3. n \in GitTry
  BY <1>1, <1>2, GitConstants DEF GitTry
<1>4. GitTyped'
  BY <1>2, <1>3 DEF GitCore, GitTyped
<1>5. GitLocked'
  BY <1>2 DEF GitCore, GitLocked
<1>6. GitFresh'
  <2>1. issued + 1 \notin spent /\ token.n # issued + 1
    BY <1>2, GitConstants DEF GitCore, GitFresh
  <2>2. \A b \in Attempt : try[b].pc = "accept" => try[b].n # issued + 1
    BY <1>2 DEF GitCore, GitFresh
  <2>3. \A h \in H!Holder : use[h].pc = "save" => use[h].tok.n # issued + 1
    BY <1>2 DEF GitCore, GitFresh
  <2>4. \A b \in Attempt : try'[b] = IF b = a THEN n ELSE try[b]
    BY <1>2 DEF GitCore, GitTyped
  <2> QED
    BY <1>2, <2>1, <2>2, <2>3, <2>4 DEF GitCore, GitFresh
<1> QED
  BY <1>4, <1>5, <1>6 DEF GitCore

LEMMA GitAccepts ==
  ASSUME GitCore, NEW a \in Attempt, H!Accept(a)
  PROVE  GitCore'
<1>1. CASE ~(flow[a].used /\ H!Matches(a))
  <2>1. try' = [try EXCEPT ![a] = H!NoTry] /\ UNCHANGED <<linked, token, flow>>
    BY <1>1 DEF H!Accept
  <2>2. flow' \in [Attempt -> GitFlow]
    BY <2>1 DEF GitCore, GitTyped
  <2> QED
    BY <2>1, <2>2, GitConstants, GitTryMoves DEF H!Accept, H!github
<1>2. CASE flow[a].used /\ H!Matches(a)
  <2>1. PICK n : n = [try[a] EXCEPT !.pc = "session"]
    OBVIOUS
  <2>2. /\ try[a] \in GitTry /\ try[a].pc = "accept" /\ try[a].person \in Person
        /\ try[a].n \in 1..issued /\ try[a].n \notin spent
    BY DEF H!Accept, GitCore, GitTyped, GitFresh
  <2>3. n \in GitTry /\ n.pc = "session" /\ n.person \in Person
    BY <2>1, <2>2 DEF GitTry
  <2>4. PICK k : k = [person |-> try[a].person, n |-> try[a].n]
    OBVIOUS
  <2>5. k \in GitToken /\ k.n = try[a].n
    BY <2>2, <2>4 DEF GitToken, GitTry
  <2>6. /\ idlock = H!Free /\ token' = k /\ linked' = try[a].person /\ try' = [try EXCEPT ![a] = n]
        /\ UNCHANGED <<registered, grants, flow, idlock, use, installed, deleted, spent, issued, gaps>>
    BY <1>2, <2>1, <2>4 DEF H!Accept, H!github
  <2>7. GitTyped'
    BY <2>2, <2>3, <2>5, <2>6 DEF GitCore, GitTyped
  <2>8. \A h \in H!Holder : use[h].pc \notin {"refresh", "save", "list", "store"}
    BY <2>6, GitConstants DEF GitCore, GitLocked
  <2>9. GitLocked'
    BY <2>2, <2>6, <2>8, GitConstants DEF GitCore, GitLocked
  <2>10. \A b \in Attempt : try'[b] = IF b = a THEN n ELSE try[b]
    BY <2>6 DEF GitCore, GitTyped
  <2>11. GitFresh'
    BY <2>2, <2>3, <2>5, <2>6, <2>8, <2>10 DEF GitCore, GitFresh
  <2> QED
    BY <2>7, <2>9, <2>11 DEF GitCore
<1> QED
  BY <1>1, <1>2

LEMMA GitIssues ==
  ASSUME GitCore, NEW a \in Attempt, H!Issue(a)
  PROVE  GitCore'
<1>1. flow' \in [Attempt -> GitFlow]
  BY DEF GitCore, GitTyped, H!Issue
<1> QED
  BY <1>1, GitConstants, GitTryMoves DEF H!Issue, H!github

LEMMA GitLogsOut ==
  ASSUME GitCore, NEW s, H!Logout(s)
  PROVE  GitCore'
BY DEF GitCore, GitTyped, GitLocked, GitFresh, H!Logout, H!github

LEMMA GitUnlinks ==
  ASSUME GitCore, H!Unlink
  PROVE  GitCore'
<1>1. /\ idlock = H!Free /\ grants' = {} /\ linked' = H!Nobody /\ token' = H!NoToken
      /\ flow' = [a \in Attempt |-> H!NoFlow]
      /\ UNCHANGED <<registered, try, idlock, use, installed, deleted, spent, issued, gaps>>
  BY DEF H!Unlink, H!github
<1>2. \A h \in H!Holder : use[h].pc \notin {"refresh", "save", "list", "store"}
  BY <1>1, GitConstants DEF GitCore, GitLocked
<1>3. GitTyped'
  BY <1>1, GitConstants DEF GitCore, GitTyped
<1>4. GitLocked'
  BY <1>1, <1>2, GitConstants DEF GitCore, GitLocked
<1>5. GitFresh'
  BY <1>1, <1>2, GitConstants DEF GitCore, GitTyped, GitFresh
<1> QED
  BY <1>3, <1>4, <1>5 DEF GitCore

\* A step that ends with the lock where it was or free, and writes nothing else.
LEMMA GitUseMoves ==
  ASSUME GitCore, NEW h \in H!Holder, NEW n \in GitUse, use' = [use EXCEPT ![h] = n],
         NEW l \in {h, H!Free}, idlock' = l, idlock \in {h, H!Free},
         n.pc \in {"refresh", "save", "list", "store"} => l = h,
         n.pc = "refresh" => n.tok = token /\ token # H!NoToken,
         n.pc = "save" => use[h].pc = "save" /\ n.tok = use[h].tok,
         use[h].pc = "save" => n.pc = "save",
         n.pc = "store" => n.list \subseteq installed,
         UNCHANGED <<registered, linked, token, grants, flow, try, installed, deleted, spent, issued, gaps>>
  PROVE  GitCore'
<1>1. \A g \in H!Holder : use'[g] = IF g = h THEN n ELSE use[g]
  BY DEF GitCore, GitTyped
<1>2. GitTyped'
  BY DEF GitCore, GitTyped
<1>3. \A g \in H!Holder : g # h => use[g].pc \notin {"refresh", "save", "list", "store"}
  BY GitConstants DEF GitCore, GitLocked
<1>4. GitLocked'
  <2>1. linked' = H!Nobody => token' = H!NoToken /\ grants' = {}
    BY DEF GitCore, GitLocked
  <2>2. \A g \in H!Holder : use'[g].pc \in {"refresh", "save", "list", "store"} => idlock' = g
    BY <1>1, <1>3
  <2>3. \A g \in H!Holder : use'[g].pc \in {"refresh", "save"} => linked' # H!Nobody
    BY <1>1, <1>3 DEF GitCore, GitLocked
  <2>4. grants' \subseteq installed' \cup deleted'
    BY DEF GitCore, GitLocked
  <2>5. use'[H!Sync].pc = "store" => use'[H!Sync].list \subseteq installed' \cup deleted'
    BY <1>1, <1>3, GitConstants
  <2> QED
    BY <2>1, <2>2, <2>3, <2>4, <2>5 DEF GitLocked
<1>5. GitFresh'
  BY <1>1, <1>3 DEF GitCore, GitFresh
<1> QED
  BY <1>2, <1>4, <1>5 DEF GitCore

LEMMA GitReads ==
  ASSUME GitCore, NEW h \in H!Holder, NEW old \in BOOLEAN, H!Read(h, old)
  PROVE  GitCore'
<1>1. PICK n : n = [pc |-> IF old THEN "refresh" ELSE "have", tok |-> token, list |-> {}]
  OBVIOUS
<1>2. n \in GitUse /\ n.pc = (IF old THEN "refresh" ELSE "have") /\ n.tok = token
  BY <1>1 DEF GitUse, GitCore, GitTyped
<1>3. PICK l : l = IF old THEN h ELSE H!Free
  OBVIOUS
<1>4. /\ use' = [use EXCEPT ![h] = n] /\ idlock' = l /\ idlock = H!Free /\ token # H!NoToken
      /\ use[h].pc = "rest" /\ l \in {h, H!Free} /\ (n.pc = "refresh" => l = h)
      /\ UNCHANGED <<registered, linked, token, grants, flow, try, installed, deleted, spent, issued, gaps>>
  BY <1>1, <1>2, <1>3 DEF H!Read, H!local, H!github
<1> QED
  BY <1>2, <1>4, GitUseMoves

LEMMA GitRefreshes ==
  ASSUME GitCore, NEW h \in H!Holder, H!Refresh(h)
  PROVE  GitCore'
<1>1. /\ use[h].pc = "refresh" /\ idlock = h /\ use[h].tok = token /\ token # H!NoToken
      /\ linked # H!Nobody /\ use[h] \in GitUse /\ issued \in 0..MaxTokens /\ issued < MaxTokens
      /\ UNCHANGED <<registered, linked, token, grants, flow, try, installed, deleted>>
  BY DEF H!Refresh, H!local, GitCore, GitTyped, GitLocked, GitFresh
<1>2. CASE use[h].tok.n \in spent \cup revoked
  <2>1. /\ use' = [use EXCEPT ![h] = H!NoUse] /\ idlock' = H!Free
        /\ UNCHANGED <<spent, issued, gaps>>
    BY <1>2 DEF H!Refresh
  <2> QED
    BY <1>1, <2>1, GitConstants, GitUseMoves
<1>3. CASE use[h].tok.n \notin spent \cup revoked
  <2>1. PICK n : n = [use[h] EXCEPT !.pc = "save", !.tok.n = issued + 1]
    OBVIOUS
  <2>2. n \in GitUse /\ n.pc = "save" /\ n.tok.n = issued + 1
    <3>1. PICK k : k = [token EXCEPT !.n = issued + 1]
      OBVIOUS
    <3>2. k \in GitToken /\ k.n = issued + 1
      BY <1>1, <3>1, GitConstants DEF GitToken, GitCore, GitTyped
    <3>3. n = [use[h] EXCEPT !.pc = "save", !.tok = k]
      BY <1>1, <2>1, <3>1 DEF GitUse
    <3> QED
      BY <1>1, <3>2, <3>3 DEF GitUse
  <2>3. /\ spent' = spent \cup {token.n} /\ issued' = issued + 1
        /\ \/ use' = [use EXCEPT ![h] = n] /\ UNCHANGED <<idlock, gaps>>
           \/ gaps' = gaps + 1 /\ use' = [use EXCEPT ![h] = H!NoUse] /\ idlock' = H!Free
    BY <1>1, <1>3, <2>1 DEF H!Refresh, H!Fault
  <2>4. \A g \in H!Holder : g # h => use[g].pc \notin {"refresh", "save", "list", "store"}
    BY <1>1 DEF GitCore, GitLocked
  <2>5. PICK m \in {n, H!NoUse} : /\ use' = [use EXCEPT ![h] = m]
                                  /\ m = n => UNCHANGED <<idlock, gaps>>
                                  /\ m = H!NoUse => gaps' = gaps + 1 /\ idlock' = H!Free
    BY <2>2, <2>3, GitConstants
  <2>6. \A g \in H!Holder : use'[g] = IF g = h THEN m ELSE use[g]
    BY <2>5 DEF GitCore, GitTyped
  <2>7. m.pc \in {"save", "rest"} /\ m \in GitUse /\ (m.pc = "save" => m = n)
    BY <2>2, GitConstants
  <2>8. GitTyped'
    BY <1>1, <2>3, <2>5, <2>7, GitConstants DEF GitCore, GitTyped
  <2>9. GitLocked'
    BY <1>1, <2>4, <2>5, <2>6, <2>7, GitConstants DEF GitCore, GitLocked
  <2>10. GitFresh'
    <3>1. token.n \in 1..issued /\ spent \subseteq 0..issued /\ issued + 1 \notin spent'
      BY <1>1, <2>3 DEF GitCore, GitFresh
    <3>2. spent' \subseteq 0..issued' /\ (token' # H!NoToken => token'.n \in 1..issued')
      <4>1. PICK k : k = token.n
        OBVIOUS
      <4>2. spent' = spent \cup {k} /\ issued' = issued + 1 /\ k \in 1..issued /\ token' = token
        BY <1>1, <2>3, <3>1, <4>1
      <4>3. \A x \in spent' : x \in 0..issued'
        <5>1. issued \in Nat
          BY <1>1, GitConstants
        <5>2. \A x \in spent : x \in Nat /\ x <= issued
          BY <3>1
        <5>3. \A x \in spent' : x \in Nat /\ x <= issued + 1
          BY <4>2, <5>1, <5>2
        <5> QED
          BY <4>2, <5>1, <5>3
      <4>4. token'.n \in 1..issued'
        BY <1>1, <4>1, <4>2
      <4> QED
        BY <4>3, <4>4
    <3>3. \A a \in Attempt : try'[a].pc = "accept" =>
            /\ try'[a].n \in 1..issued' /\ try'[a].n \notin spent' /\ try'[a].n # token'.n
            /\ try'[a].n # issued + 1
            /\ \A b \in Attempt : try'[b].pc = "accept" /\ try'[b].n = try'[a].n => a = b
      BY <1>1, <2>3 DEF GitCore, GitFresh
    <3>4. \A g \in H!Holder : use'[g].pc # "refresh" /\ (use'[g].pc = "save" => g = h /\ m = n)
      BY <2>4, <2>6, <2>7
    <3>5. \A g \in H!Holder : use'[g].pc = "save" => use'[g].tok.n = issued + 1
      BY <2>2, <2>6, <3>4
    <3>6. ~(gaps' = 0 /\ (\A g \in H!Holder : use'[g].pc # "save"))
      BY <2>2, <2>5, <2>6, <2>7 DEF GitCore, GitTyped
    <3>7. issued + 1 \in 1..issued'
      BY <1>1, <2>3
    <3> QED
      BY <3>1, <3>2, <3>3, <3>4, <3>5, <3>6, <3>7 DEF GitFresh
  <2> QED
    BY <2>8, <2>9, <2>10 DEF GitCore
<1> QED
  BY <1>2, <1>3

LEMMA GitSaves ==
  ASSUME GitCore, NEW h \in H!Holder, H!Save(h)
  PROVE  GitCore'
<1>1. PICK n : n = [use[h] EXCEPT !.pc = "have"]
  OBVIOUS
<1>2. /\ use[h].pc = "save" /\ use[h] \in GitUse /\ idlock = h /\ linked # H!Nobody
      /\ use[h].tok.n \in 1..issued /\ use[h].tok.n \notin spent
      /\ \A a \in Attempt : try[a].pc = "accept" => try[a].n # use[h].tok.n
  BY DEF H!Save, GitCore, GitTyped, GitLocked, GitFresh
<1>3. n \in GitUse /\ n.pc = "have"
  BY <1>1, <1>2 DEF GitUse
<1>4. /\ use' = [use EXCEPT ![h] = n] /\ token' = use[h].tok /\ idlock' = H!Free
      /\ UNCHANGED <<registered, linked, grants, flow, try, installed, deleted, spent, issued, gaps>>
  BY <1>1 DEF H!Save, H!Step, H!github
<1>5. \A g \in H!Holder : use'[g] = IF g = h THEN n ELSE use[g]
  BY <1>4 DEF GitCore, GitTyped
<1>6. \A g \in H!Holder : use'[g].pc \notin {"refresh", "save", "list", "store"}
  BY <1>2, <1>3, <1>5 DEF GitCore, GitLocked
<1>7. use[h].tok \in GitToken
  BY <1>2 DEF GitUse
<1>8. GitTyped'
  BY <1>3, <1>4, <1>7 DEF GitCore, GitTyped
<1>9. GitLocked'
  BY <1>2, <1>4, <1>6, GitConstants DEF GitCore, GitLocked
<1>10. GitFresh'
  BY <1>2, <1>4, <1>6 DEF GitCore, GitFresh
<1> QED
  BY <1>8, <1>9, <1>10 DEF GitCore

LEMMA GitUses ==
  ASSUME GitCore, H!Used \/ H!Lock \/ H!List
  PROVE  GitCore'
<1>1. CASE H!Used
  <2>1. /\ use[H!Work].pc = "have" /\ use' = [use EXCEPT ![H!Work] = H!NoUse]
        /\ UNCHANGED <<registered, linked, token, grants, flow, try, idlock, installed, deleted, spent, issued, gaps>>
    BY <1>1 DEF H!Used, H!local, H!github
  <2>2. \A g \in H!Holder : use'[g] = IF g = H!Work THEN H!NoUse ELSE use[g]
    BY <2>1 DEF GitCore, GitTyped
  <2>3. H!Sync # H!Work
    BY DEF H!Sync, H!Work
  <2>4. GitTyped'
    BY <2>1, GitConstants DEF GitCore, GitTyped
  <2>5. GitLocked'
    BY <2>1, <2>2, <2>3, GitConstants DEF GitCore, GitLocked
  <2>6. GitFresh'
    BY <2>1, <2>2, GitConstants DEF GitCore, GitFresh
  <2> QED
    BY <2>4, <2>5, <2>6 DEF GitCore
<1>2. CASE H!Lock
  <2>1. PICK n : n = [use[H!Sync] EXCEPT !.pc = "list"]
    OBVIOUS
  <2>2. use[H!Sync] \in GitUse
    BY GitConstants DEF GitCore, GitTyped
  <2>3. n \in GitUse /\ n.pc = "list"
    BY <2>1, <2>2 DEF GitUse
  <2>4. /\ use[H!Sync].pc = "have" /\ idlock = H!Free /\ idlock' = H!Sync /\ use' = [use EXCEPT ![H!Sync] = n]
        /\ UNCHANGED <<registered, linked, token, grants, flow, try, installed, deleted, spent, issued, gaps>>
    BY <1>2, <2>1 DEF H!Lock, H!Step, H!local, H!github
  <2> QED
    BY <2>3, <2>4, GitConstants, GitUseMoves
<1>3. CASE H!List
  <2>1. PICK l : l = Sees[use[H!Sync].tok.person] \cap installed
    OBVIOUS
  <2>2. PICK n : n = [use[H!Sync] EXCEPT !.pc = "store", !.list = l]
    OBVIOUS
  <2>3. use[H!Sync] \in GitUse /\ l \subseteq installed /\ l \in SUBSET Installation
    BY <2>1, GitConstants DEF GitCore, GitTyped
  <2>4. n \in GitUse /\ n.pc = "store" /\ n.list = l
    BY <2>2, <2>3 DEF GitUse
  <2>5. /\ use[H!Sync].pc = "list" /\ use' = [use EXCEPT ![H!Sync] = n] /\ idlock = H!Sync /\ idlock' = H!Sync
        /\ UNCHANGED <<registered, linked, token, grants, flow, try, installed, deleted, spent, issued, gaps>>
    BY <1>3, <2>1, <2>2, GitConstants DEF H!List, H!local, H!github, GitCore, GitLocked
  <2> QED
    BY <2>3, <2>4, <2>5, GitConstants, GitUseMoves
<1> QED
  BY <1>1, <1>2, <1>3

LEMMA GitStores ==
  ASSUME GitCore, H!Store
  PROVE  GitCore'
<1>1. /\ use[H!Sync].pc = "store" /\ idlock = H!Sync /\ idlock' = H!Free
      /\ use' = [use EXCEPT ![H!Sync] = H!NoUse]
      /\ grants' = (IF token # H!NoToken THEN use[H!Sync].list ELSE grants)
      /\ UNCHANGED <<registered, linked, token, flow, try, installed, deleted, spent, issued, gaps>>
  BY GitConstants DEF H!Store, H!Connected, H!github, GitCore, GitLocked
<1>2. \A g \in H!Holder : use'[g] = IF g = H!Sync THEN H!NoUse ELSE use[g]
  BY <1>1 DEF GitCore, GitTyped
<1>3. \A g \in H!Holder : use'[g].pc \notin {"refresh", "save", "list", "store"}
  BY <1>1, <1>2, GitConstants DEF GitCore, GitLocked
<1>4. use[H!Sync].list \subseteq Installation
  BY GitConstants DEF GitCore, GitTyped, GitUse
<1>5. GitTyped'
  BY <1>1, <1>4, GitConstants DEF GitCore, GitTyped
<1>6. GitLocked'
  BY <1>1, <1>3, GitConstants DEF GitCore, GitLocked
<1>7. GitFresh'
  <2>1. \A g \in H!Holder : use[g].pc # "save"
    BY <1>1 DEF GitCore, GitLocked
  <2> QED
    BY <1>1, <1>3, <2>1 DEF GitCore, GitFresh
<1> QED
  BY <1>5, <1>6, <1>7 DEF GitCore

LEMMA GitHubMoves ==
  ASSUME GitCore, NEW i \in Installation, H!Uninstall(i) \/ H!Forget(i)
  PROVE  GitCore'
<1>1. CASE H!Uninstall(i)
  BY <1>1 DEF GitCore, GitTyped, GitLocked, GitFresh, H!Uninstall, H!local
<1>2. CASE H!Forget(i)
  <2>1. use[H!Sync].pc # "store"
    BY <1>2, GitConstants DEF GitCore, GitLocked, H!Forget, H!Settled
  <2> QED
    BY <1>2, <2>1 DEF GitCore, GitTyped, GitLocked, GitFresh, H!Forget
<1> QED
  BY <1>1, <1>2

LEMMA GitRevokes ==
  ASSUME GitCore, NEW p \in Person, H!Revoke(p)
  PROVE  GitCore'
BY DEF GitCore, GitTyped, GitLocked, GitFresh, H!Revoke, H!local

LEMMA GitDisowns ==
  ASSUME GitCore, NEW p \in Person, H!Disown(p)
  PROVE  GitCore'
<1>1. /\ idlock = H!Free /\ token' \in {token, H!NoToken}
      /\ UNCHANGED <<registered, linked, grants, flow, try, idlock, use, installed, deleted, spent, issued, gaps>>
  BY DEF H!Disown, H!Settled
<1>2. \A h \in H!Holder : use[h].pc \notin {"refresh", "save", "list", "store"}
  BY <1>1, GitConstants DEF GitCore, GitLocked
<1>3. GitTyped'
  BY <1>1, GitConstants DEF GitCore, GitTyped
<1>4. GitLocked'
  BY <1>1, <1>2, GitConstants DEF GitCore, GitLocked
<1>5. GitFresh'
  BY <1>1, <1>2, GitConstants DEF GitCore, GitFresh
<1> QED
  BY <1>3, <1>4, <1>5 DEF GitCore

LEMMA GitRestarts ==
  ASSUME GitCore, H!Restart
  PROVE  GitCore'
<1>1. /\ gaps' = gaps + 1 /\ idlock' = H!Free /\ use' = [h \in H!Holder |-> H!NoUse]
      /\ try' = [a \in Attempt |-> H!NoTry]
      /\ UNCHANGED <<registered, linked, token, grants, flow, installed, deleted, spent, issued>>
  BY DEF H!Restart, H!Fault, H!local, H!github
<1>2. GitTyped'
  BY <1>1, GitConstants DEF GitCore, GitTyped
<1>3. GitLocked'
  BY <1>1, GitConstants DEF GitCore, GitLocked
<1>4. GitFresh'
  BY <1>1, GitConstants DEF GitCore, GitTyped, GitFresh
<1> QED
  BY <1>2, <1>3, <1>4 DEF GitCore

LEMMA GitCoreKept ==
  ASSUME GitCore, [H!Next]_H!ghvars
  PROVE  GitCore'
<1>1. CASE UNCHANGED H!ghvars
  BY <1>1 DEF GitCore, GitTyped, GitLocked, GitFresh, H!ghvars
<1>2. CASE \E k \in 1..2 : H!Register(k)
  BY <1>2, GitRegisters
<1>3. CASE H!SignIn
  BY <1>3, GitStarts, GitConsumes, GitAccepts, GitIssues, GitExchanges, GitLogsOut DEF H!SignIn
<1>4. CASE H!TokenStep
  BY <1>4, GitReads, GitRefreshes, GitSaves, GitUses, GitStores DEF H!TokenStep
<1>5. CASE H!Unlink \/ H!Restart
  BY <1>5, GitUnlinks, GitRestarts
<1>6. CASE \/ \E i \in Installation : H!Uninstall(i) \/ H!Forget(i)
           \/ \E p \in Person : H!Revoke(p) \/ H!Disown(p)
  BY <1>6, GitHubMoves, GitRevokes, GitDisowns
<1> QED
  BY <1>1, <1>2, <1>3, <1>4, <1>5, <1>6 DEF H!Next

\* What is known of a revoked token: its person's webhook is to come, or came too early.
GitTold ==
  /\ revoked \subseteq 1..issued
  /\ token # H!NoToken => token.person = linked
  /\ \A h \in H!Holder : use[h].pc \in {"refresh", "save"} => use[h].tok.person = linked
  /\ \A a \in Attempt : try[a].pc = "accept" /\ try[a].n \in revoked =>
       try[a].person \in untold \/ try[a].n \in outrun
  /\ \A h \in H!Holder : use[h].pc = "save" /\ use[h].tok.n \in revoked => linked \in untold
  /\ token # H!NoToken /\ token.n \in revoked => linked \in untold \/ token.n \in outrun

GitInv == GitCore /\ GitTold

LEMMA GitBegins ==
  ASSUME H!Init
  PROVE  GitInv
<1>1. GitTold
  BY GitConstants DEF H!Init, GitTold
<1> QED
  BY <1>1, GitCoreBegins DEF GitInv

\* Who signs in: a token is new when it is exchanged, and accepted with its person.
LEMMA GitSignsInTold ==
  ASSUME GitInv, H!SignIn
  PROVE  GitTold'
<1>1. UNCHANGED <<use, revoked, untold, outrun>>
  BY DEF H!SignIn, H!Start, H!Consume, H!Issue, H!Exchange, H!Accept, H!Logout, H!local, H!github,
         H!revocations
<1>2. CASE \E a \in Attempt, p \in Person : H!Exchange(a, p)
  <2>1. PICK a \in Attempt, p \in Person : H!Exchange(a, p)
    BY <1>2
  <2>2. PICK n : n = [pc |-> "accept", person |-> p, n |-> issued + 1]
    OBVIOUS
  <2>3. /\ try' = [try EXCEPT ![a] = n] /\ issued' = issued + 1 /\ n.n = issued + 1
        /\ UNCHANGED <<linked, token>> /\ issued \in Nat
    BY <2>1, <2>2, GitConstants DEF H!Exchange, H!local, GitInv, GitCore, GitTyped
  <2>4. \A b \in Attempt : try'[b] = IF b = a THEN n ELSE try[b]
    BY <2>3 DEF GitInv, GitCore, GitTyped
  <2>5. n.n \notin revoked' /\ revoked' \subseteq 1..issued'
    BY <1>1, <2>3 DEF GitInv, GitTold
  <2> QED
    BY <1>1, <2>3, <2>4, <2>5 DEF GitInv, GitTold
<1>3. CASE \E a \in Attempt : H!Accept(a)
  <2>1. PICK a \in Attempt : H!Accept(a)
    BY <1>3
  <2>2. idlock = H!Free /\ issued' = issued /\ try[a].pc = "accept" /\ try[a].person \in Person
    BY <2>1 DEF H!Accept, H!github, GitInv, GitCore, GitTyped
  <2>3. \A h \in H!Holder : use[h].pc \notin {"refresh", "save"}
    BY <2>2, GitConstants DEF GitInv, GitCore, GitLocked
  <2>4. PICK n : n = IF flow[a].used /\ H!Matches(a) THEN [try[a] EXCEPT !.pc = "session"] ELSE H!NoTry
    OBVIOUS
  <2>5. n.pc # "accept"
    <3>1. try[a] \in GitTry
      BY DEF GitInv, GitCore, GitTyped
    <3> QED
      BY <2>4, <3>1, GitConstants DEF GitTry
  <2>6. try' = [try EXCEPT ![a] = n]
    BY <2>1, <2>4 DEF H!Accept
  <2>7. \A b \in Attempt : try'[b] = IF b = a THEN n ELSE try[b]
    BY <2>6 DEF GitInv, GitCore, GitTyped
  <2>8. \/ UNCHANGED <<linked, token>>
        \/ linked' = try[a].person /\ token' = [person |-> try[a].person, n |-> try[a].n]
    BY <2>1 DEF H!Accept
  <2>9. /\ token' # H!NoToken => token'.person = linked'
        /\ token' # H!NoToken /\ token'.n \in revoked => linked' \in untold \/ token'.n \in outrun
    BY <2>2, <2>8 DEF GitInv, GitTold
  <2> QED
    BY <1>1, <2>2, <2>3, <2>5, <2>7, <2>9 DEF GitInv, GitTold
<1>4. CASE ~ (\/ \E a \in Attempt, p \in Person : H!Exchange(a, p)
              \/ \E a \in Attempt : H!Accept(a))
  <2>1. UNCHANGED <<linked, token, issued>>
    BY <1>4 DEF H!SignIn, H!Start, H!Consume, H!Issue, H!Logout, H!local, H!github
  <2>2. \A a \in Attempt : try'[a].pc = "accept" => try'[a] = try[a]
    <3>1. CASE UNCHANGED try
      BY <3>1
    <3>2. CASE \E a \in Attempt, n \in GitTry : n.pc # "accept" /\ try' = [try EXCEPT ![a] = n]
      BY <3>2 DEF GitInv, GitCore, GitTyped
    <3>3. ASSUME NEW a \in Attempt, H!Consume(a), try' = [try EXCEPT ![a].pc = "exchange"]
          PROVE  \E n \in GitTry : n.pc # "accept" /\ try' = [try EXCEPT ![a] = n]
      <4>1. try[a] \in GitTry
        BY DEF GitInv, GitCore, GitTyped
      <4>2. PICK n : n = [try[a] EXCEPT !.pc = "exchange"]
        OBVIOUS
      <4> QED
        BY <3>3, <4>1, <4>2 DEF GitTry
    <3>4. ASSUME NEW a \in Attempt, NEW purpose \in {"link", "login"}, H!Start(a, purpose)
          PROVE  \E n \in GitTry : n.pc # "accept" /\ try' = [try EXCEPT ![a] = n]
      <4>1. PICK n : n = [H!NoTry EXCEPT !.pc = "away"]
        OBVIOUS
      <4>2. n \in GitTry /\ n.pc = "away"
        BY <4>1, GitConstants DEF GitTry
      <4> QED
        BY <3>4, <4>1, <4>2 DEF H!Start
    <3>5. ASSUME NEW a \in Attempt, H!Consume(a) \/ H!Issue(a)
          PROVE  \E n \in GitTry : n.pc # "accept" /\ try' = [try EXCEPT ![a] = n]
      <4>1. CASE H!Consume(a) /\ try' = [try EXCEPT ![a].pc = "exchange"]
        BY <3>3, <4>1
      <4>2. CASE try' = [try EXCEPT ![a] = H!NoTry]
        BY <4>2, GitConstants
      <4> QED
        BY <3>5, <4>1, <4>2 DEF H!Consume, H!Issue
    <3>6. CASE \E s \in sessions : H!Logout(s)
      BY <3>6 DEF H!Logout
    <3> QED
      BY <1>4, <3>1, <3>2, <3>4, <3>5, <3>6 DEF H!SignIn
  <2> QED
    BY <1>1, <2>1, <2>2 DEF GitInv, GitTold
<1> QED
  BY <1>2, <1>3, <1>4

\* Who works with the token under the lock: no webhook is handled meanwhile.
LEMMA GitTokensTold ==
  ASSUME GitInv, H!TokenStep
  PROVE  GitTold'
<1>1. UNCHANGED <<linked, try, revoked, untold, outrun>>
  BY DEF H!TokenStep, H!Read, H!Refresh, H!Save, H!Used, H!Lock, H!List, H!Store, H!local, H!github,
         H!revocations
<1>2. CASE \E h \in H!Holder, old \in BOOLEAN : H!Read(h, old)
  <2>1. PICK h \in H!Holder, old \in BOOLEAN : H!Read(h, old)
    BY <1>2
  <2>2. PICK n : n = [pc |-> IF old THEN "refresh" ELSE "have", tok |-> token, list |-> {}]
    OBVIOUS
  <2>3. /\ use' = [use EXCEPT ![h] = n] /\ UNCHANGED <<token, issued>> /\ token # H!NoToken
        /\ n.pc # "save" /\ n.tok = token
    BY <2>1, <2>2 DEF H!Read, H!local, H!github
  <2>4. \A g \in H!Holder : use'[g] = IF g = h THEN n ELSE use[g]
    BY <2>3 DEF GitInv, GitCore, GitTyped
  <2> QED
    BY <1>1, <2>3, <2>4 DEF GitInv, GitTold
<1>3. CASE \E h \in H!Holder : H!Refresh(h)
  <2>1. PICK h \in H!Holder : H!Refresh(h)
    BY <1>3
  <2>2. /\ use[h].pc = "refresh" /\ use[h] \in GitUse /\ issued \in Nat /\ UNCHANGED token
        /\ use[h].tok.person = linked
    BY <2>1, GitConstants DEF H!Refresh, H!local, GitInv, GitCore, GitTyped, GitTold
  <2>3. PICK n : n = [use[h] EXCEPT !.pc = "save", !.tok.n = issued + 1]
    OBVIOUS
  <2>4. n.pc = "save" /\ n.tok.n = issued + 1 /\ n.tok.person = linked
    BY <2>2, <2>3 DEF GitUse, GitToken
  <2>5. \/ use' = [use EXCEPT ![h] = H!NoUse] /\ issued' \in {issued, issued + 1}
        \/ use' = [use EXCEPT ![h] = n] /\ issued' = issued + 1
    BY <2>1, <2>3 DEF H!Refresh
  <2>6. PICK m \in {n, H!NoUse} : /\ use' = [use EXCEPT ![h] = m]
                                  /\ issued' \in {issued, issued + 1}
    BY <2>5
  <2>7. \A g \in H!Holder : use'[g] = IF g = h THEN m ELSE use[g]
    BY <2>6 DEF GitInv, GitCore, GitTyped
  <2>8. revoked \subseteq 1..issued /\ issued + 1 \notin revoked /\ revoked' \subseteq 1..issued'
    BY <1>1, <2>2, <2>6 DEF GitInv, GitTold
  <2>9. /\ m.pc \in {"refresh", "save"} => m.tok.person = linked
        /\ m.pc = "save" => m.tok.n \notin revoked
    BY <2>4, <2>8, GitConstants
  <2> QED
    BY <1>1, <2>2, <2>7, <2>8, <2>9 DEF GitInv, GitTold
<1>4. CASE \E h \in H!Holder : H!Save(h)
  <2>1. PICK h \in H!Holder : H!Save(h)
    BY <1>4
  <2>2. PICK n : n = [use[h] EXCEPT !.pc = "have"]
    OBVIOUS
  <2>3. /\ use[h].pc = "save" /\ use' = [use EXCEPT ![h] = n] /\ token' = use[h].tok
        /\ UNCHANGED issued /\ use[h] \in GitUse
    BY <2>1, <2>2 DEF H!Save, H!Step, H!github, GitInv, GitCore, GitTyped
  <2>4. n.pc = "have"
    BY <2>2, <2>3 DEF GitUse
  <2>5. \A g \in H!Holder : use'[g] = IF g = h THEN n ELSE use[g]
    BY <2>3 DEF GitInv, GitCore, GitTyped
  <2> QED
    BY <1>1, <2>3, <2>4, <2>5 DEF GitInv, GitTold
<1>5. CASE H!Used \/ H!Lock \/ H!List \/ H!Store
  <2>1. UNCHANGED <<token, issued>>
    BY <1>5 DEF H!Used, H!Lock, H!List, H!Store, H!local, H!github
  <2>2. PICK h \in {H!Sync, H!Work} : \E n : n.pc \notin {"refresh", "save"} /\ use' = [use EXCEPT ![h] = n]
    <3>1. CASE H!Used
      BY <3>1, GitConstants DEF H!Used
    <3>2. CASE H!Store
      BY <3>2, GitConstants DEF H!Store
    <3>3. use[H!Sync] \in GitUse
      BY GitConstants DEF GitInv, GitCore, GitTyped
    <3>4. CASE H!Lock
      <4>1. PICK n : n = [use[H!Sync] EXCEPT !.pc = "list"]
        OBVIOUS
      <4>2. n.pc = "list"
        BY <3>3, <4>1 DEF GitUse
      <4> QED
        BY <3>4, <4>1, <4>2 DEF H!Lock, H!Step
    <3>5. CASE H!List
      <4>1. PICK n : n = [use[H!Sync] EXCEPT !.pc = "store", !.list = Sees[use[H!Sync].tok.person] \cap installed]
        OBVIOUS
      <4>2. n.pc = "store"
        BY <3>3, <4>1 DEF GitUse
      <4> QED
        BY <3>5, <4>1, <4>2 DEF H!List
    <3> QED
      BY <1>5, <3>1, <3>2, <3>4, <3>5
  <2>3. PICK n : n.pc \notin {"refresh", "save"} /\ use' = [use EXCEPT ![h] = n]
    BY <2>2
  <2>4. \A g \in H!Holder : use'[g] = IF g = h THEN n ELSE use[g]
    BY <2>3 DEF GitInv, GitCore, GitTyped
  <2> QED
    BY <1>1, <2>1, <2>3, <2>4 DEF GitInv, GitTold
<1> QED
  BY <1>2, <1>3, <1>4, <1>5 DEF H!TokenStep

\* A revocation reaches every token of its person that may still be kept, and only those.
LEMMA GitRevokesTold ==
  ASSUME GitInv, NEW p \in Person, H!Revoke(p)
  PROVE  GitTold'
<1>1. /\ revoked' = revoked \cup H!Holds(p) /\ untold' = untold \cup {p}
      /\ UNCHANGED <<linked, token, try, use, outrun, issued>>
  BY DEF H!Revoke, H!local
<1>2. ASSUME NEW n \in H!Holds(p)
      PROVE  \/ \E a \in Attempt : try[a].pc = "accept" /\ try[a].person = p /\ try[a].n = n
             \/ token.person = p /\ token.n = n
             \/ \E h \in H!Holder : use[h].pc = "save" /\ use[h].tok.person = p /\ use[h].tok.n = n
  BY DEF H!Holds, H!InHand, H!Saving
<1>3. token.person = p => token # H!NoToken /\ linked = p
  BY GitConstants DEF GitInv, GitTold
<1>4. \A n \in H!Holds(p) : n \in 1..issued
  BY <1>2, <1>3 DEF GitInv, GitCore, GitFresh
<1>5. \A n \in H!Holds(p) : \A a \in Attempt :
        try[a].pc = "accept" /\ try[a].n = n => try[a].person = p
  <2> SUFFICES ASSUME NEW n \in H!Holds(p), NEW a \in Attempt, try[a].pc = "accept", try[a].n = n
               PROVE  try[a].person = p
    OBVIOUS
  <2>1. CASE \E b \in Attempt : try[b].pc = "accept" /\ try[b].person = p /\ try[b].n = n
    BY <2>1 DEF GitInv, GitCore, GitFresh
  <2>2. CASE token.person = p /\ token.n = n
    BY <2>2 DEF GitInv, GitCore, GitFresh
  <2>3. CASE \E h \in H!Holder : use[h].pc = "save" /\ use[h].tok.person = p /\ use[h].tok.n = n
    BY <2>3 DEF GitInv, GitCore, GitFresh
  <2> QED
    BY <1>2, <2>1, <2>2, <2>3
<1>6. \A n \in H!Holds(p) : (token # H!NoToken /\ token.n = n) => linked = p
  <2> SUFFICES ASSUME NEW n \in H!Holds(p), token # H!NoToken, token.n = n
               PROVE  linked = p
    OBVIOUS
  <2>1. CASE \E b \in Attempt : try[b].pc = "accept" /\ try[b].person = p /\ try[b].n = n
    BY <2>1 DEF GitInv, GitCore, GitFresh
  <2>2. CASE \E h \in H!Holder : use[h].pc = "save" /\ use[h].tok.person = p /\ use[h].tok.n = n
    BY <2>2 DEF GitInv, GitTold
  <2> QED
    BY <1>2, <1>3, <2>1, <2>2
<1>7. \A n \in H!Holds(p) : \A h \in H!Holder : use[h].pc = "save" /\ use[h].tok.n = n => linked = p
  <2> SUFFICES ASSUME NEW n \in H!Holds(p), NEW h \in H!Holder, use[h].pc = "save", use[h].tok.n = n
               PROVE  linked = p
    OBVIOUS
  <2>1. CASE \E b \in Attempt : try[b].pc = "accept" /\ try[b].person = p /\ try[b].n = n
    BY <2>1 DEF GitInv, GitCore, GitFresh
  <2>2. CASE \E g \in H!Holder : use[g].pc = "save" /\ use[g].tok.person = p /\ use[g].tok.n = n
    BY <2>2 DEF GitInv, GitTold
  <2> QED
    BY <1>2, <1>3, <2>1, <2>2
<1>8. revoked' \subseteq 1..issued'
  BY <1>1, <1>4 DEF GitInv, GitTold
<1>9. \A a \in Attempt : try'[a].pc = "accept" /\ try'[a].n \in revoked' =>
        try'[a].person \in untold' \/ try'[a].n \in outrun'
  BY <1>1, <1>5 DEF GitInv, GitTold
<1>10. \A h \in H!Holder : use'[h].pc = "save" /\ use'[h].tok.n \in revoked' => linked' \in untold'
  BY <1>1, <1>7 DEF GitInv, GitTold
<1>11. token' # H!NoToken /\ token'.n \in revoked' => linked' \in untold' \/ token'.n \in outrun'
  BY <1>1, <1>6 DEF GitInv, GitTold
<1> QED
  BY <1>1, <1>8, <1>9, <1>10, <1>11 DEF GitInv, GitTold

LEMMA GitDisownsTold ==
  ASSUME GitInv, NEW p \in Person, H!Disown(p)
  PROVE  GitTold'
<1>1. /\ idlock = H!Free /\ untold' = untold \ {p} /\ outrun' = outrun \cup (H!InHand(p) \cap revoked)
      /\ token' = (IF linked = p THEN H!NoToken ELSE token)
      /\ UNCHANGED <<linked, try, use, revoked, issued>>
  BY DEF H!Disown, H!Settled, H!Dropped
<1>2. \A h \in H!Holder : use[h].pc \notin {"refresh", "save"}
  BY <1>1, GitConstants DEF GitInv, GitCore, GitLocked
<1>3. \A a \in Attempt : try[a].pc = "accept" /\ try[a].person = p => try[a].n \in H!InHand(p)
  BY DEF H!InHand
<1>4. \A a \in Attempt : try'[a].pc = "accept" /\ try'[a].n \in revoked' =>
        try'[a].person \in untold' \/ try'[a].n \in outrun'
  BY <1>1, <1>3 DEF GitInv, GitTold
<1>5. token' # H!NoToken => token' = token /\ linked # p
  BY <1>1
<1> QED
  BY <1>1, <1>2, <1>4, <1>5 DEF GitInv, GitTold

LEMMA GitKept ==
  ASSUME GitInv, [H!Next]_H!ghvars
  PROVE  GitInv'
<1>1. GitCore'
  BY GitCoreKept DEF GitInv
<1>2. GitTold'
  <2>1. CASE UNCHANGED H!ghvars
    BY <2>1 DEF GitInv, GitTold, H!ghvars
  <2>2. CASE \E k \in 1..2 : H!Register(k)
    BY <2>2 DEF GitInv, GitTold, H!Register, H!github
  <2>3. CASE H!Unlink
    <3>1. idlock = H!Free /\ token' = H!NoToken
          /\ UNCHANGED <<try, use, revoked, untold, outrun, issued>>
      BY <2>3 DEF H!Unlink, H!github
    <3>2. \A h \in H!Holder : use[h].pc \notin {"refresh", "save"}
      BY <3>1, GitConstants DEF GitInv, GitCore, GitLocked
    <3> QED
      BY <3>1, <3>2 DEF GitInv, GitTold
  <2>4. CASE H!Restart
    BY <2>4, GitConstants DEF GitInv, GitTold, H!Restart, H!local, H!github
  <2>5. ASSUME NEW i \in Installation, H!Uninstall(i) \/ H!Forget(i)
        PROVE  GitTold'
    BY <2>5 DEF GitInv, GitTold, H!Uninstall, H!Forget, H!local, H!revocations
  <2> QED
    BY <2>1, <2>2, <2>3, <2>4, <2>5, GitSignsInTold, GitTokensTold, GitRevokesTold, GitDisownsTold
       DEF H!Next
<1> QED
  BY <1>1, <1>2 DEF GitInv

LEMMA GitPromises ==
  ASSUME GitInv
  PROVE  H!TypeOK /\ H!UnlinkedIsClean /\ H!GrantsExist /\ H!TokenUsable
<1>1. token.n \in 0..MaxTokens
  BY DEF GitInv, GitCore, GitTyped, GitToken
<1>2. H!TypeOK
  BY <1>1 DEF GitInv, GitCore, GitTyped, H!TypeOK
<1>3. H!TokenUsable
  <2>1. gaps = 0 /\ idlock = H!Free /\ token # H!NoToken => token.n \notin spent
    BY GitConstants DEF GitInv, GitCore, GitLocked, GitFresh
  <2>2. token.n \in revoked => token.person \in untold \/ token.n \in outrun
    BY GitConstants DEF GitInv, GitTold
  <2> QED
    BY <2>1, <2>2 DEF H!TokenUsable
<1> QED
  BY <1>2, <1>3 DEF GitInv, GitCore, GitLocked, H!UnlinkedIsClean, H!GrantsExist

LEMMA GitSetsOnce ==
  ASSUME GitInv, H!Next
  PROVE  /\ registered # 0 => registered' = registered
         /\ linked # H!Nobody => linked' \in {linked, H!Nobody}
<1>1. CASE \E a \in Attempt : H!Accept(a)
  BY <1>1 DEF H!Accept, H!Matches
<1>2. CASE \E k \in 1..2 : H!Register(k)
  BY <1>2 DEF H!Register, H!Vacant
<1>3. CASE H!Unlink
  BY <1>3 DEF H!Unlink
<1>4. CASE UNCHANGED <<registered, linked>>
  BY <1>4
<1>5. ASSUME H!SignIn, ~\E a \in Attempt : H!Accept(a) PROVE UNCHANGED <<registered, linked>>
  BY <1>5 DEF H!SignIn, H!Start, H!Consume, H!Issue, H!Exchange, H!Logout, H!local
<1>6. ASSUME H!TokenStep PROVE UNCHANGED <<registered, linked>>
  BY <1>6 DEF H!TokenStep, H!Read, H!Refresh, H!Save, H!Used, H!Lock, H!List, H!Store, H!local
<1>7. ASSUME \/ H!Restart \/ (\E i \in Installation : H!Uninstall(i) \/ H!Forget(i))
             \/ \E p \in Person : H!Revoke(p) \/ H!Disown(p)
      PROVE  UNCHANGED <<registered, linked>>
  BY <1>7 DEF H!Restart, H!Uninstall, H!Forget, H!Revoke, H!Disown, H!local
<1> QED
  BY <1>1, <1>2, <1>3, <1>4, <1>5, <1>6, <1>7 DEF H!Next

-----------------------------------------------------------------------------
(***************************************************************************)
(* Databases.  Who works on a database holds its lock, its row exists, and *)
(* what is verified is the allocation on record.                           *)
(***************************************************************************)

BaseRow  == [status : {"none", "pending", "provisioning", "healthy", "degraded", "failed",
                       "deleting", "delete_failed"},
             alloc : 0..MaxStarts, lease : BOOLEAN]
BaseCrew == [pc : {"rest", "lock", "node", "job", "wait", "probe", "save", "failed",
                   "stop", "drain", "forget", "look", "note"},
             d : Base \cup {B!Nothing}, alloc : 0..MaxStarts, seen : 0..MaxStarts]
Provisions == {"node", "job", "wait", "probe", "save"}
Removes    == {"stop", "drain", "forget"}

BaseTyped ==
  /\ base \in [Base -> BaseRow] /\ retained \subseteq Base /\ attached \subseteq Base
  /\ baselock \in [Base -> B!Crew \cup {B!Unlocked}] /\ crew \in [B!Crew -> BaseCrew]
  /\ servers \subseteq Base /\ up \in [Base -> 0..MaxStarts] /\ starts \in 0..MaxStarts
  /\ late \subseteq Base /\ revived \subseteq Base
  /\ \A t \in B!Crew : crew[t].pc # "rest" => crew[t].d \in Base
  /\ crew[B!Provisioner].pc \in {"rest", "lock", "failed"} \cup Provisions
  /\ crew[B!Request].pc \in {"rest", "lock"} \cup Removes
  /\ crew[B!Watcher].pc \in {"rest", "lock", "look", "note"} \cup Removes

BaseLocked ==
  /\ \A d \in Base : baselock[d] # B!Unlocked =>
       crew[baselock[d]].d = d /\ crew[baselock[d]].pc \in Provisions \cup Removes
  /\ \A t \in B!Crew : crew[t].pc \in Provisions \cup Removes =>
       baselock[crew[t].d] = t /\ base[crew[t].d].status # "none"
  /\ crew[B!Provisioner].pc \in Provisions => base[crew[B!Provisioner].d].status \in B!Awaited

BaseGone ==
  /\ \A d \in Base : base[d].status = "none" => base[d] = B!NoBase
  /\ \A d \in attached : base[d].status # "none"
  /\ \A d \in retained : base[d].status = "none"
  /\ \A d \in retained \ revived : d \notin servers /\ up[d] = 0
  /\ \A t \in B!Crew : crew[t].pc \in {"drain", "forget"} /\ crew[t].d \notin revived =>
       crew[t].d \notin servers
  /\ \A t \in B!Crew : crew[t].pc = "forget" /\ crew[t].d \notin revived => up[crew[t].d] = 0

BaseSeen ==
  /\ \A d \in Base : base[d].status \in B!Known => base[d].alloc # 0
  /\ crew[B!Provisioner].pc \in {"probe", "save"} => crew[B!Provisioner].alloc # 0
  /\ crew[B!Provisioner].pc = "save" => crew[B!Provisioner].seen = crew[B!Provisioner].alloc
  /\ crew[B!Watcher].pc \in {"look", "note"} =>
       /\ crew[B!Watcher].alloc # 0
       /\ base[crew[B!Watcher].d].status = "degraded" => base[crew[B!Watcher].d].alloc = crew[B!Watcher].alloc

BaseInv == BaseTyped /\ BaseLocked /\ BaseGone /\ BaseSeen

LEMMA BaseConstants ==
  /\ MaxStarts \in Nat /\ B!NoBase \in BaseRow /\ B!NoBase.status = "none"
  /\ B!NoBase.alloc = 0 /\ B!NoBase.lease = FALSE
  /\ B!Off \in BaseCrew /\ B!Off.pc = "rest" /\ B!Off.alloc = 0 /\ B!Off.seen = 0
  /\ B!Crew = {B!Provisioner, B!Watcher, B!Request} /\ B!Unlocked \notin B!Crew
  /\ B!Provisioner # B!Watcher /\ B!Provisioner # B!Request /\ B!Watcher # B!Request
  /\ B!Awaited = {"pending", "provisioning"} /\ B!Known = {"healthy", "degraded"}
<1>1. MaxStarts \in Nat
  BY ParametersAssumption
<1>2. /\ B!NoBase \in BaseRow /\ B!NoBase.status = "none" /\ B!NoBase.alloc = 0 /\ B!NoBase.lease = FALSE
      /\ B!Off \in BaseCrew /\ B!Off.pc = "rest" /\ B!Off.alloc = 0 /\ B!Off.seen = 0
  BY <1>1 DEF B!NoBase, B!Off, BaseRow, BaseCrew
<1> QED
  BY <1>1, <1>2 DEF B!Crew, B!Provisioner, B!Watcher, B!Request, B!Unlocked, B!Awaited, B!Known

LEMMA BaseBegins ==
  ASSUME B!Init
  PROVE  BaseInv
<1>1. BaseTyped
  BY BaseConstants DEF B!Init, BaseTyped, Provisions, Removes
<1>2. BaseLocked
  BY BaseConstants DEF B!Init, BaseLocked, Provisions, Removes
<1>3. BaseGone /\ BaseSeen
  BY BaseConstants DEF B!Init, BaseGone, BaseSeen
<1> QED
  BY <1>1, <1>2, <1>3 DEF BaseInv

\* A step that changes one row, and nobody's hands.
LEMMA BaseRowMoves ==
  ASSUME BaseInv, NEW d \in Base, NEW n \in BaseRow, base' = [base EXCEPT ![d] = n],
         n.status # "none", d \notin retained,
         n.status \in B!Known => base[d].status \in B!Known /\ n.alloc = base[d].alloc,
         n.status = "degraded" => base[d].status = "degraded",
         base[d].status \in B!Awaited => n.status \in B!Awaited,
         attached' \in {attached, attached \cup {d}},
         UNCHANGED <<retained, baselock, crew, servers, up, starts, late, revived>>
  PROVE  BaseInv'
<1>1. \A e \in Base : base'[e] = IF e = d THEN n ELSE base[e]
  BY DEF BaseInv, BaseTyped
<1>2. BaseTyped'
  BY DEF BaseInv, BaseTyped
<1>3. BaseLocked'
  BY <1>1, BaseConstants DEF BaseInv, BaseTyped, BaseLocked, Provisions, Removes
<1>4. BaseGone'
  BY <1>1 DEF BaseInv, BaseTyped, BaseGone
<1>5. BaseSeen'
  BY <1>1, BaseConstants DEF BaseInv, BaseTyped, BaseSeen
<1> QED
  BY <1>2, <1>3, <1>4, <1>5 DEF BaseInv

LEMMA BaseRequests ==
  ASSUME BaseInv, NEW d \in Base,
         (\E bound \in BOOLEAN : B!CreateDatabase(d, bound)) \/ B!Attach(d) \/ B!Retry(d) \/ B!LeaseEnds(d)
  PROVE  BaseInv'
<1>1. base[d] \in BaseRow
  BY DEF BaseInv, BaseTyped
<1>2. ASSUME NEW bound \in BOOLEAN, B!CreateDatabase(d, bound) PROVE BaseInv'
  <2>1. PICK n : n = [base[d] EXCEPT !.status = "pending"]
    OBVIOUS
  <2>2. n \in BaseRow /\ n.status = "pending"
    BY <1>1, <2>1 DEF BaseRow
  <2>3. base' = [base EXCEPT ![d] = n] /\ base[d].status = "none" /\ d \notin retained
        /\ attached' \in {attached, attached \cup {d}}
        /\ UNCHANGED <<retained, baselock, crew, servers, up, starts, late, revived>>
    BY <1>2, <2>1, BaseConstants DEF B!CreateDatabase, B!Set, B!scheduler
  <2> QED
    BY <2>2, <2>3, BaseConstants, BaseRowMoves
<1>3. CASE B!Attach(d)
  BY <1>3, BaseConstants DEF BaseInv, BaseTyped, BaseLocked, BaseGone, BaseSeen, B!Attach, B!scheduler
<1>4. CASE B!Retry(d)
  <2>1. PICK n : n = [base[d] EXCEPT !.status = "pending", !.lease = FALSE]
    OBVIOUS
  <2>2. n \in BaseRow /\ n.status = "pending"
    BY <1>1, <2>1 DEF BaseRow
  <2>3. base' = [base EXCEPT ![d] = n] /\ base[d].status \in {"failed", "degraded"}
        /\ UNCHANGED <<attached, retained, baselock, crew, servers, up, starts, late, revived>>
    BY <1>4, <2>1 DEF B!Retry, B!scheduler, BaseInv, BaseTyped
  <2>4. d \notin retained
    BY <2>3 DEF BaseInv, BaseGone
  <2> QED
    BY <2>2, <2>3, <2>4, BaseConstants, BaseRowMoves
<1>5. CASE B!LeaseEnds(d)
  <2>1. PICK n : n = [base[d] EXCEPT !.lease = FALSE]
    OBVIOUS
  <2>2. n \in BaseRow /\ n.status = base[d].status /\ n.alloc = base[d].alloc
    BY <1>1, <2>1 DEF BaseRow
  <2>3. base' = [base EXCEPT ![d] = n] /\ base[d].lease
        /\ UNCHANGED <<attached, retained, baselock, crew, servers, up, starts, late, revived>>
    BY <1>5, <2>1 DEF B!LeaseEnds, B!scheduler
  <2>4. d \notin retained /\ base[d].status # "none"
    BY <2>3, BaseConstants DEF BaseInv, BaseGone
  <2> QED
    BY <2>2, <2>3, <2>4, BaseConstants, BaseRowMoves
<1> QED
  BY <1>2, <1>3, <1>4, <1>5

\* A task that was at rest begins.
LEMMA BaseTakes ==
  ASSUME BaseInv, NEW d \in Base, NEW t \in B!Crew, crew[t].pc = "rest", NEW n \in BaseCrew,
         crew' = [crew EXCEPT ![t] = n], n.d = d,
         n.pc = "lock" \/ (t = B!Watcher /\ n.pc = "look" /\ base[d].status \in B!Known /\ n.alloc = base[d].alloc),
         NEW m \in BaseRow, base' = [base EXCEPT ![d] = m], m.status = base[d].status, m.alloc = base[d].alloc,
         m = base[d] \/ base[d].status # "none",
         UNCHANGED <<retained, attached, baselock, servers, up, starts, late, revived>>
  PROVE  BaseInv'
<1>1. \A s \in B!Crew : crew'[s] = IF s = t THEN n ELSE crew[s]
  BY DEF BaseInv, BaseTyped
<1>2. \A e \in Base : /\ base'[e].status = base[e].status /\ base'[e].alloc = base[e].alloc
                      /\ base[e].status = "none" => base'[e] = base[e]
  BY DEF BaseInv, BaseTyped
<1>3. BaseTyped'
  BY <1>1, BaseConstants DEF BaseInv, BaseTyped
<1>4. BaseLocked'
  <2>1. \A e \in Base : baselock[e] # t
    BY BaseConstants DEF BaseInv, BaseLocked, Provisions, Removes
  <2>2. \A e \in Base : baselock'[e] # B!Unlocked =>
          crew'[baselock'[e]].d = e /\ crew'[baselock'[e]].pc \in Provisions \cup Removes
    BY <1>1, <2>1 DEF BaseInv, BaseTyped, BaseLocked
  <2>3. \A s \in B!Crew : crew'[s].pc \in Provisions \cup Removes =>
          s # t /\ baselock'[crew'[s].d] = s /\ base'[crew'[s].d].status # "none"
    BY <1>1, <1>2, BaseConstants DEF BaseInv, BaseTyped, BaseLocked, Provisions, Removes
  <2>4. crew'[B!Provisioner].pc \in Provisions => base'[crew'[B!Provisioner].d].status \in B!Awaited
    BY <1>1, <1>2, BaseConstants DEF BaseInv, BaseTyped, BaseLocked, Provisions
  <2> QED
    BY <2>2, <2>3, <2>4 DEF BaseLocked
<1>5. BaseGone'
  BY <1>1, <1>2 DEF BaseInv, BaseTyped, BaseGone
<1>6. BaseSeen'
  BY <1>1, <1>2, BaseConstants DEF BaseInv, BaseTyped, BaseSeen
<1> QED
  BY <1>3, <1>4, <1>5, <1>6 DEF BaseInv

LEMMA BaseLists ==
  ASSUME BaseInv, NEW d \in Base,
         B!DeleteDatabase(d) \/ B!Select(d) \/ B!ListDeleting(d) \/ B!ListKnown(d)
  PROVE  BaseInv'
<1>1. base[d] \in BaseRow /\ base \in [Base -> BaseRow]
  BY DEF BaseInv, BaseTyped
<1>2. PICK n : n = [B!Off EXCEPT !.pc = "lock", !.d = d]
  OBVIOUS
<1>3. n \in BaseCrew /\ n.pc = "lock" /\ n.d = d
  BY <1>2, BaseConstants DEF BaseCrew
<1>4. CASE B!DeleteDatabase(d) \/ B!ListDeleting(d)
  <2>1. PICK t \in {B!Request, B!Watcher} : crew[t].pc = "rest" /\ crew' = [crew EXCEPT ![t] = n]
    BY <1>2, <1>4 DEF B!DeleteDatabase, B!ListDeleting, B!On, B!Take
  <2>2. base' = [base EXCEPT ![d] = base[d]]
        /\ UNCHANGED <<retained, attached, baselock, servers, up, starts, late, revived>>
    BY <1>1, <1>4 DEF B!DeleteDatabase, B!ListDeleting, B!scheduler
  <2> QED
    BY <1>1, <1>3, <2>1, <2>2, BaseConstants, BaseTakes
<1>5. CASE B!Select(d)
  <2>1. PICK m : m = [base[d] EXCEPT !.lease = TRUE]
    OBVIOUS
  <2>2. m \in BaseRow /\ m.status = base[d].status /\ m.alloc = base[d].alloc
    BY <1>1, <2>1 DEF BaseRow
  <2>3. /\ crew[B!Provisioner].pc = "rest" /\ crew' = [crew EXCEPT ![B!Provisioner] = n]
        /\ base' = [base EXCEPT ![d] = m] /\ base[d].status \in B!Awaited
        /\ UNCHANGED <<retained, attached, baselock, servers, up, starts, late, revived>>
    BY <1>2, <1>5, <2>1 DEF B!Select, B!On, B!Take, B!scheduler
  <2> QED
    BY <1>3, <2>2, <2>3, BaseConstants, BaseTakes
<1>6. CASE B!ListKnown(d)
  <2>1. PICK k : k = [pc |-> "look", d |-> d, alloc |-> base[d].alloc, seen |-> 0]
    OBVIOUS
  <2>2. k \in BaseCrew /\ k.pc = "look" /\ k.d = d /\ k.alloc = base[d].alloc
    BY <1>1, <2>1, BaseConstants DEF BaseCrew, BaseRow
  <2>3. /\ crew[B!Watcher].pc = "rest" /\ crew' = [crew EXCEPT ![B!Watcher] = k]
        /\ base' = [base EXCEPT ![d] = base[d]] /\ base[d].status \in B!Known
        /\ UNCHANGED <<retained, attached, baselock, servers, up, starts, late, revived>>
    BY <1>1, <1>6, <2>1 DEF B!ListKnown, B!On, B!scheduler
  <2> QED
    BY <1>1, <2>2, <2>3, BaseConstants, BaseTakes
<1> QED
  BY <1>4, <1>5, <1>6

\* A task gives up its lock, and rests or has failed.
LEMMA BaseLeaves ==
  ASSUME BaseInv, NEW t \in B!Crew, NEW pc \in {"rest", "failed"}, B!Leave(t, pc)
  PROVE  /\ crew' \in [B!Crew -> BaseCrew] /\ crew'[t].pc = pc
         /\ \A s \in B!Crew : s # t => crew'[s] = crew[s]
         /\ pc = "failed" => crew'[t].d = crew[t].d
         /\ baselock' \in [Base -> B!Crew \cup {B!Unlocked}]
         /\ \A d \in Base : baselock'[d] = IF baselock[d] = t THEN B!Unlocked ELSE baselock[d]
<1>1. crew[t] \in BaseCrew /\ crew \in [B!Crew -> BaseCrew]
      /\ baselock \in [Base -> B!Crew \cup {B!Unlocked}]
  BY DEF BaseInv, BaseTyped
<1>2. PICK m : m = [crew[t] EXCEPT !.pc = pc]
  OBVIOUS
<1>3. m \in BaseCrew /\ m.pc = pc /\ m.d = crew[t].d
  BY <1>1, <1>2 DEF BaseCrew
<1>4. PICK n : n = IF pc = "rest" THEN B!Off ELSE m
  OBVIOUS
<1>5. crew' = [crew EXCEPT ![t] = n] /\ n \in BaseCrew /\ n.pc = pc /\ (pc = "failed" => n.d = crew[t].d)
  BY <1>2, <1>3, <1>4, BaseConstants DEF B!Leave
<1> QED
  BY <1>1, <1>5 DEF B!Leave

\* ... without a word in the rows, or with one about its database.
LEMMA BaseEnds ==
  ASSUME BaseInv, NEW t \in B!Crew, NEW pc \in {"rest", "failed"}, B!Leave(t, pc),
         pc = "failed" => t = B!Provisioner /\ crew[t].pc # "rest",
         NEW d \in Base, NEW n \in BaseRow, base' = [base EXCEPT ![d] = n],
         n = base[d] \/ (crew[t].d = d /\ n.status # "none" /\ base[d].status # "none"
                         /\ (crew[B!Provisioner].pc \in Provisions /\ crew[B!Provisioner].d = d => t = B!Provisioner)),
         n.status \in B!Known => n.alloc # 0,
         n.status = "degraded" => n = base[d] \/ t = B!Watcher,
         late' \subseteq Base,
         UNCHANGED <<retained, attached, servers, up, starts, revived>>
  PROVE  BaseInv'
<1>1. /\ crew' \in [B!Crew -> BaseCrew] /\ crew'[t].pc = pc
      /\ \A s \in B!Crew : s # t => crew'[s] = crew[s]
      /\ pc = "failed" => crew'[t].d = crew[t].d
      /\ baselock' \in [Base -> B!Crew \cup {B!Unlocked}]
      /\ \A e \in Base : baselock'[e] = IF baselock[e] = t THEN B!Unlocked ELSE baselock[e]
  BY BaseLeaves
<1>2. \A e \in Base : base'[e] = IF e = d THEN n ELSE base[e]
  BY DEF BaseInv, BaseTyped
<1>3. BaseTyped'
  BY <1>1, BaseConstants DEF BaseInv, BaseTyped
<1>4. BaseLocked'
  <2>1. \A e \in Base : baselock'[e] # B!Unlocked => baselock'[e] = baselock[e] /\ baselock[e] # t
    BY <1>1
  <2>2. \A e \in Base : baselock'[e] # B!Unlocked =>
          crew'[baselock'[e]].d = e /\ crew'[baselock'[e]].pc \in Provisions \cup Removes
    BY <1>1, <2>1 DEF BaseInv, BaseTyped, BaseLocked
  <2>3. \A s \in B!Crew : crew'[s].pc \in Provisions \cup Removes =>
          s # t /\ crew'[s] = crew[s] /\ crew[s].d \in Base
    BY <1>1 DEF BaseInv, BaseTyped, Provisions, Removes
  <2>4. \A s \in B!Crew : crew'[s].pc \in Provisions \cup Removes =>
          baselock'[crew'[s].d] = s /\ base'[crew'[s].d].status # "none"
    BY <1>1, <1>2, <2>3 DEF BaseInv, BaseLocked
  <2>5. crew'[B!Provisioner].pc \in Provisions => base'[crew'[B!Provisioner].d].status \in B!Awaited
    BY <1>2, <2>3, BaseConstants DEF BaseInv, BaseLocked
  <2> QED
    BY <2>2, <2>4, <2>5 DEF BaseLocked
<1>5. BaseGone'
  <2>1. \A s \in B!Crew : crew'[s].pc \in {"drain", "forget"} => crew'[s] = crew[s]
    BY <1>1
  <2> QED
    BY <1>2, <2>1 DEF BaseInv, BaseTyped, BaseGone
<1>6. BaseSeen'
  <2>1. crew'[B!Provisioner].pc \in {"probe", "save"} => crew'[B!Provisioner] = crew[B!Provisioner]
    BY <1>1, BaseConstants
  <2>2. crew'[B!Watcher].pc \in {"look", "note"} => t # B!Watcher /\ crew'[B!Watcher] = crew[B!Watcher]
    BY <1>1, BaseConstants
  <2> QED
    BY <1>2, <2>1, <2>2, BaseConstants DEF BaseInv, BaseTyped, BaseSeen
<1> QED
  BY <1>3, <1>4, <1>5, <1>6 DEF BaseInv

\* The rows are written under the lock, and the task goes on.
LEMMA BaseGoes ==
  ASSUME BaseInv, NEW t \in B!Crew, NEW n \in BaseCrew, crew' = [crew EXCEPT ![t] = n],
         crew[t].pc \in Provisions \cup Removes, n.d = crew[t].d,
         IF t = B!Provisioner THEN n.pc \in Provisions ELSE n.pc \in Removes,
         n.pc \in {"probe", "save"} => n.alloc # 0, n.pc = "save" => n.seen = n.alloc,
         n.pc = "drain" => n.d \notin servers',
         n.pc = "forget" /\ n.d \notin revived => n.d \notin servers' /\ up[n.d] = 0,
         servers' \in {servers \cup (IF t = B!Provisioner THEN {n.d} ELSE {}),
                       servers \ (IF t # B!Provisioner THEN {n.d} ELSE {})},
         NEW m \in BaseRow, base' = [base EXCEPT ![n.d] = m],
         m = base[n.d] \/ (t = B!Provisioner /\ m.status \in B!Awaited),
         UNCHANGED <<retained, attached, baselock, up, starts, late, revived>>
  PROVE  BaseInv'
<1>1. \A s \in B!Crew : crew'[s] = IF s = t THEN n ELSE crew[s]
  BY DEF BaseInv, BaseTyped
<1>2. n.d \in Base /\ crew[t].pc # "rest" /\ baselock[n.d] = t /\ base[n.d].status # "none"
      /\ n.d \notin retained
  BY DEF BaseInv, BaseTyped, BaseLocked, BaseGone, Provisions, Removes
<1>3. \A e \in Base : base'[e] = IF e = n.d THEN m ELSE base[e]
  BY <1>2 DEF BaseInv, BaseTyped
<1>4. t = B!Provisioner => base[n.d].status \in B!Awaited
  BY BaseConstants DEF BaseInv, BaseTyped, BaseLocked, Provisions, Removes
<1>5. BaseTyped'
  <2>1. servers' \subseteq Base
    BY <1>2 DEF BaseInv, BaseTyped
  <2>2. \A s \in B!Crew : crew'[s].pc # "rest" => crew'[s].d \in Base
    BY <1>1, <1>2 DEF BaseInv, BaseTyped
  <2>3. /\ crew'[B!Provisioner].pc \in {"rest", "lock", "failed"} \cup Provisions
        /\ crew'[B!Request].pc \in {"rest", "lock"} \cup Removes
        /\ crew'[B!Watcher].pc \in {"rest", "lock", "look", "note"} \cup Removes
    BY <1>1, BaseConstants DEF BaseInv, BaseTyped
  <2> QED
    BY <2>1, <2>2, <2>3 DEF BaseInv, BaseTyped
<1>6. BaseLocked'
  <2>1. \A e \in Base : baselock[e] = t => e = n.d
    BY BaseConstants DEF BaseInv, BaseLocked
  <2>2. \A e \in Base : baselock'[e] # B!Unlocked =>
          crew'[baselock'[e]].d = e /\ crew'[baselock'[e]].pc \in Provisions \cup Removes
    BY <1>1, <2>1 DEF BaseInv, BaseTyped, BaseLocked
  <2>3. \A s \in B!Crew : crew[s].pc \in Provisions \cup Removes => crew[s].d \in Base
    BY DEF BaseInv, BaseTyped, Provisions, Removes
  <2>4. \A s \in B!Crew : crew'[s].pc \in Provisions \cup Removes =>
          baselock'[crew'[s].d] = s /\ base'[crew'[s].d].status # "none"
    BY <1>1, <1>2, <1>3, <2>3, BaseConstants DEF BaseInv, BaseLocked
  <2>5. crew'[B!Provisioner].pc \in Provisions => base'[crew'[B!Provisioner].d].status \in B!Awaited
    <3>1. CASE t = B!Provisioner
      BY <1>1, <1>3, <1>4, <3>1, <1>2
    <3>2. CASE t # B!Provisioner
      BY <1>1, <1>3, <2>3, <3>2, BaseConstants DEF BaseInv, BaseLocked
    <3> QED
      BY <3>1, <3>2
  <2> QED
    BY <2>2, <2>4, <2>5 DEF BaseLocked
<1>7. BaseGone'
  <2>1. \A e \in Base : base'[e].status = "none" => base'[e] = base[e]
    BY <1>2, <1>3, BaseConstants
  <2>2. \A e \in Base : e # n.d => (e \in servers' <=> e \in servers)
    BY <1>2
  <2>3. \A s \in B!Crew : s # t /\ crew[s].pc \in {"drain", "forget"} => crew[s].d # n.d /\ crew[s].d \in Base
    BY <1>2 DEF BaseInv, BaseTyped, BaseLocked, Removes
  <2>4. \A s \in B!Crew : crew'[s].pc \in {"drain", "forget"} /\ crew'[s].d \notin revived' =>
          crew'[s].d \notin servers'
    BY <1>1, <2>2, <2>3 DEF BaseInv, BaseGone
  <2>5. \A s \in B!Crew : crew'[s].pc = "forget" /\ crew'[s].d \notin revived' => up'[crew'[s].d] = 0
    BY <1>1, <2>3 DEF BaseInv, BaseGone
  <2>6. \A e \in attached' : base'[e].status # "none"
    BY <1>2, <1>3, BaseConstants DEF BaseInv, BaseTyped, BaseGone
  <2>7. \A e \in retained' : base'[e].status = "none"
    BY <1>2, <1>3 DEF BaseInv, BaseTyped, BaseGone
  <2>8. \A e \in retained' \ revived' : e \notin servers' /\ up'[e] = 0
    BY <1>2, <2>2 DEF BaseInv, BaseTyped, BaseGone
  <2>9. \A e \in Base : base'[e].status = "none" => base'[e] = B!NoBase
    BY <2>1 DEF BaseInv, BaseGone
  <2> QED
    BY <2>4, <2>5, <2>6, <2>7, <2>8, <2>9 DEF BaseGone
<1>8. BaseSeen'
  BY <1>1, <1>3, BaseConstants DEF BaseInv, BaseTyped, BaseSeen, Provisions, Removes
<1> QED
  BY <1>5, <1>6, <1>7, <1>8 DEF BaseInv

\* The lock is taken.
LEMMA BaseLocks ==
  ASSUME BaseInv, NEW t \in B!Crew, NEW n \in BaseCrew, crew[t].pc = "lock",
         baselock[crew[t].d] = B!Unlocked, base[crew[t].d].status # "none",
         crew' = [crew EXCEPT ![t] = n], n.d = crew[t].d,
         n.pc = (IF t = B!Provisioner THEN "node" ELSE "stop"),
         baselock' = [baselock EXCEPT ![n.d] = t],
         NEW m \in BaseRow, base' = [base EXCEPT ![n.d] = m],
         IF t = B!Provisioner THEN m = base[n.d] /\ m.status \in B!Awaited ELSE m.status = "deleting",
         UNCHANGED <<retained, attached, servers, up, starts, late, revived>>
  PROVE  BaseInv'
<1>1. \A s \in B!Crew : crew'[s] = IF s = t THEN n ELSE crew[s]
  BY DEF BaseInv, BaseTyped
<1>2. n.d \in Base /\ n.d \notin retained
  BY DEF BaseInv, BaseTyped, BaseGone
<1>3. \A e \in Base : /\ base'[e] = IF e = n.d THEN m ELSE base[e]
                      /\ baselock'[e] = IF e = n.d THEN t ELSE baselock[e]
  BY <1>2 DEF BaseInv, BaseTyped
<1>4. \A s \in B!Crew : crew[s].pc \in Provisions \cup Removes => crew[s].d \in Base /\ crew[s].d # n.d /\ s # t
  BY BaseConstants DEF BaseInv, BaseTyped, BaseLocked, Provisions, Removes
<1>5. BaseTyped'
  BY <1>1, <1>2, BaseConstants DEF BaseInv, BaseTyped, Provisions, Removes
<1>6. BaseLocked'
  <2>1. \A e \in Base : baselock'[e] # B!Unlocked =>
          crew'[baselock'[e]].d = e /\ crew'[baselock'[e]].pc \in Provisions \cup Removes
    <3>1. \A e \in Base : baselock[e] # t
      BY BaseConstants DEF BaseInv, BaseLocked, Provisions, Removes
    <3>2. n.pc \in Provisions \cup Removes
      BY DEF Provisions, Removes
    <3> QED
      BY <1>1, <1>3, <3>1, <3>2 DEF BaseInv, BaseTyped, BaseLocked
  <2>2. \A s \in B!Crew : crew'[s].pc \in Provisions \cup Removes =>
          baselock'[crew'[s].d] = s /\ base'[crew'[s].d].status # "none"
    BY <1>1, <1>2, <1>3, <1>4, BaseConstants DEF BaseInv, BaseLocked
  <2>3. crew'[B!Provisioner].pc \in Provisions => base'[crew'[B!Provisioner].d].status \in B!Awaited
    BY <1>1, <1>2, <1>3, <1>4, BaseConstants DEF BaseInv, BaseLocked
  <2> QED
    BY <2>1, <2>2, <2>3 DEF BaseLocked
<1>7. BaseGone'
  <2>1. \A s \in B!Crew : crew'[s].pc \in {"drain", "forget"} => crew'[s] = crew[s]
    BY <1>1
  <2> QED
    BY <1>2, <1>3, <2>1, BaseConstants DEF BaseInv, BaseTyped, BaseGone
<1>8. BaseSeen'
  BY <1>1, <1>2, <1>3, BaseConstants DEF BaseInv, BaseTyped, BaseSeen
<1> QED
  BY <1>5, <1>6, <1>7, <1>8 DEF BaseInv

LEMMA BaseProvisions ==
  ASSUME BaseInv, B!LockProvision \/ B!NodeIsReady \/ B!RegisterJob \/ B!Healthy \/ B!Verify
  PROVE  BaseInv'
<1> DEFINE t == B!Provisioner
<1>1. /\ t \in B!Crew /\ crew[t] \in BaseCrew /\ crew[t].pc # "rest" /\ crew[t].d \in Base
      /\ base[crew[t].d] \in BaseRow /\ base = [base EXCEPT ![crew[t].d] = base[crew[t].d]]
      /\ crew[t].pc \in Provisions => base[crew[t].d].status \in B!Awaited
  BY BaseConstants DEF BaseInv, BaseTyped, BaseLocked, B!On, B!LockProvision, B!NodeIsReady, B!RegisterJob,
       B!Healthy, B!Verify
<1>2. CASE B!LockProvision
  <2>1. crew[t].pc = "lock" /\ baselock[crew[t].d] = B!Unlocked
        /\ UNCHANGED <<base, retained, attached, servers, up, starts, late, revived>>
    BY <1>2 DEF B!LockProvision, B!On, B!scheduler
  <2>2. CASE B!Wanted(crew[t].d)
    <3>1. PICK n : n = [crew[t] EXCEPT !.pc = "node"]
      OBVIOUS
    <3>2. n \in BaseCrew /\ n.pc = "node" /\ n.d = crew[t].d
      BY <1>1, <3>1 DEF BaseCrew
    <3>3. crew' = [crew EXCEPT ![t] = n] /\ baselock' = [baselock EXCEPT ![n.d] = t]
          /\ base[n.d].status \in B!Awaited
      BY <1>2, <2>2, <3>1, <3>2 DEF B!LockProvision, B!Go, B!Wanted
    <3>4. base[n.d] \in BaseRow /\ base[n.d].status # "none" /\ base' = [base EXCEPT ![n.d] = base[n.d]]
      BY <1>1, <2>1, <3>2, <3>3, BaseConstants
    <3> QED
      BY <1>1, <2>1, <3>2, <3>3, <3>4, BaseLocks
  <2>3. CASE ~B!Wanted(crew[t].d)
    <3>1. B!Leave(t, "rest")
      BY <1>2, <2>3 DEF B!LockProvision
    <3>2. base[crew[t].d].status \in B!Known => base[crew[t].d].alloc # 0
      BY <1>1 DEF BaseInv, BaseSeen
    <3>3. late' \subseteq Base
      BY <2>1 DEF BaseInv, BaseTyped
    <3>4. base' = [base EXCEPT ![crew[t].d] = base[crew[t].d]]
      BY <1>1, <2>1
    <3> QED
      BY <1>1, <2>1, <3>1, <3>2, <3>3, <3>4, BaseEnds
  <2> QED
    BY <2>2, <2>3
<1>3. CASE B!NodeIsReady
  <2>1. PICK n : n = [crew[t] EXCEPT !.pc = "job"]
    OBVIOUS
  <2>2. PICK m : m = [base[crew[t].d] EXCEPT !.status = "provisioning"]
    OBVIOUS
  <2>3. n \in BaseCrew /\ n.pc = "job" /\ n.d = crew[t].d /\ m \in BaseRow /\ m.status = "provisioning"
    BY <1>1, <2>1, <2>2 DEF BaseCrew, BaseRow
  <2>4. /\ crew[t].pc = "node" /\ crew' = [crew EXCEPT ![t] = n] /\ base' = [base EXCEPT ![n.d] = m]
        /\ UNCHANGED <<retained, attached, baselock, servers, up, starts, late, revived>>
    BY <1>3, <2>1, <2>2, <2>3 DEF B!NodeIsReady, B!On, B!Go, B!Set, B!scheduler
  <2> QED
    BY <1>1, <2>3, <2>4, BaseConstants, BaseGoes DEF Provisions
<1>4. CASE B!RegisterJob
  <2>1. PICK n : n = [crew[t] EXCEPT !.pc = "wait"]
    OBVIOUS
  <2>2. n \in BaseCrew /\ n.pc = "wait" /\ n.d = crew[t].d
    BY <1>1, <2>1 DEF BaseCrew
  <2>3. /\ crew[t].pc = "job" /\ crew' = [crew EXCEPT ![t] = n] /\ servers' = servers \cup {n.d}
        /\ base' = [base EXCEPT ![n.d] = base[n.d]]
        /\ UNCHANGED <<retained, attached, baselock, up, starts, late, revived>>
    BY <1>1, <1>4, <2>1, <2>2 DEF B!RegisterJob, B!On, B!Go
  <2> QED
    BY <1>1, <2>2, <2>3, BaseConstants, BaseGoes DEF Provisions
<1>5. CASE B!Healthy
  <2>1. PICK n : n = [crew[t] EXCEPT !.pc = "probe", !.alloc = up[crew[t].d]]
    OBVIOUS
  <2>2. up[crew[t].d] \in 0..MaxStarts /\ up[crew[t].d] # 0
    BY <1>1, <1>5 DEF BaseInv, BaseTyped, B!Healthy
  <2>3. n \in BaseCrew /\ n.pc = "probe" /\ n.d = crew[t].d /\ n.alloc # 0
    BY <1>1, <2>1, <2>2 DEF BaseCrew
  <2>4. /\ crew[t].pc = "wait" /\ crew' = [crew EXCEPT ![t] = n]
        /\ base' = [base EXCEPT ![n.d] = base[n.d]]
        /\ UNCHANGED <<retained, attached, baselock, servers, up, starts, late, revived>>
    BY <1>1, <1>5, <2>1, <2>3 DEF B!Healthy, B!On, B!scheduler
  <2> QED
    BY <1>1, <2>3, <2>4, BaseConstants, BaseGoes DEF Provisions
<1>6. CASE B!Verify
  <2>1. PICK n : n = [crew[t] EXCEPT !.pc = "save", !.seen = crew[t].alloc]
    OBVIOUS
  <2>2. crew[t].pc = "probe" /\ crew[t].alloc # 0
    BY <1>6 DEF BaseInv, BaseSeen, B!Verify, B!On
  <2>3. n \in BaseCrew /\ n.pc = "save" /\ n.d = crew[t].d /\ n.alloc # 0 /\ n.seen = n.alloc
    BY <1>1, <2>1, <2>2 DEF BaseCrew
  <2>4. /\ crew' = [crew EXCEPT ![t] = n]
        /\ base' = [base EXCEPT ![n.d] = base[n.d]]
        /\ UNCHANGED <<retained, attached, baselock, servers, up, starts, late, revived>>
    BY <1>1, <1>6, <2>1, <2>3 DEF B!Verify, B!scheduler
  <2> QED
    BY <1>1, <2>2, <2>3, <2>4, BaseConstants, BaseGoes DEF Provisions
<1> QED
  BY <1>2, <1>3, <1>4, <1>5, <1>6

LEMMA BaseProvisionEnds ==
  ASSUME BaseInv, B!Provisioned \/ B!ProvisionFails \/ B!Failed
  PROVE  BaseInv'
<1> DEFINE t == B!Provisioner
<1>1. /\ t \in B!Crew /\ crew[t] \in BaseCrew /\ crew[t].pc # "rest" /\ crew[t].d \in Base
      /\ base[crew[t].d] \in BaseRow /\ base = [base EXCEPT ![crew[t].d] = base[crew[t].d]]
      /\ base[crew[t].d].status \in B!Known => base[crew[t].d].alloc # 0
      /\ late \subseteq Base
  BY BaseConstants DEF BaseInv, BaseTyped, BaseSeen, B!On, B!Provisioned, B!ProvisionFails, B!Failed
<1>2. CASE B!Provisioned
  <2>1. PICK k : k = [status |-> "healthy", alloc |-> crew[t].alloc, lease |-> FALSE]
    OBVIOUS
  <2>2. crew[t].pc = "save" /\ crew[t].alloc # 0 /\ base[crew[t].d].status # "none"
    BY <1>1, <1>2 DEF BaseInv, BaseLocked, BaseSeen, B!Provisioned, B!On, Provisions
  <2>3. k \in BaseRow /\ k.status = "healthy" /\ k.alloc # 0
    BY <1>1, <2>1, <2>2 DEF BaseRow, BaseCrew
  <2>4. PICK n \in {k, base[crew[t].d]} : base' = [base EXCEPT ![crew[t].d] = n]
    BY <1>2, <2>1 DEF B!Provisioned
  <2>5. B!Leave(t, "rest") /\ UNCHANGED <<retained, attached, servers, up, starts, late, revived>>
    BY <1>2 DEF B!Provisioned, B!scheduler
  <2>6. n \in BaseRow /\ n.status # "none" /\ (n.status \in B!Known => n.alloc # 0)
        /\ (n.status = "degraded" => n = base[crew[t].d])
    BY <1>1, <2>2, <2>3, <2>4
  <2> QED
    BY <1>1, <2>2, <2>4, <2>5, <2>6, BaseEnds
<1>3. CASE B!ProvisionFails
  <2>1. /\ B!Leave(t, "failed") /\ UNCHANGED <<retained, attached, servers, up, starts, revived>>
        /\ late' \subseteq Base /\ base' = [base EXCEPT ![crew[t].d] = base[crew[t].d]]
    BY <1>1, <1>3 DEF B!ProvisionFails
  <2> QED
    BY <1>1, <2>1, BaseEnds
<1>4. CASE B!Failed
  <2>1. PICK k : k = [base[crew[t].d] EXCEPT !.status = "failed", !.lease = FALSE]
    OBVIOUS
  <2>2. k \in BaseRow /\ k.status = "failed"
    BY <1>1, <2>1 DEF BaseRow
  <2>3. B!Leave(t, "rest") /\ UNCHANGED <<retained, attached, servers, up, starts, late, revived>>
        /\ crew[t].pc = "failed"
    BY <1>4 DEF B!Failed, B!On, B!scheduler
  <2>4. CASE B!Fails(crew[t].d)
    <3>1. base' = [base EXCEPT ![crew[t].d] = k] /\ base[crew[t].d].status # "none"
      BY <1>4, <2>1, <2>4, BaseConstants DEF B!Failed, B!Fails
    <3> QED
      BY <1>1, <2>2, <2>3, <3>1, BaseConstants, BaseEnds DEF Provisions
  <2>5. CASE ~B!Fails(crew[t].d)
    <3>1. base' = [base EXCEPT ![crew[t].d] = base[crew[t].d]]
      BY <1>1, <1>4, <2>5 DEF B!Failed
    <3> QED
      BY <1>1, <2>3, <3>1, BaseEnds
  <2> QED
    BY <2>4, <2>5
<1> QED
  BY <1>2, <1>3, <1>4

LEMMA BaseRemoves ==
  ASSUME BaseInv, NEW t \in {B!Watcher, B!Request}, B!LockRemoval(t) \/ B!StopServer(t) \/ B!Drained(t)
  PROVE  BaseInv'
<1>1. /\ t \in B!Crew /\ t # B!Provisioner /\ crew[t] \in BaseCrew /\ crew[t].d \in Base
      /\ base[crew[t].d] \in BaseRow /\ base = [base EXCEPT ![crew[t].d] = base[crew[t].d]]
  BY BaseConstants DEF BaseInv, BaseTyped, B!On, B!LockRemoval, B!StopServer, B!Drained
<1>2. CASE B!LockRemoval(t)
  <2>1. crew[t].pc = "lock" /\ baselock[crew[t].d] = B!Unlocked
        /\ UNCHANGED <<retained, attached, servers, up, starts, late, revived>>
    BY <1>2 DEF B!LockRemoval, B!On, B!scheduler
  <2>2. CASE base[crew[t].d] # B!NoBase
    <3>1. PICK n : n = [crew[t] EXCEPT !.pc = "stop"]
      OBVIOUS
    <3>2. PICK m : m = [base[crew[t].d] EXCEPT !.status = "deleting", !.lease = FALSE]
      OBVIOUS
    <3>3. n \in BaseCrew /\ n.pc = "stop" /\ n.d = crew[t].d /\ m \in BaseRow /\ m.status = "deleting"
      BY <1>1, <3>1, <3>2 DEF BaseCrew, BaseRow
    <3>4. /\ crew' = [crew EXCEPT ![t] = n] /\ baselock' = [baselock EXCEPT ![n.d] = t]
          /\ base' = [base EXCEPT ![n.d] = m]
      BY <1>2, <2>2, <3>1, <3>2, <3>3 DEF B!LockRemoval, B!Go
    <3>5. base[crew[t].d].status # "none"
      BY <1>1, <2>2 DEF BaseInv, BaseGone
    <3> QED
      BY <1>1, <2>1, <3>3, <3>4, <3>5, BaseLocks
  <2>3. CASE base[crew[t].d] = B!NoBase
    <3>1. B!Leave(t, "rest") /\ base' = [base EXCEPT ![crew[t].d] = base[crew[t].d]]
      BY <1>1, <1>2, <2>3 DEF B!LockRemoval
    <3>2. base[crew[t].d].status \notin B!Known /\ base[crew[t].d].status # "degraded" /\ late' \subseteq Base
      BY <2>1, <2>3, BaseConstants DEF BaseInv, BaseTyped
    <3> QED
      BY <1>1, <2>1, <3>1, <3>2, BaseEnds
  <2> QED
    BY <2>2, <2>3
<1>3. CASE B!StopServer(t)
  <2>1. PICK n : n = [crew[t] EXCEPT !.pc = "drain"]
    OBVIOUS
  <2>2. n \in BaseCrew /\ n.pc = "drain" /\ n.d = crew[t].d
    BY <1>1, <2>1 DEF BaseCrew
  <2>3. /\ crew[t].pc = "stop" /\ crew' = [crew EXCEPT ![t] = n] /\ servers' = servers \ {n.d}
        /\ base' = [base EXCEPT ![n.d] = base[n.d]]
        /\ UNCHANGED <<retained, attached, baselock, up, starts, late, revived>>
    BY <1>1, <1>3, <2>1, <2>2 DEF B!StopServer, B!On, B!Go
  <2> QED
    BY <1>1, <2>2, <2>3, BaseGoes DEF Removes
<1>4. CASE B!Drained(t)
  <2>1. PICK n : n = [crew[t] EXCEPT !.pc = "forget"]
    OBVIOUS
  <2>2. n \in BaseCrew /\ n.pc = "forget" /\ n.d = crew[t].d
    BY <1>1, <2>1 DEF BaseCrew
  <2>3. /\ crew[t].pc = "drain" /\ crew' = [crew EXCEPT ![t] = n] /\ up[n.d] = 0
        /\ base' = [base EXCEPT ![n.d] = base[n.d]]
        /\ UNCHANGED <<retained, attached, baselock, servers, up, starts, late, revived>>
    BY <1>1, <1>4, <2>1, <2>2 DEF B!Drained, B!On, B!Go, B!Stopped, B!scheduler
  <2>4. n.d \notin revived => n.d \notin servers'
    BY <1>1, <2>2, <2>3 DEF BaseInv, BaseGone
  <2> QED
    BY <1>1, <2>2, <2>3, <2>4, BaseGoes DEF Removes
<1> QED
  BY <1>2, <1>3, <1>4

LEMMA BaseForgets ==
  ASSUME BaseInv, NEW t \in {B!Watcher, B!Request}, B!Forget(t)
  PROVE  BaseInv'
<1>1. PICK d : d = crew[t].d
  OBVIOUS
<1>2. /\ t \in B!Crew /\ t # B!Provisioner /\ crew[t].pc = "forget" /\ d \in Base /\ baselock[d] = t
      /\ d \notin revived => d \notin servers /\ up[d] = 0
      /\ retained' = retained \cup {d} /\ attached' = attached \ {d} /\ base' = [base EXCEPT ![d] = B!NoBase]
      /\ B!Leave(t, "rest") /\ UNCHANGED <<servers, up, starts, late, revived>>
  BY <1>1, BaseConstants DEF BaseInv, BaseTyped, BaseLocked, BaseGone, B!Forget, B!On, B!scheduler, Removes
<1>3. /\ crew' \in [B!Crew -> BaseCrew] /\ crew'[t].pc = "rest"
      /\ \A s \in B!Crew : s # t => crew'[s] = crew[s]
      /\ baselock' \in [Base -> B!Crew \cup {B!Unlocked}]
      /\ \A e \in Base : baselock'[e] = IF baselock[e] = t THEN B!Unlocked ELSE baselock[e]
  BY <1>2, BaseLeaves
<1>4. \A e \in Base : base'[e] = IF e = d THEN B!NoBase ELSE base[e]
  BY <1>2 DEF BaseInv, BaseTyped
<1>5. BaseTyped'
  BY <1>2, <1>3, BaseConstants DEF BaseInv, BaseTyped
<1>6. BaseLocked'
  <2>1. \A s \in B!Crew : crew'[s].pc \in Provisions \cup Removes =>
          s # t /\ crew'[s] = crew[s] /\ crew[s].d \in Base /\ crew[s].d # d
    BY <1>2, <1>3 DEF BaseInv, BaseTyped, BaseLocked, Provisions, Removes
  <2>2. \A e \in Base : baselock'[e] # B!Unlocked =>
          crew'[baselock'[e]].d = e /\ crew'[baselock'[e]].pc \in Provisions \cup Removes
    BY <1>3 DEF BaseInv, BaseTyped, BaseLocked
  <2>3. \A s \in B!Crew : crew'[s].pc \in Provisions \cup Removes =>
          baselock'[crew'[s].d] = s /\ base'[crew'[s].d].status # "none"
    BY <1>3, <1>4, <2>1 DEF BaseInv, BaseLocked
  <2>4. crew'[B!Provisioner].pc \in Provisions => base'[crew'[B!Provisioner].d].status \in B!Awaited
    BY <1>4, <2>1, BaseConstants DEF BaseInv, BaseLocked
  <2> QED
    BY <2>2, <2>3, <2>4 DEF BaseLocked
<1>7. BaseGone'
  <2>1. \A s \in B!Crew : crew'[s].pc \in {"drain", "forget"} => crew'[s] = crew[s]
    BY <1>3
  <2> QED
    BY <1>2, <1>4, <2>1, BaseConstants DEF BaseInv, BaseTyped, BaseGone
<1>8. BaseSeen'
  <2>1. crew'[B!Watcher].pc \in {"look", "note"} => crew'[B!Watcher] = crew[B!Watcher]
    BY <1>3, BaseConstants
  <2> QED
    BY <1>2, <1>3, <1>4, <2>1, BaseConstants DEF BaseInv, BaseTyped, BaseSeen
<1> QED
  BY <1>5, <1>6, <1>7, <1>8 DEF BaseInv

LEMMA BaseGivesUp ==
  ASSUME BaseInv, B!Cut \/ \E t \in {B!Watcher, B!Request} : B!RemovalFails(t)
  PROVE  BaseInv'
<1>1. CASE B!Cut
  <2> DEFINE t == B!Request
  <2>1. /\ t \in B!Crew /\ crew[t].d \in Base /\ base[crew[t].d] \in BaseRow
        /\ base[crew[t].d].status \in B!Known => base[crew[t].d].alloc # 0
        /\ base' = [base EXCEPT ![crew[t].d] = base[crew[t].d]] /\ late' \subseteq Base
        /\ B!Leave(t, "rest") /\ UNCHANGED <<retained, attached, servers, up, starts, revived>>
    BY <1>1, BaseConstants DEF BaseInv, BaseTyped, BaseSeen, B!Cut, B!scheduler
  <2> QED
    BY <2>1, BaseEnds
<1>2. ASSUME NEW t \in {B!Watcher, B!Request}, B!RemovalFails(t) PROVE BaseInv'
  <2>1. PICK d : d = crew[t].d
    OBVIOUS
  <2>2. PICK n : n = [base[d] EXCEPT !.status = "delete_failed"]
    OBVIOUS
  <2>3. /\ t \in B!Crew /\ t # B!Provisioner /\ d \in Base /\ base[d] \in BaseRow /\ base[d].status # "none"
        /\ crew[t].pc \in Provisions \cup Removes
        /\ base' = [base EXCEPT ![d] = n] /\ late' \subseteq Base
        /\ B!Leave(t, "rest") /\ UNCHANGED <<retained, attached, servers, up, starts, revived>>
    BY <1>2, <2>1, <2>2, BaseConstants DEF BaseInv, BaseTyped, BaseLocked, B!RemovalFails, B!Set, B!scheduler, Removes
  <2>4. n \in BaseRow /\ n.status = "delete_failed"
    BY <2>2, <2>3 DEF BaseRow
  <2>5. crew[B!Provisioner].pc \in Provisions /\ crew[B!Provisioner].d = d => t = B!Provisioner
    BY <2>1, <2>3, BaseConstants DEF BaseInv, BaseLocked
  <2> QED
    BY <2>1, <2>3, <2>4, <2>5, BaseConstants, BaseEnds
<1> QED
  BY <1>1, <1>2

LEMMA BaseLooks ==
  ASSUME BaseInv, B!Look
  PROVE  BaseInv'
<1>1. PICK n : n = [crew[B!Watcher] EXCEPT !.pc = "note", !.seen = up[crew[B!Watcher].d]]
  OBVIOUS
<1>2. /\ B!Watcher \in B!Crew /\ crew[B!Watcher].pc = "look" /\ crew[B!Watcher] \in BaseCrew
      /\ crew[B!Watcher].d \in Base /\ up[crew[B!Watcher].d] \in 0..MaxStarts
      /\ crew' = [crew EXCEPT ![B!Watcher] = n]
      /\ UNCHANGED <<base, retained, attached, baselock, servers, up, starts, late, revived>>
  BY <1>1, BaseConstants DEF BaseInv, BaseTyped, B!Look, B!On, B!scheduler
<1>3. n \in BaseCrew /\ n.pc = "note" /\ n.d = crew[B!Watcher].d /\ n.alloc = crew[B!Watcher].alloc
  BY <1>1, <1>2 DEF BaseCrew
<1>4. \A s \in B!Crew : crew'[s] = IF s = B!Watcher THEN n ELSE crew[s]
  BY <1>2 DEF BaseInv, BaseTyped
<1>5. BaseTyped'
  BY <1>2, <1>3, <1>4, BaseConstants DEF BaseInv, BaseTyped
<1>6. BaseLocked'
  <2>1. \A e \in Base : baselock[e] # B!Watcher
    BY <1>2, BaseConstants DEF BaseInv, BaseLocked, Provisions, Removes
  <2>2. n.pc \notin Provisions \cup Removes
    BY <1>3 DEF Provisions, Removes
  <2> QED
    BY <1>2, <1>4, <2>1, <2>2, BaseConstants DEF BaseInv, BaseTyped, BaseLocked
<1>7. BaseGone'
  BY <1>2, <1>3, <1>4 DEF BaseInv, BaseGone
<1>8. BaseSeen'
  BY <1>2, <1>3, <1>4, BaseConstants DEF BaseInv, BaseSeen
<1> QED
  BY <1>5, <1>6, <1>7, <1>8 DEF BaseInv

LEMMA BaseObserves ==
  ASSUME BaseInv, NEW ok \in BOOLEAN, B!Observe(ok)
  PROVE  BaseInv'
<1> DEFINE t == B!Watcher
<1>1. PICK d : d = crew[t].d
  OBVIOUS
<1>2. PICK k : k = [base[d] EXCEPT !.status = IF ok THEN "healthy" ELSE "degraded"]
  OBVIOUS
<1>3. /\ t \in B!Crew /\ d \in Base /\ base[d] \in BaseRow /\ base \in [Base -> BaseRow]
      /\ base[d].status \in B!Known => base[d].alloc # 0
      /\ late' \subseteq Base /\ B!Leave(t, "rest")
      /\ UNCHANGED <<retained, attached, servers, up, starts, revived>>
  BY <1>1, BaseConstants DEF BaseInv, BaseTyped, BaseSeen, B!Observe, B!On, B!scheduler
<1>4. k \in BaseRow /\ k.status \in {"healthy", "degraded"} /\ k.alloc = base[d].alloc
  BY <1>2, <1>3 DEF BaseRow
<1>5. CASE B!Noted(d)
  <2>1. base' = [base EXCEPT ![d] = k] /\ base[d].status \in B!Known
    BY <1>1, <1>2, <1>5 DEF B!Observe, B!Noted
  <2>2. ~(crew[B!Provisioner].pc \in Provisions /\ crew[B!Provisioner].d = d)
    BY <2>1, BaseConstants DEF BaseInv, BaseLocked
  <2> QED
    BY <1>1, <1>3, <1>4, <2>1, <2>2, BaseConstants, BaseEnds
<1>6. CASE ~B!Noted(d)
  <2>1. base' = [base EXCEPT ![d] = base[d]]
    BY <1>1, <1>3, <1>6 DEF B!Observe
  <2> QED
    BY <1>1, <1>3, <2>1, BaseEnds
<1> QED
  BY <1>5, <1>6

LEMMA BaseServes ==
  ASSUME BaseInv, NEW d \in Base, B!StartServer(d) \/ B!EndServer(d) \/ B!Late(d)
  PROVE  BaseInv'
<1>1. CASE B!StartServer(d)
  <2>1. d \in servers /\ starts + 1 \in 0..MaxStarts /\ up' = [up EXCEPT ![d] = starts + 1] /\ starts' = starts + 1
        /\ UNCHANGED <<base, retained, attached, baselock, crew, servers, late, revived>>
    BY <1>1, BaseConstants DEF BaseInv, BaseTyped, B!StartServer
  <2>2. BaseTyped'
    BY <2>1 DEF BaseInv, BaseTyped
  <2>3. BaseLocked' /\ BaseSeen'
    BY <2>1 DEF BaseInv, BaseLocked, BaseSeen
  <2>4. BaseGone'
    BY <2>1 DEF BaseInv, BaseTyped, BaseGone
  <2> QED
    BY <2>2, <2>3, <2>4 DEF BaseInv
<1>2. CASE B!EndServer(d)
  <2>1. up' = [up EXCEPT ![d] = 0]
        /\ UNCHANGED <<base, retained, attached, baselock, crew, servers, starts, late, revived>>
    BY <1>2 DEF B!EndServer
  <2>2. BaseTyped'
    BY <2>1, BaseConstants DEF BaseInv, BaseTyped
  <2>3. BaseLocked' /\ BaseSeen'
    BY <2>1 DEF BaseInv, BaseLocked, BaseSeen
  <2>4. BaseGone'
    BY <2>1 DEF BaseInv, BaseTyped, BaseGone
  <2> QED
    BY <2>2, <2>3, <2>4 DEF BaseInv
<1>3. CASE B!Late(d)
  <2>1. late' = late \ {d} /\ servers' = servers \cup {d} /\ revived' = revived \cup {d}
        /\ UNCHANGED <<base, retained, attached, baselock, crew, up, starts>>
    BY <1>3 DEF B!Late
  <2>2. BaseTyped'
    BY <2>1 DEF BaseInv, BaseTyped
  <2>3. BaseLocked' /\ BaseSeen'
    BY <2>1 DEF BaseInv, BaseLocked, BaseSeen
  <2>4. BaseGone'
    BY <2>1 DEF BaseInv, BaseTyped, BaseGone
  <2> QED
    BY <2>2, <2>3, <2>4 DEF BaseInv
<1> QED
  BY <1>1, <1>2, <1>3

LEMMA BaseRestarts ==
  ASSUME BaseInv, B!Restart
  PROVE  BaseInv'
<1>1. /\ crew' = [t \in B!Crew |-> B!Off] /\ baselock' = [d \in Base |-> B!Unlocked]
      /\ UNCHANGED <<base, retained, attached, servers, up, starts, revived>>
  BY DEF B!Restart
<1>2. late' \subseteq Base
  BY BaseConstants DEF B!Restart, B!On, BaseInv, BaseTyped
<1>3. BaseTyped'
  BY <1>1, <1>2, BaseConstants DEF BaseInv, BaseTyped
<1>4. BaseLocked'
  BY <1>1, BaseConstants DEF BaseLocked, Provisions, Removes
<1>5. BaseGone' /\ BaseSeen'
  BY <1>1, BaseConstants DEF BaseInv, BaseGone, BaseSeen
<1> QED
  BY <1>3, <1>4, <1>5 DEF BaseInv

LEMMA BaseKept ==
  ASSUME BaseInv, [B!Next]_B!sdvars
  PROVE  BaseInv'
<1>1. CASE UNCHANGED B!sdvars
  BY <1>1 DEF BaseInv, BaseTyped, BaseLocked, BaseGone, BaseSeen, B!sdvars
<1>2. CASE \E d \in Base, bound \in BOOLEAN : B!CreateDatabase(d, bound)
  BY <1>2, BaseRequests
<1>3. ASSUME NEW d \in Base,
             \/ B!Attach(d) \/ B!Retry(d) \/ B!DeleteDatabase(d) \/ B!Select(d) \/ B!LeaseEnds(d)
             \/ B!ListDeleting(d) \/ B!ListKnown(d) \/ B!StartServer(d) \/ B!EndServer(d) \/ B!Late(d)
      PROVE  BaseInv'
  BY <1>3, BaseRequests, BaseLists, BaseServes
<1>4. CASE B!Provision
  BY <1>4, BaseProvisions, BaseProvisionEnds DEF B!Provision
<1>5. CASE \E t \in {B!Watcher, B!Request} : B!Removal(t)
  BY <1>5, BaseRemoves, BaseForgets, BaseGivesUp DEF B!Removal
<1>6. CASE B!Cut \/ B!Look \/ (\E ok \in BOOLEAN : B!Observe(ok)) \/ B!Restart
  BY <1>6, BaseGivesUp, BaseLooks, BaseObserves, BaseRestarts
<1> QED
  BY <1>1, <1>2, <1>3, <1>4, <1>5, <1>6 DEF B!Next

LEMMA BasePromises ==
  ASSUME BaseInv
  PROVE  B!TypeOK /\ B!RemovedHasNoServer
<1>1. B!TypeOK
  BY BaseConstants DEF BaseInv, BaseTyped, BaseLocked, BaseGone, BaseRow, B!TypeOK
<1>2. B!RemovedHasNoServer
  BY DEF BaseInv, BaseTyped, BaseGone, B!RemovedHasNoServer
<1> QED
  BY <1>1, <1>2

\* Of one row, what a step may do.
BaseStands(d) ==
  /\ base[d].status \in {"deleting", "delete_failed"} =>
       base'[d].status \in {"deleting", "delete_failed", "none"}
  /\ base[d].status # "healthy" /\ base'[d].status = "healthy" =>
       \E t \in B!Crew : crew[t].d = d /\ crew[t].seen # 0 /\ crew[t].seen = base'[d].alloc

LEMMA BaseRowStands ==
  ASSUME BaseInv, NEW e \in Base, NEW n \in BaseRow, base' = [base EXCEPT ![e] = n],
         base[e].status \in {"deleting", "delete_failed"} => n.status \in {"deleting", "delete_failed", "none"},
         base[e].status # "healthy" /\ n.status = "healthy" =>
           \E t \in B!Crew : crew[t].d = e /\ crew[t].seen # 0 /\ crew[t].seen = n.alloc
  PROVE  \A d \in Base : BaseStands(d)
BY DEF BaseInv, BaseTyped, BaseStands


LEMMA BaseSetStands ==
  ASSUME BaseInv, NEW e \in Base, NEW v \in BOOLEAN, NEW l \in BOOLEAN, NEW s,
         s \in {"pending", "provisioning", "degraded", "failed", "deleting", "delete_failed"},
         v => base' = [base EXCEPT ![e].status = s],
         ~v => base' = [base EXCEPT ![e].status = s, ![e].lease = l],
         base[e].status \in {"deleting", "delete_failed"} => s \in {"deleting", "delete_failed"}
  PROVE  \A d \in Base : BaseStands(d)
<1>1. base[e] \in BaseRow
  BY DEF BaseInv, BaseTyped
<1>2. PICK n : n = IF v THEN [base[e] EXCEPT !.status = s] ELSE [base[e] EXCEPT !.status = s, !.lease = l]
  OBVIOUS
<1>3. n \in BaseRow /\ n.status = s
  BY <1>1, <1>2 DEF BaseRow
<1>4. base' = [base EXCEPT ![e] = n]
  BY <1>2
<1> QED
  BY <1>3, <1>4, BaseRowStands

LEMMA BaseStepsStand ==
  ASSUME BaseInv, B!Next
  PROVE  \A d \in Base : BaseStands(d)
<1>1. base \in [Base -> BaseRow] /\ crew \in [B!Crew -> BaseCrew]
  BY DEF BaseInv, BaseTyped
<1>2. CASE UNCHANGED base
  BY <1>2 DEF BaseStands
<1>3. ASSUME NEW d \in Base, (\E bound \in BOOLEAN : B!CreateDatabase(d, bound)) \/ B!Retry(d)
      PROVE  \A e \in Base : BaseStands(e)
  <2>1. CASE \E bound \in BOOLEAN : B!CreateDatabase(d, bound)
    <3>1. base' = [base EXCEPT ![d].status = "pending"] /\ base[d].status = "none"
      BY <2>1, BaseConstants DEF B!CreateDatabase, B!Set
    <3> QED
      BY <3>1, BaseSetStands
  <2>2. CASE B!Retry(d)
    <3>1. base' = [base EXCEPT ![d].status = "pending", ![d].lease = FALSE] /\ base[d].status \in {"failed", "degraded"}
      BY <2>2 DEF B!Retry
    <3> QED
      BY <3>1, BaseSetStands
  <2> QED
    BY <1>3, <2>1, <2>2
<1>4. ASSUME NEW d \in Base, B!Select(d) \/ B!LeaseEnds(d)
      PROVE  \A e \in Base : BaseStands(e)
  <2>1. PICK l \in BOOLEAN : base' = [base EXCEPT ![d].lease = l]
    BY <1>4 DEF B!Select, B!LeaseEnds
  <2>2. PICK n : n = [base[d] EXCEPT !.lease = l]
    OBVIOUS
  <2>3. base[d] \in BaseRow
    BY <1>1
  <2>4. n \in BaseRow /\ n.status = base[d].status /\ base' = [base EXCEPT ![d] = n]
    BY <2>1, <2>2, <2>3 DEF BaseRow
  <2> QED
    BY <2>4, BaseRowStands
<1>5. ASSUME B!NodeIsReady PROVE \A e \in Base : BaseStands(e)
  <2>1. PICK d : d = crew[B!Provisioner].d
    OBVIOUS
  <2>2. /\ base' = [base EXCEPT ![d].status = "provisioning"] /\ d \in Base
        /\ base[d].status \in B!Awaited
    BY <1>5, <2>1, BaseConstants DEF B!NodeIsReady, B!Set, B!On, BaseInv, BaseTyped, BaseLocked, Provisions
  <2> QED
    BY <2>2, BaseConstants, BaseSetStands
<1>6. ASSUME B!Provisioned PROVE \A e \in Base : BaseStands(e)
  <2>1. PICK d : d = crew[B!Provisioner].d
    OBVIOUS
  <2>2. PICK k : k = [status |-> "healthy", alloc |-> crew[B!Provisioner].alloc, lease |-> FALSE]
    OBVIOUS
  <2>3. /\ d \in Base /\ base[d] \in BaseRow /\ crew[B!Provisioner] \in BaseCrew
        /\ crew[B!Provisioner].alloc # 0 /\ crew[B!Provisioner].seen = crew[B!Provisioner].alloc
    BY <1>6, <2>1, BaseConstants DEF B!Provisioned, B!On, BaseInv, BaseTyped, BaseSeen
  <2>4. k \in BaseRow /\ k.status = "healthy" /\ k.alloc = crew[B!Provisioner].alloc
    BY <2>2, <2>3 DEF BaseRow, BaseCrew
  <2>5. CASE base[d].status = "provisioning"
    <3>1. base' = [base EXCEPT ![d] = k]
      BY <1>6, <2>1, <2>2, <2>5 DEF B!Provisioned
    <3> QED
      BY <2>1, <2>3, <2>4, <2>5, <3>1, BaseConstants, BaseRowStands
  <2>6. CASE base[d].status # "provisioning"
    <3>1. base' = [base EXCEPT ![d] = base[d]]
      BY <1>6, <2>1, <2>6 DEF B!Provisioned
    <3> QED
      BY <2>3, <3>1, BaseRowStands
  <2> QED
    BY <2>5, <2>6
<1>7. ASSUME B!Failed PROVE \A e \in Base : BaseStands(e)
  <2>1. PICK d : d = crew[B!Provisioner].d
    OBVIOUS
  <2>2. d \in Base
    BY <1>7, <2>1, BaseConstants DEF B!Failed, B!On, BaseInv, BaseTyped
  <2>3. CASE B!Fails(d)
    <3>1. base' = [base EXCEPT ![d].status = "failed", ![d].lease = FALSE] /\ base[d].status \in B!Awaited
      BY <1>7, <2>1, <2>3 DEF B!Failed, B!Fails
    <3> QED
      BY <2>2, <3>1, BaseConstants, BaseSetStands
  <2>4. CASE ~B!Fails(d)
    BY <1>2, <1>7, <2>1, <2>4 DEF B!Failed
  <2> QED
    BY <2>3, <2>4
<1>8. ASSUME NEW t \in {B!Watcher, B!Request}, B!LockRemoval(t) \/ B!Forget(t) \/ B!RemovalFails(t)
      PROVE  \A e \in Base : BaseStands(e)
  <2>1. PICK d : d = crew[t].d
    OBVIOUS
  <2>2. d \in Base
    BY <1>8, <2>1, BaseConstants DEF B!LockRemoval, B!Forget, B!RemovalFails, B!On, BaseInv, BaseTyped
  <2>3. CASE B!LockRemoval(t)
    <3>1. UNCHANGED base \/ base' = [base EXCEPT ![d].status = "deleting", ![d].lease = FALSE]
      BY <2>1, <2>3 DEF B!LockRemoval
    <3> QED
      BY <1>2, <2>2, <3>1, BaseSetStands
  <2>4. CASE B!Forget(t)
    <3>1. base' = [base EXCEPT ![d] = B!NoBase]
      BY <2>1, <2>4 DEF B!Forget
    <3> QED
      BY <2>2, <3>1, BaseConstants, BaseRowStands
  <2>5. CASE B!RemovalFails(t)
    <3>1. base' = [base EXCEPT ![d].status = "delete_failed"]
      BY <2>1, <2>5 DEF B!RemovalFails, B!Set
    <3> QED
      BY <2>2, <3>1, BaseSetStands
  <2> QED
    BY <1>8, <2>3, <2>4, <2>5
<1>9. ASSUME NEW ok \in BOOLEAN, B!Observe(ok) PROVE \A e \in Base : BaseStands(e)
  <2>1. PICK d : d = crew[B!Watcher].d
    OBVIOUS
  <2>2. d \in Base /\ base[d] \in BaseRow /\ crew[B!Watcher].pc = "note" /\ B!Watcher \in B!Crew
        /\ (ok => crew[B!Watcher].seen = crew[B!Watcher].alloc)
    BY <1>9, <2>1, BaseConstants DEF B!Observe, B!On, B!Same, BaseInv, BaseTyped
  <2>3. PICK n : n = [base[d] EXCEPT !.status = IF ok THEN "healthy" ELSE "degraded"]
    OBVIOUS
  <2>4. n \in BaseRow /\ n.status = (IF ok THEN "healthy" ELSE "degraded") /\ n.alloc = base[d].alloc
    BY <2>2, <2>3 DEF BaseRow
  <2>5. CASE B!Noted(d)
    <3>1. base' = [base EXCEPT ![d] = n] /\ base[d].status \in B!Known
      BY <1>9, <2>1, <2>3, <2>5 DEF B!Observe, B!Noted
    <3>2. /\ crew[B!Watcher].alloc # 0
          /\ base[d].status = "degraded" => base[d].alloc = crew[B!Watcher].alloc
      BY <2>1, <2>2 DEF BaseInv, BaseSeen
    <3> QED
      BY <2>1, <2>2, <2>4, <3>1, <3>2, BaseConstants, BaseRowStands
  <2>6. CASE ~B!Noted(d)
    BY <1>2, <1>9, <2>1, <2>6 DEF B!Observe
  <2> QED
    BY <2>5, <2>6
<1>10. ASSUME \/ \E d \in Base : \/ B!Attach(d) \/ B!DeleteDatabase(d) \/ B!ListDeleting(d) \/ B!ListKnown(d)
                                  \/ B!StartServer(d) \/ B!EndServer(d) \/ B!Late(d)
              \/ B!LockProvision \/ B!RegisterJob \/ B!Healthy \/ B!Verify \/ B!ProvisionFails
              \/ \E t \in {B!Watcher, B!Request} : B!StopServer(t) \/ B!Drained(t)
              \/ B!Cut \/ B!Look \/ B!Restart
       PROVE  UNCHANGED base
  BY <1>10 DEF B!Attach, B!DeleteDatabase, B!ListDeleting, B!ListKnown, B!StartServer, B!EndServer, B!Late,
       B!LockProvision, B!RegisterJob, B!Healthy, B!Verify, B!ProvisionFails, B!StopServer, B!Drained, B!Cut,
       B!Look, B!Restart
<1> QED
  BY <1>2, <1>3, <1>4, <1>5, <1>6, <1>7, <1>8, <1>9, <1>10 DEF B!Next, B!Provision, B!Removal

-----------------------------------------------------------------------------
(***************************************************************************)
(* Pushes.  A request that is older than what was deployed is not pending  *)
(* any more, or what was deployed is still ahead of it, or it was committed *)
(* after that had left the queue.                                          *)
(***************************************************************************)

PushRequest == [status : {"none", "pending", "queued", "superseded"}, at : Nat, after : SUBSET P!Commit]
PushSweep   == [pc : {"rest", "begin", "compare", "lock", "supersede", "mark"}, c : 0..MaxPushes,
                queued : BOOLEAN, at : Nat]
PushPost    == [c : P!Commit, at : Nat]
PushRow     == [commit : P!Commit, pushed : BOOLEAN]

PushTyped ==
  /\ head \in 0..MaxPushes /\ known \in 0..MaxPushes /\ sent \subseteq P!Commit /\ seen \subseteq P!Commit
  /\ request \in [P!Commit -> PushRequest] /\ sweep \in PushSweep /\ table \in Seq(PushRow)
  /\ sweep.pc # "rest" => sweep.c \in P!Commit
  /\ posts \subseteq PushPost /\ clock \in Nat

\* Requests are dated as their transactions begin, each with a date of its own.
PushNumbered ==
  /\ \A c \in P!Commit : request[c].status # "none" => request[c].at <= clock
  /\ \A c, e \in P!Commit : request[c].status # "none" /\ request[e].status # "none"
                            /\ request[c].at = request[e].at => c = e
  /\ \A p \in posts : p.at <= clock
  /\ \A p \in posts : \A c \in P!Commit : request[c].status # "none" => request[c].at # p.at
  /\ \A p, q \in posts : q.at = p.at => q = p
  /\ \A p \in posts : sweep.pc = "compare" => sweep.at # p.at
  /\ sweep.pc = "compare" =>
       /\ sweep.at <= clock
       /\ \A c \in P!Commit : request[c].status # "none" => request[c].at # sweep.at

PushPending(c) == request[c].status = "pending"
PushAt(r)      == request[table[r].commit]
\* What is deployed for e stays before what is deployed for c.
PushFollows(e, c) == request[e].at < request[c].at \/ e \in request[c].after

PushOrdered ==
  /\ P!DeployedOnce /\ P!NewerStays
  /\ \A r \in 1..Len(table) : table[r].pushed =>
       /\ PushAt(r).status # "none"
       /\ PushAt(r).status # "pending" =>
            \A c \in P!Commit : PushPending(c) => PushFollows(table[r].commit, c)
       /\ sweep.pc = "lock" /\ PushAt(r).status = "pending" => PushAt(r).at <= request[sweep.c].at
  /\ sweep.pc \in {"lock", "supersede", "mark"} => request[sweep.c].status = "pending"
  /\ sweep.pc = "mark" /\ sweep.queued =>
       \A c \in P!Commit : PushPending(c) =>
         request[sweep.c].at <= request[c].at \/ sweep.c \in request[c].after
  /\ sweep.pc = "supersede" => sweep.queued
  /\ sweep.pc = "lock" => ~sweep.queued

\* The lock of the webhook is with one caller, who posts one only where there is none.
PushHooked ==
  /\ hooks \in {0, 1} /\ setup \in [Caller -> P!Set]
  /\ \A k \in Caller : setup[k] # "unset" => hooklock # 0
  /\ \A k, l \in Caller : setup[k] # "unset" /\ setup[l] # "unset" => k = l
  /\ \A k \in Caller : setup[k] = "post" => hooks = 0

PushInv == PushTyped /\ PushNumbered /\ PushOrdered /\ PushHooked

LEMMA PushBegins ==
  ASSUME P!Init
  PROVE  PushInv
<1>1. /\ \A c \in P!Commit : request[c].status = "none" /\ request[c] \in PushRequest
      /\ request \in [P!Commit -> PushRequest]
  BY DEF P!Init, PushRequest
<1>2. table = <<>> /\ Len(table) = 0 /\ table \in Seq(PushRow)
  BY DEF P!Init
<1>3. sweep \in PushSweep /\ sweep.pc = "rest"
  BY ParametersAssumption DEF P!Init, P!Sweep, P!NoHead, PushSweep
<1>4. PushTyped
  BY <1>1, <1>2, <1>3, ParametersAssumption DEF P!Init, P!NoHead, PushTyped
<1>5. PushNumbered
  BY <1>1, <1>3 DEF P!Init, PushNumbered
<1>6. PushOrdered
  BY <1>2, <1>3 DEF PushOrdered, P!DeployedOnce, P!NewerStays
<1>7. PushHooked
  BY DEF P!Init, PushHooked, P!Set
<1> QED
  BY <1>4, <1>5, <1>6, <1>7 DEF PushInv

\* The sweep writes nothing of an order: it begins, or it rests.
PushEarly(n) == /\ n \in PushSweep /\ n.pc \in {"rest", "begin", "compare"}
                /\ n.pc # "rest" => n.c \in P!Commit

\* Requests stay as they are.
LEMMA PushIdles ==
  ASSUME PushInv, UNCHANGED <<request, table, hooks, setup, hooklock>>,
         head' \in 0..MaxPushes, known' \in 0..MaxPushes, sent' \subseteq P!Commit, seen' \subseteq P!Commit,
         posts' \subseteq PushPost, clock' \in Nat, sweep' = sweep \/ PushEarly(sweep'), PushNumbered'
  PROVE  PushInv'
<1>1. PushTyped'
  BY DEF PushInv, PushTyped, PushEarly
<1>2. P!DeployedOnce' /\ P!NewerStays'
  BY DEF PushInv, PushOrdered, P!DeployedOnce, P!NewerStays
<1>3. PushOrdered'
  BY <1>2 DEF PushInv, PushOrdered, PushAt, PushPending, PushFollows, PushEarly
<1>4. PushHooked'
  BY DEF PushInv, PushHooked
<1> QED
  BY <1>1, <1>3, <1>4 DEF PushInv

\* A request appears: whoever had left the queue by then is noted with it.
LEMMA PushInserts ==
  ASSUME PushInv, NEW c \in P!Commit, NEW t \in Nat, P!Insert(c, t), t <= clock,
         \A e \in P!Commit : request[e].status # "none" => request[e].at # t,
         NEW u \in SUBSET posts, posts' = u, \A p \in u : p.at # t,
         known' \in 0..MaxPushes, seen' \subseteq P!Commit,
         \/ sweep' = sweep /\ (sweep.pc = "compare" => sweep.at # t)
         \/ sweep' = P!Sweep,
         UNCHANGED <<head, sent, clock, table, hooks, setup, hooklock>>
  PROVE  PushInv'
<1>1. request \in [P!Commit -> PushRequest] /\ \A e \in P!Commit : request[e] \in PushRequest
  BY DEF PushInv, PushTyped
<1>2. P!Sweep \in PushSweep /\ P!Sweep.pc = "rest"
  BY ParametersAssumption DEF P!Sweep, P!NoHead, PushSweep
<1>3. PICK n : n = [status |-> "pending", at |-> t, after |-> P!Past]
  OBVIOUS
<1>4. n \in PushRequest /\ n.status = "pending" /\ n.at = t /\ n.after = P!Past
  BY <1>3 DEF PushRequest, P!Past
<1>5. request' = IF request[c].status = "none" THEN [request EXCEPT ![c] = n] ELSE request
  BY <1>3 DEF P!Insert, P!Is
<1>6. \A e \in P!Commit : request'[e] = IF e = c /\ request[c].status = "none" THEN n ELSE request[e]
  BY <1>1, <1>5
<1>7. request' \in [P!Commit -> PushRequest]
  BY <1>1, <1>4, <1>5
<1>8. PushTyped'
  BY <1>2, <1>7 DEF PushInv, PushTyped
<1>9. PushNumbered'
  <2>1. \A e \in P!Commit : request'[e].status # "none" =>
          \/ e = c /\ request'[e].at = t /\ request[c].status = "none"
          \/ request[e].status # "none" /\ request'[e] = request[e]
    BY <1>4, <1>6
  <2>2. \A e \in P!Commit : request'[e].status # "none" => request'[e].at <= clock
    BY <2>1 DEF PushInv, PushNumbered
  <2>3. \A e, f \in P!Commit : request'[e].status # "none" /\ request'[f].status # "none"
                               /\ request'[e].at = request'[f].at => e = f
    BY <2>1 DEF PushInv, PushNumbered
  <2>4. \A p \in u : \A e \in P!Commit : request'[e].status # "none" => request'[e].at # p.at
    BY <2>1 DEF PushInv, PushNumbered
  <2>5. sweep'.pc = "compare" => /\ sweep' = sweep
                                /\ \A e \in P!Commit : request'[e].status # "none" => request'[e].at # sweep.at
    BY <1>2, <2>1 DEF PushInv, PushNumbered
  <2>6. \A p \in u : /\ p.at <= clock
                     /\ \A q \in u : q.at = p.at => q = p
                     /\ sweep.pc = "compare" => sweep.at # p.at
    BY DEF PushInv, PushNumbered
  <2>7. sweep'.pc = "compare" => sweep.at <= clock /\ \A p \in u : sweep'.at # p.at
    BY <2>5, <2>6 DEF PushInv, PushNumbered
  <2> QED
    BY <2>2, <2>3, <2>4, <2>5, <2>6, <2>7 DEF PushNumbered
<1>10. \A r \in 1..Len(table) : table[r].commit \in P!Commit
  <2>1. table \in Seq(PushRow)
    BY DEF PushInv, PushTyped
  <2>2. \A r \in 1..Len(table) : table[r] \in PushRow
    BY <2>1
  <2> QED
    BY <2>2 DEF PushRow
<1>11. \A r \in 1..Len(table) : table[r].pushed => PushAt(r).status # "none" /\ PushAt(r)' = PushAt(r)
  BY <1>6, <1>10 DEF PushInv, PushOrdered, PushAt
<1>12. P!DeployedOnce' /\ P!NewerStays'
  BY <1>11 DEF PushInv, PushOrdered, P!DeployedOnce, P!NewerStays, PushAt
<1>13. ASSUME NEW r \in 1..Len(table), table[r].pushed, PushAt(r).status # "pending", NEW e \in P!Commit,
              PushPending(e)'
       PROVE  PushFollows(table[r].commit, e)'
  <2>1. PushAt(r)' = PushAt(r) /\ PushAt(r).status # "none" /\ table[r].commit \in P!Commit
    BY <1>10, <1>11, <1>13
  <2>2. CASE request'[e] = request[e]
    BY <1>13, <2>1, <2>2 DEF PushInv, PushOrdered, PushPending, PushFollows, PushAt
  <2>3. CASE request'[e] # request[e]
    <3>1. request'[e] = n
      BY <1>6, <2>3
    <3>2. PushAt(r).status \in {"queued", "superseded"}
      BY <1>1, <1>13, <2>1 DEF PushAt, PushRequest
    <3>3. table[r].commit \in P!Past
      BY <2>1, <3>2 DEF P!Past, P!Is, PushAt
    <3> QED
      BY <1>4, <3>1, <3>3 DEF PushFollows
  <2> QED
    BY <2>2, <2>3
<1>14. sweep'.pc \in {"lock", "supersede", "mark"} =>
         sweep' = sweep /\ sweep.c \in P!Commit /\ request[sweep.c].status = "pending" /\ request'[sweep.c] = request[sweep.c]
  BY <1>2, <1>6 DEF PushInv, PushTyped, PushOrdered
<1>15. ASSUME sweep'.pc = "mark", sweep'.queued, NEW e \in P!Commit, PushPending(e)'
       PROVE  request'[sweep'.c].at <= request'[e].at \/ sweep'.c \in request'[e].after
  <2>1. CASE request'[e] = request[e]
    BY <1>14, <1>15, <2>1 DEF PushInv, PushOrdered, PushPending
  <2>2. CASE request'[e] # request[e]
    <3>1. request'[e] = n
      BY <1>6, <2>2
    <3>2. sweep.c \in P!Past
      BY <1>14, <1>15 DEF P!Past
    <3> QED
      BY <1>4, <1>14, <1>15, <3>1, <3>2
  <2> QED
    BY <2>1, <2>2
<1>16. \A r \in 1..Len(table') : table'[r].pushed =>
         /\ PushAt(r)'.status # "none"
         /\ PushAt(r)'.status # "pending" =>
              \A e \in P!Commit : PushPending(e)' => PushFollows(table[r].commit, e)'
         /\ sweep'.pc = "lock" /\ PushAt(r)'.status = "pending" => PushAt(r)'.at <= request'[sweep'.c].at
  BY <1>11, <1>13, <1>14 DEF PushInv, PushOrdered
<1>17. /\ sweep'.pc \in {"lock", "supersede", "mark"} => request'[sweep'.c].status = "pending"
       /\ sweep'.pc = "supersede" => sweep'.queued
       /\ sweep'.pc = "lock" => ~sweep'.queued
  BY <1>14 DEF PushInv, PushOrdered
<1>18. PushOrdered'
  BY <1>12, <1>15, <1>16, <1>17 DEF PushOrdered, PushFollows
<1>19. PushHooked'
  BY DEF PushInv, PushHooked
<1> QED
  BY <1>8, <1>9, <1>18, <1>19 DEF PushInv

LEMMA PushArrives ==
  ASSUME PushInv, \/ P!Push \/ P!Fetch \/ P!Begin \/ P!Compare \/ P!Finish
                  \/ (\E c \in P!Commit : P!Open(c) \/ P!Lose(c))
                  \/ (\E p \in posts : P!Deliver(p))
  PROVE  PushInv'
<1>1. /\ head \in 0..MaxPushes /\ known \in 0..MaxPushes /\ sent \subseteq P!Commit /\ seen \subseteq P!Commit
      /\ sweep \in PushSweep /\ (sweep.pc # "rest" => sweep.c \in P!Commit)
      /\ posts \subseteq PushPost /\ clock \in Nat
      /\ MaxPushes \in Nat /\ P!Commit = 1..MaxPushes
      /\ P!Sweep \in PushSweep /\ P!Sweep.pc = "rest" /\ PushNumbered
  BY ParametersAssumption DEF PushInv, PushTyped, PushSweep, P!Commit, P!Sweep, P!NoHead
<1>2. CASE P!Push
  <2>1. head + 1 \in P!Commit /\ head' = head + 1 /\ sent' \in {sent, sent \cup {head + 1}}
        /\ UNCHANGED <<seen, posts, clock, request, known, sweep, table, hooks, setup, hooklock>>
    BY <1>1, <1>2 DEF P!Push, P!hooking
  <2>2. head' \in 0..MaxPushes /\ sent' \subseteq P!Commit
    BY <1>1, <2>1
  <2>3. PushNumbered'
    BY <1>1, <2>1 DEF PushNumbered
  <2> QED
    BY <1>1, <2>1, <2>2, <2>3, PushIdles
<1>3. CASE P!Fetch
  <2>1. PICK n : n = [sweep EXCEPT !.pc = "begin", !.c = head]
    OBVIOUS
  <2>2. n \in PushSweep /\ n.pc = "begin" /\ n.c = head /\ head \in P!Commit
    <3>1. head \in P!Commit
      BY <1>1, <1>3 DEF P!Fetch, P!NoHead
    <3>2. PICK s \in PushSweep : s = sweep
      BY <1>1
    <3>3. PICK h \in 0..MaxPushes : h = head
      BY <1>1
    <3>4. n = [s EXCEPT !.pc = "begin", !.c = h]
      BY <2>1, <3>2, <3>3
    <3> QED
      BY <3>1, <3>3, <3>4 DEF PushSweep
  <2>3. sweep' = n /\ UNCHANGED <<head, sent, posts, clock, seen, request, known, table, hooks, setup, hooklock>>
    BY <1>3, <2>1 DEF P!Fetch, P!outer, P!hooking
  <2>4. PushNumbered'
    BY <1>1, <2>2, <2>3 DEF PushNumbered
  <2> QED
    BY <1>1, <2>2, <2>3, <2>4, PushIdles DEF PushEarly
<1>4. CASE P!Begin
  <2>1. /\ sweep.pc = "begin" /\ sweep.c \in P!Commit /\ sweep.c \in 0..MaxPushes
        /\ UNCHANGED <<head, sent, posts, seen, request, table, hooks, setup, hooklock>>
    BY <1>1, <1>4 DEF P!Begin, P!hooking, PushSweep
  <2>2. CASE P!Moved
    <3>1. PICK s \in PushSweep : s = sweep
      BY <1>1
    <3>2. PICK k \in Nat : k = clock
      BY <1>1
    <3>3. PICK n : n = [s EXCEPT !.pc = "compare", !.at = k + 1]
      OBVIOUS
    <3>4. n \in PushSweep /\ n.pc = "compare" /\ n.c = sweep.c /\ n.at = clock + 1
      <4>1. PICK l \in Nat : l = k + 1
        OBVIOUS
      <4>2. n = [s EXCEPT !.pc = "compare", !.at = l]
        BY <3>3, <4>1
      <4>3. n \in PushSweep /\ n.pc = "compare" /\ n.c = s.c /\ n.at = l
        BY <4>2 DEF PushSweep
      <4> QED
        BY <3>1, <3>2, <4>1, <4>3
    <3>5. sweep' = n /\ clock' = clock + 1 /\ UNCHANGED known
      BY <1>4, <2>2, <3>1, <3>2, <3>3 DEF P!Begin
    <3>6. /\ \A c \in P!Commit : request[c].status # "none" =>
               request[c].at <= clock' /\ request[c].at # clock + 1
          /\ \A p \in posts : p.at <= clock' /\ p.at # clock + 1
      <4>1. \A c \in P!Commit : request[c].at \in Nat
        BY DEF PushInv, PushTyped, PushRequest
      <4>2. \A p \in posts : p.at \in Nat
        BY <1>1 DEF PushPost
      <4> QED
        BY <1>1, <3>5, <4>1, <4>2 DEF PushNumbered
    <3>7. PushNumbered'
      BY <1>1, <2>1, <3>4, <3>5, <3>6 DEF PushNumbered
    <3> QED
      BY <1>1, <2>1, <3>4, <3>5, <3>7, PushIdles DEF PushEarly
  <2>3. CASE ~P!Moved
    <3>1. known' = sweep.c /\ sweep' = P!Sweep /\ UNCHANGED clock
      BY <1>4, <2>3 DEF P!Begin
    <3>2. PushNumbered'
      BY <1>1, <2>1, <3>1 DEF PushNumbered
    <3> QED
      BY <1>1, <2>1, <3>1, <3>2, PushIdles DEF PushEarly
  <2> QED
    BY <2>2, <2>3
<1>5. CASE P!Compare
  <2>1. sweep.pc = "compare" /\ sweep.c \in P!Commit /\ sweep.c \in 0..MaxPushes /\ sweep.at \in Nat
    BY <1>1, <1>5 DEF P!Compare, PushSweep
  <2>2. known' = sweep.c /\ sweep' = P!Sweep /\ P!Insert(sweep.c, sweep.at)
        /\ UNCHANGED <<head, sent, posts, clock, seen, table, hooks, setup, hooklock>>
    BY <1>5 DEF P!Compare, P!outer, P!hooking
  <2>3. /\ sweep.at <= clock /\ \A p \in posts : p.at # sweep.at
        /\ \A e \in P!Commit : request[e].status # "none" => request[e].at # sweep.at
    <3>1. /\ sweep.at <= clock
          /\ \A e \in P!Commit : request[e].status # "none" => request[e].at # sweep.at
      BY <1>1, <2>1 DEF PushNumbered
    <3>2. \A p \in posts : sweep.pc = "compare" => sweep.at # p.at
      BY <1>1 DEF PushNumbered
    <3> QED
      BY <2>1, <3>1, <3>2
  <2>4. PICK u \in SUBSET posts : u = posts
    OBVIOUS
  <2> QED
    BY <1>1, <2>1, <2>2, <2>3, <2>4, PushInserts
<1>6. CASE P!Finish
  <2>1. UNCHANGED <<head, sent, posts, clock, seen, request, known, sweep, table, hooks, setup, hooklock>>
    BY <1>6 DEF P!Finish, P!outer, P!hooking
  <2>2. PushNumbered'
    BY <1>1, <2>1 DEF PushNumbered
  <2> QED
    BY <1>1, <2>1, <2>2, PushIdles
<1>7. ASSUME NEW c \in P!Commit, P!Open(c) PROVE PushInv'
  <2>1. PICK k \in Nat : k = clock
    BY <1>1
  <2>2. PICK p : p = [c |-> c, at |-> k + 1]
    OBVIOUS
  <2>3. p \in PushPost /\ p.at = clock + 1
    BY <2>1, <2>2 DEF PushPost
  <2>4. /\ posts' = posts \cup {p} /\ clock' = clock + 1
        /\ UNCHANGED <<head, sent, seen, request, known, sweep, table, hooks, setup, hooklock>>
    BY <1>7, <2>1, <2>2 DEF P!Open, P!hooking
  <2>5. /\ \A e \in P!Commit : request[e].status # "none" =>
             request[e].at <= clock' /\ request[e].at # clock + 1
        /\ \A q \in posts : q.at <= clock' /\ q.at # clock + 1
        /\ sweep.pc = "compare" => sweep.at <= clock' /\ sweep.at # clock + 1
    <3>1. \A e \in P!Commit : request[e].at \in Nat
      BY DEF PushInv, PushTyped, PushRequest
    <3>2. \A q \in posts : q.at \in Nat
      BY <1>1 DEF PushPost
    <3>3. sweep.at \in Nat
      BY <1>1 DEF PushSweep
    <3> QED
      BY <1>1, <2>4, <3>1, <3>2, <3>3 DEF PushNumbered
  <2>6. p.at <= clock'
    BY <1>1, <2>3, <2>4
  <2>7. PushNumbered'
    BY <1>1, <2>3, <2>4, <2>5, <2>6 DEF PushNumbered
  <2>8. posts' \subseteq PushPost /\ clock' \in Nat
    BY <1>1, <2>3, <2>4
  <2> QED
    BY <1>1, <2>4, <2>7, <2>8, PushIdles
<1>8. ASSUME NEW c \in P!Commit, P!Lose(c) PROVE PushInv'
  <2>1. sent' \subseteq P!Commit
        /\ UNCHANGED <<head, seen, posts, clock, request, known, sweep, table, hooks, setup, hooklock>>
    BY <1>1, <1>8 DEF P!Lose, P!hooking
  <2>2. PushNumbered'
    BY <1>1, <2>1 DEF PushNumbered
  <2> QED
    BY <1>1, <2>1, <2>2, PushIdles
<1>9. ASSUME NEW p \in posts, P!Deliver(p) PROVE PushInv'
  <2>1. p.c \in P!Commit /\ p.at \in Nat
    BY <1>1 DEF PushPost
  <2>2. PICK u \in SUBSET posts : u = posts \ {p}
    OBVIOUS
  <2>3. /\ posts' = u /\ P!Insert(p.c, p.at) /\ seen' \subseteq P!Commit
        /\ UNCHANGED <<head, sent, clock, known, sweep, table, hooks, setup, hooklock>>
    BY <1>1, <1>9, <2>1, <2>2 DEF P!Deliver, P!hooking
  <2>4. /\ p.at <= clock /\ \A q \in u : q.at # p.at
        /\ \A e \in P!Commit : request[e].status # "none" => request[e].at # p.at
        /\ sweep.pc = "compare" => sweep.at # p.at
    <3>1. p.at <= clock /\ \A e \in P!Commit : request[e].status # "none" => request[e].at # p.at
      BY <1>1 DEF PushNumbered
    <3>2. sweep.pc = "compare" => sweep.at # p.at
      BY <1>1 DEF PushNumbered
    <3>3. \A q \in posts : q.at = p.at => q = p
      BY <1>1 DEF PushNumbered
    <3> QED
      BY <2>2, <3>1, <3>2, <3>3
  <2>5. PICK c \in P!Commit : c = p.c
    BY <2>1
  <2>6. PICK t \in Nat : t = p.at
    BY <2>1
  <2> QED
    BY <1>1, <2>3, <2>4, <2>5, <2>6, PushInserts
<1> QED
  BY <1>2, <1>3, <1>4, <1>5, <1>6, <1>7, <1>8, <1>9
\* The controller goes on with the request in hand.
LEMMA PushSweeps ==
  ASSUME PushInv, NEW n \in PushSweep, sweep' = n, n.pc # "rest" => n.c \in P!Commit,
         n.pc \in {"lock", "supersede", "mark"} => PushPending(n.c),
         n.pc = "lock" => \A e \in P!Commit : PushPending(e) => request[e].at <= request[n.c].at,
         n.pc = "mark" /\ n.queued =>
           \A c \in P!Commit : PushPending(c) => request[n.c].at <= request[c].at \/ n.c \in request[c].after,
         n.pc = "supersede" => n.queued, n.pc = "lock" => ~n.queued, n.pc \notin {"begin", "compare"},
         posts' = posts \/ posts' = {},
         UNCHANGED <<head, sent, clock, seen, request, known, table, hooks>>,
         UNCHANGED <<setup, hooklock>> \/ (setup' = [k \in Caller |-> "unset"] /\ hooklock' = 0)
  PROVE  PushInv'
<1>1. PushTyped'
  BY DEF PushInv, PushTyped
<1>2. PushNumbered'
  BY DEF PushInv, PushNumbered
<1>3. \A r \in 1..Len(table) : table[r].commit \in P!Commit
  <2>1. table \in Seq(PushRow)
    BY DEF PushInv, PushTyped
  <2>2. \A r \in 1..Len(table) : table[r] \in PushRow
    BY <2>1
  <2> QED
    BY <2>2 DEF PushRow
<1>4. PushOrdered'
  BY <1>3 DEF PushInv, PushOrdered, P!DeployedOnce, P!NewerStays, PushAt, PushPending, PushFollows
<1>5. PushHooked'
  BY DEF PushInv, PushHooked, P!Set
<1> QED
  BY <1>1, <1>2, <1>4, <1>5 DEF PushInv

LEMMA PushConstants ==
  /\ MaxPushes \in Nat /\ P!Commit = 1..MaxPushes /\ P!Sweep \in PushSweep
  /\ P!Sweep.pc = "rest" /\ P!Sweep.queued = FALSE
BY ParametersAssumption DEF P!Commit, P!Sweep, P!NoHead, PushSweep

LEMMA PushTakes ==
  ASSUME PushInv, NEW c \in P!Commit, P!Take(c)
  PROVE  PushInv'
<1>1. PICK n : n = [P!Sweep EXCEPT !.pc = "lock", !.c = c]
  OBVIOUS
<1>2. n \in PushSweep /\ n.pc = "lock" /\ n.c = c /\ ~n.queued
  <2>1. PICK s \in PushSweep : s = P!Sweep /\ ~s.queued
    BY PushConstants
  <2>2. n = [s EXCEPT !.pc = "lock", !.c = c] /\ c \in 0..MaxPushes
    BY <1>1, <2>1, PushConstants
  <2> QED
    BY <2>1, <2>2 DEF PushSweep
<1>3. /\ sweep' = n /\ PushPending(c) /\ \A e \in P!Commit : PushPending(e) => request[e].at <= request[c].at
      /\ UNCHANGED <<head, sent, posts, clock, seen, request, known, table, hooks, setup, hooklock>>
  BY <1>1 DEF P!Take, P!Newest, P!Is, PushPending, P!outer, P!hooking
<1> QED
  BY <1>2, <1>3, PushSweeps

\* A deployment is appended, at the request of the owner or of the push in hand.
LEMMA PushAppends ==
  ASSUME PushInv, NEW line \in PushRow, table' = Append(table, line), NEW n \in PushSweep, sweep' = n,
         n = sweep \/ (n.pc = "supersede" /\ n.queued /\ n.c = sweep.c),
         line.pushed => /\ sweep.pc = "lock" /\ n.pc = "supersede" /\ line.commit = sweep.c
                       /\ \A r \in 1..Len(table) : table[r].commit # line.commit,
         n # sweep => line.pushed,
         UNCHANGED <<head, sent, posts, clock, seen, request, known, hooks, setup, hooklock>>
  PROVE  PushInv'
<1>1. table \in Seq(PushRow) /\ Len(table) \in Nat
  BY DEF PushInv, PushTyped
<1>2. /\ table' \in Seq(PushRow) /\ Len(table') = Len(table) + 1 /\ table'[Len(table) + 1] = line
      /\ \A r \in 1..Len(table) : table'[r] = table[r]
  BY <1>1
<1>3. \A r \in 1..Len(table) : table[r] \in PushRow
  BY <1>1
<1>4. \A r \in 1..Len(table) : table[r].commit \in P!Commit
  BY <1>3 DEF PushRow
<1>5. PushTyped'
  BY <1>2 DEF PushInv, PushTyped
<1>6. PushNumbered'
  BY DEF PushInv, PushNumbered
<1>7. P!DeployedOnce'
  <2> SUFFICES ASSUME NEW r \in 1..Len(table'), NEW s \in 1..Len(table'), r < s, table'[s].pushed
               PROVE  table'[r].commit # table'[s].commit
    BY DEF P!DeployedOnce
  <2>1. CASE s \in 1..Len(table)
    BY <1>1, <1>2, <2>1 DEF PushInv, PushOrdered, P!DeployedOnce
  <2>2. CASE s = Len(table) + 1
    BY <1>1, <1>2, <2>2
  <2> QED
    BY <1>1, <1>2, <2>1, <2>2
<1>8. \A c \in P!Commit : request[c] \in PushRequest /\ request[c].at \in Nat
  BY DEF PushInv, PushTyped, PushRequest
<1>9. ASSUME line.pushed, NEW r \in 1..Len(table), table[r].pushed
      PROVE  PushFollows(table[r].commit, line.commit)
  <2>1. sweep.pc = "lock" /\ line.commit = sweep.c /\ sweep.c \in P!Commit /\ PushPending(line.commit)
    BY <1>9 DEF PushInv, PushTyped, PushOrdered, PushPending
  <2>2. PushAt(r).status # "none" /\ table[r].commit \in P!Commit /\ table[r].commit # line.commit
    BY <1>4, <1>9 DEF PushInv, PushOrdered
  <2>3. PushAt(r).at # request[line.commit].at
    BY <2>1, <2>2 DEF PushInv, PushNumbered, PushAt, PushPending
  <2>4. PushAt(r).at \in Nat /\ request[line.commit].at \in Nat
    BY <1>8, <2>1, <2>2 DEF PushAt
  <2>5. CASE PushAt(r).status = "pending"
    <3>1. PushAt(r).at <= request[line.commit].at
      BY <1>9, <2>1, <2>5 DEF PushInv, PushOrdered
    <3> QED
      BY <2>3, <2>4, <3>1 DEF PushFollows, PushAt
  <2>6. CASE PushAt(r).status # "pending"
    BY <1>9, <2>1, <2>6 DEF PushInv, PushOrdered
  <2> QED
    BY <2>5, <2>6
<1>10. P!NewerStays'
  <2> SUFFICES ASSUME NEW r \in 1..Len(table'), NEW s \in 1..Len(table'), r < s, table'[r].pushed, table'[s].pushed
               PROVE  \/ request'[table'[r].commit].at < request'[table'[s].commit].at
                      \/ table'[r].commit \in request'[table'[s].commit].after
    BY DEF P!NewerStays
  <2>1. CASE s \in 1..Len(table)
    BY <1>1, <1>2, <2>1 DEF PushInv, PushOrdered, P!NewerStays
  <2>2. CASE s = Len(table) + 1
    <3>1. r \in 1..Len(table) /\ table'[s] = line /\ table'[r] = table[r]
      BY <1>1, <1>2, <2>2
    <3>2. PushFollows(table[r].commit, line.commit)
      BY <1>9, <3>1
    <3> QED
      BY <3>1, <3>2 DEF PushFollows
  <2> QED
    BY <1>1, <1>2, <2>1, <2>2
<1>11. \A r \in 1..Len(table') : table'[r].pushed =>
       /\ PushAt(r)'.status # "none"
       /\ PushAt(r)'.status # "pending" =>
            \A c \in P!Commit : PushPending(c)' => PushFollows(table[r].commit, c)'
       /\ sweep'.pc = "lock" /\ PushAt(r)'.status = "pending" => PushAt(r)'.at <= request'[sweep'.c].at
  <2> SUFFICES ASSUME NEW r \in 1..Len(table'), table'[r].pushed
               PROVE  /\ PushAt(r)'.status # "none"
                      /\ PushAt(r)'.status # "pending" =>
                           \A c \in P!Commit : PushPending(c)' => PushFollows(table[r].commit, c)'
                      /\ sweep'.pc = "lock" /\ PushAt(r)'.status = "pending" => PushAt(r)'.at <= request'[sweep'.c].at
    OBVIOUS
  <2>1. CASE r \in 1..Len(table)
    <3>1. PushAt(r)' = PushAt(r) /\ table[r].pushed
      BY <1>2, <2>1 DEF PushAt
    <3> QED
      BY <1>2, <2>1, <3>1 DEF PushInv, PushOrdered, PushPending, PushFollows
  <2>2. CASE r = Len(table) + 1
    <3>1. PushAt(r)' = request[sweep.c] /\ sweep.pc = "lock" /\ n.pc = "supersede"
      BY <1>2, <2>2 DEF PushAt
    <3>2. request[sweep.c].status = "pending"
      BY <3>1 DEF PushInv, PushOrdered
    <3> QED
      BY <3>1, <3>2
  <2> QED
    BY <1>1, <1>2, <2>1, <2>2
<1>12. /\ sweep'.pc \in {"lock", "supersede", "mark"} => request'[sweep'.c].status = "pending"
       /\ sweep'.pc = "mark" /\ sweep'.queued =>
            \A c \in P!Commit : PushPending(c)' =>
              request'[sweep'.c].at <= request'[c].at \/ sweep'.c \in request'[c].after
       /\ sweep'.pc = "supersede" => sweep'.queued
       /\ sweep'.pc = "lock" => ~sweep'.queued
  BY DEF PushInv, PushOrdered, PushPending
<1>13. PushOrdered'
  BY <1>7, <1>10, <1>11, <1>12 DEF PushOrdered
<1>14. PushHooked'
  BY DEF PushInv, PushHooked
<1> QED
  BY <1>5, <1>6, <1>13, <1>14 DEF PushInv

LEMMA PushQueues ==
  ASSUME PushInv, P!Queue
  PROVE  PushInv'
<1>1. /\ sweep \in PushSweep /\ sweep.pc = "lock" /\ sweep.c \in P!Commit
      /\ UNCHANGED <<head, sent, posts, clock, seen, request, known, hooks, setup, hooklock>>
  BY DEF PushInv, PushTyped, P!Queue, P!outer, P!hooking
<1>2. PICK s \in PushSweep : s = sweep
  BY <1>1
<1>3. PICK n : n = [s EXCEPT !.pc = "supersede", !.queued = TRUE]
  OBVIOUS
<1>4. n \in PushSweep /\ n.pc = "supersede" /\ n.queued /\ n.c = sweep.c
  BY <1>2, <1>3 DEF PushSweep
<1>5. PICK m : m = [s EXCEPT !.pc = "mark"]
  OBVIOUS
<1>6. m \in PushSweep /\ m.pc = "mark" /\ m.c = sweep.c /\ m.queued = sweep.queued
  BY <1>2, <1>5 DEF PushSweep
<1>7. PushPending(sweep.c)
  BY <1>1 DEF PushInv, PushOrdered, PushPending
<1>8. CASE UNCHANGED table /\ sweep' = n
  BY <1>1, <1>4, <1>7, <1>8, PushSweeps
<1>9. CASE UNCHANGED table /\ sweep' = m
  <2>1. ~sweep.queued
    BY <1>1 DEF PushInv, PushOrdered
  <2> QED
    BY <1>1, <1>6, <1>7, <1>9, <2>1, PushSweeps
<1>10. CASE table' = Append(table, [commit |-> sweep.c, pushed |-> TRUE]) /\ sweep' = n /\ ~P!Already(sweep.c)
  <2>1. PICK line : line = [commit |-> sweep.c, pushed |-> TRUE]
    OBVIOUS
  <2>2. line \in PushRow /\ line.commit = sweep.c /\ line.pushed
    BY <1>1, <2>1 DEF PushRow
  <2>3. \A r \in 1..Len(table) : table[r].commit # line.commit
    BY <1>10, <2>2 DEF P!Already
  <2> QED
    BY <1>1, <1>4, <1>10, <2>1, <2>2, <2>3, PushAppends
<1> QED
  BY <1>2, <1>3, <1>5, <1>7, <1>8, <1>9, <1>10 DEF P!Queue, P!Is, PushPending

LEMMA PushManuals ==
  ASSUME PushInv, NEW c \in P!Commit, P!Manual(c)
  PROVE  PushInv'
<1>1. PICK line : line = [commit |-> c, pushed |-> FALSE]
  OBVIOUS
<1>2. line \in PushRow /\ ~line.pushed
  BY <1>1 DEF PushRow
<1>3. table' = Append(table, line) /\ UNCHANGED <<head, sent, posts, clock, seen, request, known, sweep, hooks, setup, hooklock>>
  BY <1>1 DEF P!Manual, P!outer, P!hooking
<1>4. sweep \in PushSweep
  BY DEF PushInv, PushTyped
<1> QED
  BY <1>2, <1>3, <1>4, PushAppends

\* Requests leave the queue: nothing that is still pending is older.
LEMMA PushLeaves ==
  ASSUME PushInv, request' \in [P!Commit -> PushRequest],
         \A e \in P!Commit : /\ request'[e].at = request[e].at /\ request'[e].after = request[e].after
                             /\ request'[e].status = "none" <=> request[e].status = "none"
                             /\ PushPending(e)' => PushPending(e),
         \A e \in P!Commit : PushPending(e) /\ ~PushPending(e)' =>
           \A c \in P!Commit : PushPending(c)' => PushFollows(e, c),
         NEW n \in PushSweep, sweep' = n, n.pc \in {"rest", "mark"},
         n.pc = "mark" => n.c \in P!Commit /\ PushPending(n.c)',
         n.pc = "mark" => \A c \in P!Commit : PushPending(c)' =>
                           request[n.c].at <= request[c].at \/ n.c \in request[c].after,
         UNCHANGED <<head, sent, posts, clock, seen, known, table, hooks, setup, hooklock>>
  PROVE  PushInv'
<1>1. PushTyped'
  BY DEF PushInv, PushTyped
<1>2. PushNumbered'
  BY DEF PushInv, PushNumbered
<1>3. \A r \in 1..Len(table) : table[r].commit \in P!Commit
  <2>1. table \in Seq(PushRow)
    BY DEF PushInv, PushTyped
  <2>2. \A r \in 1..Len(table) : table[r] \in PushRow
    BY <2>1
  <2> QED
    BY <2>2 DEF PushRow
<1>4. P!DeployedOnce'
  BY DEF PushInv, PushOrdered, P!DeployedOnce
<1>5. P!NewerStays'
  BY <1>3 DEF PushInv, PushOrdered, P!NewerStays
<1>6. ASSUME NEW r \in 1..Len(table), table[r].pushed
      PROVE  /\ PushAt(r)'.status # "none"
             /\ PushAt(r)'.status # "pending" =>
                  \A c \in P!Commit : PushPending(c)' => PushFollows(table[r].commit, c)'
  <2>1. PushAt(r)' = request'[table[r].commit] /\ PushAt(r) = request[table[r].commit] /\ table[r].commit \in P!Commit
    BY <1>3 DEF PushAt
  <2>2. PushAt(r)'.status # "none"
    BY <1>6, <2>1 DEF PushInv, PushOrdered
  <2>3. ASSUME PushAt(r)'.status # "pending", NEW c \in P!Commit, PushPending(c)'
        PROVE  PushFollows(table[r].commit, c)'
    <3>1. PushFollows(table[r].commit, c)
      <4>1. CASE PushAt(r).status = "pending"
        BY <2>1, <2>3, <4>1 DEF PushPending
      <4>2. CASE PushAt(r).status # "pending"
        BY <1>6, <2>1, <2>3, <4>2 DEF PushInv, PushOrdered
      <4> QED
        BY <4>1, <4>2
    <3> QED
      BY <2>1, <3>1 DEF PushFollows
  <2> QED
    BY <2>2, <2>3
<1>7. PushOrdered'
  BY <1>4, <1>5, <1>6 DEF PushOrdered, PushPending
<1>8. PushHooked'
  BY DEF PushInv, PushHooked
<1> QED
  BY <1>1, <1>2, <1>7, <1>8 DEF PushInv

LEMMA PushSupersedes ==
  ASSUME PushInv, P!Supersede
  PROVE  PushInv'
<1>1. /\ sweep \in PushSweep /\ sweep.pc = "supersede" /\ sweep.c \in P!Commit /\ PushPending(sweep.c)
      /\ UNCHANGED <<head, sent, posts, clock, seen, known, table, hooks, setup, hooklock>>
  BY DEF PushInv, PushTyped, PushOrdered, P!Supersede, PushPending, P!outer, P!hooking
<1>2. PICK s \in PushSweep : s = sweep
  BY <1>1
<1>3. PICK n : n = [s EXCEPT !.pc = "mark"]
  OBVIOUS
<1>4. n \in PushSweep /\ n.pc = "mark" /\ n.c = sweep.c /\ sweep' = n
  BY <1>2, <1>3 DEF PushSweep, P!Supersede
<1>5. \A e \in P!Commit : request[e] \in PushRequest /\ request[e].at \in Nat
  BY DEF PushInv, PushTyped, PushRequest
<1>6. \A e \in P!Commit : request'[e] = IF e \in P!Older(sweep.c) THEN [request[e] EXCEPT !.status = "superseded"]
                                      ELSE request[e]
  BY DEF P!Supersede
<1>7. ASSUME NEW e \in P!Commit
      PROVE  /\ request'[e] \in PushRequest /\ request'[e].at = request[e].at
             /\ request'[e].after = request[e].after
             /\ IF PushPending(e) /\ request[e].at < request[sweep.c].at
                THEN request'[e].status = "superseded" ELSE request'[e].status = request[e].status
  <2>1. PICK d : d = [request[e] EXCEPT !.status = "superseded"]
    OBVIOUS
  <2>2. d \in PushRequest /\ d.status = "superseded" /\ d.at = request[e].at /\ d.after = request[e].after
    BY <1>5, <2>1 DEF PushRequest
  <2>3. request'[e] = IF PushPending(e) /\ request[e].at < request[sweep.c].at THEN d ELSE request[e]
    BY <1>6, <2>1 DEF P!Older, P!Is, PushPending
  <2> QED
    BY <1>5, <2>2, <2>3
<1>8. request' \in [P!Commit -> PushRequest]
  BY <1>7 DEF P!Supersede
<1>9. \A e \in P!Commit : PushPending(e)' <=> PushPending(e) /\ ~(request[e].at < request[sweep.c].at)
  BY <1>7 DEF PushPending
<1>10. request[sweep.c].at \in Nat /\ PushPending(n.c)'
  BY <1>1, <1>4, <1>5, <1>9 DEF PushPending
<1>11. \A c \in P!Commit : PushPending(c)' => request[sweep.c].at <= request[c].at
  BY <1>5, <1>9, <1>10
<1>12. \A e \in P!Commit : PushPending(e) /\ ~PushPending(e)' =>
         \A c \in P!Commit : PushPending(c)' => PushFollows(e, c)
  BY <1>5, <1>9, <1>10, <1>11 DEF PushFollows
<1>13. \A e \in P!Commit : /\ request'[e].at = request[e].at /\ request'[e].after = request[e].after
                           /\ request'[e].status = "none" <=> request[e].status = "none"
                           /\ PushPending(e)' => PushPending(e)
  BY <1>7, <1>9 DEF PushPending
<1> QED
  BY <1>1, <1>4, <1>8, <1>10, <1>11, <1>12, <1>13, PushLeaves

LEMMA PushMarks ==
  ASSUME PushInv, P!Mark
  PROVE  PushInv'
<1>1. PICK c \in P!Commit : c = sweep.c
  BY DEF PushInv, PushTyped, P!Mark
<1>2. /\ sweep.pc = "mark" /\ PushPending(c) /\ request[c] \in PushRequest /\ request \in [P!Commit -> PushRequest]
      /\ sweep' = P!Sweep /\ UNCHANGED <<head, sent, posts, clock, seen, known, table, hooks, setup, hooklock>>
  BY <1>1 DEF PushInv, PushTyped, PushOrdered, P!Mark, PushPending, P!outer, P!hooking
<1>3. PICK n : n = [request[c] EXCEPT !.status = IF sweep.queued THEN "queued" ELSE "pending"]
  OBVIOUS
<1>4. n \in PushRequest /\ n.at = request[c].at /\ n.after = request[c].after /\ n.status = (IF sweep.queued THEN "queued" ELSE "pending")
  BY <1>2, <1>3 DEF PushRequest
<1>5. request' = [request EXCEPT ![c] = n]
  BY <1>1, <1>3 DEF P!Mark
<1>6. \A e \in P!Commit : request'[e] = IF e = c THEN n ELSE request[e]
  BY <1>2, <1>5
<1>7. \A e \in P!Commit : PushPending(e)' <=> PushPending(e) /\ (e = c => ~sweep.queued)
  BY <1>2, <1>4, <1>6 DEF PushPending
<1>8. ASSUME NEW e \in P!Commit, PushPending(e), ~PushPending(e)', NEW d \in P!Commit, PushPending(d)'
      PROVE  PushFollows(e, d)
  <2>1. e = c /\ sweep.queued /\ d # c /\ PushPending(d)
    BY <1>7, <1>8
  <2>2. request[c].at <= request[d].at \/ c \in request[d].after
    BY <1>1, <1>2, <2>1 DEF PushInv, PushOrdered
  <2>3. request[c].at # request[d].at
    BY <1>2, <2>1 DEF PushInv, PushNumbered, PushPending
  <2>4. request[c].at \in Nat /\ request[d].at \in Nat
    BY <1>2 DEF PushRequest
  <2> QED
    BY <2>1, <2>2, <2>3, <2>4 DEF PushFollows
<1>9. \A e \in P!Commit : /\ request'[e].at = request[e].at /\ request'[e].after = request[e].after
                          /\ request'[e].status = "none" <=> request[e].status = "none"
                          /\ PushPending(e)' => PushPending(e)
  BY <1>2, <1>4, <1>6, <1>7 DEF PushPending
<1>10. request' \in [P!Commit -> PushRequest]
  BY <1>2, <1>4, <1>5
<1> QED
  BY <1>2, <1>8, <1>9, <1>10, PushConstants, PushLeaves

LEMMA PushHooks ==
  ASSUME PushInv, NEW k \in Caller, P!Ensure(k) \/ P!ListHooks(k) \/ P!SetHook(k)
  PROVE  PushInv'
<1>1. PushHooked
  BY DEF PushInv
<1>2. PushHooked'
  <2>1. CASE P!Ensure(k)
    BY <1>1, <2>1 DEF PushHooked, P!Ensure, P!Set
  <2>2. CASE P!ListHooks(k)
    <3>1. CASE setup' = [setup EXCEPT ![k] = "unset"] /\ hooklock' = 0 /\ UNCHANGED hooks
      BY <1>1, <2>2, <3>1 DEF PushHooked, P!ListHooks, P!Set
    <3>2. CASE setup' = [setup EXCEPT ![k] = IF hooks > 0 THEN "patch" ELSE "post"] /\ UNCHANGED <<hooklock, hooks>>
      BY <1>1, <2>2, <3>2 DEF PushHooked, P!ListHooks, P!Set
    <3> QED
      BY <2>2, <3>1, <3>2 DEF P!ListHooks
  <2>3. CASE P!SetHook(k)
    <3>1. hooks' \in {0, 1}
      BY <1>1, <2>3 DEF PushHooked, P!SetHook
    <3>2. setup' = [setup EXCEPT ![k] = "unset"] /\ setup[k] # "unset" /\ hooklock' = 0
      BY <2>3 DEF P!SetHook
    <3>3. \A l \in Caller : setup'[l] = "unset"
      BY <1>1, <3>2 DEF PushHooked
    <3>4. setup' \in [Caller -> P!Set]
      BY <1>1, <3>2 DEF PushHooked, P!Set
    <3> QED
      BY <3>1, <3>3, <3>4 DEF PushHooked
  <2> QED
    BY <2>1, <2>2, <2>3
<1>3. UNCHANGED <<head, sent, posts, clock, seen, request, known, sweep, table>>
  BY DEF P!Ensure, P!ListHooks, P!SetHook, P!outer
<1>4. PushTyped' /\ PushNumbered' /\ PushOrdered'
  BY <1>3 DEF PushInv, PushTyped, PushNumbered, PushOrdered, PushAt, PushPending, PushFollows,
       P!DeployedOnce, P!NewerStays
<1> QED
  BY <1>2, <1>4 DEF PushInv

LEMMA PushRestarts ==
  ASSUME PushInv, P!Restart
  PROVE  PushInv'
<1>1. /\ sweep' = P!Sweep /\ setup' = [k \in Caller |-> "unset"] /\ hooklock' = 0
      /\ posts' = {} /\ UNCHANGED <<head, sent, clock, seen, request, known, table, hooks>>
  BY DEF P!Restart
<1> QED
  BY <1>1, PushConstants, PushSweeps

LEMMA PushKept ==
  ASSUME PushInv, [P!Next]_P!shvars
  PROVE  PushInv'
<1>1. CASE UNCHANGED P!shvars
  BY <1>1 DEF PushInv, PushTyped, PushNumbered, PushOrdered, PushHooked, PushAt, PushPending, PushFollows,
       P!DeployedOnce, P!NewerStays, P!shvars
<1>2. CASE P!Push \/ P!Controller \/ P!Finish \/ P!Restart
  BY <1>2, PushArrives, PushTakes, PushQueues, PushSupersedes, PushMarks, PushRestarts DEF P!Controller
<1>3. CASE (\E c \in P!Commit : P!Open(c) \/ P!Lose(c) \/ P!Manual(c)) \/ (\E p \in posts : P!Deliver(p))
  BY <1>3, PushArrives, PushManuals
<1>4. CASE \E k \in Caller : P!Ensure(k) \/ P!ListHooks(k) \/ P!SetHook(k)
  BY <1>4, PushHooks
<1> QED
  BY <1>1, <1>2, <1>3, <1>4 DEF P!Next

LEMMA PushPromises ==
  ASSUME PushInv
  PROVE  P!TypeOK /\ P!DeployedOnce /\ P!NewerStays /\ P!OneHook
<1>1. P!TypeOK
  BY DEF PushInv, PushTyped, PushHooked, PushRequest, P!TypeOK
<1> QED
  BY <1>1 DEF PushInv, PushOrdered, PushHooked, P!OneHook

-----------------------------------------------------------------------------
(***************************************************************************)
(* Domains.  What is made for a domain is made under its lock, while its   *)
(* row says that it is being provided, which it says only once.            *)
(***************************************************************************)

DomRow == [status : {"none", "provisioning", "pending", "deleting", "failed", "gone", "cleanup_failed"},
           tunnel : BOOLEAN, record : BOOLEAN]
DomProvides == {"tunnel", "savetunnel", "connector", "record", "saverecord", "pending"}
DomClears   == {"find", "unrecord", "delrecord", "forgetrecord", "unconnect", "untunnel", "forgettunnel", "clean"}
DomAct == [pc : {"rest", "lock", "route", "cleaned", "unclean"} \cup DomProvides \cup DomClears,
           d : Domain \cup {N!None}, tunnel : BOOLEAN, record : BOOLEAN,
           listed : {"none", "provisioning", "pending", "deleting"}]
DomZone == [kind : {"none", "own", "edited", "overtaken", "foreign"}, d : Domain \cup {N!None}]

DomTyped ==
  /\ row \in [Domain -> DomRow] /\ held \in [Domain -> N!Task \cup {N!Nobody}]
  /\ act \in [N!Task -> DomAct] /\ tunnels \subseteq Domain /\ runs \subseteq Domain /\ zone \in DomZone
  /\ \A t \in N!Task : act[t].pc # "rest" => act[t].d \in Domain

\* Its time to be provided for is over.
DomPast(d) == row[d].status \notin {"none", "provisioning"}

DomLocked ==
  /\ \A t \in N!Task : act[t].pc \in DomProvides \cup DomClears => held[act[t].d] = t
  /\ \A t \in N!Task : t = N!Owner /\ act[t].pc # "rest" => DomPast(act[t].d)
  /\ \A t \in N!Task : t = N!Observer /\ act[t].pc # "rest" /\ act[t].listed = "deleting" => DomPast(act[t].d)
  /\ \A t \in N!Task : t = N!Observer /\ act[t].pc \in DomClears \cup {"cleaned"} => act[t].listed = "deleting"

\* Nothing is left of it, and nobody is about to make anything.
DomSafe(d) ==
  /\ DomPast(d) /\ d \notin tunnels /\ d \notin runs /\ zone # N!Own(d)
  /\ \A t \in N!Task : act[t].pc \in DomProvides => act[t].d # d

\* How far a task has come with taking things back.
DomGot(a) ==
  /\ a.pc \in {"unrecord", "delrecord", "forgetrecord", "unconnect"} /\ ~a.tunnel => a.d \notin tunnels
  /\ a.pc \in {"forgetrecord", "unconnect", "untunnel", "forgettunnel", "clean"} => zone # N!Own(a.d)
  /\ a.pc = "delrecord" /\ zone.kind = "edited" => zone.d # a.d
  /\ a.pc = "untunnel" => a.d \notin runs
  /\ a.pc \in {"forgettunnel", "clean"} => a.d \notin tunnels

DomCleared ==
  /\ \A d \in runs : d \in tunnels
  /\ \A t \in N!Task : DomGot(act[t])
  /\ \A t \in N!Task : t # N!Creator /\ act[t].pc = "cleaned" => DomSafe(act[t].d)
  /\ \A d \in Domain : row[d].status = "gone" => DomSafe(d)

DomInv == DomTyped /\ DomLocked /\ DomCleared

LEMMA DomConstants ==
  /\ N!Rest \in DomAct /\ N!Rest.pc = "rest" /\ N!NoRow \in DomRow /\ N!NoRow.status = "none"
  /\ N!NoRecord \in DomZone /\ N!NoRecord.kind = "none" /\ N!None = "none" /\ N!None \notin Domain
  /\ \A d \in Domain : N!Own(d) \in DomZone /\ N!Own(d).kind = "own" /\ N!Own(d).d = d
  /\ N!Task = {N!Creator, N!Owner, N!Observer} /\ N!Nobody \notin N!Task
  /\ N!Creator # N!Owner /\ N!Creator # N!Observer /\ N!Owner # N!Observer
  /\ N!Live = {"pending"}
<1>1. N!None = "none" /\ N!None \notin Domain
  BY ParametersAssumption DEF N!None
<1>2. N!Rest \in DomAct /\ N!Rest.pc = "rest" /\ N!NoRow \in DomRow /\ N!NoRow.status = "none"
  BY <1>1 DEF N!Rest, N!NoRow, DomAct, DomRow
<1>3. N!NoRecord \in DomZone /\ N!NoRecord.kind = "none"
  BY <1>1 DEF N!NoRecord, DomZone
<1>4. \A d \in Domain : N!Own(d) \in DomZone /\ N!Own(d).kind = "own" /\ N!Own(d).d = d
  BY DEF N!Own, DomZone
<1> QED
  BY <1>1, <1>2, <1>3, <1>4 DEF N!Task, N!Nobody, N!Creator, N!Owner, N!Observer, N!Live

LEMMA DomBegins ==
  ASSUME N!Init
  PROVE  DomInv
<1>1. zone \in DomZone
  BY DomConstants DEF N!Init, DomZone
<1>2. DomTyped
  BY <1>1, DomConstants DEF N!Init, DomTyped
<1>3. DomLocked
  BY DomConstants DEF N!Init, DomLocked, DomProvides, DomClears
<1>4. DomCleared
  BY DomConstants DEF N!Init, DomCleared, DomGot
<1> QED
  BY <1>2, <1>3, <1>4 DEF DomInv

\* What a step of one task may do: it makes and takes things of its own domain alone,
\* under the lock, and no row goes back to the time when it was provided for.
LEMMA DomMoves ==
  ASSUME DomInv, NEW t \in N!Task, NEW n \in DomAct, act' = [act EXCEPT ![t] = n],
         n.pc # "rest" => n.d \in Domain,
         held' \in [Domain -> N!Task \cup {N!Nobody}],
         \A d \in Domain : \/ held'[d] = held[d] \/ (held[d] = t /\ held'[d] = N!Nobody)
                           \/ (held[d] = N!Nobody /\ held'[d] = t),
         n.pc \in DomProvides \cup DomClears => held'[n.d] = t,
         row' \in [Domain -> DomRow],
         \A d \in Domain : row[d].status # "none" => row'[d].status = row[d].status \/ DomPast(d)',
         t = N!Owner /\ n.pc # "rest" => DomPast(n.d)',
         t = N!Observer /\ n.pc # "rest" /\ n.listed = "deleting" => DomPast(n.d)',
         t = N!Observer /\ n.pc \in DomClears \cup {"cleaned"} => n.listed = "deleting",
         n.pc \in DomProvides => (act[t].pc \in DomProvides /\ act[t].d = n.d) \/ row[n.d].status = "provisioning",
         tunnels' \subseteq Domain, runs' \subseteq Domain, zone' \in DomZone,
         \A d \in tunnels' : d \in tunnels \/ (act[t].pc \in DomProvides /\ act[t].d = d),
         \A d \in runs' : d \in tunnels' /\ (d \in runs \/ (act[t].pc \in DomProvides /\ act[t].d = d)),
         \A d \in Domain : zone' = N!Own(d) => zone = N!Own(d) \/ (act[t].pc \in DomProvides /\ act[t].d = d),
         zone'.kind = "edited" => zone' = zone,
         DomGot(n)',
         t # N!Creator /\ n.pc = "cleaned" => DomSafe(n.d)
                                             \/ (act[t].pc = "clean" /\ act[t].d = n.d),
         \A d \in Domain : row'[d].status = "gone" => row[d].status = "gone" \/ DomSafe(d)
  PROVE  DomInv'
<1>1. \A s \in N!Task : act'[s] = IF s = t THEN n ELSE act[s]
  BY DEF DomInv, DomTyped
<1>2. \A s \in N!Task : act[s] \in DomAct /\ (act[s].pc # "rest" => act[s].d \in Domain)
  BY DEF DomInv, DomTyped
<1>3. DomTyped'
  BY <1>1, <1>2 DEF DomInv, DomTyped
<1>4. \A s \in N!Task : act[s].pc \in DomProvides \cup DomClears => held[act[s].d] = s /\ act[s].d \in Domain
  BY <1>2 DEF DomInv, DomLocked, DomProvides, DomClears
<1>5. \A d \in Domain : DomPast(d) => DomPast(d)'
  BY DEF DomPast
<1>6. DomLocked'
  <2>1. \A s \in N!Task : act'[s].pc \in DomProvides \cup DomClears => held'[act'[s].d] = s
    BY <1>1, <1>4, DomConstants
  <2>2. \A s \in N!Task : s = N!Owner /\ act'[s].pc # "rest" => DomPast(act[s].d)' \/ s = t
    BY <1>1, <1>2, <1>5 DEF DomInv, DomLocked
  <2>3. ASSUME NEW s \in N!Task, s = N!Owner, act'[s].pc # "rest" PROVE row'[act'[s].d].status \notin {"none", "provisioning"}
    <3>1. CASE s = t
      BY <1>1, <2>3, <3>1 DEF DomPast
    <3>2. CASE s # t
      <4>1. act'[s] = act[s] /\ act[s].d \in Domain /\ DomPast(act[s].d)
        BY <1>1, <1>2, <2>3, <3>2 DEF DomInv, DomLocked
      <4> QED
        BY <4>1 DEF DomPast
    <3> QED
      BY <3>1, <3>2
  <2>4. ASSUME NEW s \in N!Task, s = N!Observer, act'[s].pc # "rest", act'[s].listed = "deleting"
        PROVE  row'[act'[s].d].status \notin {"none", "provisioning"}
    <3>1. CASE s = t
      BY <1>1, <2>4, <3>1 DEF DomPast
    <3>2. CASE s # t
      <4>1. act'[s] = act[s] /\ act[s].d \in Domain /\ DomPast(act[s].d)
        BY <1>1, <1>2, <2>4, <3>2 DEF DomInv, DomLocked
      <4> QED
        BY <4>1 DEF DomPast
    <3> QED
      BY <3>1, <3>2
  <2>5. \A s \in N!Task : s = N!Observer /\ act'[s].pc \in DomClears \cup {"cleaned"} => act'[s].listed = "deleting"
    BY <1>1 DEF DomInv, DomLocked
  <2> QED
    BY <2>1, <2>3, <2>4, <2>5 DEF DomLocked, DomPast
\* A domain of which nothing is left stays so.
<1>7. ASSUME NEW d \in Domain, DomSafe(d) PROVE DomSafe(d)'
  <2>1. DomPast(d)' /\ ~(act[t].pc \in DomProvides /\ act[t].d = d)
    BY <1>5, <1>7 DEF DomSafe
  <2>2. d \notin tunnels' /\ d \notin runs' /\ zone' # N!Own(d)
    BY <1>7, <2>1 DEF DomSafe
  <2>3. \A s \in N!Task : act'[s].pc \in DomProvides => act'[s].d # d
    BY <1>1, <1>7, <2>1 DEF DomSafe, DomPast
  <2> QED
    BY <2>1, <2>2, <2>3 DEF DomSafe, N!Own
<1>8. ASSUME NEW s \in N!Task, s # t PROVE DomGot(act[s])'
  <2>1. CASE act[s].pc \notin DomClears
    BY <1>1, <1>8, <2>1 DEF DomGot, DomClears
  <2>2. CASE act[s].pc \in DomClears
    <3>1. act[s].d \in Domain /\ ~(act[t].pc \in DomProvides /\ act[t].d = act[s].d) /\ act'[s] = act[s]
      BY <1>1, <1>4, <1>8, <2>2
    <3>2. /\ act[s].d \in tunnels' => act[s].d \in tunnels
          /\ act[s].d \in runs' => act[s].d \in runs
          /\ zone' = N!Own(act[s].d) => zone = N!Own(act[s].d)
          /\ zone'.kind = "edited" => zone' = zone
      BY <3>1
    <3> QED
      BY <3>1, <3>2 DEF DomInv, DomCleared, DomGot, N!Own
  <2> QED
    BY <2>1, <2>2
<1>9. ASSUME NEW s \in N!Task, s # N!Creator, act'[s].pc = "cleaned" PROVE DomSafe(act[s].d)' \/ (s = t /\ DomSafe(n.d)')
  <2>1. CASE s # t
    <3>1. act[s].d \in Domain /\ DomSafe(act[s].d) /\ act'[s] = act[s]
      BY <1>1, <1>2, <1>9, <2>1 DEF DomInv, DomCleared
    <3>2. PICK d \in Domain : d = act[s].d
      BY <3>1
    <3>3. DomSafe(d)'
      BY <1>7, <3>1, <3>2
    <3> QED
      BY <3>1, <3>2, <3>3
  <2>2. CASE s = t
    <3>1. n.pc = "cleaned" /\ n.d \in Domain
      BY <1>1, <1>9, <2>2
    <3>2. CASE DomSafe(n.d)
      BY <1>7, <2>2, <3>1, <3>2
    <3>3. CASE act[t].pc = "clean" /\ act[t].d = n.d
      <4>1. DomPast(n.d) /\ n.d \notin tunnels /\ n.d \notin runs /\ zone # N!Own(n.d) /\ held[n.d] = t
        BY <1>4, <1>9, <2>2, <3>3, DomConstants DEF DomInv, DomLocked, DomCleared, DomGot, DomClears
      <4>2. \A r \in N!Task : act[r].pc \in DomProvides => act[r].d # n.d
        BY <1>4, <3>3, <4>1 DEF DomProvides, DomClears
      <4> QED
        BY <1>7, <2>2, <3>1, <4>1, <4>2 DEF DomSafe
    <3> QED
      BY <1>9, <2>2, <3>1, <3>2, <3>3
  <2> QED
    BY <2>1, <2>2
<1>10. DomCleared'
  <2>1. \A s \in N!Task : DomGot(act[s])'
    <3>1. ASSUME NEW s \in N!Task, s = t PROVE DomGot(act[s])'
      BY <1>1, <3>1 DEF DomGot, N!Own
    <3> QED
      BY <1>8, <3>1
  <2>2. ASSUME NEW s \in N!Task, s # N!Creator, act'[s].pc = "cleaned" PROVE DomSafe(act[s].d)'
    <3>1. CASE s = t
      <4>1. act'[s] = n
        BY <1>1, <3>1
      <4>2. DomSafe(act[s].d)' <=> DomSafe(n.d)'
        BY <4>1 DEF DomSafe, DomPast, N!Own
      <4> QED
        BY <1>9, <2>2, <4>2
    <3>2. CASE s # t
      BY <1>9, <2>2, <3>2
    <3> QED
      BY <3>1, <3>2
  <2>3. ASSUME NEW d \in Domain, row'[d].status = "gone" PROVE DomSafe(d)'
    <3>1. DomSafe(d)
      BY <2>3 DEF DomInv, DomCleared
    <3> QED
      BY <1>7, <3>1
  <2> QED
    BY <2>1, <2>2, <2>3 DEF DomCleared
<1> QED
  BY <1>3, <1>6, <1>10 DEF DomInv

\* What a step does at the providers and to the rows, in the words of DomMoves.
DomMakes(t) ==
  /\ tunnels' \subseteq Domain /\ runs' \subseteq Domain /\ zone' \in DomZone
  /\ \A d \in tunnels' : d \in tunnels \/ (act[t].pc \in DomProvides /\ act[t].d = d)
  /\ \A d \in runs' : d \in tunnels' /\ (d \in runs \/ (act[t].pc \in DomProvides /\ act[t].d = d))
  /\ \A d \in Domain : zone' = N!Own(d) => zone = N!Own(d) \/ (act[t].pc \in DomProvides /\ act[t].d = d)
  /\ zone'.kind = "edited" => zone' = zone

DomRows ==
  /\ row' \in [Domain -> DomRow]
  /\ \A d \in Domain : row[d].status # "none" => row'[d].status = row[d].status \/ DomPast(d)'
  /\ \A d \in Domain : row'[d].status = "gone" => row[d].status = "gone" \/ DomSafe(d)

LEMMA DomIdle ==
  ASSUME DomInv, NEW t \in N!Task, UNCHANGED <<tunnels, runs, zone>>
  PROVE  DomMakes(t)
<1> QED
  BY DEF DomInv, DomTyped, DomCleared, DomMakes, N!Own

LEMMA DomSame ==
  ASSUME DomInv, UNCHANGED row
  PROVE  DomRows
<1> QED
  BY DEF DomInv, DomTyped, DomRows, DomPast

\* A field other than the status, of a row.
LEMMA DomFieldKept ==
  ASSUME DomInv, NEW d \in Domain, NEW r \in DomRow, r.status = row[d].status, row' = [row EXCEPT ![d] = r]
  PROVE  DomRows
<1>1. row' \in [Domain -> DomRow] /\ \A e \in Domain : row'[e] = IF e = d THEN r ELSE row[e]
  BY DEF DomInv, DomTyped
<1>2. \A e \in Domain : row'[e].status = row[e].status
  BY <1>1
<1> QED
  BY <1>1, <1>2 DEF DomRows, DomPast

LEMMA DomSet ==
  ASSUME DomInv, NEW d \in Domain, NEW status \in {"pending", "deleting", "failed", "gone", "cleanup_failed"},
         N!Set(d, status), status = "gone" => DomSafe(d)
  PROVE  DomRows /\ (N!Exists(d) => DomPast(d)') /\ (DomPast(d) => DomPast(d)')
<1>1. CASE ~N!Exists(d)
  BY <1>1, DomSame DEF N!Set, DomPast
<1>2. CASE N!Exists(d)
  <2>1. row[d] \in DomRow
    BY DEF DomInv, DomTyped
  <2>2. PICK r : r = [row[d] EXCEPT !.status = status]
    OBVIOUS
  <2>3. r \in DomRow /\ r.status = status
    BY <2>1, <2>2 DEF DomRow
  <2>4. row' = [row EXCEPT ![d] = r]
    BY <1>2, <2>2 DEF N!Set
  <2>5. row' \in [Domain -> DomRow] /\ \A e \in Domain : row'[e] = IF e = d THEN r ELSE row[e]
    BY <2>3, <2>4 DEF DomInv, DomTyped
  <2>6. DomPast(d)'
    BY <2>3, <2>5 DEF DomPast
  <2>7. ASSUME NEW e \in Domain, row[e].status # "none" PROVE row'[e].status = row[e].status \/ DomPast(e)'
    BY <2>5, <2>6
  <2>8. ASSUME NEW e \in Domain, row'[e].status = "gone" PROVE row[e].status = "gone" \/ DomSafe(e)
    BY <2>3, <2>5, <2>8
  <2> QED
    BY <2>5, <2>6, <2>7, <2>8 DEF DomRows
<1> QED
  BY <1>1, <1>2

\* A task ends: its lock goes with it, or is not its own.
LEMMA DomEnds ==
  ASSUME DomInv, NEW t \in N!Task, N!End(t), N!Unlock(t) \/ UNCHANGED held, DomMakes(t), DomRows
  PROVE  DomInv'
<1>1. \A d \in Domain : held[d] \in N!Task \cup {N!Nobody}
  BY DEF DomInv, DomTyped
<1>2. held' \in [Domain -> N!Task \cup {N!Nobody}]
  BY DEF DomInv, DomTyped, N!Unlock
<1>3. \A d \in Domain : held'[d] = held[d] \/ (held[d] = t /\ held'[d] = N!Nobody)
  BY DEF DomInv, DomTyped, N!Unlock
<1>4. PICK n \in DomAct : n = N!Rest
  BY DomConstants
<1>5. act' = [act EXCEPT ![t] = n] /\ n.pc = "rest"
  BY <1>4, DomConstants DEF N!End
<1>6. DomGot(n)'
  BY <1>5 DEF DomGot
<1> QED
  BY <1>2, <1>3, <1>5, <1>6, DomMoves DEF DomMakes, DomRows, DomProvides, DomClears

\* A task goes on with the same domain, and what it knows.
LEMMA DomGoes ==
  ASSUME DomInv, NEW t \in N!Task, NEW n \in DomAct, act' = [act EXCEPT ![t] = n],
         act[t].pc # "rest", n.d = act[t].d, n.listed = act[t].listed,
         n.pc \in DomProvides \cup DomClears => UNCHANGED held,
         n.pc \in DomProvides => act[t].pc \in DomProvides,
         n.pc \in DomClears => act[t].pc \in DomClears,
         n.pc = "cleaned" => act[t].pc = "clean",
         N!Unlock(t) \/ UNCHANGED held, DomMakes(t), DomRows, DomGot(n)'
  PROVE  DomInv'
<1>1. \A d \in Domain : held[d] \in N!Task \cup {N!Nobody}
  BY DEF DomInv, DomTyped
<1>2. held' \in [Domain -> N!Task \cup {N!Nobody}]
  BY DEF DomInv, DomTyped, N!Unlock
<1>3. \A d \in Domain : held'[d] = held[d] \/ (held[d] = t /\ held'[d] = N!Nobody)
  BY DEF DomInv, DomTyped, N!Unlock
<1>4. act[t].d \in Domain
  BY DEF DomInv, DomTyped
<1>5. PICK d \in Domain : d = n.d
  BY <1>4
<1>6. n.pc \in DomProvides \cup DomClears => held'[n.d] = t
  BY DEF DomInv, DomLocked
<1>7. DomPast(d) => DomPast(d)'
  BY DEF DomRows, DomPast
<1>8. t = N!Owner => DomPast(n.d)'
  BY <1>5, <1>7 DEF DomInv, DomLocked, DomPast
<1>9. t = N!Observer /\ n.listed = "deleting" => DomPast(n.d)'
  BY <1>5, <1>7 DEF DomInv, DomLocked, DomPast
<1>10. t = N!Observer /\ n.pc \in DomClears \cup {"cleaned"} => n.listed = "deleting"
  BY DEF DomInv, DomLocked, DomClears
<1> QED
  BY <1>2, <1>3, <1>5, <1>6, <1>8, <1>9, <1>10, DomMoves DEF DomMakes, DomRows

\* What follows an error.
LEMMA DomFails ==
  ASSUME DomInv, NEW t \in N!Task, act[t].pc # "rest", N!Failure(t), DomMakes(t), DomRows
  PROVE  DomInv'
<1>1. act[t] \in DomAct /\ act[t].d \in Domain
  BY DEF DomInv, DomTyped
<1>2. CASE t = N!Creator /\ act[t].listed = "provisioning"
  <2>1. PICK n : n = [N!Rest EXCEPT !.pc = "lock", !.d = act[t].d, !.listed = "deleting"]
    OBVIOUS
  <2>2. n \in DomAct /\ n.pc = "lock" /\ n.d \in Domain
    BY <1>1, <2>1, DomConstants DEF DomAct, N!Rest
  <2>3. act' = [act EXCEPT ![t] = n]
    BY <1>2, <2>1 DEF N!Failure
  <2>4. held' \in [Domain -> N!Task \cup {N!Nobody}]
    BY DEF DomInv, DomTyped, N!Unlock, N!Failure
  <2>5. \A d \in Domain : held'[d] = held[d] \/ (held[d] = t /\ held'[d] = N!Nobody)
    BY DEF DomInv, DomTyped, N!Unlock, N!Failure
  <2>6. DomGot(n)'
    BY <2>2 DEF DomGot
  <2> QED
    BY <1>2, <2>2, <2>3, <2>4, <2>5, <2>6, DomMoves, DomConstants DEF DomMakes, DomRows, DomProvides, DomClears
<1>3. CASE ~(t = N!Creator /\ act[t].listed = "provisioning") /\ t = N!Observer
  BY <1>3, DomEnds DEF N!Failure
<1>4. CASE ~(t = N!Creator /\ act[t].listed = "provisioning") /\ t # N!Observer
  <2>1. PICK n : n = [act[t] EXCEPT !.pc = "unclean"]
    OBVIOUS
  <2>2. n \in DomAct /\ n.pc = "unclean" /\ n.d = act[t].d /\ n.listed = act[t].listed
    BY <1>1, <2>1 DEF DomAct
  <2>3. act' = [act EXCEPT ![t] = n]
    BY <1>4, <2>1 DEF N!Failure, N!Go
  <2>4. DomGot(n)'
    BY <2>2 DEF DomGot
  <2> QED
    BY <2>2, <2>3, <2>4, DomGoes DEF N!Failure, DomProvides, DomClears
<1> QED
  BY <1>2, <1>3, <1>4

LEMMA DomTurn ==
  ASSUME DomInv, NEW t \in N!Task, NEW pc \in DomProvides \cup DomClears \cup {"cleaned", "unclean"}, N!Go(t, pc)
  PROVE  \E n \in DomAct : /\ n.pc = pc /\ n.d = act[t].d /\ n.listed = act[t].listed
                           /\ n.tunnel = act[t].tunnel /\ act' = [act EXCEPT ![t] = n]
<1>1. act[t] \in DomAct
  BY DEF DomInv, DomTyped
<1>2. PICK n : n = [act[t] EXCEPT !.pc = pc]
  OBVIOUS
<1>3. n \in DomAct /\ n.pc = pc /\ n.d = act[t].d /\ n.listed = act[t].listed /\ n.tunnel = act[t].tunnel
  BY <1>1, <1>2 DEF DomAct
<1>4. act' = [act EXCEPT ![t] = n]
  BY <1>2 DEF N!Go
<1> QED
  BY <1>3, <1>4

\* The rows are as they were, and the task goes on under its lock.
LEMMA DomWalks ==
  ASSUME DomInv, NEW t \in N!Task, NEW pc \in DomProvides \cup DomClears, N!Go(t, pc), UNCHANGED held,
         act[t].pc \in DomProvides \cup DomClears, pc \in DomProvides <=> act[t].pc \in DomProvides,
         DomMakes(t), DomRows,
         pc \in {"forgetrecord", "unconnect", "untunnel", "forgettunnel", "clean"} => zone' # N!Own(act[t].d),
         pc = "untunnel" => act[t].d \notin runs',
         pc \in {"forgettunnel", "clean"} => act[t].d \notin tunnels',
         pc = "delrecord" => zone' = N!Own(act[t].d),
         pc \in {"unrecord", "delrecord", "forgetrecord", "unconnect"} /\ ~act[t].tunnel => act[t].d \notin tunnels'
  PROVE  DomInv'
<1>1. PICK n \in DomAct : /\ n.pc = pc /\ n.d = act[t].d /\ n.listed = act[t].listed
                          /\ n.tunnel = act[t].tunnel /\ act' = [act EXCEPT ![t] = n]
  BY DomTurn
<1>2. DomGot(n)'
  <2>1. n.pc = "delrecord" => zone'.kind = "own"
    BY <1>1 DEF N!Own
  <2> QED
    BY <1>1, <2>1 DEF DomGot, N!Own
<1>3. n.pc # "cleaned" /\ act[t].pc # "rest"
  BY <1>1 DEF DomProvides, DomClears
<1>4. (n.pc \in DomProvides => act[t].pc \in DomProvides) /\ (n.pc \in DomClears => act[t].pc \in DomClears)
  BY <1>1 DEF DomProvides, DomClears
<1> QED
  BY <1>1, <1>2, <1>3, <1>4, DomGoes

LEMMA DomHolds ==
  ASSUME DomInv, NEW t \in N!Task, act[t].pc \in DomProvides \cup DomClears
  PROVE  act[t].d \in Domain /\ row[act[t].d] \in DomRow /\ act[t] \in DomAct
<1> QED
  BY DEF DomInv, DomTyped, DomProvides, DomClears

LEMMA DomTunnels ==
  ASSUME DomInv, NEW t \in N!Task, N!Tunnel(t)
  PROVE  DomInv'
<1>1. act[t].pc = "tunnel" /\ act[t].pc \in DomProvides /\ act[t].pc # "rest"
  BY DEF N!Tunnel, N!On, DomProvides
<1>2. DomRows /\ act[t].d \in Domain
  BY <1>1, DomSame, DomHolds DEF N!Tunnel
<1>3. tunnels' = tunnels \cup {act[t].d} \/ UNCHANGED tunnels
  BY DEF N!Tunnel, N!Call
<1>4. DomMakes(t)
  BY <1>1, <1>2, <1>3 DEF N!Tunnel, DomMakes, DomInv, DomTyped, DomCleared, N!Own
<1>5. CASE N!Failure(t)
  BY <1>1, <1>2, <1>4, <1>5, DomFails
<1>6. CASE N!Go(t, "connector") /\ UNCHANGED held
  BY <1>1, <1>2, <1>4, <1>6, DomWalks DEF DomProvides
<1>7. CASE N!Go(t, "savetunnel") /\ UNCHANGED held
  BY <1>1, <1>2, <1>4, <1>7, DomWalks DEF DomProvides
<1> QED
  BY <1>5, <1>6, <1>7 DEF N!Tunnel, N!Call

LEMMA DomConnectors ==
  ASSUME DomInv, NEW t \in N!Task, N!Connector(t)
  PROVE  DomInv'
<1>1. act[t].pc = "connector" /\ act[t].pc \in DomProvides /\ act[t].pc # "rest"
  BY DEF N!Connector, N!On, DomProvides
<1>2. DomRows /\ act[t].d \in Domain
  BY <1>1, DomSame, DomHolds DEF N!Connector
<1>3. (act[t].d \in tunnels /\ runs' = runs \cup {act[t].d}) \/ UNCHANGED runs
  BY DEF N!Connector, N!Call
<1>4. DomMakes(t)
  BY <1>1, <1>2, <1>3 DEF N!Connector, DomMakes, DomInv, DomTyped, DomCleared, N!Own
<1>5. CASE N!Failure(t)
  BY <1>1, <1>2, <1>4, <1>5, DomFails
<1>6. CASE N!Go(t, "record") /\ UNCHANGED held
  BY <1>1, <1>2, <1>4, <1>6, DomWalks DEF DomProvides
<1>7. CASE N!Go(t, "pending") /\ UNCHANGED held
  BY <1>1, <1>2, <1>4, <1>7, DomWalks DEF DomProvides
<1> QED
  BY <1>5, <1>6, <1>7 DEF N!Connector, N!Call

LEMMA DomRecords ==
  ASSUME DomInv, NEW t \in N!Task, N!Record(t)
  PROVE  DomInv'
<1>1. act[t].pc = "record" /\ act[t].pc \in DomProvides /\ act[t].pc # "rest"
  BY DEF N!Record, N!On, DomProvides
<1>2. DomRows /\ act[t].d \in Domain
  BY <1>1, DomSame, DomHolds DEF N!Record
<1>3. zone' = N!Own(act[t].d) \/ UNCHANGED zone
  BY DEF N!Record, N!Call
<1>4. PICK d \in Domain : d = act[t].d
  BY <1>2
<1>5. zone' \in DomZone
  BY <1>3, <1>4, DomConstants DEF DomInv, DomTyped
<1>6. \A e \in Domain : zone' = N!Own(e) => zone = N!Own(e) \/ act[t].d = e
  BY <1>3, <1>4, DomConstants
<1>7. DomMakes(t)
  <2>1. zone'.kind = "edited" => zone' = zone
    BY <1>3, <1>4, DomConstants
  <2> QED
    BY <1>1, <1>2, <1>5, <1>6, <2>1 DEF N!Record, DomMakes, DomInv, DomTyped, DomCleared
<1>8. CASE N!Failure(t)
  BY <1>1, <1>2, <1>7, <1>8, DomFails
<1>9. CASE N!Go(t, "saverecord") /\ UNCHANGED held
  BY <1>1, <1>2, <1>7, <1>9, DomWalks DEF DomProvides
<1> QED
  BY <1>8, <1>9 DEF N!Record, N!Call

LEMMA DomSavesTunnel ==
  ASSUME DomInv, NEW t \in N!Task, N!SaveTunnel(t)
  PROVE  DomInv'
<1>1. act[t].pc = "savetunnel" /\ act[t].pc \in DomProvides
  BY DEF N!SaveTunnel, N!On, DomProvides
<1>2. act[t].d \in Domain /\ row[act[t].d] \in DomRow /\ DomMakes(t)
  BY <1>1, DomHolds, DomIdle DEF N!SaveTunnel, N!provider
<1>3. PICK r : r = [row[act[t].d] EXCEPT !.tunnel = TRUE]
  OBVIOUS
<1>4. r \in DomRow /\ r.status = row[act[t].d].status
  BY <1>2, <1>3 DEF DomRow
<1>5. row' = [row EXCEPT ![act[t].d] = r]
  BY <1>3 DEF N!SaveTunnel
<1>6. DomRows
  BY <1>2, <1>4, <1>5, DomFieldKept
<1>7. DomGot(act[t])
  BY DEF DomInv, DomCleared
<1> QED
  BY <1>1, <1>2, <1>6, <1>7, DomWalks DEF N!SaveTunnel, N!provider, DomProvides, DomClears, DomGot, N!Own

LEMMA DomSavesRecord ==
  ASSUME DomInv, NEW t \in N!Task, N!SaveRecord(t)
  PROVE  DomInv'
<1>1. act[t].pc = "saverecord" /\ act[t].pc \in DomProvides
  BY DEF N!SaveRecord, N!On, DomProvides
<1>2. act[t].d \in Domain /\ row[act[t].d] \in DomRow /\ DomMakes(t)
  BY <1>1, DomHolds, DomIdle DEF N!SaveRecord, N!provider
<1>3. PICK r : r = [row[act[t].d] EXCEPT !.record = TRUE]
  OBVIOUS
<1>4. r \in DomRow /\ r.status = row[act[t].d].status
  BY <1>2, <1>3 DEF DomRow
<1>5. row' = [row EXCEPT ![act[t].d] = r]
  BY <1>3 DEF N!SaveRecord
<1>6. DomRows
  BY <1>2, <1>4, <1>5, DomFieldKept
<1>7. DomGot(act[t])
  BY DEF DomInv, DomCleared
<1> QED
  BY <1>1, <1>2, <1>6, <1>7, DomWalks DEF N!SaveRecord, N!provider, DomProvides, DomClears, DomGot, N!Own

LEMMA DomForgetsRecord ==
  ASSUME DomInv, NEW t \in N!Task, N!ForgetRecord(t)
  PROVE  DomInv'
<1>1. act[t].pc = "forgetrecord" /\ act[t].pc \in DomClears
  BY DEF N!ForgetRecord, N!On, DomClears
<1>2. act[t].d \in Domain /\ row[act[t].d] \in DomRow /\ DomMakes(t)
  BY <1>1, DomHolds, DomIdle DEF N!ForgetRecord, N!provider
<1>3. PICK r : r = [row[act[t].d] EXCEPT !.record = FALSE]
  OBVIOUS
<1>4. r \in DomRow /\ r.status = row[act[t].d].status
  BY <1>2, <1>3 DEF DomRow
<1>5. row' = [row EXCEPT ![act[t].d] = r]
  BY <1>3 DEF N!ForgetRecord
<1>6. DomRows
  BY <1>2, <1>4, <1>5, DomFieldKept
<1>7. DomGot(act[t])
  BY DEF DomInv, DomCleared
<1> QED
  BY <1>1, <1>2, <1>6, <1>7, DomWalks DEF N!ForgetRecord, N!provider, DomProvides, DomClears, DomGot, N!Own

LEMMA DomForgetsTunnel ==
  ASSUME DomInv, NEW t \in N!Task, N!ForgetTunnel(t)
  PROVE  DomInv'
<1>1. act[t].pc = "forgettunnel" /\ act[t].pc \in DomClears
  BY DEF N!ForgetTunnel, N!On, DomClears
<1>2. act[t].d \in Domain /\ row[act[t].d] \in DomRow /\ DomMakes(t)
  BY <1>1, DomHolds, DomIdle DEF N!ForgetTunnel, N!provider
<1>3. PICK r : r = [row[act[t].d] EXCEPT !.tunnel = FALSE]
  OBVIOUS
<1>4. r \in DomRow /\ r.status = row[act[t].d].status
  BY <1>2, <1>3 DEF DomRow
<1>5. row' = [row EXCEPT ![act[t].d] = r]
  BY <1>3 DEF N!ForgetTunnel
<1>6. DomRows
  BY <1>2, <1>4, <1>5, DomFieldKept
<1>7. DomGot(act[t])
  BY DEF DomInv, DomCleared
<1> QED
  BY <1>1, <1>2, <1>6, <1>7, DomWalks DEF N!ForgetTunnel, N!provider, DomProvides, DomClears, DomGot, N!Own

LEMMA DomPendings ==
  ASSUME DomInv, NEW t \in N!Task, N!Pending(t)
  PROVE  DomInv'
<1>1. act[t].pc \in DomProvides
  BY DEF N!Pending, N!On, DomProvides
<1>2. DomMakes(t) /\ act[t].d \in Domain
  BY <1>1, DomIdle, DomHolds DEF N!Pending, N!provider
<1>3. DomRows
  BY <1>2, DomSet DEF N!Pending
<1> QED
  BY <1>2, <1>3, DomEnds DEF N!Pending

LEMMA DomFinds ==
  ASSUME DomInv, NEW t \in N!Task, N!Find(t)
  PROVE  DomInv'
<1>1. act[t].pc = "find" /\ act[t].pc \in DomClears /\ act[t].pc # "rest"
  BY DEF N!Find, N!On, DomClears
<1>2. /\ act[t].d \in Domain /\ row[act[t].d] \in DomRow /\ act[t] \in DomAct
      /\ DomMakes(t)
  BY <1>1, DomHolds, DomIdle DEF N!Find, N!provider
<1>3. CASE N!Failure(t) /\ UNCHANGED row
  BY <1>1, <1>2, <1>3, DomSame, DomFails
<1>4. ASSUME NEW tunnel, tunnel = N!Found(t), NEW record, record = (act[t].record \/ N!Marked(act[t].d)),
             act' = [act EXCEPT ![t].pc = IF record THEN "unrecord" ELSE "unconnect",
                                ![t].tunnel = tunnel, ![t].record = record],
             row' = [row EXCEPT ![act[t].d].tunnel = tunnel, ![act[t].d].record = record], UNCHANGED held
      PROVE  DomInv'
  <2>1. tunnel \in BOOLEAN /\ record \in BOOLEAN
    <3>1. act[t].tunnel \in BOOLEAN /\ act[t].record \in BOOLEAN
      BY <1>2 DEF DomAct
    <3> QED
      BY Zenon, <3>1, <1>4 DEF N!Found, N!Marked
  <2>2. PICK r : r = [row[act[t].d] EXCEPT !.tunnel = tunnel, !.record = record]
    OBVIOUS
  <2>3. r \in DomRow /\ r.status = row[act[t].d].status
    BY <1>2, <2>1, <2>2 DEF DomRow
  <2>4. row' = [row EXCEPT ![act[t].d] = r]
    BY <1>2, <1>4, <2>2 DEF DomInv, DomTyped
  <2>5. DomRows
    BY <1>2, <2>3, <2>4, DomFieldKept
  <2>6. PICK n : n = [act[t] EXCEPT !.pc = IF record THEN "unrecord" ELSE "unconnect",
                                    !.tunnel = tunnel, !.record = record]
    OBVIOUS
  <2>7. n \in DomAct /\ n.pc = (IF record THEN "unrecord" ELSE "unconnect") /\ n.d = act[t].d
        /\ n.listed = act[t].listed /\ n.tunnel = tunnel
    BY <1>2, <2>1, <2>6 DEF DomAct, DomClears
  <2>8. act' = [act EXCEPT ![t] = n]
    BY <1>2, <1>4, <2>6 DEF DomInv, DomTyped
  <2>9. UNCHANGED <<tunnels, runs, zone>>
    BY DEF N!Find, N!provider
  <2>10. ~tunnel => act[t].d \notin tunnels
    BY <1>4 DEF N!Found
  <2>11. ~record => zone # N!Own(act[t].d)
    BY <1>2, <1>4, DomConstants DEF N!Marked
  <2>12. DomGot(n)'
    BY <2>7, <2>9, <2>10, <2>11 DEF DomGot, N!Own
  <2> QED
    BY <1>1, <1>2, <1>4, <2>5, <2>7, <2>8, <2>12, DomGoes DEF DomProvides, DomClears
<1> QED
  BY <1>3, <1>4 DEF N!Find

LEMMA DomChecks ==
  ASSUME DomInv, NEW t \in N!Task, N!CheckRecord(t)
  PROVE  DomInv'
<1>1. act[t].pc = "unrecord" /\ act[t].pc \in DomClears /\ act[t].pc # "rest"
  BY DEF N!CheckRecord, N!On, DomClears
<1>2. DomRows /\ act[t].d \in Domain /\ DomGot(act[t]) /\ DomMakes(t)
  BY <1>1, DomSame, DomIdle, DomHolds DEF N!CheckRecord, N!provider, DomInv, DomCleared
<1>3. UNCHANGED zone /\ UNCHANGED tunnels
  BY DEF N!CheckRecord, N!provider
<1>4. CASE N!Failure(t)
  BY <1>1, <1>2, <1>4, DomFails
<1>5. CASE N!Ours(act[t].d) /\ N!Go(t, "delrecord") /\ UNCHANGED held
  BY <1>1, <1>2, <1>3, <1>5, DomWalks DEF N!Ours, DomProvides, DomClears, DomGot
<1>6. CASE ~N!Ours(act[t].d) /\ N!Go(t, "forgetrecord") /\ UNCHANGED held
  BY <1>1, <1>2, <1>3, <1>6, DomWalks DEF N!Ours, DomProvides, DomClears, DomGot
<1> QED
  BY <1>4, <1>5, <1>6 DEF N!CheckRecord

LEMMA DomUnrecords ==
  ASSUME DomInv, NEW t \in N!Task, N!DeleteRecord(t)
  PROVE  DomInv'
<1>1. act[t].pc = "delrecord" /\ act[t].pc \in DomClears /\ act[t].pc # "rest"
  BY DEF N!DeleteRecord, N!On, DomClears
<1>2. DomRows /\ act[t].d \in Domain /\ DomGot(act[t])
  BY <1>1, DomSame, DomHolds DEF N!DeleteRecord, DomInv, DomCleared
<1>3. zone' = N!NoRecord \/ UNCHANGED zone
  BY DEF N!DeleteRecord, N!Call
<1>4. /\ zone' \in DomZone /\ \A e \in Domain : zone' = N!Own(e) => zone = N!Own(e)
      /\ zone'.kind = "edited" => zone' = zone
  BY <1>3, DomConstants DEF DomInv, DomTyped
<1>5. DomMakes(t)
  BY <1>4 DEF N!DeleteRecord, DomMakes, DomInv, DomTyped, DomCleared
<1>6. CASE N!Failure(t)
  BY <1>1, <1>2, <1>5, <1>6, DomFails
<1>7. CASE N!Go(t, "forgetrecord") /\ UNCHANGED held /\ zone' = IF N!Marked(act[t].d) THEN N!NoRecord ELSE zone
  <2>1. zone' # N!Own(act[t].d)
    BY <1>2, <1>7, DomConstants DEF N!Marked
  <2>2. UNCHANGED tunnels
    BY DEF N!DeleteRecord
  <2> QED
    BY <1>1, <1>2, <1>5, <1>7, <2>1, <2>2, DomWalks DEF DomProvides, DomClears, DomGot
<1> QED
  BY <1>6, <1>7 DEF N!DeleteRecord, N!Call

LEMMA DomStops ==
  ASSUME DomInv, NEW t \in N!Task, N!StopTunnel(t)
  PROVE  DomInv'
<1>1. act[t].pc = "unconnect" /\ act[t].pc \in DomClears /\ act[t].pc # "rest"
  BY DEF N!StopTunnel, N!On, DomClears
<1>2. DomRows /\ act[t].d \in Domain /\ DomGot(act[t])
  BY <1>1, DomSame, DomHolds DEF N!StopTunnel, DomInv, DomCleared
<1>3. UNCHANGED <<tunnels, zone>> /\ (runs' = runs \ {act[t].d} \/ UNCHANGED runs)
  BY DEF N!StopTunnel, N!Call
<1>4. DomMakes(t)
  BY <1>3 DEF DomMakes, DomInv, DomTyped, DomCleared, N!Own
<1>5. zone' # N!Own(act[t].d) /\ (~act[t].tunnel => act[t].d \notin tunnels')
  BY <1>1, <1>2, <1>3 DEF DomGot
<1>6. CASE N!Failure(t)
  BY <1>1, <1>2, <1>4, <1>6, DomFails
<1>7. CASE N!Go(t, "clean") /\ UNCHANGED held /\ ~act[t].tunnel
  BY <1>1, <1>2, <1>4, <1>5, <1>7, DomWalks DEF DomProvides, DomClears
<1>8. CASE N!Go(t, "untunnel") /\ UNCHANGED held /\ runs' = runs \ {act[t].d}
  BY <1>1, <1>2, <1>4, <1>5, <1>8, DomWalks DEF DomProvides, DomClears
<1>9. CASE N!Go(t, "forgettunnel") /\ UNCHANGED held /\ act[t].d \notin tunnels
  BY <1>1, <1>2, <1>3, <1>4, <1>5, <1>9, DomWalks DEF DomProvides, DomClears
<1> QED
  BY <1>6, <1>7, <1>8, <1>9 DEF N!StopTunnel, N!Call

LEMMA DomUntunnels ==
  ASSUME DomInv, NEW t \in N!Task, N!DeleteTunnel(t)
  PROVE  DomInv'
<1>1. act[t].pc = "untunnel" /\ act[t].pc \in DomClears /\ act[t].pc # "rest"
  BY DEF N!DeleteTunnel, N!On, DomClears
<1>2. DomRows /\ act[t].d \in Domain /\ DomGot(act[t])
  BY <1>1, DomSame, DomHolds DEF N!DeleteTunnel, DomInv, DomCleared
<1>3. UNCHANGED <<runs, zone>> /\ (tunnels' = tunnels \ {act[t].d} \/ UNCHANGED tunnels)
  BY DEF N!DeleteTunnel, N!Call
<1>4. act[t].d \notin runs /\ zone # N!Own(act[t].d)
  BY <1>1, <1>2 DEF DomGot
<1>5. DomMakes(t)
  BY <1>3, <1>4 DEF DomMakes, DomInv, DomTyped, DomCleared, N!Own
<1>6. CASE N!Failure(t)
  BY <1>1, <1>2, <1>5, <1>6, DomFails
<1>7. CASE N!Go(t, "forgettunnel") /\ UNCHANGED held /\ tunnels' = tunnels \ {act[t].d}
  BY <1>1, <1>2, <1>3, <1>4, <1>5, <1>7, DomWalks DEF DomProvides, DomClears
<1> QED
  BY <1>6, <1>7 DEF N!DeleteTunnel, N!Call

LEMMA DomCleans ==
  ASSUME DomInv, NEW t \in N!Task, N!Clean(t)
  PROVE  DomInv'
<1>1. act[t].pc = "clean" /\ DomMakes(t) /\ DomRows
  BY DomIdle, DomSame DEF N!Clean, N!On, N!provider
<1>2. PICK n \in DomAct : /\ n.pc = "cleaned" /\ n.d = act[t].d /\ n.listed = act[t].listed
                          /\ act' = [act EXCEPT ![t] = n]
  BY DomTurn DEF N!Clean
<1>3. DomGot(n)'
  BY <1>2 DEF DomGot
<1> QED
  BY <1>1, <1>2, <1>3, DomGoes DEF N!Clean, DomProvides, DomClears

LEMMA DomEndings ==
  ASSUME DomInv, NEW t \in N!Task, N!Cleaned(t) \/ N!Unclean(t)
  PROVE  DomInv'
<1>1. act[t].d \in Domain /\ DomMakes(t)
  BY DomIdle DEF DomInv, DomTyped, N!Cleaned, N!Unclean, N!On, N!provider
<1>2. t # N!Creator /\ N!Cleaned(t) => DomSafe(act[t].d)
  BY DEF DomInv, DomCleared, N!Cleaned, N!On
<1>3. DomRows
  BY <1>1, <1>2, DomSet, DomSame DEF N!Cleaned, N!Unclean
<1> QED
  BY <1>1, <1>3, DomEnds DEF N!Cleaned, N!Unclean

LEMMA DomRoutes ==
  ASSUME DomInv, N!Route
  PROVE  DomInv'
<1>1. act[N!Observer].d \in Domain /\ N!Observer \in N!Task /\ DomMakes(N!Observer)
  BY DomIdle, DomConstants DEF DomInv, DomTyped, N!Route, N!On, N!provider
<1>2. DomRows
  BY <1>1, DomSet, DomSame DEF N!Route
<1> QED
  BY <1>1, <1>2, DomEnds DEF N!Route

LEMMA DomCuts ==
  ASSUME DomInv, NEW t \in N!Task, N!Cut(t)
  PROVE  DomInv'
<1> QED
  BY DomEnds, DomIdle, DomSame DEF N!Cut, N!provider

\* A task takes up a domain.
LEMMA DomStarts ==
  ASSUME DomInv, NEW t \in N!Task, NEW d \in Domain, NEW listed \in {"provisioning", "pending", "deleting"},
         N!Begin(t, d, listed), UNCHANGED held, DomMakes(t), DomRows,
         t = N!Owner \/ (t = N!Observer /\ listed = "deleting") => DomPast(d)'
  PROVE  DomInv'
<1>1. PICK n : n = [N!Rest EXCEPT !.pc = "lock", !.d = d, !.listed = listed]
  OBVIOUS
<1>2. n \in DomAct /\ n.pc = "lock" /\ n.d = d /\ n.listed = listed
  BY <1>1, DomConstants DEF DomAct, N!Rest
<1>3. act' = [act EXCEPT ![t] = n]
  BY <1>1 DEF N!Begin
<1>4. DomGot(n)'
  BY <1>2 DEF DomGot
<1>5. held' \in [Domain -> N!Task \cup {N!Nobody}] /\ \A e \in Domain : held'[e] = held[e]
  BY DEF DomInv, DomTyped
<1>6. DomPast(n.d)' <=> DomPast(d)'
  BY <1>2 DEF DomPast
<1> QED
  BY <1>2, <1>3, <1>4, <1>5, <1>6, DomMoves DEF DomMakes, DomRows, DomProvides, DomClears

LEMMA DomCreates ==
  ASSUME DomInv, NEW d \in Domain, N!CreateDomain(d)
  PROVE  DomInv'
<1>1. DomMakes(N!Creator) /\ row[d] \in DomRow /\ row[d].status = "none" /\ N!Creator \in N!Task
  BY DomIdle, DomConstants DEF DomInv, DomTyped, N!CreateDomain, N!provider
<1>2. PICK r : r = [row[d] EXCEPT !.status = "provisioning"]
  OBVIOUS
<1>3. r \in DomRow /\ r.status = "provisioning"
  BY <1>1, <1>2 DEF DomRow
<1>4. row' = [row EXCEPT ![d] = r]
  BY <1>2 DEF N!CreateDomain
<1>5. row' \in [Domain -> DomRow] /\ \A e \in Domain : row'[e] = IF e = d THEN r ELSE row[e]
  BY <1>3, <1>4 DEF DomInv, DomTyped
<1>6. DomRows
  BY <1>1, <1>3, <1>5 DEF DomRows, DomPast
<1> QED
  BY <1>1, <1>6, DomStarts, DomConstants DEF N!CreateDomain

LEMMA DomDeletes ==
  ASSUME DomInv, NEW d \in Domain, N!DeleteDomain(d)
  PROVE  DomInv'
<1>1. DomMakes(N!Owner) /\ N!Owner \in N!Task
  BY DomIdle, DomConstants DEF N!DeleteDomain, N!provider
<1>2. DomRows /\ DomPast(d)'
  BY DomSet DEF N!DeleteDomain
<1> QED
  BY <1>1, <1>2, DomStarts DEF N!DeleteDomain

LEMMA DomLists ==
  ASSUME DomInv, NEW d \in Domain, N!List(d)
  PROVE  DomInv'
<1>1. DomMakes(N!Observer) /\ N!Observer \in N!Task /\ DomRows
  BY DomIdle, DomSame, DomConstants DEF N!List, N!provider
<1>2. row[d].status \in {"provisioning", "pending", "deleting"}
  BY DomConstants DEF N!List
<1>3. row[d].status = "deleting" => DomPast(d)'
  BY DEF N!List, DomPast
<1> QED
  BY <1>1, <1>2, <1>3, DomStarts, DomConstants DEF N!List

LEMMA DomLocks ==
  ASSUME DomInv, NEW t \in N!Task, N!Lock(t)
  PROVE  DomInv'
<1>1. /\ act[t].pc = "lock" /\ act[t].d \in Domain /\ act[t] \in DomAct /\ row[act[t].d] \in DomRow
      /\ DomMakes(t) /\ DomRows /\ held[act[t].d] = N!Nobody
  BY DomIdle, DomSame DEF DomInv, DomTyped, N!Lock, N!On, N!provider
<1>2. CASE N!Failure(t)
  BY <1>1, <1>2, DomFails
<1>3. CASE N!End(t) /\ UNCHANGED held
  BY <1>1, <1>3, DomEnds
<1>4. CASE ~N!Failure(t) /\ ~(N!End(t) /\ UNCHANGED held)
  <2>1. PICK d \in Domain : d = act[t].d
    BY <1>1
  <2>2. PICK n : n = [act[t] EXCEPT !.tunnel = row[d].tunnel, !.record = row[d].record,
                                    !.pc = CASE act[t].listed = "provisioning" -> "tunnel"
                                             [] act[t].listed = "deleting" -> "find"
                                             [] OTHER -> "route"]
    OBVIOUS
  <2>3. /\ held' = [held EXCEPT ![d] = t] /\ act' = [act EXCEPT ![t] = n]
        /\ act[t].listed = "provisioning" => row[d].status = "provisioning"
    BY <1>4, <2>1, <2>2 DEF N!Lock
  <2>4. n \in DomAct
    BY <1>1, <2>1, <2>2 DEF DomAct, DomRow, DomProvides, DomClears
  <2>5. /\ n.d = d /\ n.listed = act[t].listed
        /\ \/ n.pc = "tunnel" /\ act[t].listed = "provisioning"
           \/ n.pc = "find" /\ act[t].listed = "deleting"
           \/ n.pc = "route"
    BY <1>1, <2>1, <2>2 DEF DomAct
  <2>6. DomGot(n)'
    BY <2>5 DEF DomGot
  <2>7. /\ held' \in [Domain -> N!Task \cup {N!Nobody}] /\ held'[n.d] = t
        /\ \A e \in Domain : held'[e] = held[e] \/ (held[e] = N!Nobody /\ held'[e] = t)
    BY <1>1, <2>1, <2>3, <2>5 DEF DomInv, DomTyped
  <2>8. DomPast(d) => DomPast(n.d)'
    BY <2>5 DEF DomPast, N!Lock
  <2>9. /\ t = N!Owner => DomPast(d)
        /\ t = N!Observer /\ n.listed = "deleting" => DomPast(d)
    BY <1>1, <2>1, <2>5 DEF DomInv, DomLocked
  <2>10. n.pc \in DomProvides => row[n.d].status = "provisioning"
    BY <2>3, <2>5 DEF DomProvides
  <2>11. n.pc # "cleaned" /\ (t = N!Observer /\ n.pc \in DomClears \cup {"cleaned"} => n.listed = "deleting")
    BY <2>5 DEF DomClears
  <2> QED
    BY <2>1, <1>1, <2>3, <2>4, <2>5, <2>6, <2>7, <2>8, <2>9, <2>10, <2>11, DomMoves DEF DomMakes, DomRows
<1> QED
  BY <1>2, <1>3, <1>4

LEMMA DomEdits ==
  ASSUME DomInv, N!Edit
  PROVE  DomInv'
<1>1. UNCHANGED <<row, held, act, tunnels, runs>> /\ zone \in DomZone
  BY DEF N!Edit, DomInv, DomTyped
<1>2. zone' \in DomZone /\ zone'.kind # "own"
  BY <1>1, DomConstants DEF N!Edit, DomZone, N!NoRecord
<1>6. ASSUME NEW t \in N!Task, act[t].pc = "delrecord", zone'.kind = "edited" PROVE zone'.d # act[t].d
  <2>1. /\ zone.kind = "own" /\ zone' = [zone EXCEPT !.kind = IF N!Doomed(zone.d) THEN "overtaken" ELSE "edited"]
    BY <1>6, DomConstants DEF N!Edit
  <2>2. zone'.d = zone.d /\ ~N!Doomed(zone.d)
    BY <1>1, <1>6, <2>1 DEF DomZone
  <2> QED
    BY <1>6, <2>2 DEF N!Doomed, N!On
<1>3. \A d : zone' # N!Own(d)
  BY <1>2 DEF N!Own
<1>4. DomTyped' /\ DomLocked'
  BY <1>1, <1>2 DEF DomInv, DomTyped, DomLocked, DomPast
<1>5. DomCleared'
  <2>1. \A t \in N!Task : DomGot(act[t])'
    BY <1>1, <1>3, <1>6 DEF DomInv, DomCleared, DomGot, N!Own
  <2> QED
    BY <1>1, <1>3, <2>1 DEF DomInv, DomCleared, DomSafe, DomPast, N!Own
<1> QED
  BY <1>4, <1>5 DEF DomInv

LEMMA DomRestarts ==
  ASSUME DomInv, N!Restart
  PROVE  DomInv'
<1>1. /\ UNCHANGED <<row, tunnels, runs, zone>> /\ act' = [t \in N!Task |-> N!Rest]
      /\ held' = [d \in Domain |-> N!Nobody]
  BY DEF N!Restart, N!provider
<1>2. \A t \in N!Task : act'[t] = N!Rest /\ act'[t].pc = "rest"
  BY <1>1, DomConstants
<1>3. DomTyped'
  BY <1>1, <1>2, DomConstants DEF DomInv, DomTyped
<1>4. DomLocked'
  BY <1>2 DEF DomLocked, DomProvides, DomClears
<1>5. DomCleared'
  BY <1>1, <1>2 DEF DomInv, DomCleared, DomGot, DomSafe, DomPast, N!Own, DomProvides
<1> QED
  BY <1>3, <1>4, <1>5 DEF DomInv

LEMMA DomKept ==
  ASSUME DomInv, [N!Next]_N!dvars
  PROVE  DomInv'
<1>1. CASE UNCHANGED N!dvars
  BY <1>1 DEF N!dvars, DomInv, DomTyped, DomLocked, DomCleared, DomGot, DomSafe, DomPast, N!Own
<1>2. ASSUME NEW d \in Domain, N!CreateDomain(d) \/ N!DeleteDomain(d) \/ N!List(d) PROVE DomInv'
  BY <1>2, DomCreates, DomDeletes, DomLists
<1>3. ASSUME NEW t \in N!Task, N!Lock(t) \/ N!Cut(t) PROVE DomInv'
  BY <1>3, DomLocks, DomCuts
<1>4. ASSUME NEW t \in N!Task, N!Provision(t) PROVE DomInv'
  BY <1>4, DomTunnels, DomSavesTunnel, DomConnectors, DomRecords, DomSavesRecord, DomPendings DEF N!Provision
<1>5. ASSUME NEW t \in N!Task, N!Cleanup(t) PROVE DomInv'
  BY <1>5, DomFinds, DomChecks, DomUnrecords, DomForgetsRecord, DomStops, DomUntunnels, DomForgetsTunnel, DomCleans, DomEndings
     DEF N!Cleanup
<1> QED
  BY <1>1, <1>2, <1>3, <1>4, <1>5, DomRoutes, DomEdits, DomRestarts DEF N!Next

LEMMA DomPromises ==
  ASSUME DomInv
  PROVE  N!TypeOK /\ N!NoOrphan
<1>1. \A t \in N!Task : act[t] \in DomAct
  BY DEF DomInv, DomTyped
<1>2. N!TypeOK
  BY <1>1, DomConstants DEF N!TypeOK, DomInv, DomTyped, DomAct, DomZone
<1>3. N!NoOrphan
  BY DEF N!NoOrphan, DomInv, DomCleared, DomSafe
<1> QED
  BY <1>2, <1>3

\* A record that is not its own is only ever changed by hand, or by a task that had
\* looked at it before.
LEMMA DomNotOurs ==
  ASSUME DomInv, N!Next
  PROVE  \/ zone.kind \in {"none", "own"} \/ zone' = zone \/ N!Edit
         \/ zone.kind = "overtaken" /\ N!Doomed(zone.d)
<1>1. ASSUME NEW t \in N!Task, N!Record(t), zone.kind \notin {"none", "own"} PROVE zone' = zone
  <2>1. act[t].d \in Domain
    BY <1>1 DEF DomInv, DomTyped, N!Record, N!On
  <2>2. zone # N!Own(act[t].d)
    BY <1>1, <2>1, DomConstants
  <2> QED
    BY <1>1, <2>2, DomConstants DEF N!Record, N!FreeName
<1>2. ASSUME NEW t \in N!Task, N!DeleteRecord(t), zone.kind \notin {"none", "own"}, zone' # zone
      PROVE  zone.kind = "overtaken" /\ N!Doomed(zone.d)
  <2>1. act[t].pc = "delrecord" /\ DomGot(act[t])
    BY <1>2 DEF DomInv, DomCleared, N!DeleteRecord, N!On
  <2>2. N!Marked(act[t].d)
    BY <1>2 DEF N!DeleteRecord, N!Call
  <2>3. zone.d = act[t].d /\ zone.kind = "overtaken"
    BY <1>2, <2>1, <2>2 DEF N!Marked, DomGot
  <2> QED
    BY <2>1, <2>3 DEF N!Doomed, N!On
<1>3. ASSUME NEW t \in N!Task, N!Lock(t) \/ N!Provision(t) \/ N!Cleanup(t) \/ N!Cut(t)
      PROVE  zone' = zone \/ N!Record(t) \/ N!DeleteRecord(t)
  BY <1>3 DEF N!Lock, N!Cut, N!Provision, N!Cleanup, N!Tunnel, N!SaveTunnel, N!Connector, N!SaveRecord, N!Pending,
     N!Find, N!CheckRecord, N!ForgetRecord, N!StopTunnel, N!DeleteTunnel, N!ForgetTunnel, N!Clean, N!Cleaned,
     N!Unclean, N!provider
<1> QED
  BY <1>1, <1>2, <1>3 DEF N!Next, N!CreateDomain, N!DeleteDomain, N!List, N!Route, N!Restart, N!provider
-----------------------------------------------------------------------------
(***************************************************************************)
(* Deployments.  What is routed, or about to be, is never what is about to *)
(* be stopped: one worker at a time has the deployment that is on its way, *)
(* and what it stops it stops after the edge has acknowledged another.     *)
(***************************************************************************)

DepNumber == 0..MaxDeployments
DepRow == [status : {"none", "queued", "building", "deploying", "healthy", "failed", "removed"},
           stopped : BOOLEAN, rollback : BOOLEAN]
DepSrv == [status : {"idle", "healthy", "degraded", "deleting", "gone"},
           current : DepNumber, promotion : DepNumber, unhealthy : BOOLEAN]
DepDomain == [status : {"none", "provisioning", "pending", "observed"}, upstream : DepNumber, applied : BOOLEAN]

DepEdge == {"put", "save", "wait"}
DepWork == {"build", "image", "schedule", "health", "refresh", "commit", "failing", "cleanup",
            "stopfailed", "fail"} \cup DepEdge
DepTask == [pc : {"rest", "superseded", "stop", "observe", "provision", "provisioned"} \cup DepWork,
            d : DepNumber, up : DepNumber, then : {"rest", "commit", "cleanup", "rollback"}]

DepTyped ==
  /\ rows \in [L!D -> DepRow] /\ srv \in DepSrv /\ domain \in DepDomain
  /\ leased \subseteq L!D /\ jobs \subseteq L!D /\ sick \subseteq L!D
  /\ config \in DepNumber /\ serves \in DepNumber /\ dlock \in L!Task \cup {L!Free}
  /\ task \in [L!Task -> DepTask]

\* Where each task can be.
DepPlaced ==
  /\ \A w \in Worker : task[w].pc \in {"rest", "superseded", "stop"} \cup DepWork
  /\ task[L!Reconciler].pc \in {"rest", "observe", "stop", "stopfailed"}
  /\ task[L!Observer].pc \in {"rest", "refresh"} \cup DepEdge /\ task[L!Observer].then = "rest"
  /\ task[L!Creator].pc \in {"rest", "provision", "provisioned"}

DepCommits(a) == a.pc \in {"refresh", "commit"} \cup DepEdge /\ a.then = "commit"
DepReverts(a) == a.pc \in {"refresh"} \cup DepEdge /\ a.then = "cleanup"
DepGivesUp(a) == a.pc \in {"cleanup", "stopfailed", "fail"} \/ DepReverts(a)

\* The one deployment that is on its way, and the one worker that has it.
DepWorks ==
  /\ \A d, e \in L!D : L!Is(d, L!Active) /\ L!Is(e, L!Active) => d = e
  /\ \A v, w \in Worker : task[v].pc \in DepWork /\ task[w].pc \in DepWork => v = w
  /\ \A w \in Worker : task[w].pc \in DepWork =>
       /\ task[w].d \in L!D /\ L!Is(task[w].d, L!Active) /\ task[w].d \in leased
       /\ task[w].pc \in {"refresh", "commit"} \cup DepEdge => DepCommits(task[w]) \/ DepReverts(task[w])
       /\ DepCommits(task[w]) => srv.promotion = task[w].d
       /\ DepGivesUp(task[w]) => srv.promotion = 0
       /\ DepReverts(task[w]) /\ task[w].pc = "refresh" => task[w].d \in jobs

\* What runs, and what is to be stopped.
DepRuns ==
  /\ srv.current # 0 => L!Is(srv.current, {"healthy"}) /\ srv.current \in jobs
  /\ srv.promotion # 0 => L!Is(srv.promotion, L!Active) /\ srv.promotion \in jobs
  /\ \A d \in jobs : ~L!Is(d, {"none"})
  /\ \A t \in L!Task : task[t].pc = "stop" =>
       task[t].up \in L!D /\ L!Is(task[t].up, {"healthy", "removed"}) /\ task[t].up # srv.current
  /\ task[L!Reconciler].pc = "stopfailed" =>
       task[L!Reconciler].d \in L!D /\ L!Is(task[L!Reconciler].d, {"failed", "removed"})
  /\ task[L!Reconciler].pc = "observe" => task[L!Reconciler].d # 0
  /\ srv.status \in {"deleting", "gone"} => ~\E d \in L!D : L!Is(d, L!Active)
  /\ srv.status = "gone" => jobs = {} /\ srv.current = 0 /\ srv.promotion = 0 /\ domain.status = "none"

\* The lock of the domain, and the configuration that was sent.
DepLocks ==
  /\ \A t \in L!Task : task[t].pc \in DepEdge => dlock = t /\ domain.status \in L!Live
  /\ task[L!Creator].pc \in {"provision", "provisioned"} => dlock = L!Creator /\ domain.status = "provisioning"
  /\ task[L!Creator].pc = "provisioned" => config = task[L!Creator].up
  /\ domain.status \in L!Live /\ (\A t \in L!Task : task[t].pc # "save") => config = domain.upstream
  /\ \A t \in L!Task : task[t].pc = "save" => config = task[t].up

\* The address a task is making public, and whose that is.
DepSends(t, x) == (task[t].pc \in {"put", "save"} /\ x = task[t].up) \/ (task[t].pc = "wait" /\ x = domain.upstream)
DepPublic(x) ==
  \/ x # 0 /\ x \in {srv.current, srv.promotion}
  \/ \E w \in Worker : task[w].pc = "refresh" /\ DepReverts(task[w]) /\ x = task[w].d

\* It runs, and nothing that stops releases will stop it.
DepSafe(x) ==
  /\ x \in jobs /\ ~L!Is(x, {"removed"}) /\ (L!Is(x, {"healthy"}) => x = srv.current)
  /\ \A t \in L!Task : task[t].pc = "stopfailed" => task[t].d # x

DepRoutes ==
  /\ \A t \in L!Task, x \in DepNumber : DepSends(t, x) => DepPublic(x)
  /\ \A w \in Worker, x \in DepNumber : DepSends(w, x) /\ DepCommits(task[w]) => x = task[w].d
  /\ \A w \in Worker : task[w].pc = "commit" =>
       /\ \A t \in L!Task, x \in DepNumber : DepSends(t, x) => x = task[w].d
       /\ domain.status \in L!Live /\ domain.applied => domain.upstream = task[w].d
  /\ domain.status \in L!Live /\ domain.applied => DepSafe(domain.upstream) /\ serves \in {domain.upstream, config}

DepInv == DepTyped /\ DepPlaced /\ DepWorks /\ DepRuns /\ DepLocks /\ DepRoutes

LEMMA DepConstants ==
  /\ MaxDeployments \in Nat \ {0} /\ L!D = 1..MaxDeployments /\ DepNumber = 0..MaxDeployments
  /\ \A t \in L!Task : t \in Worker \/ t = L!Reconciler \/ t = L!Observer \/ t = L!Creator
  /\ Worker \subseteq L!Task /\ L!Reconciler \in L!Task /\ L!Observer \in L!Task /\ L!Creator \in L!Task
  /\ L!Reconciler \notin Worker /\ L!Observer \notin Worker /\ L!Creator \notin Worker
  /\ L!Reconciler # L!Observer /\ L!Reconciler # L!Creator /\ L!Observer # L!Creator
  /\ L!Free \notin L!Task /\ L!Live = {"pending", "observed"} /\ L!Active = {"queued", "building", "deploying"}
<1> QED
  BY ParametersAssumption DEF L!D, DepNumber, L!Task, L!Reconciler, L!Observer, L!Creator, L!Free, L!Live, L!Active

LEMMA DepRest ==
  /\ \A d \in L!D : d \in DepNumber
  /\ L!Rest \in DepTask /\ L!Rest.pc = "rest" /\ L!Rest.then = "rest" /\ L!Rest.d = 0 /\ L!Rest.up = 0
<1> QED
  BY DepConstants DEF L!Rest, DepTask

LEMMA DepBegins ==
  ASSUME L!Init
  PROVE  DepInv
<1>1. /\ [status |-> "none", stopped |-> FALSE, rollback |-> FALSE] \in DepRow
      /\ [status |-> "idle", current |-> 0, promotion |-> 0, unhealthy |-> FALSE] \in DepSrv
      /\ [status |-> "none", upstream |-> 0, applied |-> FALSE] \in DepDomain
  BY DepConstants DEF DepRow, DepSrv, DepDomain
<1>2. \A t \in L!Task : task[t].pc = "rest" /\ task[t].then = "rest"
  BY DepRest DEF L!Init
<1>3. DepTyped
  BY <1>1, DepConstants, DepRest DEF L!Init, DepTyped
<1>4. DepPlaced
  BY <1>2, DepConstants DEF DepPlaced
<1>5. DepWorks
  <2>1. \A d \in L!D : ~L!Is(d, L!Active)
    BY DepConstants DEF L!Init, L!Is
  <2> QED
    BY <1>2, <2>1, DepConstants DEF DepWorks, DepWork, DepEdge
<1>6. DepRuns
  BY <1>2, DepConstants DEF DepRuns, L!Init
<1>7. DepLocks
  BY <1>2, DepConstants DEF DepLocks, L!Init, DepEdge
<1>8. DepRoutes
  BY <1>2, DepConstants DEF DepRoutes, DepSends, L!Init
<1> QED
  BY <1>3, <1>4, <1>5, <1>6, <1>7, <1>8 DEF DepInv

\* What a task may be about, in the words of DepPlaced, DepWorks and DepRuns.
DepPlaces(t, n) ==
  /\ t \in Worker => n.pc \in {"rest", "superseded", "stop"} \cup DepWork
  /\ t = L!Reconciler => n.pc \in {"rest", "observe", "stop", "stopfailed"}
  /\ t = L!Observer => n.pc \in {"rest", "refresh"} \cup DepEdge /\ n.then = "rest"
  /\ t = L!Creator => n.pc \in {"rest", "provision", "provisioned"}

DepHas(n) ==
  /\ n.d \in L!D /\ L!Is(n.d, L!Active)
  /\ n.pc \in {"refresh", "commit"} \cup DepEdge => DepCommits(n) \/ DepReverts(n)
  /\ DepCommits(n) => srv.promotion = n.d
  /\ DepGivesUp(n) => srv.promotion = 0
  /\ DepReverts(n) /\ n.pc = "refresh" => n.d \in jobs

DepStopsOld(n) ==
  n.pc = "stop" => n.up \in L!D /\ L!Is(n.up, {"healthy", "removed"}) /\ n.up # srv.current

DepReconciles(n) ==
  /\ n.pc = "stopfailed" => n.d \in L!D /\ L!Is(n.d, {"failed", "removed"})
  /\ n.pc = "observe" => n.d # 0

\* A step that changes no more than what the task does next, its lock, its lease, how
\* far its deployment has come, and what runs for it.
LEMMA DepStays ==
  ASSUME DepInv, NEW t \in L!Task, NEW n \in DepTask, task' = [task EXCEPT ![t] = n],
         UNCHANGED <<srv, domain, config, serves, sick>>,
         rows' \in [L!D -> DepRow], jobs \subseteq jobs', jobs' \subseteq L!D,
         leased \subseteq leased', leased' \subseteq L!D, dlock' \in L!Task \cup {L!Free},
         \A d \in L!D : rows'[d].status = rows[d].status
                        \/ (rows[d].status \in L!Active /\ rows'[d].status \in L!Active),
         \A d \in jobs' : d \in jobs \/ rows[d].status \in L!Active,
         \/ dlock' = dlock
         \/ dlock = t /\ dlock' = L!Free /\ n.pc \notin DepEdge \cup {"provision", "provisioned"}
         \/ dlock = L!Free /\ dlock' = t,
         DepPlaces(t, n), DepStopsOld(n), t = L!Reconciler => DepReconciles(n),
         t \in Worker /\ n.pc \in DepWork =>
           DepHas(n) /\ n.d \in leased' /\ (task[t].pc \in DepWork \/ \A w \in Worker : task[w].pc \notin DepWork),
         n.pc \notin {"save", "provisioned"}, task[t].pc # "save",
         n.pc \in DepEdge => dlock' = t /\ domain.status \in L!Live,
         n.pc = "provision" => dlock' = L!Creator /\ domain.status = "provisioning",
         n.pc = "put" => n.up = L!Address /\ n.up # 0,
         n.pc = "wait" => domain.upstream = L!Address /\ domain.upstream # 0,
         task[t].pc = "refresh" /\ DepReverts(task[t]) => \A s \in L!Task : s # t => task[s].pc \notin DepEdge,
         n.pc = "commit" => /\ \A s \in L!Task : s # t => task[s].pc \notin DepEdge
                            /\ domain.status \in L!Live /\ domain.applied => domain.upstream = n.d,
         n.pc = "stopfailed" /\ domain.status \in L!Live /\ domain.applied => n.d # domain.upstream
  PROVE  DepInv'
<1>1. \A s \in L!Task : task'[s] = IF s = t THEN n ELSE task[s]
  BY DEF DepInv, DepTyped
<1>2. \A d \in L!D : /\ L!Is(d, L!Active)' <=> L!Is(d, L!Active)
                     /\ \A s \in {"none", "healthy", "failed", "removed"} :
                          rows'[d].status = s <=> rows[d].status = s
  BY DepConstants DEF L!Is
<1>3. DepTyped'
  BY <1>1 DEF DepInv, DepTyped
<1>4. DepPlaced'
  BY <1>1, DepConstants DEF DepInv, DepPlaced, DepPlaces
<1>5. DepWorks'
  <2>1. \A d, e \in L!D : L!Is(d, L!Active)' /\ L!Is(e, L!Active)' => d = e
    BY <1>2 DEF DepInv, DepWorks
  <2>2. \A v, w \in Worker : task'[v].pc \in DepWork /\ task'[w].pc \in DepWork => v = w
    BY <1>1, DepConstants DEF DepInv, DepWorks
  <2>3. ASSUME NEW w \in Worker, task'[w].pc \in DepWork
        PROVE  DepHas(task'[w]) /\ task'[w].d \in leased'
    <3>1. CASE w = t
      BY <1>1, <2>3, <3>1, DepConstants
    <3>2. CASE w # t
      BY <1>1, <2>3, <3>2, DepConstants DEF DepInv, DepWorks, DepHas
    <3> QED
      BY <3>1, <3>2
  <2>4. ASSUME NEW w \in Worker, DepHas(task'[w])
        PROVE  /\ task'[w].d \in L!D /\ L!Is(task[w].d, L!Active)'
               /\ task'[w].pc \in {"refresh", "commit"} \cup DepEdge => DepCommits(task[w])' \/ DepReverts(task[w])'
               /\ DepCommits(task[w])' => srv'.promotion = task'[w].d
               /\ DepGivesUp(task[w])' => srv'.promotion = 0
               /\ DepReverts(task[w])' /\ task'[w].pc = "refresh" => task'[w].d \in jobs'
    BY <1>2, <2>4 DEF DepHas, L!Is, DepCommits, DepReverts, DepGivesUp
  <2> QED
    BY <2>1, <2>2, <2>3, <2>4 DEF DepWorks
<1>6. DepRuns'
  <2>1. srv'.current # 0 => L!Is(srv.current, {"healthy"})' /\ srv'.current \in jobs'
    BY <1>2 DEF DepInv, DepRuns, DepTyped, L!Is
  <2>2. srv'.promotion # 0 => L!Is(srv.promotion, L!Active)' /\ srv'.promotion \in jobs'
    BY <1>2 DEF DepInv, DepRuns, DepTyped, L!Is
  <2>3. \A d \in jobs' : ~L!Is(d, {"none"})'
    BY <1>2, DepConstants DEF DepInv, DepRuns, DepTyped, L!Is
  <2>4. ASSUME NEW s \in L!Task, task'[s].pc = "stop"
        PROVE  task'[s].up \in L!D /\ L!Is(task[s].up, {"healthy", "removed"})' /\ task'[s].up # srv'.current
    BY <1>1, <1>2, <2>4 DEF DepInv, DepRuns, DepStopsOld, L!Is
  <2>5. task'[L!Reconciler].pc = "stopfailed" =>
           task'[L!Reconciler].d \in L!D /\ L!Is(task[L!Reconciler].d, {"failed", "removed"})'
    BY <1>1, <1>2, DepConstants DEF DepInv, DepRuns, DepReconciles, L!Is
  <2>6. task'[L!Reconciler].pc = "observe" => task'[L!Reconciler].d # 0
    BY <1>1, DepConstants DEF DepInv, DepRuns, DepReconciles
  <2>7. srv'.status \in {"deleting", "gone"} => ~\E d \in L!D : L!Is(d, L!Active)'
    BY <1>2 DEF DepInv, DepRuns
  <2>8. srv'.status = "gone" => jobs' = {} /\ srv'.current = 0 /\ srv'.promotion = 0 /\ domain'.status = "none"
    BY <1>2 DEF DepInv, DepRuns, L!Is
  <2> QED
    BY <2>1, <2>2, <2>3, <2>4, <2>5, <2>6, <2>7, <2>8 DEF DepRuns
<1>7. DepLocks'
  <2>1. \A s \in L!Task : task'[s].pc \in DepEdge => dlock' = s /\ domain'.status \in L!Live
    BY <1>1, DepConstants DEF DepInv, DepLocks
  <2>2. task'[L!Creator].pc \in {"provision", "provisioned"} => dlock' = L!Creator /\ domain'.status = "provisioning"
    BY <1>1, DepConstants DEF DepInv, DepLocks
  <2>3. task'[L!Creator].pc = "provisioned" => config' = task'[L!Creator].up
    BY <1>1, DepConstants DEF DepInv, DepLocks
  <2>4. domain'.status \in L!Live /\ (\A s \in L!Task : task'[s].pc # "save") => config' = domain'.upstream
    BY <1>1 DEF DepInv, DepLocks
  <2>5. \A s \in L!Task : task'[s].pc = "save" => config' = task'[s].up
    BY <1>1 DEF DepInv, DepLocks
  <2> QED
    BY <2>1, <2>2, <2>3, <2>4, <2>5 DEF DepLocks
<1>8. DepRoutes'
  <2>1. ASSUME NEW s \in L!Task, NEW x \in DepNumber, DepSends(s, x)' PROVE (s # t /\ DepSends(s, x)) \/ (s = t /\ x = L!Address /\ x # 0 /\ n.pc \in DepEdge)
    BY <1>1, <2>1 DEF DepSends, DepEdge
  <2>2. ASSUME NEW s \in L!Task, NEW x \in DepNumber, DepSends(s, x)' PROVE DepPublic(x)'
    <3>1. CASE s = t /\ x = L!Address /\ x # 0
      BY <3>1 DEF L!Address, DepPublic
    <3>2. CASE s # t /\ DepSends(s, x)
      <4>1. task[s].pc \in DepEdge /\ DepPublic(x)
        BY <3>2 DEF DepInv, DepRoutes, DepSends, DepEdge
      <4>2. CASE x # 0 /\ x \in {srv.current, srv.promotion}
        BY <4>2 DEF DepPublic
      <4>3. ASSUME NEW w \in Worker, task[w].pc = "refresh", DepReverts(task[w]), x = task[w].d PROVE DepPublic(x)'
        <5>1. w # t
          BY <3>2, <4>1, <4>3
        <5>2. task'[w] = task[w]
          BY <1>1, <5>1, DepConstants
        <5> QED
          BY <4>3, <5>2 DEF DepPublic, DepReverts
      <4> QED
        BY <4>1, <4>2, <4>3 DEF DepPublic
    <3> QED
      BY <2>1, <2>2, <3>1, <3>2
  <2>3. ASSUME NEW w \in Worker, NEW x \in DepNumber, DepSends(w, x)', DepCommits(task[w])' PROVE x = task'[w].d
    <3>1. CASE w # t
      BY <1>1, <2>1, <2>3, <3>1, DepConstants DEF DepInv, DepRoutes, DepCommits
    <3>2. CASE w = t
      <4>1. x = L!Address /\ n.pc \in DepEdge /\ task'[w] = n
        BY <1>1, <2>1, <2>3, <3>2, DepConstants
      <4>2. srv.promotion = n.d /\ n.d # 0
        BY <2>3, <3>2, <4>1, DepConstants DEF DepHas, DepCommits, DepWork, L!D
      <4> QED
        BY <4>1, <4>2 DEF L!Address
    <3> QED
      BY <3>1, <3>2
  <2>4. ASSUME NEW w \in Worker, task'[w].pc = "commit"
        PROVE  /\ \A s \in L!Task, x \in DepNumber : DepSends(s, x)' => x = task'[w].d
               /\ domain'.status \in L!Live /\ domain'.applied => domain'.upstream = task'[w].d
    <3>1. CASE w = t
      <4>1. n.pc = "commit" /\ task'[w] = n
        BY <1>1, <2>4, <3>1, DepConstants
      <4>2. \A s \in L!Task, x \in DepNumber : ~DepSends(s, x)'
        BY <1>1, <4>1 DEF DepSends, DepEdge
      <4> QED
        BY <4>1, <4>2
    <3>2. CASE w # t
      <4>1. task'[w] = task[w] /\ task[w].pc = "commit" /\ task[w].pc \in DepWork
        BY <1>1, <2>4, <3>2, DepConstants DEF DepWork
      <4>2. srv.promotion = task[w].d /\ task[w].d # 0
        BY <4>1, DepConstants DEF DepInv, DepWorks, DepCommits, DepReverts, DepEdge
      <4>3. \A s \in L!Task, x \in DepNumber : DepSends(s, x) => x = task[w].d
        BY <4>1 DEF DepInv, DepRoutes
      <4>4. L!Address = task[w].d
        BY <4>2 DEF L!Address
      <4>5. domain.status \in L!Live /\ domain.applied => domain.upstream = task[w].d
        BY <4>1 DEF DepInv, DepRoutes
      <4> QED
        BY <2>1, <4>1, <4>3, <4>4, <4>5
    <3> QED
      BY <3>1, <3>2
  <2>5. ASSUME domain.status \in L!Live, domain.applied PROVE DepSafe(domain.upstream)' /\ serves' \in {domain'.upstream, config'}
    <3>1. DepSafe(domain.upstream) /\ serves \in {domain.upstream, config} /\ domain.upstream \in L!D
      BY <2>5 DEF DepInv, DepRoutes, DepSafe, DepTyped
    <3>2. \A s \in L!Task : task'[s].pc = "stopfailed" => task'[s].d # domain.upstream
      BY <1>1, <2>5, <3>1 DEF DepSafe
    <3> QED
      BY <1>2, <3>1, <3>2 DEF DepSafe, L!Is
  <2> QED
    BY <2>2, <2>3, <2>4, <2>5 DEF DepRoutes
<1> QED
  BY <1>3, <1>4, <1>5, <1>6, <1>7, <1>8 DEF DepInv

DepQuiet ==
  /\ UNCHANGED <<srv, domain, config, serves, sick>>
  /\ rows' \in [L!D -> DepRow] /\ jobs \subseteq jobs' /\ jobs' \subseteq L!D
  /\ \A d \in L!D : rows'[d].status = rows[d].status
                    \/ (rows[d].status \in L!Active /\ rows'[d].status \in L!Active)
  /\ \A d \in jobs' : d \in jobs \/ rows[d].status \in L!Active

LEMMA DepSame ==
  ASSUME DepInv, UNCHANGED <<rows, srv, domain, config, serves, jobs, sick>>
  PROVE  DepQuiet
<1> QED
  BY DEF DepInv, DepTyped, DepQuiet

LEMMA DepTurn ==
  ASSUME DepInv, NEW t \in L!Task,
         NEW pc \in {"rest", "superseded", "stop", "observe", "provision", "provisioned"} \cup DepWork, L!To(t, pc)
  PROVE  \E n \in DepTask : /\ n.pc = pc /\ n.d = task[t].d /\ n.up = task[t].up /\ n.then = task[t].then
                            /\ task' = [task EXCEPT ![t] = n]
<1>1. task[t] \in DepTask
  BY DEF DepInv, DepTyped
<1>2. PICK n : n = [task[t] EXCEPT !.pc = pc]
  OBVIOUS
<1>3. n \in DepTask /\ n.pc = pc /\ n.d = task[t].d /\ n.up = task[t].up /\ n.then = task[t].then
  BY <1>1, <1>2 DEF DepTask
<1> QED
  BY <1>2, <1>3 DEF L!To

\* A worker in the middle of its work.
LEMMA DepWorker ==
  ASSUME DepInv, NEW t \in L!Task,
         task[t].pc \in {"build", "image", "schedule", "health", "commit", "failing", "cleanup", "fail"}
                        \/ (t \in Worker /\ task[t].pc \in DepWork)
  PROVE  /\ t \in Worker /\ task[t].pc \in DepWork /\ DepHas(task[t]) /\ task[t].d \in leased
         /\ task[t] \in DepTask /\ task[t].d # 0 /\ task[t].d # srv.current
         /\ srv.promotion # 0 => srv.promotion = task[t].d
         /\ \A w \in Worker : task[w].pc \in DepWork => w = t
<1>1. t \in Worker /\ task[t].pc \in DepWork
  BY DepConstants DEF DepInv, DepPlaced, DepWork, DepEdge
<1>2. DepHas(task[t]) /\ task[t].d \in leased /\ task[t] \in DepTask
  BY <1>1 DEF DepInv, DepTyped, DepWorks, DepHas
<1>3. task[t].d # 0 /\ task[t].d # srv.current
  BY <1>2, DepConstants DEF DepHas, DepInv, DepRuns, L!Is
<1>4. srv.promotion # 0 => srv.promotion = task[t].d
  <2>1. srv.promotion \in DepNumber
    BY DEF DepInv, DepTyped, DepSrv
  <2>2. srv.promotion # 0 => srv.promotion \in L!D
    BY <2>1, DepConstants
  <2> QED
    BY <1>2, <2>2 DEF DepInv, DepWorks, DepRuns, DepHas
<1> QED
  BY <1>1, <1>2, <1>3, <1>4 DEF DepInv, DepWorks

LEMMA DepTravels ==
  ASSUME DepInv, NEW t \in L!Task, task[t].pc \in {"refresh"} \cup DepEdge
  PROVE  \/ t \in Worker /\ DepHas(task[t]) /\ task[t].pc \in DepWork
                         /\ (DepCommits(task[t]) \/ DepReverts(task[t]))
         \/ t = L!Observer /\ task[t].then = "rest"
<1>1. t \in Worker \/ t = L!Observer
  BY DepConstants DEF DepInv, DepPlaced, DepEdge
<1>2. t = L!Observer => task[t].then = "rest"
  BY DEF DepInv, DepPlaced
<1>3. t \in Worker => DepHas(task[t]) /\ task[t].pc \in DepWork /\ (DepCommits(task[t]) \/ DepReverts(task[t]))
  BY DepWorker DEF DepWork, DepHas
<1> QED
  BY <1>1, <1>2, <1>3

\* Who holds the lock is alone with the route.
LEMMA DepAlone ==
  ASSUME DepInv, NEW t \in L!Task, dlock \in {L!Free, t} \/ domain.status \notin L!Live
  PROVE  \A s \in L!Task : s # t => task[s].pc \notin DepEdge
<1> QED
  BY DepConstants DEF DepInv, DepLocks

LEMMA DepWorkerMoves ==
  ASSUME DepInv, NEW w \in Worker,
         NEW pc \in {"image", "schedule", "health", "failing", "cleanup", "stopfailed", "fail"}, L!To(w, pc),
         task[w].pc \in DepWork \ {"save"}, DepQuiet, UNCHANGED leased,
         dlock' = dlock \/ (dlock = w /\ dlock' = L!Free),
         pc \in {"cleanup", "stopfailed", "fail"} => srv.promotion = 0,
         task[w].pc = "refresh" /\ DepReverts(task[w]) => \A s \in L!Task : s # w => task[s].pc \notin DepEdge,
         pc = "stopfailed" /\ domain.status \in L!Live /\ domain.applied => task[w].d # domain.upstream
  PROVE  DepInv'
<1>1. w \in L!Task /\ DepHas(task[w]) /\ task[w].d \in leased
  BY DepWorker, DepConstants
<1>2. PICK n \in DepTask : /\ n.pc = pc /\ n.d = task[w].d /\ n.up = task[w].up /\ n.then = task[w].then
                           /\ task' = [task EXCEPT ![w] = n]
  BY <1>1, DepTurn DEF DepWork
<1>3. DepPlaces(w, n) /\ DepStopsOld(n)
  BY <1>2, DepConstants DEF DepPlaces, DepStopsOld, DepWork
<1>4. DepHas(n)
  BY <1>1, <1>2 DEF DepHas, DepCommits, DepReverts, DepGivesUp, DepEdge
<1>5. leased \subseteq L!D /\ dlock' \in L!Task \cup {L!Free}
  BY DEF DepInv, DepTyped
<1>6. w # L!Reconciler /\ n.pc \notin DepEdge \cup {"provision", "provisioned", "commit"}
  BY <1>2, DepConstants DEF DepEdge
<1> QED
  BY <1>1, <1>2, <1>3, <1>4, <1>5, <1>6, DepStays DEF DepQuiet, DepEdge

LEMMA DepBuilds ==
  ASSUME DepInv, NEW w \in Worker, L!Build(w)
  PROVE  DepInv'
<1>1. w \in L!Task /\ DepHas(task[w]) /\ task[w].pc = "build" /\ task[w].pc \in DepWork /\ task[w].d \in L!D
  BY DepWorker, DepConstants DEF L!Build, L!At, DepHas
<1>2. CASE UNCHANGED rows /\ L!To(w, "failing")
  BY <1>1, <1>2, DepSame, DepWorkerMoves DEF L!Build, L!outside
<1>3. ASSUME NEW s \in L!Active, L!SetRow(task[w].d, s), NEW pc \in {"image", "schedule"}, L!To(w, pc)
      PROVE  DepInv'
  <2>1. rows[task[w].d] \in DepRow /\ rows[task[w].d].status \in L!Active
    BY <1>1 DEF DepInv, DepTyped, DepHas, L!Is
  <2>2. PICK r : r = [rows[task[w].d] EXCEPT !.status = s]
    OBVIOUS
  <2>3. r \in DepRow /\ r.status = s
    BY <2>1, <2>2, DepConstants DEF DepRow
  <2>4. rows' = [rows EXCEPT ![task[w].d] = r]
    BY <1>3, <2>2 DEF L!SetRow
  <2>5. rows' \in [L!D -> DepRow] /\ \A d \in L!D : rows'[d] = IF d = task[w].d THEN r ELSE rows[d]
    BY <2>3, <2>4 DEF DepInv, DepTyped
  <2>6. DepQuiet
    BY <2>1, <2>3, <2>5 DEF DepQuiet, L!Build, L!outside, DepInv, DepTyped
  <2> QED
    BY <1>1, <1>3, <2>6, DepWorkerMoves DEF L!Build
<1>4. rows[task[w].d].status \in L!Active /\ "building" \in L!Active
  BY <1>1, DepConstants DEF DepHas, L!Is
<1> QED
  BY <1>2, <1>3, <1>4 DEF L!Build

LEMMA DepSchedules ==
  ASSUME DepInv, NEW w \in Worker, L!Schedule(w)
  PROVE  DepInv'
<1>1. w \in L!Task /\ DepHas(task[w]) /\ task[w].pc = "schedule" /\ task[w].pc \in DepWork /\ task[w].d \in L!D
  BY DepWorker, DepConstants DEF L!Schedule, L!At, DepHas
<1>2. rows[task[w].d] \in DepRow /\ rows[task[w].d].status \in L!Active
  BY <1>1 DEF DepInv, DepTyped, DepHas, L!Is
<1>3. PICK r : r = [rows[task[w].d] EXCEPT !.status = "deploying"]
  OBVIOUS
<1>4. r \in DepRow /\ r.status = "deploying"
  BY <1>2, <1>3 DEF DepRow
<1>5. rows' = [rows EXCEPT ![task[w].d] = r]
  BY <1>3 DEF L!SetRow, L!Schedule
<1>6. rows' \in [L!D -> DepRow] /\ \A d \in L!D : rows'[d] = IF d = task[w].d THEN r ELSE rows[d]
  BY <1>4, <1>5 DEF DepInv, DepTyped
<1>7. jobs' = jobs \cup {task[w].d}
  BY DEF L!Schedule
<1>8. DepQuiet
  BY <1>1, <1>2, <1>4, <1>6, <1>7, DepConstants DEF DepQuiet, L!Schedule, L!edge, DepInv, DepTyped
<1> QED
  BY <1>1, <1>8, DepWorkerMoves DEF L!Schedule

LEMMA DepTries ==
  ASSUME DepInv, NEW w \in Worker, L!Image(w) \/ L!Unhealthy(w) \/ L!Deadline(w)
  PROVE  DepInv'
<1>1. DepQuiet /\ UNCHANGED leased
  BY DepSame DEF L!Image, L!Unhealthy, L!Deadline, L!outside
<1>2. L!To(w, "failing") \/ L!To(w, "schedule")
  BY DEF L!Image, L!Unhealthy, L!Deadline
<1>3. /\ task[w].pc \in DepWork \ {"save"} /\ (task[w].pc = "refresh" => ~DepReverts(task[w]))
      /\ dlock' = dlock \/ (dlock = w /\ dlock' = L!Free)
  BY DEF L!Image, L!Unhealthy, L!Deadline, L!At, DepReverts, DepWork, DepEdge
<1> QED
  BY <1>1, <1>2, <1>3, DepWorkerMoves

LEMMA DepCleanups ==
  ASSUME DepInv, NEW w \in Worker, L!Cleanup(w)
  PROVE  DepInv'
<1>1. /\ DepQuiet /\ UNCHANGED <<leased, dlock>> /\ task[w].pc = "cleanup" /\ task[w].pc \in DepWork
      /\ w \in L!Task
  BY DepSame, DepConstants DEF L!Cleanup, L!outside, L!At, DepWork
<1>2. srv.promotion = 0 /\ task[w].d # srv.current
  BY <1>1, DepWorker DEF DepHas, DepGivesUp
<1>3. CASE L!To(w, "fail")
  BY <1>1, <1>2, <1>3, DepWorkerMoves
<1>4. CASE L!To(w, "stopfailed") /\ ~L!Protected(task[w].d)
  <2>1. domain.status \in L!Live /\ domain.applied => task[w].d # domain.upstream
    BY <1>2, <1>4, DepConstants DEF L!Protected
  <2> QED
    BY <1>1, <1>2, <1>4, <2>1, DepWorkerMoves
<1> QED
  BY <1>3, <1>4 DEF L!Cleanup

\* A refresh that is not the one it should have been.
LEMMA DepLeaves ==
  ASSUME DepInv, NEW t \in L!Task, task[t].pc \in {"refresh", "put", "wait"}, L!To(t, L!Failing(t)),
         UNCHANGED <<rows, srv, domain, config, serves, jobs, sick, leased>>,
         dlock' = dlock \/ (dlock = t /\ dlock' = L!Free),
         \A s \in L!Task : s # t => task[s].pc \notin DepEdge
  PROVE  DepInv'
<1>1. DepQuiet /\ task[t].pc \in DepWork \ {"save"} /\ task[t].pc \in {"refresh"} \cup DepEdge
  BY DepSame DEF DepWork, DepEdge
<1>2. CASE t \in Worker /\ DepCommits(task[t])
  <2>1. L!To(t, "failing")
    BY <1>2 DEF L!Failing, DepCommits
  <2> QED
    BY <1>1, <1>2, <2>1, DepWorkerMoves
<1>3. CASE t \in Worker /\ DepReverts(task[t]) /\ DepHas(task[t])
  <2>1. L!To(t, "cleanup") /\ srv.promotion = 0
    BY <1>3 DEF L!Failing, DepReverts, DepHas, DepGivesUp
  <2> QED
    BY <1>1, <1>3, <2>1, DepWorkerMoves
<1>4. CASE t = L!Observer /\ task[t].then = "rest"
  <2>1. PICK n \in DepTask : n.pc = "rest" /\ n.then = "rest" /\ task' = [task EXCEPT ![t] = n]
    BY <1>4, DepTurn DEF L!Failing
  <2>2. DepPlaces(t, n) /\ DepStopsOld(n) /\ t # L!Reconciler /\ t \notin Worker
    BY <1>4, <2>1, DepConstants DEF DepPlaces, DepStopsOld
  <2>3. leased \subseteq L!D /\ dlock' \in L!Task \cup {L!Free}
    BY DEF DepInv, DepTyped
  <2> QED
    BY <1>1, <2>1, <2>2, <2>3, DepStays DEF DepQuiet, DepEdge
<1> QED
  BY <1>1, <1>2, <1>3, <1>4, DepTravels

\* A refresh with nothing to do.
LEMMA DepPasses ==
  ASSUME DepInv, NEW t \in L!Task, task[t].pc = "refresh", L!To(t, task[t].then),
         UNCHANGED <<rows, srv, domain, config, serves, jobs, sick, leased, dlock>>,
         \A s \in L!Task : s # t => task[s].pc \notin DepEdge,
         domain.status \in L!Live /\ domain.applied => domain.upstream = L!Address
  PROVE  DepInv'
<1>1. DepQuiet /\ task[t].pc \in DepWork \ {"save"} /\ task[t].pc \in {"refresh"} \cup DepEdge
  BY DepSame DEF DepWork, DepEdge
<1>2. CASE ~DepCommits(task[t])
  <2>1. L!To(t, L!Failing(t))
    BY <1>2, <1>1 DEF L!Failing, DepCommits, DepEdge
  <2> QED
    BY <2>1, DepLeaves
<1>3. CASE t \in Worker /\ DepCommits(task[t])
  <2>1. DepHas(task[t]) /\ task[t].d \in leased /\ task[t].d # 0 /\ task[t].then = "commit" /\ srv.promotion = task[t].d
    BY <1>1, <1>3, DepWorker DEF DepCommits, DepHas
  <2>2. PICK n \in DepTask : /\ n.pc = "commit" /\ n.d = task[t].d /\ n.then = "commit"
                             /\ task' = [task EXCEPT ![t] = n]
    BY <2>1, DepTurn DEF DepWork
  <2>3. DepPlaces(t, n) /\ DepStopsOld(n) /\ t # L!Reconciler
    BY <1>3, <2>2, DepConstants DEF DepPlaces, DepStopsOld, DepWork
  <2>4. DepHas(n)
    BY <2>1, <2>2 DEF DepHas, DepCommits, DepReverts, DepGivesUp, DepEdge
  <2>5. leased \subseteq L!D /\ dlock \in L!Task \cup {L!Free}
    BY DEF DepInv, DepTyped
  <2>6. L!Address = n.d
    BY <2>1, <2>2 DEF L!Address
  <2> QED
    BY <1>1, <2>1, <2>2, <2>3, <2>4, <2>5, <2>6, DepStays DEF DepQuiet, DepEdge
<1> QED
  BY <1>1, <1>2, <1>3, DepTravels, DepConstants DEF DepCommits

LEMMA DepRefreshes ==
  ASSUME DepInv, NEW t \in L!Task, L!Refresh(t)
  PROVE  DepInv'
<1>1. /\ task[t].pc = "refresh" /\ UNCHANGED <<rows, srv, domain, config, serves, jobs, sick, leased>> /\ DepQuiet
      /\ dlock = L!Free \/ domain.status \notin L!Live
  BY DepSame DEF L!Refresh, L!At, L!outside
<1>2. \A s \in L!Task : s # t => task[s].pc \notin DepEdge
  BY <1>1, DepAlone
<1>3. CASE domain.status \notin L!Live
  BY <1>1, <1>2, <1>3, DepPasses DEF L!Refresh
<1>4. CASE domain.status \in L!Live /\ L!Address = 0
  BY <1>1, <1>2, <1>4, DepLeaves DEF L!Refresh
<1>5. CASE domain.status \in L!Live /\ L!Address # 0 /\ domain.upstream = L!Address /\ domain.applied
  BY <1>1, <1>2, <1>5, DepPasses DEF L!Refresh
<1>6. CASE domain.status \in L!Live /\ L!Address # 0 /\ ~(domain.upstream = L!Address /\ domain.applied)
  <2>1. dlock = L!Free /\ dlock' = t
    BY <1>1, <1>6 DEF L!Refresh
  <2>2. L!Address \in DepNumber /\ task[t] \in DepTask
    BY DEF DepInv, DepTyped, DepSrv, L!Address
  <2>4. PICK n \in DepTask : /\ task' = [task EXCEPT ![t] = n]
                             /\ n.pc \in {"put", "wait"} /\ n.d = task[t].d /\ n.then = task[t].then
                             /\ n.pc = "put" => n.up = L!Address /\ n.up # 0
                             /\ n.pc = "wait" => domain.upstream = L!Address /\ domain.upstream # 0
    <3>1. CASE domain.upstream # L!Address
      <4>1. PICK n : n = [task[t] EXCEPT !.pc = "put", !.up = L!Address]
        OBVIOUS
      <4>2. n \in DepTask /\ n.d = task[t].d /\ n.then = task[t].then /\ n.up = L!Address /\ n.pc = "put"
        BY <2>2, <4>1 DEF DepTask, DepWork, DepEdge
      <4>3. task' = [task EXCEPT ![t] = n]
        BY <1>6, <3>1, <4>1 DEF L!Refresh
      <4> QED
        BY <1>6, <4>2, <4>3
    <3>2. CASE domain.upstream = L!Address
      <4>1. L!To(t, "wait")
        BY <1>6, <3>2 DEF L!Refresh
      <4>2. PICK n \in DepTask : n.pc = "wait" /\ n.d = task[t].d /\ n.then = task[t].then /\ task' = [task EXCEPT ![t] = n]
        BY <4>1, DepTurn DEF DepWork, DepEdge
      <4> QED
        BY <1>6, <3>2, <4>2
    <3> QED
      BY <3>1, <3>2
  <2>5. n.pc \in DepEdge /\ n.pc \in DepWork /\ n.pc \notin {"save", "provision", "provisioned", "commit", "stopfailed", "stop", "observe"}
    BY <2>4 DEF DepEdge, DepWork
  <2>6. CASE t \in Worker /\ DepHas(task[t]) /\ task[t].pc \in DepWork /\ (DepCommits(task[t]) \/ DepReverts(task[t]))
    <3>1. DepHas(n)
      BY <1>1, <2>4, <2>5, <2>6 DEF DepHas, DepCommits, DepReverts, DepGivesUp, DepEdge
    <3>2. DepPlaces(t, n) /\ DepStopsOld(n) /\ t # L!Reconciler
      BY <2>5, <2>6, DepConstants DEF DepPlaces, DepStopsOld
    <3>3. leased \subseteq L!D /\ n.d \in leased
      BY <2>4, <2>6, DepWorker DEF DepInv, DepTyped
    <3> QED
      BY <1>1, <1>2, <1>6, <2>1, <2>4, <2>5, <2>6, <3>1, <3>2, <3>3, DepStays DEF DepQuiet
  <2>7. CASE t = L!Observer /\ task[t].then = "rest"
    <3>1. DepPlaces(t, n) /\ DepStopsOld(n) /\ t # L!Reconciler /\ t \notin Worker
      BY <2>4, <2>5, <2>7, DepConstants DEF DepPlaces, DepStopsOld
    <3>2. leased \subseteq L!D
      BY DEF DepInv, DepTyped
    <3> QED
      BY <1>1, <1>2, <1>6, <2>1, <2>4, <2>5, <3>1, <3>2, DepStays DEF DepQuiet
  <2> QED
    BY <1>1, <2>6, <2>7, DepTravels DEF DepEdge
<1> QED
  BY <1>3, <1>4, <1>5, <1>6

LEMMA DepSelects ==
  ASSUME DepInv, NEW w \in Worker, NEW d \in L!D, L!Select(w, d)
  PROVE  DepInv'
<1>1. /\ w \in L!Task /\ w # L!Reconciler /\ DepQuiet /\ dlock' = dlock /\ dlock \in L!Task \cup {L!Free}
      /\ leased \subseteq L!D /\ d \in DepNumber /\ task[w].pc = "rest"
  BY DepSame, DepConstants DEF L!Select, L!outside, L!At, DepInv, DepTyped
<1>2. PICK n : n = [L!Rest EXCEPT !.pc = "build", !.d = d]
  OBVIOUS
<1>3. n \in DepTask /\ n.pc = "build" /\ n.d = d
  BY <1>1, <1>2, DepRest DEF DepTask, DepWork, L!Rest
<1>4. task' = [task EXCEPT ![w] = n]
  BY <1>2 DEF L!Select
<1>5. \A v \in Worker : task[v].pc \notin DepWork
  BY DEF DepInv, DepWorks, L!Select
<1>6. DepPlaces(w, n) /\ DepStopsOld(n) /\ DepHas(n)
  BY <1>1, <1>3, DepConstants
     DEF DepPlaces, DepStopsOld, DepHas, DepCommits, DepReverts, DepGivesUp, DepWork, DepEdge, L!Select
<1>7. leased' = leased \cup {d}
  BY DEF L!Select
<1> QED
  BY <1>1, <1>3, <1>4, <1>5, <1>6, <1>7, DepStays DEF DepQuiet, DepEdge

\* A task that works on no deployment, and holds no lock, goes on to a step outside of
\* the work on a deployment.
LEMMA DepWanders ==
  ASSUME DepInv, NEW t \in L!Task, NEW n \in DepTask, task' = [task EXCEPT ![t] = n],
         UNCHANGED <<rows, srv, domain, config, serves, jobs, sick, leased, dlock>>,
         task[t].pc \in {"rest", "superseded", "stop", "observe"},
         n.pc \in {"rest", "superseded", "stop", "observe"} \/ (n.pc = "refresh" /\ t = L!Observer)
           \/ (n.pc = "stopfailed" /\ t = L!Reconciler),
         DepPlaces(t, n), DepStopsOld(n), t = L!Reconciler => DepReconciles(n),
         n.pc = "stopfailed" /\ domain.status \in L!Live /\ domain.applied => n.d # domain.upstream
  PROVE  DepInv'
<1>1. DepQuiet /\ dlock \in L!Task \cup {L!Free} /\ leased \subseteq L!D
  BY DepSame DEF DepInv, DepTyped
<1>2. ~(t \in Worker /\ n.pc \in DepWork) /\ n.pc \notin DepEdge
  BY DepConstants DEF DepWork, DepEdge
<1> QED
  BY <1>1, <1>2, DepStays DEF DepQuiet

\* Which tasks look for releases to stop.
LEMMA DepStoppers ==
  ASSUME DepInv, NEW t \in L!Task, task[t].pc \in {"superseded", "stop"}
  PROVE  (t \in Worker \/ t = L!Reconciler) /\ (task[t].pc = "superseded" => t \in Worker)
<1> QED
  BY DepConstants DEF DepInv, DepPlaced, DepEdge

LEMMA DepSupersedes ==
  ASSUME DepInv, NEW t \in L!Task, L!Superseded(t)
  PROVE  DepInv'
<1>1. /\ UNCHANGED <<rows, srv, domain, config, serves, jobs, sick, leased, dlock>>
      /\ task[t].pc = "superseded" /\ t \in Worker /\ t # L!Reconciler /\ task[t] \in DepTask
  BY DepStoppers, DepConstants DEF L!Superseded, L!At, L!outside, DepInv, DepTyped
<1>2. CASE L!End(t)
  <2>1. PICK n \in DepTask : n = L!Rest
    BY DepRest
  <2>2. DepPlaces(t, n) /\ DepStopsOld(n)
    BY <1>1, <2>1, DepRest, DepConstants DEF DepPlaces, DepStopsOld
  <2> QED
    BY <1>1, <1>2, <2>1, <2>2, DepRest, DepWanders DEF L!End
<1>3. ASSUME NEW d \in L!D, L!Old(d), task' = [task EXCEPT ![t].pc = "stop", ![t].up = d] PROVE DepInv'
  <2>1. PICK n : n = [task[t] EXCEPT !.pc = "stop", !.up = d]
    OBVIOUS
  <2>2. n \in DepTask /\ n.pc = "stop" /\ n.up = d
    BY <1>1, <2>1, DepRest DEF DepTask
  <2>3. task' = [task EXCEPT ![t] = n]
    BY <1>3, <2>1 DEF DepInv, DepTyped
  <2>4. DepPlaces(t, n) /\ DepStopsOld(n)
    BY <1>1, <1>3, <2>2, DepConstants DEF DepPlaces, DepStopsOld, L!Old, L!Is
  <2> QED
    BY <1>1, <2>2, <2>3, <2>4, DepWanders
<1> QED
  BY <1>2, <1>3 DEF L!Superseded

LEMMA DepReconcilesFailed ==
  ASSUME DepInv, NEW d \in L!D, L!ReconcileFailed(d)
  PROVE  DepInv'
<1> DEFINE t == L!Reconciler
<1>1. /\ UNCHANGED <<rows, srv, domain, config, serves, jobs, sick, leased, dlock>>
      /\ task[t].pc = "rest" /\ t \in L!Task
  BY DepConstants DEF L!ReconcileFailed, L!At, L!outside
<1>2. PICK n : n = [L!Rest EXCEPT !.pc = "stopfailed", !.d = d]
  OBVIOUS
<1>3. n \in DepTask /\ n.pc = "stopfailed" /\ n.d = d
  BY <1>2, DepConstants, DepRest DEF DepTask, DepWork, L!Rest
<1>4. task' = [task EXCEPT ![t] = n]
  BY <1>2 DEF L!ReconcileFailed
<1>5. DepPlaces(t, n) /\ DepStopsOld(n) /\ DepReconciles(n)
  BY <1>3, DepConstants DEF DepPlaces, DepStopsOld, DepReconciles, L!ReconcileFailed, L!Is
<1>6. domain.status \in L!Live /\ domain.applied => d # domain.upstream
  BY DepConstants DEF L!ReconcileFailed, L!Protected
<1> QED
  BY <1>1, <1>3, <1>4, <1>5, <1>6, DepWanders

LEMMA DepReconcilesOld ==
  ASSUME DepInv, L!ReconcileOld
  PROVE  DepInv'
<1> DEFINE t == L!Reconciler
<1>1. /\ UNCHANGED <<rows, srv, domain, config, serves, jobs, sick, leased, dlock>>
      /\ task[t].pc = "rest" /\ t \in L!Task
  BY DepConstants DEF L!ReconcileOld, L!At, L!outside
<1>2. PICK d \in L!D : L!Old(d) /\ task' = [task EXCEPT ![t] = [L!Rest EXCEPT !.pc = "stop", !.up = d]]
  BY DEF L!ReconcileOld
<1>3. PICK n : n = [L!Rest EXCEPT !.pc = "stop", !.up = d]
  OBVIOUS
<1>4. n \in DepTask /\ n.pc = "stop" /\ n.up = d
  BY <1>3, DepConstants, DepRest DEF DepTask, L!Rest
<1>5. DepPlaces(t, n) /\ DepStopsOld(n) /\ DepReconciles(n)
  BY <1>2, <1>4, DepConstants DEF DepPlaces, DepStopsOld, DepReconciles, L!Old, L!Is
<1> QED
  BY <1>1, <1>2, <1>3, <1>4, <1>5, DepWanders

LEMMA DepReads ==
  ASSUME DepInv, L!ReadService
  PROVE  DepInv'
<1> DEFINE t == L!Reconciler
<1>1. /\ UNCHANGED <<rows, srv, domain, config, serves, jobs, sick, leased, dlock>>
      /\ task[t].pc = "rest" /\ t \in L!Task /\ srv.current \in DepNumber /\ srv.current # 0
  BY DepConstants DEF L!ReadService, L!At, L!outside, DepInv, DepTyped, DepSrv
<1>2. PICK n : n = [L!Rest EXCEPT !.pc = "observe", !.d = srv.current,
                                  !.then = IF srv.unhealthy THEN "rollback" ELSE "rest"]
  OBVIOUS
<1>3. n \in DepTask /\ n.pc = "observe" /\ n.d = srv.current
  BY <1>1, <1>2, DepConstants, DepRest DEF DepTask, L!Rest
<1>4. task' = [task EXCEPT ![t] = n]
  BY <1>2 DEF L!ReadService
<1>5. DepPlaces(t, n) /\ DepStopsOld(n) /\ DepReconciles(n)
  BY <1>1, <1>3, DepConstants DEF DepPlaces, DepStopsOld, DepReconciles
<1> QED
  BY <1>1, <1>3, <1>4, <1>5, DepWanders

LEMMA DepObservesDomain ==
  ASSUME DepInv, L!ObserveDomain
  PROVE  DepInv'
<1> DEFINE t == L!Observer
<1>1. /\ UNCHANGED <<rows, srv, domain, config, serves, jobs, sick, leased, dlock>>
      /\ task[t].pc = "rest" /\ t \in L!Task
  BY DepConstants DEF L!ObserveDomain, L!At, L!outside
<1>2. PICK n : n = [L!Rest EXCEPT !.pc = "refresh"]
  OBVIOUS
<1>3. n \in DepTask /\ n.pc = "refresh" /\ n.then = "rest"
  BY <1>2, DepConstants, DepRest DEF DepTask, DepWork, L!Rest
<1>4. task' = [task EXCEPT ![t] = n]
  BY <1>2 DEF L!ObserveDomain
<1>5. DepPlaces(t, n) /\ DepStopsOld(n) /\ t # L!Reconciler
  BY <1>1, <1>3, DepConstants DEF DepPlaces, DepStopsOld, DepReconciles
<1> QED
  BY <1>1, <1>3, <1>4, <1>5, DepWanders

LEMMA DepResumes ==
  ASSUME DepInv, L!Resume
  PROVE  DepInv'
<1> DEFINE t == L!Creator
<1>1. /\ UNCHANGED <<rows, srv, domain, config, serves, jobs, sick, leased>> /\ DepQuiet
      /\ task[t].pc = "rest" /\ t \in L!Task /\ L!Address \in DepNumber /\ dlock = L!Free /\ dlock' = t
      /\ leased \subseteq L!D /\ domain.status = "provisioning"
  BY DepConstants, DepSame DEF L!Resume, L!At, L!outside, DepInv, DepTyped, DepSrv, L!Address
<1>2. PICK n : n = [L!Rest EXCEPT !.pc = "provision", !.up = L!Address]
  OBVIOUS
<1>3. n \in DepTask /\ n.pc = "provision"
  BY <1>1, <1>2, DepConstants, DepRest DEF DepTask, L!Rest
<1>4. task' = [task EXCEPT ![t] = n]
  BY <1>2 DEF L!Resume
<1>5. DepPlaces(t, n) /\ DepStopsOld(n) /\ t # L!Reconciler /\ t \notin Worker
  BY <1>3, DepConstants DEF DepPlaces, DepStopsOld
<1> QED
  BY <1>1, <1>3, <1>4, <1>5, DepStays DEF DepQuiet, DepEdge

LEMMA DepLosesRoute ==
  ASSUME DepInv, NEW t \in L!Task, UNCHANGED <<config, serves, jobs, sick, rows, srv, domain, leased>>,
         task[t].pc \in {"put", "wait"}, L!To(t, L!Failing(t)), dlock' = L!Free
  PROVE  DepInv'
<1>1. dlock = t
  BY DEF DepInv, DepLocks, DepEdge
<1> QED
  BY <1>1, DepAlone, DepLeaves

\* What each part of the invariant does not depend on.
LEMMA DepUntouched ==
  ASSUME DepInv
  PROVE  /\ UNCHANGED task => DepPlaced'
         /\ UNCHANGED <<task, rows, leased, srv, jobs>> => DepWorks'
         /\ UNCHANGED <<task, rows, srv, jobs>> /\ domain'.status = domain.status => DepRuns'
         /\ UNCHANGED <<task, dlock, domain, config>> => DepLocks'
         /\ UNCHANGED <<task, rows, srv, jobs, domain, config, serves>> => DepRoutes'
<1>1. UNCHANGED task => DepPlaced'
  BY DEF DepInv, DepPlaced
<1>2. UNCHANGED <<task, rows, leased, srv, jobs>> => DepWorks'
  BY DEF DepInv, DepWorks, L!Is, DepCommits, DepReverts, DepGivesUp
<1>3. UNCHANGED <<task, rows, srv, jobs>> /\ domain'.status = domain.status => DepRuns'
  BY DEF DepInv, DepRuns, L!Is
<1>4. UNCHANGED <<task, dlock, domain, config>> => DepLocks'
  BY DEF DepInv, DepLocks
<1>5. UNCHANGED <<task, rows, srv, jobs, domain, config, serves>> => DepRoutes'
  BY DEF DepInv, DepRoutes, DepSends, DepPublic, DepSafe, DepReverts, DepCommits, L!Is
<1> QED
  BY <1>1, <1>2, <1>3, <1>4, <1>5

LEMMA DepApplies ==
  ASSUME DepInv, L!Apply
  PROVE  DepInv'
<1>1. DepTyped'
  BY DEF DepInv, DepTyped, L!Apply
<1>2. DepPlaced' /\ DepWorks' /\ DepRuns' /\ DepLocks'
  BY DepUntouched DEF L!Apply
<1>3. DepRoutes'
  BY DEF DepInv, DepRoutes, DepSends, DepPublic, DepSafe, DepReverts, DepCommits, L!Is, L!Apply
<1> QED
  BY <1>1, <1>2, <1>3 DEF DepInv

LEMMA DepSeesDomain ==
  ASSUME DepInv, L!SeeDomain
  PROVE  DepInv'
<1>1. domain \in DepDomain /\ domain.status \in L!Live /\ domain.status = "pending"
  BY DepConstants DEF DepInv, DepTyped, L!SeeDomain
<1>2. PICK n : n = [domain EXCEPT !.status = "observed"]
  OBVIOUS
<1>3. n \in DepDomain /\ n.status = "observed" /\ n.upstream = domain.upstream /\ n.applied = domain.applied
  BY <1>1, <1>2 DEF DepDomain
<1>4. domain' = n /\ n.status \in L!Live
  BY <1>2, <1>3, DepConstants DEF L!SeeDomain
<1>5. DepTyped'
  BY <1>3, <1>4 DEF DepInv, DepTyped, L!SeeDomain, L!outside
<1>6. DepPlaced' /\ DepWorks'
  BY DepUntouched DEF L!SeeDomain, L!outside
<1>7. DepRuns'
  BY <1>1, <1>3, <1>4 DEF DepInv, DepRuns, L!Is, L!SeeDomain, L!outside
<1>8. DepLocks'
  BY <1>1, <1>3, <1>4 DEF DepInv, DepLocks, L!SeeDomain, L!outside
<1>9. DepRoutes'
  BY <1>1, <1>3, <1>4
     DEF DepInv, DepRoutes, DepSends, DepPublic, DepSafe, DepReverts, DepCommits, L!Is, L!SeeDomain, L!outside
<1> QED
  BY <1>5, <1>6, <1>7, <1>8, <1>9 DEF DepInv

LEMMA DepDeletesDomain ==
  ASSUME DepInv, L!DeleteDomain
  PROVE  DepInv'
<1>1. PICK n : n = [status |-> "none", upstream |-> 0, applied |-> FALSE]
  OBVIOUS
<1>2. n \in DepDomain /\ n.status = "none" /\ n.status \notin L!Live /\ domain' = n
  BY <1>1, DepConstants DEF DepDomain, L!DeleteDomain
<1>3. \A t \in L!Task : task[t].pc \notin DepEdge /\ task[t].pc # "save"
  BY DepConstants DEF DepInv, DepLocks, DepEdge, L!DeleteDomain
<1>4. task[L!Creator].pc \notin {"provision", "provisioned"}
  BY DepConstants DEF DepInv, DepLocks, L!DeleteDomain
<1>5. DepTyped'
  <2>1. 0 \in DepNumber /\ config' = 0 /\ serves' = 0
    BY DepConstants DEF L!DeleteDomain
  <2> QED
    BY <1>2, <2>1 DEF DepInv, DepTyped, L!DeleteDomain
<1>6. DepPlaced' /\ DepWorks'
  BY DepUntouched DEF L!DeleteDomain
<1>7. DepRuns'
  BY <1>2 DEF DepInv, DepRuns, L!Is, L!DeleteDomain
<1>8. DepLocks'
  BY <1>2, <1>3, <1>4 DEF DepLocks, L!DeleteDomain
<1>9. DepRoutes'
  <2>1. \A t \in L!Task, x \in DepNumber : ~DepSends(t, x)'
    BY <1>3 DEF DepSends, DepEdge, L!DeleteDomain
  <2>2. domain'.status \notin L!Live
    BY <1>2 DEF L!Live
  <2> QED
    BY <2>1, <2>2, DepConstants DEF DepRoutes
<1> QED
  BY <1>5, <1>6, <1>7, <1>8, <1>9 DEF DepInv

\* The deployment to be queued is one that has no row yet.
LEMMA DepNew ==
  ASSUME DepInv, L!Queueable
  PROVE  L!New \in L!D /\ rows[L!New].status = "none"
<1>1. PICK S \in SUBSET Nat : S = {d \in L!D : L!Is(d, {"none"})} /\ S # {}
  <2>1. {d \in L!D : L!Is(d, {"none"})} \in SUBSET Nat
    BY DepConstants
  <2>2. MaxDeployments \in {d \in L!D : L!Is(d, {"none"})}
    BY DepConstants DEF L!Queueable
  <2> QED
    BY <2>1, <2>2
<1>2. PICK d \in S : \A e \in S : <<e, d>> \notin OpToRel(<, Nat)
  BY <1>1, NatLessThanWellFounded, WFMin
<1>3. \A e \in S : e >= d
  <2>1. \A e \in S : ~(e < d)
    BY <1>1, <1>2, Zenon DEF OpToRel
  <2> QED
    BY <1>1, <2>1
<1>4. \E x \in L!D : L!Is(x, {"none"}) /\ \A e \in L!D : L!Is(e, {"none"}) => e >= x
  BY <1>1, <1>3
<1> QED
  BY <1>4 DEF L!New, L!Is

\* The owner, or the rollback of the reconciler, queues a deployment, or nothing; what
\* the reconciler has seen is written.
LEMMA DepQueues ==
  ASSUME DepInv, UNCHANGED <<leased, domain, config, serves, dlock, jobs, sick>>,
         srv' \in DepSrv, srv'.current = srv.current, srv'.promotion = srv.promotion,
         srv'.status = srv.status \/ (srv.status \notin {"deleting", "gone"} /\ srv'.status \notin {"deleting", "gone"}),
         UNCHANGED task \/ task' = [task EXCEPT ![L!Reconciler] = L!Rest],
         UNCHANGED rows \/ (L!Queueable /\ \E b \in BOOLEAN : L!Queue(b))
  PROVE  DepInv'
<1>1. rows' \in [L!D -> DepRow]
  <2>1. ASSUME L!Queueable, NEW b \in BOOLEAN, L!Queue(b) PROVE rows' \in [L!D -> DepRow]
    <3>1. [status |-> "queued", stopped |-> FALSE, rollback |-> b] \in DepRow
      BY DEF DepRow
    <3> QED
      BY <2>1, <3>1, DepNew DEF L!Queue, DepInv, DepTyped
  <2> QED
    BY <2>1 DEF DepInv, DepTyped
<1>2. \/ \A d \in L!D : rows'[d].status = rows[d].status
      \/ /\ srv.status \notin {"deleting", "gone"} /\ ~\E d \in L!D : L!Is(d, L!Active)
         /\ \E x \in L!D : /\ rows[x].status = "none" /\ rows'[x].status = "queued"
                           /\ \A d \in L!D : d # x => rows'[d].status = rows[d].status
  <2>1. ASSUME L!Queueable, NEW b \in BOOLEAN, L!Queue(b)
        PROVE  \E x \in L!D : /\ rows[x].status = "none" /\ rows'[x].status = "queued"
                              /\ \A d \in L!D : d # x => rows'[d].status = rows[d].status
    BY <2>1, DepNew DEF L!Queue, DepInv, DepTyped
  <2> QED
    BY <2>1 DEF L!Queueable
<1>3. \A s \in L!Task : task'[s] = task[s] \/ (s = L!Reconciler /\ task'[s] = L!Rest /\ task'[s].pc = "rest")
  BY DepRest, DepConstants DEF DepInv, DepTyped
<1>4. /\ \A d \in L!D : L!Is(d, L!Active) => L!Is(d, L!Active)'
      /\ \A d, e \in L!D : L!Is(d, L!Active)' /\ L!Is(e, L!Active)' => d = e
      /\ srv.status \in {"deleting", "gone"} => \A d \in L!D : L!Is(d, L!Active)' => L!Is(d, L!Active)
      /\ \A d \in L!D : \A s \in {"healthy", "failed", "removed"} : rows'[d].status = s <=> rows[d].status = s
      /\ \A d \in L!D : rows'[d].status = "none" => rows[d].status = "none"
  BY <1>2, DepConstants DEF L!Is, DepInv, DepWorks
<1>5. DepTyped'
  BY <1>1, DepRest DEF DepInv, DepTyped
<1>6. DepPlaced'
  BY <1>3, DepConstants DEF DepInv, DepPlaced
<1>7. DepWorks'
  <2>1. \A w \in Worker : task'[w] = task[w]
    BY <1>3, DepConstants
  <2> QED
    BY <1>4, <2>1 DEF DepInv, DepWorks, L!Is, DepCommits, DepReverts, DepGivesUp
<1>8. DepRuns'
  <2>1. srv'.current # 0 => L!Is(srv.current, {"healthy"})' /\ srv'.current \in jobs'
    BY <1>4 DEF DepInv, DepRuns, DepTyped, L!Is
  <2>2. srv'.promotion # 0 => L!Is(srv.promotion, L!Active)' /\ srv'.promotion \in jobs'
    BY <1>4 DEF DepInv, DepRuns, DepTyped
  <2>3. \A d \in jobs' : ~L!Is(d, {"none"})'
    BY <1>4 DEF DepInv, DepRuns, DepTyped, L!Is
  <2>4. \A s \in L!Task : task'[s].pc = "stop" =>
          task'[s].up \in L!D /\ L!Is(task[s].up, {"healthy", "removed"})' /\ task'[s].up # srv'.current
    BY <1>3, <1>4 DEF DepInv, DepRuns, L!Is
  <2>5. task'[L!Reconciler].pc = "stopfailed" =>
          task'[L!Reconciler].d \in L!D /\ L!Is(task[L!Reconciler].d, {"failed", "removed"})'
    BY <1>3, <1>4, DepConstants DEF DepInv, DepRuns, L!Is
  <2>6. task'[L!Reconciler].pc = "observe" => task'[L!Reconciler].d # 0
    BY <1>3, DepConstants DEF DepInv, DepRuns
  <2>7. srv'.status \in {"deleting", "gone"} => ~\E d \in L!D : L!Is(d, L!Active)'
    BY <1>4 DEF DepInv, DepRuns
  <2>8. srv'.status = "gone" => jobs' = {} /\ srv'.current = 0 /\ srv'.promotion = 0 /\ domain'.status = "none"
    BY DEF DepInv, DepRuns
  <2> QED
    BY <2>1, <2>2, <2>3, <2>4, <2>5, <2>6, <2>7, <2>8 DEF DepRuns
<1>9. DepLocks'
  <2>1. \A s \in L!Task : task'[s].pc \in DepEdge \/ task'[s].pc \in {"provision", "provisioned"} => task'[s] = task[s]
    BY <1>3 DEF DepEdge
  <2>2. \A s \in L!Task : task[s].pc = "save" => task'[s] = task[s]
    BY <1>3, DepConstants DEF DepInv, DepPlaced
  <2> QED
    BY <2>1, <2>2, DepConstants DEF DepInv, DepLocks, DepEdge
<1>10. DepRoutes'
  <2>1. \A w \in Worker : task'[w] = task[w]
    BY <1>3, DepConstants
  <2>2. \A s \in L!Task, x \in DepNumber : DepSends(s, x)' => DepSends(s, x)
    BY <1>3 DEF DepSends
  <2>3. \A x \in DepNumber : DepPublic(x) => DepPublic(x)'
    BY <2>1 DEF DepPublic, DepReverts
  <2>4. \A x \in L!D : DepSafe(x) => DepSafe(x)'
    BY <1>3, <1>4 DEF DepSafe, L!Is
  <2>5. domain.status \in L!Live /\ domain.applied => domain.upstream \in L!D
    BY DEF DepInv, DepRoutes, DepSafe, DepTyped
  <2>6. domain'.status \in L!Live /\ domain'.applied => DepSafe(domain.upstream)' /\ serves' \in {domain'.upstream, config'}
    <3>1. PICK x : x = domain.upstream
      OBVIOUS
    <3>2. domain.status \in L!Live /\ domain.applied => DepSafe(x)'
      BY <2>4, <2>5, <3>1 DEF DepInv, DepRoutes
    <3>3. domain'.upstream = x
      BY <3>1
    <3> QED
      BY <3>2, <3>3 DEF DepInv, DepRoutes, DepSafe
  <2>7. \A t \in L!Task, x \in DepNumber : DepSends(t, x)' => DepPublic(x)'
    BY <2>2, <2>3 DEF DepInv, DepRoutes
  <2>8. ASSUME NEW w \in Worker, NEW x \in DepNumber, DepSends(w, x)', DepCommits(task[w])' PROVE x = task'[w].d
    <3>1. DepSends(w, x) /\ DepCommits(task[w]) /\ task'[w] = task[w]
      BY <2>1, <2>2, <2>8, DepConstants DEF DepCommits
    <3> QED
      BY <3>1 DEF DepInv, DepRoutes
  <2>9. \A w \in Worker : task'[w].pc = "commit" =>
          /\ \A t \in L!Task, x \in DepNumber : DepSends(t, x)' => x = task'[w].d
          /\ domain'.status \in L!Live /\ domain'.applied => domain'.upstream = task'[w].d
    BY <2>1, <2>2 DEF DepInv, DepRoutes
  <2> QED
    BY <2>6, <2>7, <2>8, <2>9 DEF DepRoutes
<1> QED
  BY <1>5, <1>6, <1>7, <1>8, <1>9, <1>10 DEF DepInv

LEMMA DepDeploys ==
  ASSUME DepInv, L!Deploy
  PROVE  DepInv'
<1>1. srv \in DepSrv
  BY DEF DepInv, DepTyped
<1> QED
  BY <1>1, DepQueues DEF L!Deploy, L!outside

LEMMA DepObserves ==
  ASSUME DepInv, L!Observe
  PROVE  DepInv'
<1> DEFINE d == task[L!Reconciler].d
<1>1. srv \in DepSrv /\ d # 0
  BY DEF DepInv, DepTyped, DepRuns, L!Observe, L!At
<1>2. PICK well \in BOOLEAN : srv' = IF srv.current = d /\ srv.status # "deleting"
                          THEN [srv EXCEPT !.status = IF well THEN "healthy" ELSE "degraded", !.unhealthy = ~well]
                          ELSE srv
  BY DEF L!Observe
<1>3. PICK n : n = [srv EXCEPT !.status = IF well THEN "healthy" ELSE "degraded", !.unhealthy = ~well]
  OBVIOUS
<1>4. n \in DepSrv /\ n.current = srv.current /\ n.promotion = srv.promotion /\ n.status \in {"healthy", "degraded"}
  BY <1>1, <1>3 DEF DepSrv
<1>5. srv.current = d => srv.status # "gone"
  BY <1>1 DEF DepInv, DepRuns
<1>6. /\ srv' \in DepSrv /\ srv'.current = srv.current /\ srv'.promotion = srv.promotion
      /\ srv'.status = srv.status \/ (srv.status \notin {"deleting", "gone"} /\ srv'.status \notin {"deleting", "gone"})
  BY <1>1, <1>2, <1>3, <1>4, <1>5
<1>7. UNCHANGED rows \/ (L!Queueable /\ \E b \in BOOLEAN : L!Queue(b))
  BY DEF L!Observe
<1> QED
  BY <1>6, <1>7, DepQueues DEF L!Observe, L!outside, L!End

LEMMA DepRemovesService ==
  ASSUME DepInv, L!RemoveService
  PROVE  DepInv'
<1>1. srv \in DepSrv
  BY DEF DepInv, DepTyped
<1>2. PICK n : n = [srv EXCEPT !.status = "deleting"]
  OBVIOUS
<1>3. /\ n \in DepSrv /\ n.status = "deleting" /\ n.current = srv.current /\ n.promotion = srv.promotion /\ srv' = n
  BY <1>1, <1>2 DEF DepSrv, L!RemoveService
<1>4. DepTyped'
  BY <1>3 DEF DepInv, DepTyped, L!RemoveService, L!outside
<1>5. DepPlaced' /\ DepLocks'
  BY DepUntouched DEF L!RemoveService, L!outside
<1>6. DepWorks'
  BY <1>3 DEF DepInv, DepWorks, L!Is, DepCommits, DepReverts, DepGivesUp, L!RemoveService, L!outside
<1>7. DepRuns'
  BY <1>3 DEF DepInv, DepRuns, L!Is, L!RemoveService, L!Removable, L!outside
<1>8. DepRoutes'
  BY <1>3 DEF DepInv, DepRoutes, DepSends, DepPublic, DepSafe, DepReverts, DepCommits, L!Is, L!RemoveService, L!outside
<1> QED
  BY <1>4, <1>5, <1>6, <1>7, <1>8 DEF DepInv

LEMMA DepRemoves ==
  ASSUME DepInv, L!Remove
  PROVE  DepInv'
<1>1. srv \in DepSrv /\ 0 \in DepNumber
  BY DepConstants DEF DepInv, DepTyped
<1>2. PICK n : n = [srv EXCEPT !.status = "gone", !.current = 0, !.promotion = 0]
  OBVIOUS
<1>3. n \in DepSrv /\ n.status = "gone" /\ n.current = 0 /\ n.promotion = 0 /\ srv' = n
  BY <1>1, <1>2 DEF DepSrv, L!Remove
<1>4. rows' \in [L!D -> DepRow] /\ \A d \in L!D : rows'[d].status = "removed"
  <2>1. ASSUME NEW d \in L!D
        PROVE  /\ [rows[d] EXCEPT !.status = "removed"] \in DepRow
               /\ [rows[d] EXCEPT !.status = "removed"].status = "removed"
    <3>1. rows[d] \in DepRow
      BY DEF DepInv, DepTyped
    <3> QED
      BY <3>1 DEF DepRow
  <2>2. rows' = [d \in L!D |-> [rows[d] EXCEPT !.status = "removed"]]
    BY DEF L!Remove
  <2> QED
    BY <2>1, <2>2
<1>5. jobs' = {}
  BY DEF L!Remove, DepInv, DepRuns, DepTyped, L!Is
<1>6. \A w \in Worker : task[w].pc \notin DepWork
  BY DEF DepInv, DepWorks, DepRuns, L!Remove
<1>7. domain.status = "none" /\ domain.status \notin L!Live
  BY DepConstants DEF L!Remove
<1>8. \A t \in L!Task : task[t].pc \notin DepEdge
  BY <1>7 DEF DepInv, DepLocks
<1>9. DepTyped'
  BY <1>3, <1>4, <1>5 DEF DepInv, DepTyped, L!Remove, L!edge
<1>10. DepPlaced' /\ DepLocks'
  BY DepUntouched DEF L!Remove, L!edge
<1>11. \A d \in L!D : ~L!Is(d, L!Active)'
  BY <1>4, DepConstants DEF L!Is
<1>12. DepWorks'
  BY <1>6, <1>11 DEF DepWorks, L!Remove
<1>13. DepRuns'
  <2>1. \A d \in L!D : d # 0 /\ L!Is(d, {"healthy", "removed"})' /\ L!Is(d, {"failed", "removed"})'
    BY <1>4, DepConstants DEF L!Is
  <2>2. \A t \in L!Task : task'[t].pc = "stop" => task'[t].up \in L!D
    BY DEF DepInv, DepRuns, L!Remove
  <2>3. task'[L!Reconciler].pc = "stopfailed" => task'[L!Reconciler].d \in L!D
    BY DEF DepInv, DepRuns, L!Remove
  <2>4. task'[L!Reconciler].pc = "observe" => task'[L!Reconciler].d # 0
    BY DEF DepInv, DepRuns, L!Remove
  <2>5. \A t \in L!Task : task'[t].pc = "stop" =>
          task'[t].up \in L!D /\ L!Is(task[t].up, {"healthy", "removed"})' /\ task'[t].up # srv'.current
    BY <1>3, <2>1, <2>2 DEF L!Is
  <2>6. task'[L!Reconciler].pc = "stopfailed" =>
          task'[L!Reconciler].d \in L!D /\ L!Is(task[L!Reconciler].d, {"failed", "removed"})'
    BY <2>1, <2>3 DEF L!Is
  <2>7. domain'.status = "none"
    BY <1>7 DEF L!Remove
  <2> QED
    BY <1>3, <1>5, <1>11, <2>4, <2>5, <2>6, <2>7 DEF DepRuns
<1>14. DepRoutes'
  <2>1. \A t \in L!Task, x \in DepNumber : ~DepSends(t, x)'
    BY <1>8 DEF DepSends, DepEdge, L!Remove
  <2>2. domain'.status \notin L!Live
    BY <1>7 DEF L!Remove
  <2>3. \A w \in Worker : task'[w].pc # "commit"
    BY <1>6 DEF DepWork, L!Remove
  <2> QED
    BY <2>1, <2>2, <2>3, DepConstants DEF DepRoutes
<1> QED
  BY <1>9, <1>10, <1>12, <1>13, <1>14 DEF DepInv

LEMMA DepSickens ==
  ASSUME DepInv, NEW d \in L!D, L!Health(d)
  PROVE  DepInv'
<1>1. DepTyped'
  BY DEF DepInv, DepTyped, L!Health, L!edge
<1> QED
  BY <1>1, DepUntouched DEF DepInv, L!Health, L!edge

LEMMA DepLeaseEnds ==
  ASSUME DepInv, NEW d \in L!D, L!LeaseEnds(d)
  PROVE  DepInv'
<1>1. DepTyped'
  BY DEF DepInv, DepTyped, L!LeaseEnds, L!outside
<1>2. DepPlaced' /\ DepRuns' /\ DepLocks' /\ DepRoutes'
  BY DepUntouched DEF L!LeaseEnds, L!outside
<1>3. DepWorks'
  BY DEF DepInv, DepWorks, L!Is, DepCommits, DepReverts, DepGivesUp, L!LeaseEnds, L!outside
<1> QED
  BY <1>1, <1>2, <1>3 DEF DepInv

LEMMA DepRestarts ==
  ASSUME DepInv, L!Restart
  PROVE  DepInv'
<1>1. /\ UNCHANGED <<rows, leased, srv, domain, config, serves, jobs, sick>> /\ dlock' = L!Free
      /\ task' = [t \in L!Task |-> L!Rest] /\ \A t \in L!Task : task[t].pc # "save"
  BY DEF L!Restart, L!outside, L!At
<1>2. \A t \in L!Task : task'[t].pc = "rest" /\ task'[t].then = "rest" /\ task'[t] \in DepTask
  BY <1>1, DepRest
<1>3. DepTyped'
  BY <1>1, DepRest DEF DepInv, DepTyped
<1>4. DepPlaced'
  BY <1>2, DepConstants DEF DepPlaced
<1>5. DepWorks'
  BY <1>1, <1>2, DepConstants DEF DepInv, DepWorks, L!Is, DepWork, DepEdge
<1>6. DepRuns'
  BY <1>1, <1>2, DepConstants DEF DepInv, DepRuns, L!Is
<1>7. DepLocks'
  BY <1>1, <1>2, DepConstants DEF DepInv, DepLocks, DepEdge
<1>8. DepRoutes'
  <2>1. \A t \in L!Task, x \in DepNumber : ~DepSends(t, x)'
    BY <1>2 DEF DepSends
  <2>2. \A w \in Worker : task'[w].pc # "commit"
    BY <1>2, DepConstants
  <2>3. domain'.status \in L!Live /\ domain'.applied => DepSafe(domain.upstream)' /\ serves' \in {domain'.upstream, config'}
    BY <1>1, <1>2 DEF DepInv, DepRoutes, DepSafe, L!Is
  <2> QED
    BY <2>1, <2>2, <2>3, DepConstants DEF DepRoutes
<1> QED
  BY <1>3, <1>4, <1>5, <1>6, <1>7, <1>8 DEF DepInv

\* The steps of one task that change the service, its rows or its domain.
LEMMA DepPromotes ==
  ASSUME DepInv, NEW t \in Worker, L!Promote(t)
  PROVE  DepInv'
<1>1. /\ task[t].pc = "health" /\ t \in L!Task /\ DepHas(task[t]) /\ task[t].d \in leased /\ task[t] \in DepTask
      /\ task[t].d # 0 /\ task[t].d \in L!D /\ L!Is(task[t].d, L!Active) /\ task[t].d \in jobs
      /\ srv.promotion # 0 => srv.promotion = task[t].d
      /\ \A w \in Worker : task[w].pc \in DepWork => w = t
  BY DepWorker, DepConstants DEF L!Promote, L!At, DepHas
<1>2. PICK d \in DepNumber : d = task[t].d
  BY <1>1, DepRest
<1>3. PICK n : n = [task[t] EXCEPT !.pc = "refresh", !.then = "commit"]
  OBVIOUS
<1>4. n \in DepTask /\ n.pc = "refresh" /\ n.then = "commit" /\ n.d = d
  BY <1>1, <1>2, <1>3 DEF DepTask, DepWork
<1>5. PICK m : m = [srv EXCEPT !.promotion = d]
  OBVIOUS
<1>6. m \in DepSrv /\ m.promotion = d /\ m.current = srv.current /\ m.status = srv.status
  BY <1>5 DEF DepInv, DepTyped, DepSrv
<1>7. /\ srv' = m /\ task' = [task EXCEPT ![t] = n]
      /\ UNCHANGED <<rows, leased, domain, config, serves, jobs, sick, dlock>>
  BY <1>2, <1>3, <1>5 DEF L!Promote, L!outside, DepInv, DepTyped
<1>8. \A s \in L!Task : task'[s] = IF s = t THEN n ELSE task[s]
  BY <1>7 DEF DepInv, DepTyped
<1>9. DepTyped'
  BY <1>4, <1>6, <1>7 DEF DepInv, DepTyped
<1>10. DepPlaced'
  BY <1>4, <1>8, DepConstants DEF DepInv, DepPlaced, DepWork
<1>11. DepWorks'
  <2>1. \A w \in Worker : task'[w].pc \in DepWork => w = t
    BY <1>1, <1>8, DepConstants
  <2> QED
    BY <1>1, <1>2, <1>4, <1>6, <1>7, <1>8, <2>1, DepConstants
       DEF DepInv, DepWorks, L!Is, DepCommits, DepReverts, DepGivesUp, DepEdge
<1>12. DepRuns'
  BY <1>1, <1>2, <1>4, <1>6, <1>7, <1>8, DepConstants DEF DepInv, DepRuns, L!Is
<1>13. DepLocks'
  BY <1>1, <1>4, <1>7, <1>8, DepConstants DEF DepInv, DepLocks, DepEdge
<1>14. DepRoutes'
  <2>1. \A s \in L!Task, x \in DepNumber : DepSends(s, x)' => DepSends(s, x) /\ s # t
    BY <1>4, <1>7, <1>8 DEF DepSends
  <2>2. \A x \in DepNumber : DepPublic(x) => x # 0 /\ x \in {srv.current, srv.promotion}
    BY <1>1 DEF DepPublic, DepWork
  <2>3. \A s \in L!Task, x \in DepNumber : DepSends(s, x)' => DepPublic(x)'
    BY <1>1, <1>2, <1>6, <1>7, <2>1, <2>2 DEF DepInv, DepRoutes, DepPublic
  <2>4. \A w \in Worker, x \in DepNumber : ~DepSends(w, x)'
    BY <1>1, <2>1, DepConstants DEF DepSends, DepWork, DepEdge
  <2>5. \A w \in Worker : task'[w].pc # "commit"
    BY <1>1, <1>4, <1>8, DepConstants DEF DepWork
  <2>6. domain'.status \in L!Live /\ domain'.applied => DepSafe(domain.upstream)' /\ serves' \in {domain'.upstream, config'}
    BY <1>4, <1>6, <1>7, <1>8 DEF DepInv, DepRoutes, DepSafe, L!Is
  <2> QED
    BY <2>3, <2>4, <2>5, <2>6 DEF DepRoutes
<1> QED
  BY <1>9, <1>10, <1>11, <1>12, <1>13, <1>14 DEF DepInv

LEMMA DepCommitsIt ==
  ASSUME DepInv, NEW t \in Worker, L!Commit(t)
  PROVE  DepInv'
<1>1. /\ task[t].pc = "commit" /\ t \in L!Task /\ DepHas(task[t]) /\ task[t] \in DepTask /\ DepCommits(task[t])
      /\ task[t].d # 0 /\ task[t].d \in L!D /\ L!Is(task[t].d, L!Active) /\ srv.promotion = task[t].d
      /\ \A w \in Worker : task[w].pc \in DepWork => w = t
  BY DepWorker, DepConstants DEF L!Commit, L!At, DepHas, DepReverts, DepCommits, DepEdge
<1>2. PICK d \in L!D : d = task[t].d
  BY <1>1
<1>3. d \in jobs /\ d \in DepNumber /\ d # 0 /\ rows[d] \in DepRow
  BY <1>1, <1>2, DepRest DEF DepInv, DepRuns, DepTyped
<1>4. PICK n \in DepTask : n.pc = "superseded" /\ n.d = d /\ task' = [task EXCEPT ![t] = n]
  BY <1>1, <1>2, DepTurn DEF L!Commit
<1>5. PICK m : m = [srv EXCEPT !.status = "healthy", !.current = d, !.promotion = 0, !.unhealthy = FALSE]
  OBVIOUS
<1>6. m \in DepSrv /\ m.promotion = 0 /\ m.current = d /\ m.status = "healthy"
  <2>1. srv \in DepSrv /\ 0 \in DepNumber
    BY DepConstants DEF DepInv, DepTyped
  <2> QED
    BY <1>3, <1>5, <2>1 DEF DepSrv
<1>7. PICK r : r = [rows[d] EXCEPT !.status = "healthy"]
  OBVIOUS
<1>8. r \in DepRow /\ r.status = "healthy"
  BY <1>3, <1>7 DEF DepRow
<1>9. /\ srv' = m /\ rows' = [rows EXCEPT ![d] = r] /\ leased' = leased \ {d}
      /\ UNCHANGED <<domain, config, serves, jobs, sick, dlock>>
  BY <1>2, <1>5, <1>7 DEF L!Commit, L!SetRow, L!outside
<1>10. \A s \in L!Task : task'[s] = IF s = t THEN n ELSE task[s]
  BY <1>4 DEF DepInv, DepTyped
<1>11. \A e \in L!D : rows'[e] = IF e = d THEN r ELSE rows[e]
  BY <1>9 DEF DepInv, DepTyped
<1>12. \A e \in L!D : ~L!Is(e, L!Active)'
  BY <1>1, <1>2, <1>8, <1>11, DepConstants DEF DepInv, DepWorks, L!Is
<1>13. DepTyped'
  <2>1. rows' \in [L!D -> DepRow]
    BY <1>8, <1>9 DEF DepInv, DepTyped
  <2>2. task' \in [L!Task -> DepTask]
    BY <1>4 DEF DepInv, DepTyped
  <2> QED
    BY <1>6, <1>9, <2>1, <2>2 DEF DepInv, DepTyped
<1>14. DepPlaced'
  BY <1>4, <1>10, DepConstants DEF DepInv, DepPlaced, DepWork
<1>15. DepWorks'
  <2>1. \A w \in Worker : task'[w].pc \notin DepWork
    BY <1>1, <1>4, <1>10, DepConstants DEF DepWork, DepEdge
  <2> QED
    BY <1>12, <2>1 DEF DepWorks
<1>16. DepRuns'
  <2>1. L!Is(d, {"healthy"})' /\ srv'.current = d /\ srv'.promotion = 0 /\ d \in jobs'
    BY <1>3, <1>6, <1>8, <1>9, <1>11 DEF L!Is
  <2>2. \A e \in jobs' : ~L!Is(e, {"none"})'
    BY <1>8, <1>9, <1>11 DEF DepInv, DepRuns, DepTyped, L!Is
  <2>3. ASSUME NEW s \in L!Task, task'[s].pc = "stop"
        PROVE  task'[s].up \in L!D /\ L!Is(task[s].up, {"healthy", "removed"})' /\ task'[s].up # srv'.current
    <3>1. task'[s] = task[s] /\ task[s].up \in L!D /\ L!Is(task[s].up, {"healthy", "removed"})
      BY <1>4, <1>10, <2>3 DEF DepInv, DepRuns
    <3>2. task[s].up # d
      BY <1>1, <1>2, <3>1, DepConstants DEF L!Is
    <3> QED
      BY <1>11, <2>1, <3>1, <3>2 DEF L!Is
  <2>4. ASSUME task'[L!Reconciler].pc = "stopfailed"
        PROVE  task'[L!Reconciler].d \in L!D /\ L!Is(task[L!Reconciler].d, {"failed", "removed"})'
    <3>1. /\ task'[L!Reconciler] = task[L!Reconciler] /\ task[L!Reconciler].d \in L!D
          /\ L!Is(task[L!Reconciler].d, {"failed", "removed"})
      BY <1>4, <1>10, <2>4, DepConstants DEF DepInv, DepRuns
    <3>2. task[L!Reconciler].d # d
      BY <1>1, <1>2, <3>1, DepConstants DEF L!Is
    <3> QED
      BY <1>11, <3>1, <3>2 DEF L!Is
  <2>5. task'[L!Reconciler].pc = "observe" => task'[L!Reconciler].d # 0
    BY <1>4, <1>10, DepConstants DEF DepInv, DepRuns
  <2>6. srv'.status \notin {"deleting", "gone"}
    BY <1>6, <1>9
  <2>7. srv'.current # 0 => L!Is(srv.current, {"healthy"})' /\ srv'.current \in jobs'
    BY <2>1 DEF L!Is
  <2> QED
    BY <2>1, <2>2, <2>3, <2>4, <2>5, <2>6, <2>7 DEF DepRuns
<1>17. DepLocks'
  BY <1>1, <1>4, <1>9, <1>10, DepConstants DEF DepInv, DepLocks, DepEdge
<1>18. DepRoutes'
  <2>1. \A s \in L!Task, x \in DepNumber : DepSends(s, x)' => DepSends(s, x) /\ s # t
    BY <1>4, <1>9, <1>10 DEF DepSends
  <2>2. \A s \in L!Task, x \in DepNumber : DepSends(s, x)' => x = d
    BY <1>1, <1>2, <2>1 DEF DepInv, DepRoutes
  <2>3. DepPublic(d)'
    BY <1>3, <1>6, <1>9 DEF DepPublic
  <2>4. \A s \in L!Task, x \in DepNumber : DepSends(s, x)' => DepPublic(x)'
    BY <2>2, <2>3
  <2>5. \A w \in Worker, x \in DepNumber : ~DepSends(w, x)'
    BY <1>1, <2>1, DepConstants DEF DepSends, DepWork, DepEdge
  <2>6. \A w \in Worker : task'[w].pc # "commit"
    BY <1>1, <1>4, <1>10, DepConstants DEF DepWork
  <2>7. ASSUME domain'.status \in L!Live, domain'.applied
        PROVE  DepSafe(domain.upstream)' /\ serves' \in {domain'.upstream, config'}
    <3>1. domain.upstream = d /\ domain'.upstream = d /\ serves' \in {domain'.upstream, config'}
      BY <1>1, <1>2, <1>9, <2>7 DEF DepInv, DepRoutes
    <3>2. \A s \in L!Task : task'[s].pc = "stopfailed" => task'[s].d # d
      <4>1. ASSUME NEW s \in L!Task, task'[s].pc = "stopfailed" PROVE s = L!Reconciler
        BY <1>1, <1>4, <1>10, <4>1, DepConstants DEF DepInv, DepPlaced, DepWork, DepEdge
      <4>2. task[L!Reconciler].pc = "stopfailed" => task[L!Reconciler].d # d
        BY <1>1, <1>2, DepConstants DEF DepInv, DepRuns, L!Is
      <4> QED
        BY <1>4, <1>10, <4>1, <4>2
    <3>3. DepSafe(d)'
      BY <1>3, <1>6, <1>8, <1>9, <1>11, <3>2 DEF DepSafe, L!Is
    <3> QED
      BY <3>1, <3>3 DEF DepSafe, L!Is
  <2> QED
    BY <2>4, <2>5, <2>6, <2>7 DEF DepRoutes
<1> QED
  BY <1>13, <1>14, <1>15, <1>16, <1>17, <1>18 DEF DepInv

LEMMA DepRestores ==
  ASSUME DepInv, NEW t \in Worker, L!Restore(t)
  PROVE  DepInv'
<1>1. /\ task[t].pc = "failing" /\ t \in L!Task /\ DepHas(task[t]) /\ task[t].d \in leased /\ task[t] \in DepTask
      /\ task[t].d # 0 /\ task[t].d \in L!D /\ L!Is(task[t].d, L!Active) /\ task[t].d # srv.current
      /\ srv.promotion # 0 => srv.promotion = task[t].d
      /\ \A w \in Worker : task[w].pc \in DepWork => w = t
  BY DepWorker, DepConstants DEF L!Restore, L!At, DepHas
<1>2. CASE srv.promotion # task[t].d
  <2>1. L!To(t, "cleanup") /\ DepQuiet /\ UNCHANGED <<leased, dlock>> /\ srv.promotion = 0
    BY <1>1, <1>2, DepSame DEF L!Restore, L!outside
  <2> QED
    BY <1>1, <2>1, DepWorkerMoves DEF DepWork, DepEdge
<1>3. CASE srv.promotion = task[t].d
  <2>1. PICK d \in DepNumber : d = task[t].d
    BY <1>1, DepRest
  <2>2. PICK n : n = [task[t] EXCEPT !.pc = "refresh", !.then = "cleanup"]
    OBVIOUS
  <2>3. n \in DepTask /\ n.pc = "refresh" /\ n.then = "cleanup" /\ n.d = d
    BY <1>1, <2>1, <2>2 DEF DepTask, DepWork
  <2>4. PICK m : m = [srv EXCEPT !.promotion = 0]
    OBVIOUS
  <2>5. m \in DepSrv /\ m.promotion = 0 /\ m.current = srv.current /\ m.status = srv.status
    BY <2>4, DepConstants DEF DepInv, DepTyped, DepSrv
  <2>6. PICK o : o = [domain EXCEPT !.applied = FALSE]
    OBVIOUS
  <2>7. o \in DepDomain /\ o.applied = FALSE /\ o.upstream = domain.upstream /\ o.status = domain.status
    BY <2>6 DEF DepInv, DepTyped, DepDomain
  <2>8. /\ srv' = m /\ domain' = o /\ task' = [task EXCEPT ![t] = n]
        /\ UNCHANGED <<rows, leased, config, serves, jobs, sick, dlock>>
    BY <1>1, <1>3, <2>2, <2>4, <2>6 DEF L!Restore, L!Reverted, L!outside, DepInv, DepTyped
  <2>9. \A s \in L!Task : task'[s] = IF s = t THEN n ELSE task[s]
    BY <2>8 DEF DepInv, DepTyped
  <2>10. d \in jobs
    BY <1>1, <1>3, <2>1 DEF DepInv, DepRuns
  <2>11. DepTyped'
    BY <2>3, <2>5, <2>7, <2>8 DEF DepInv, DepTyped
  <2>12. DepPlaced'
    BY <2>3, <2>9, DepConstants DEF DepInv, DepPlaced, DepWork
  <2>13. DepWorks'
    <3>1. \A w \in Worker : task'[w].pc \in DepWork => w = t
      BY <1>1, <2>9, DepConstants
    <3> QED
      BY <1>1, <2>1, <2>3, <2>5, <2>8, <2>9, <2>10, <3>1, DepConstants
         DEF DepInv, DepWorks, L!Is, DepCommits, DepReverts, DepGivesUp, DepEdge
  <2>14. DepRuns'
    BY <2>3, <2>5, <2>7, <2>8, <2>9, DepConstants DEF DepInv, DepRuns, L!Is
  <2>15. DepLocks'
    BY <1>1, <2>3, <2>7, <2>8, <2>9, DepConstants DEF DepInv, DepLocks, DepEdge
  <2>16. DepRoutes'
    <3>1. \A s \in L!Task, x \in DepNumber : DepSends(s, x)' => DepSends(s, x) /\ s # t
      BY <2>3, <2>7, <2>8, <2>9 DEF DepSends
    <3>2. DepPublic(d)'
      BY <2>3, <2>9, <1>1 DEF DepPublic, DepReverts
    <3>3. ASSUME NEW x \in DepNumber, DepPublic(x) PROVE DepPublic(x)'
      <4>1. x = d \/ (x # 0 /\ x = srv.current)
        BY <1>1, <1>3, <2>1, <3>3 DEF DepPublic, DepWork
      <4>2. x # 0 /\ x = srv.current => DepPublic(x)'
        BY <2>5, <2>8 DEF DepPublic
      <4> QED
        BY <3>2, <4>1, <4>2
    <3>4. \A s \in L!Task, x \in DepNumber : DepSends(s, x)' => DepPublic(x)'
      BY <3>1, <3>3 DEF DepInv, DepRoutes
    <3>5. \A w \in Worker, x \in DepNumber : ~DepSends(w, x)'
      BY <1>1, <3>1, DepConstants DEF DepSends, DepWork, DepEdge
    <3>6. \A w \in Worker : task'[w].pc # "commit"
      BY <1>1, <2>3, <2>9, DepConstants DEF DepWork
    <3> QED
      BY <2>7, <2>8, <3>4, <3>5, <3>6 DEF DepRoutes
  <2> QED
    BY <2>11, <2>12, <2>13, <2>14, <2>15, <2>16 DEF DepInv
<1> QED
  BY <1>2, <1>3

\* What is public, or about to be, is safe.
LEMMA DepPublicSafe ==
  ASSUME DepInv, NEW x \in DepNumber, DepPublic(x)
  PROVE  DepSafe(x)
<1>1. CASE x # 0 /\ x = srv.current
  <2>1. L!Is(x, {"healthy"}) /\ x \in jobs /\ x \in L!D
    BY <1>1 DEF DepInv, DepRuns, DepTyped
  <2>2. \A t \in L!Task : task[t].pc = "stopfailed" => ~L!Is(task[t].d, {"healthy"})
    <3>1. \A t \in Worker : task[t].pc = "stopfailed" => L!Is(task[t].d, L!Active)
      BY DEF DepInv, DepWorks, DepWork
    <3>2. task[L!Reconciler].pc = "stopfailed" => L!Is(task[L!Reconciler].d, {"failed", "removed"})
      BY DEF DepInv, DepRuns
    <3>3. \A t \in L!Task : task[t].pc = "stopfailed" => t \in Worker \/ t = L!Reconciler
      BY DepConstants DEF DepInv, DepPlaced, DepEdge
    <3> QED
      BY <3>1, <3>2, <3>3, DepConstants DEF L!Is
  <2> QED
    BY <1>1, <2>1, <2>2 DEF DepSafe, L!Is
<1>2. ASSUME x \in L!D, x \in jobs, L!Is(x, L!Active), \A w \in Worker : task[w].pc = "stopfailed" => task[w].d # x
      PROVE  DepSafe(x)
  <2>1. task[L!Reconciler].pc = "stopfailed" => L!Is(task[L!Reconciler].d, {"failed", "removed"})
    BY DEF DepInv, DepRuns
  <2>2. \A t \in L!Task : task[t].pc = "stopfailed" => t \in Worker \/ t = L!Reconciler
    BY DepConstants DEF DepInv, DepPlaced, DepEdge
  <2> QED
    BY <1>2, <2>1, <2>2, DepConstants DEF DepSafe, L!Is
<1>3. CASE x # 0 /\ x = srv.promotion
  <2>1. x \in jobs /\ L!Is(x, L!Active) /\ x \in L!D
    BY <1>3 DEF DepInv, DepRuns, DepTyped
  <2>2. \A w \in Worker : task[w].pc # "stopfailed"
    BY <1>3 DEF DepInv, DepWorks, DepGivesUp, DepWork
  <2> QED
    BY <1>2, <2>1, <2>2
<1>4. ASSUME NEW w \in Worker, task[w].pc = "refresh", DepReverts(task[w]), x = task[w].d PROVE DepSafe(x)
  <2>1. DepHas(task[w]) /\ \A v \in Worker : task[v].pc \in DepWork => v = w
    BY <1>4, DepWorker, DepConstants DEF DepWork
  <2>2. x \in jobs /\ L!Is(x, L!Active) /\ x \in L!D
    BY <1>4, <2>1 DEF DepHas
  <2>3. \A v \in Worker : task[v].pc = "stopfailed" => task[v].d # x
    BY <1>4, <2>1 DEF DepWork
  <2> QED
    BY <1>2, <2>2, <2>3
<1> QED
  BY <1>1, <1>3, <1>4 DEF DepPublic

\* A job is stopped that is neither in use nor public.
LEMMA DepStopsJob ==
  ASSUME DepInv, NEW t \in L!Task, NEW n \in DepTask, task' = [task EXCEPT ![t] = n], NEW x \in L!D,
         jobs' = jobs \ {x}, rows' = [rows EXCEPT ![x].stopped = TRUE],
         UNCHANGED <<leased, srv, domain, config, serves, sick, dlock>>,
         task[t].pc \in {"stop", "stopfailed"}, n.pc = "rest" \/ (n.pc = "fail" /\ t \in Worker /\ task[t].pc = "stopfailed"),
         t = L!Observer => n.then = "rest", n.pc = "fail" => n.d = task[t].d,
         x # srv.current, x # srv.promotion,
         \A w \in Worker : task[w].pc = "refresh" /\ DepReverts(task[w]) => task[w].d # x,
         domain.status \in L!Live /\ domain.applied => domain.upstream # x
  PROVE  DepInv'
<1>1. \A s \in L!Task : task'[s] = IF s = t THEN n ELSE task[s]
  BY DEF DepInv, DepTyped
<1>2. rows[x] \in DepRow
  BY DEF DepInv, DepTyped
<1>3. PICK r : r = [rows[x] EXCEPT !.stopped = TRUE]
  OBVIOUS
<1>4. r \in DepRow /\ r.status = rows[x].status
  BY <1>2, <1>3 DEF DepRow
<1>5. rows' = [rows EXCEPT ![x] = r]
  BY <1>3
<1>6. rows' \in [L!D -> DepRow] /\ \A d \in L!D : rows'[d].status = rows[d].status
  BY <1>4, <1>5 DEF DepInv, DepTyped
<1>7. DepTyped'
  BY <1>1, <1>6 DEF DepInv, DepTyped
<1>8. DepPlaced'
  BY <1>1, DepConstants DEF DepInv, DepPlaced, DepWork
<1>9. DepWorks'
  <2>1. \A v, w \in Worker : task'[v].pc \in DepWork /\ task'[w].pc \in DepWork => v = w
    BY <1>1, DepConstants DEF DepInv, DepWorks, DepWork, DepEdge
  <2>2. \A d, e \in L!D : L!Is(d, L!Active)' /\ L!Is(e, L!Active)' => d = e
    BY <1>6 DEF DepInv, DepWorks, L!Is
  <2>3. ASSUME NEW w \in Worker, task'[w].pc \in DepWork
        PROVE  DepHas(task'[w]) /\ task'[w].d \in leased /\ (DepReverts(task'[w]) /\ task'[w].pc = "refresh" => task'[w].d # x)
    <3>1. CASE w # t
      BY <1>1, <2>3, <3>1, DepConstants DEF DepInv, DepWorks, DepHas
    <3>2. CASE w = t
      <4>1. n.pc = "fail" /\ n.d = task[t].d /\ task[t].pc = "stopfailed" /\ task'[w] = n
        BY <1>1, <2>3, <3>2, DepConstants DEF DepWork, DepEdge
      <4>2. DepHas(task[t]) /\ task[t].d \in leased
        BY <3>2, <4>1, DepWorker DEF DepWork
      <4> QED
        BY <4>1, <4>2 DEF DepHas, DepCommits, DepReverts, DepGivesUp, DepEdge
    <3> QED
      BY <3>1, <3>2
  <2> QED
    BY <1>6, <2>1, <2>2, <2>3 DEF DepWorks, DepHas, L!Is, DepCommits, DepReverts, DepGivesUp
<1>10. DepRuns'
  <2>1. \A d \in L!D, S \in {{"none"}, {"healthy"}, L!Active, {"healthy", "removed"}, {"failed", "removed"}} :
          L!Is(d, S)' <=> L!Is(d, S)
    BY <1>6, DepConstants DEF L!Is
  <2>2. srv'.current # 0 => L!Is(srv.current, {"healthy"})' /\ srv'.current \in jobs'
    BY <1>6 DEF DepInv, DepRuns, DepTyped, L!Is
  <2>3. srv'.promotion # 0 => L!Is(srv.promotion, L!Active)' /\ srv'.promotion \in jobs'
    BY <1>6 DEF DepInv, DepRuns, DepTyped, L!Is
  <2>4. \A d \in jobs' : ~L!Is(d, {"none"})'
    BY <1>6 DEF DepInv, DepRuns, DepTyped, L!Is
  <2>5. \A s \in L!Task : task'[s].pc = "stop" =>
          task'[s].up \in L!D /\ L!Is(task[s].up, {"healthy", "removed"})' /\ task'[s].up # srv'.current
    BY <1>1, <1>6 DEF DepInv, DepRuns, L!Is
  <2>6. task'[L!Reconciler].pc = "stopfailed" =>
          task'[L!Reconciler].d \in L!D /\ L!Is(task[L!Reconciler].d, {"failed", "removed"})'
    BY <1>1, <1>6, DepConstants DEF DepInv, DepRuns, L!Is
  <2>7. task'[L!Reconciler].pc = "observe" => task'[L!Reconciler].d # 0
    BY <1>1, DepConstants DEF DepInv, DepRuns
  <2>8. srv'.status \in {"deleting", "gone"} => ~\E d \in L!D : L!Is(d, L!Active)'
    BY <1>6 DEF DepInv, DepRuns, L!Is
  <2>9. srv'.status = "gone" => jobs' = {} /\ srv'.current = 0 /\ srv'.promotion = 0 /\ domain'.status = "none"
    BY DEF DepInv, DepRuns
  <2> QED
    BY <2>2, <2>3, <2>4, <2>5, <2>6, <2>7, <2>8, <2>9 DEF DepRuns
<1>11. DepLocks'
  BY <1>1, DepConstants DEF DepInv, DepLocks, DepEdge
<1>12. DepRoutes'
  <2>1. \A s \in L!Task, y \in DepNumber : DepSends(s, y)' => DepSends(s, y) /\ s # t
    BY <1>1 DEF DepSends
  <2>2. \A y \in DepNumber : DepPublic(y) => DepPublic(y)'
    <3>1. \A w \in Worker : task[w].pc = "refresh" => task'[w] = task[w]
      BY <1>1, DepConstants
    <3> QED
      BY <3>1 DEF DepPublic, DepReverts
  <2>3. \A s \in L!Task, y \in DepNumber : DepSends(s, y)' => DepPublic(y)'
    BY <2>1, <2>2 DEF DepInv, DepRoutes
  <2>4. ASSUME NEW w \in Worker, NEW y \in DepNumber, DepSends(w, y)', DepCommits(task[w])' PROVE y = task'[w].d
    <3>1. DepSends(w, y) /\ task'[w] = task[w] /\ DepCommits(task[w])
      BY <1>1, <2>1, <2>4, DepConstants DEF DepCommits
    <3> QED
      BY <3>1 DEF DepInv, DepRoutes
  <2>5. ASSUME NEW w \in Worker, task'[w].pc = "commit"
        PROVE  /\ \A s \in L!Task, y \in DepNumber : DepSends(s, y)' => y = task'[w].d
               /\ domain'.status \in L!Live /\ domain'.applied => domain'.upstream = task'[w].d
    <3>1. task'[w] = task[w] /\ task[w].pc = "commit"
      BY <1>1, <2>5, DepConstants
    <3> QED
      BY <2>1, <3>1 DEF DepInv, DepRoutes
  <2>6. ASSUME domain'.status \in L!Live, domain'.applied
        PROVE  DepSafe(domain.upstream)' /\ serves' \in {domain'.upstream, config'}
    <3>1. DepSafe(domain.upstream) /\ serves \in {domain.upstream, config} /\ domain.upstream \in L!D
      BY <2>6 DEF DepInv, DepRoutes, DepSafe, DepTyped
    <3> QED
      BY <1>1, <1>6, <2>6, <3>1 DEF DepSafe, L!Is
  <2> QED
    BY <2>3, <2>4, <2>5, <2>6 DEF DepRoutes
<1> QED
  BY <1>7, <1>8, <1>9, <1>10, <1>11, <1>12 DEF DepInv

LEMMA DepStopsOldOne ==
  ASSUME DepInv, NEW t \in L!Task, L!StopOld(t)
  PROVE  DepInv'
<1>1. /\ task[t].pc = "stop" /\ task[t].up \in L!D /\ L!Is(task[t].up, {"healthy", "removed"}) /\ task[t].up # srv.current
      /\ UNCHANGED <<leased, srv, domain, config, serves, sick, dlock>>
  BY DEF L!StopOld, L!At, L!edge, DepInv, DepRuns
<1>2. PICK x \in L!D : x = task[t].up
  BY <1>1
<1>3. PICK n \in DepTask : n = L!Rest
  BY DepRest
<1>4. jobs' = jobs \ {x} /\ rows' = [rows EXCEPT ![x].stopped = TRUE] /\ task' = [task EXCEPT ![t] = n]
  BY <1>2, <1>3 DEF L!StopOld, L!End
<1>5. ~L!Is(x, L!Active)
  BY <1>1, <1>2, DepConstants DEF L!Is
<1>6. x # srv.promotion
  BY <1>2, <1>5, DepConstants DEF DepInv, DepRuns
<1>7. \A w \in Worker : task[w].pc = "refresh" /\ DepReverts(task[w]) => task[w].d # x
  BY <1>5 DEF DepInv, DepWorks, DepWork
<1>8. domain.status \in L!Live /\ domain.applied => domain.upstream # x
  BY <1>1, <1>2 DEF DepInv, DepRoutes, DepSafe, L!Is
<1> QED
  BY <1>1, <1>2, <1>3, <1>4, <1>6, <1>7, <1>8, DepRest, DepStopsJob

LEMMA DepStopsFailed ==
  ASSUME DepInv, NEW t \in L!Task, L!StopFailed(t)
  PROVE  DepInv'
<1>1. /\ task[t].pc = "stopfailed" /\ (t \in Worker \/ t = L!Reconciler) /\ task[t] \in DepTask
      /\ UNCHANGED <<leased, srv, domain, config, serves, sick, dlock>>
  BY DepConstants DEF L!StopFailed, L!At, L!edge, DepInv, DepTyped, DepPlaced, DepEdge
<1>2. /\ task[t].d \in L!D /\ task[t].d # srv.current /\ task[t].d # srv.promotion
      /\ \A w \in Worker : task[w].pc = "refresh" /\ DepReverts(task[w]) => task[w].d # task[t].d
  <2>1. CASE t \in Worker
    <3>1. DepHas(task[t]) /\ task[t].d # srv.current /\ \A w \in Worker : task[w].pc \in DepWork => w = t
      BY <1>1, <2>1, DepWorker DEF DepWork
    <3>2. task[t].d \in L!D /\ task[t].d # 0 /\ srv.promotion = 0
      BY <1>1, <3>1, DepConstants DEF DepHas, DepGivesUp
    <3> QED
      BY <1>1, <3>1, <3>2 DEF DepWork
  <2>2. CASE t = L!Reconciler
    <3>1. task[t].d \in L!D /\ L!Is(task[t].d, {"failed", "removed"}) /\ task[t].d # 0
      BY <1>1, <2>2, DepConstants DEF DepInv, DepRuns
    <3>2. ~L!Is(task[t].d, L!Active) /\ ~L!Is(task[t].d, {"healthy"})
      BY <3>1, DepConstants DEF L!Is
    <3> QED
      BY <3>1, <3>2 DEF DepInv, DepRuns, DepWorks, DepWork
  <2> QED
    BY <1>1, <2>1, <2>2
<1>3. domain.status \in L!Live /\ domain.applied => domain.upstream # task[t].d
  BY <1>1 DEF DepInv, DepRoutes, DepSafe
<1>4. PICK n \in DepTask : /\ task' = [task EXCEPT ![t] = n]
                           /\ \/ n.pc = "fail" /\ t \in Worker /\ n.d = task[t].d
                              \/ n = L!Rest /\ t = L!Reconciler
  <2>1. CASE t \in Worker
    <3>1. L!To(t, "fail")
      BY <2>1 DEF L!StopFailed
    <3> QED
      BY <2>1, <3>1, DepTurn DEF DepWork
  <2>2. CASE t \notin Worker
    BY <1>1, <2>2, DepRest DEF L!StopFailed, L!End
  <2> QED
    BY <2>1, <2>2
<1>5. CASE UNCHANGED <<jobs, rows>>
  <2>1. CASE t \in Worker
    <3>1. L!To(t, "fail") /\ DepQuiet /\ srv.promotion = 0
      BY <1>1, <1>5, <2>1, DepSame, DepWorker DEF L!StopFailed, DepHas, DepGivesUp, DepWork
    <3> QED
      BY <1>1, <2>1, <3>1, DepWorkerMoves DEF DepWork
  <2>2. CASE t = L!Reconciler /\ n = L!Rest
    <3>1. DepPlaces(t, n) /\ DepStopsOld(n) /\ DepReconciles(n) /\ t \notin Worker
      BY <2>2, DepRest, DepConstants DEF DepPlaces, DepStopsOld, DepReconciles
    <3>2. DepQuiet /\ leased \subseteq L!D /\ dlock \in L!Task \cup {L!Free}
      BY <1>1, <1>5, DepSame DEF DepInv, DepTyped
    <3> QED
      BY <1>1, <1>4, <2>2, <3>1, <3>2, DepRest, DepStays DEF DepQuiet, DepEdge
  <2> QED
    BY <1>4, <2>1, <2>2
<1>6. CASE jobs' = jobs \ {task[t].d} /\ rows' = [rows EXCEPT ![task[t].d].stopped = TRUE]
  <2>1. PICK x \in L!D : x = task[t].d
    BY <1>2
  <2>2. n.pc = "rest" \/ (n.pc = "fail" /\ t \in Worker)
    BY <1>4, DepRest
  <2>3. n.pc = "fail" => n.d = task[t].d
    BY <1>4, DepRest
  <2>4. x # srv.current /\ x # srv.promotion /\ jobs' = jobs \ {x} /\ rows' = [rows EXCEPT ![x].stopped = TRUE]
    BY <1>2, <1>6, <2>1
  <2>5. \A w \in Worker : task[w].pc = "refresh" /\ DepReverts(task[w]) => task[w].d # x
    BY <1>2, <2>1
  <2>6. domain.status \in L!Live /\ domain.applied => domain.upstream # x
    BY <1>3, <2>1
  <2>7. t # L!Observer
    BY <1>1, DepConstants
  <2> QED
    BY <1>1, <1>4, <2>2, <2>3, <2>4, <2>5, <2>6, <2>7, DepStopsJob
<1> QED
  BY <1>5, <1>6 DEF L!StopFailed

LEMMA DepFails ==
  ASSUME DepInv, NEW t \in Worker, L!Fail(t)
  PROVE  DepInv'
<1>1. /\ task[t].pc = "fail" /\ t \in L!Task /\ DepHas(task[t]) /\ task[t] \in DepTask
      /\ task[t].d # 0 /\ task[t].d \in L!D /\ L!Is(task[t].d, L!Active) /\ srv.promotion = 0 /\ task[t].d # srv.current
      /\ \A w \in Worker : task[w].pc \in DepWork => w = t
  BY DepWorker, DepConstants DEF L!Fail, L!At, DepHas, DepGivesUp
<1>2. PICK d \in L!D : d = task[t].d
  BY <1>1
<1>3. rows[d] \in DepRow
  BY DEF DepInv, DepTyped
<1>4. PICK n \in DepTask : n = L!Rest
  BY DepRest
<1>5. n.pc = "rest"
  BY <1>4, DepRest
<1>6. PICK r : r = [rows[d] EXCEPT !.status = "failed"]
  OBVIOUS
<1>7. r \in DepRow /\ r.status = "failed"
  BY <1>3, <1>6 DEF DepRow
<1>8. /\ rows' = [rows EXCEPT ![d] = r] /\ leased' = leased \ {d} /\ task' = [task EXCEPT ![t] = n]
      /\ UNCHANGED <<srv, domain, config, serves, jobs, sick, dlock>>
  BY <1>2, <1>4, <1>6 DEF L!Fail, L!SetRow, L!End, L!outside
<1>9. \A s \in L!Task : task'[s] = IF s = t THEN n ELSE task[s]
  BY <1>8 DEF DepInv, DepTyped
<1>10. \A e \in L!D : rows'[e] = IF e = d THEN r ELSE rows[e]
  BY <1>8 DEF DepInv, DepTyped
<1>11. \A e \in L!D : ~L!Is(e, L!Active)'
  BY <1>1, <1>2, <1>7, <1>10, DepConstants DEF DepInv, DepWorks, L!Is
<1>12. \A w \in Worker : task'[w].pc \notin DepWork
  BY <1>1, <1>5, <1>9, DepConstants DEF DepWork, DepEdge
<1>13. DepTyped'
  <2>1. rows' \in [L!D -> DepRow] /\ task' \in [L!Task -> DepTask]
    BY <1>7, <1>8 DEF DepInv, DepTyped
  <2> QED
    BY <1>8, <2>1 DEF DepInv, DepTyped
<1>14. DepPlaced'
  BY <1>5, <1>9, DepConstants DEF DepInv, DepPlaced, DepWork
<1>15. DepWorks'
  BY <1>11, <1>12 DEF DepWorks
<1>16. DepRuns'
  <2>1. \A e \in L!D : e # d => rows'[e] = rows[e]
    BY <1>10
  <2>2. srv'.current # 0 => L!Is(srv.current, {"healthy"})' /\ srv'.current \in jobs'
    BY <1>1, <1>2, <1>8, <2>1 DEF DepInv, DepRuns, DepTyped, L!Is
  <2>3. \A e \in jobs' : ~L!Is(e, {"none"})'
    BY <1>7, <1>8, <1>10 DEF DepInv, DepRuns, DepTyped, L!Is
  <2>4. ASSUME NEW s \in L!Task, task'[s].pc = "stop"
        PROVE  task'[s].up \in L!D /\ L!Is(task[s].up, {"healthy", "removed"})' /\ task'[s].up # srv'.current
    <3>1. task'[s] = task[s] /\ task[s].up \in L!D /\ L!Is(task[s].up, {"healthy", "removed"}) /\ task[s].up # srv.current
      BY <1>5, <1>9, <2>4 DEF DepInv, DepRuns
    <3>2. task[s].up # d
      BY <1>1, <1>2, <3>1, DepConstants DEF L!Is
    <3> QED
      BY <1>8, <2>1, <3>1, <3>2 DEF L!Is
  <2>5. ASSUME task'[L!Reconciler].pc = "stopfailed"
        PROVE  task'[L!Reconciler].d \in L!D /\ L!Is(task[L!Reconciler].d, {"failed", "removed"})'
    <3>1. /\ task'[L!Reconciler] = task[L!Reconciler] /\ task[L!Reconciler].d \in L!D
          /\ L!Is(task[L!Reconciler].d, {"failed", "removed"})
      BY <1>5, <1>9, <2>5, DepConstants DEF DepInv, DepRuns
    <3> QED
      BY <1>7, <1>10, <3>1 DEF L!Is
  <2>6. task'[L!Reconciler].pc = "observe" => task'[L!Reconciler].d # 0
    BY <1>5, <1>9, DepConstants DEF DepInv, DepRuns
  <2>7. srv'.promotion = 0
    BY <1>1, <1>8
  <2>8. srv'.status = "gone" => jobs' = {} /\ srv'.current = 0 /\ srv'.promotion = 0 /\ domain'.status = "none"
    BY <1>8 DEF DepInv, DepRuns
  <2> QED
    BY <1>11, <2>2, <2>3, <2>4, <2>5, <2>6, <2>7, <2>8 DEF DepRuns
<1>17. DepLocks'
  BY <1>1, <1>5, <1>8, <1>9, DepConstants DEF DepInv, DepLocks, DepEdge
<1>18. DepRoutes'
  <2>1. \A s \in L!Task, x \in DepNumber : DepSends(s, x)' => DepSends(s, x) /\ s # t
    BY <1>5, <1>8, <1>9 DEF DepSends
  <2>2. \A x \in DepNumber : DepPublic(x) => DepPublic(x)'
    BY <1>1, <1>8 DEF DepPublic, DepWork
  <2>3. \A s \in L!Task, x \in DepNumber : DepSends(s, x)' => DepPublic(x)'
    BY <2>1, <2>2 DEF DepInv, DepRoutes
  <2>4. \A w \in Worker, x \in DepNumber : ~DepSends(w, x)'
    BY <1>12 DEF DepSends, DepWork, DepEdge
  <2>5. \A w \in Worker : task'[w].pc # "commit"
    BY <1>12 DEF DepWork
  <2>6. ASSUME domain'.status \in L!Live, domain'.applied
        PROVE  DepSafe(domain.upstream)' /\ serves' \in {domain'.upstream, config'}
    <3>1. DepSafe(domain.upstream) /\ serves \in {domain.upstream, config} /\ domain.upstream \in L!D
      BY <1>8, <2>6 DEF DepInv, DepRoutes, DepSafe, DepTyped
    <3> QED
      BY <1>5, <1>7, <1>8, <1>9, <1>10, <3>1 DEF DepSafe, L!Is
  <2> QED
    BY <2>3, <2>4, <2>5, <2>6 DEF DepRoutes
<1> QED
  BY <1>13, <1>14, <1>15, <1>16, <1>17, <1>18 DEF DepInv

\* What a route goes through, under the lock of the domain.
LEMMA DepPuts ==
  ASSUME DepInv, NEW t \in L!Task, L!Put(t)
  PROVE  DepInv'
<1>1. /\ task[t].pc = "put" /\ task[t].pc \in DepEdge /\ task[t] \in DepTask /\ dlock = t /\ domain.status \in L!Live
      /\ \A s \in L!Task : s # t => task[s].pc \notin DepEdge
  BY DepAlone DEF L!Put, L!At, DepEdge, DepInv, DepLocks, DepTyped
<1>2. CASE L!To(t, L!Failing(t)) /\ dlock' = L!Free /\ UNCHANGED config
  BY <1>1, <1>2, DepLosesRoute DEF L!Put
<1>3. CASE config' = task[t].up /\ L!To(t, "save") /\ UNCHANGED dlock
  <2>1. UNCHANGED <<rows, leased, srv, domain, serves, jobs, sick, dlock>>
    BY <1>3 DEF L!Put
  <2>2. PICK n \in DepTask : /\ n.pc = "save" /\ n.d = task[t].d /\ n.up = task[t].up /\ n.then = task[t].then
                             /\ task' = [task EXCEPT ![t] = n]
    BY <1>3, DepTurn DEF DepWork, DepEdge
  <2>3. \A s \in L!Task : task'[s] = IF s = t THEN n ELSE task[s]
    BY <2>2 DEF DepInv, DepTyped
  <2>4. DepTyped'
    BY <1>1, <1>3, <2>1, <2>2 DEF DepInv, DepTyped, DepTask
  <2>5. DepPlaced'
    BY <1>1, <2>2, <2>3, DepConstants DEF DepInv, DepPlaced, DepWork, DepEdge
  <2>6. DepWorks'
    <3>1. \A w \in Worker : /\ task'[w].pc \in DepWork <=> task[w].pc \in DepWork
                            /\ task'[w].d = task[w].d /\ task'[w].then = task[w].then
                            /\ task'[w].pc = task[w].pc \/ (task'[w].pc = "save" /\ task[w].pc = "put")
      BY <1>1, <2>2, <2>3, DepConstants DEF DepWork, DepEdge
    <3> QED
      BY <2>1, <3>1 DEF DepInv, DepWorks, L!Is, DepCommits, DepReverts, DepGivesUp, DepEdge
  <2>7. DepRuns'
    BY <1>1, <2>1, <2>2, <2>3, DepConstants DEF DepInv, DepRuns, L!Is
  <2>8. DepLocks'
    <3>1. \A s \in L!Task : task'[s].pc \in DepEdge => dlock' = s /\ domain'.status \in L!Live
      BY <1>1, <2>1, <2>3
    <3>2. t # L!Creator /\ task'[L!Creator].pc \notin {"provision", "provisioned"}
      <4>1. t # L!Creator
        BY <1>1 DEF DepInv, DepPlaced, DepEdge
      <4> QED
        BY <1>1, <2>3, <4>1, DepConstants DEF DepInv, DepLocks
    <3>3. \A s \in L!Task : task'[s].pc = "save" => config' = task'[s].up
      BY <1>1, <1>3, <2>2, <2>3 DEF DepEdge
    <3>4. task'[t].pc = "save"
      BY <2>2, <2>3
    <3> QED
      BY <3>1, <3>2, <3>3, <3>4 DEF DepLocks
  <2>9. DepRoutes'
    <3>1. \A s \in L!Task, x \in DepNumber : DepSends(s, x)' => DepSends(s, x)
      BY <1>1, <2>1, <2>2, <2>3 DEF DepSends
    <3>2. \A x \in DepNumber : DepPublic(x) => DepPublic(x)'
      <4>1. \A w \in Worker : task[w].pc = "refresh" => task'[w] = task[w]
        BY <1>1, <2>3, DepConstants
      <4> QED
        BY <2>1, <4>1 DEF DepPublic, DepReverts
    <3>3. \A s \in L!Task, x \in DepNumber : DepSends(s, x)' => DepPublic(x)'
      BY <3>1, <3>2 DEF DepInv, DepRoutes
    <3>4. ASSUME NEW w \in Worker, NEW x \in DepNumber, DepSends(w, x)', DepCommits(task[w])' PROVE x = task'[w].d
      <4>1. DepSends(w, x) /\ task'[w].d = task[w].d /\ DepCommits(task[w])
        BY <1>1, <2>2, <2>3, <3>1, <3>4, DepConstants DEF DepCommits, DepEdge
      <4> QED
        BY <4>1 DEF DepInv, DepRoutes
    <3>5. ASSUME NEW w \in Worker, task'[w].pc = "commit"
          PROVE  /\ \A s \in L!Task, x \in DepNumber : DepSends(s, x)' => x = task'[w].d
                 /\ domain'.status \in L!Live /\ domain'.applied => domain'.upstream = task'[w].d
      <4>1. task'[w] = task[w] /\ task[w].pc = "commit"
        BY <2>2, <2>3, <3>5, DepConstants
      <4> QED
        BY <2>1, <3>1, <4>1 DEF DepInv, DepRoutes
    <3>6. ASSUME domain'.status \in L!Live, domain'.applied
          PROVE  DepSafe(domain.upstream)' /\ serves' \in {domain'.upstream, config'}
      <4>1. DepSafe(domain.upstream) /\ serves \in {domain.upstream, config}
        BY <2>1, <3>6 DEF DepInv, DepRoutes
      <4>2. config = domain.upstream
        BY <1>1 DEF DepInv, DepLocks, DepEdge
      <4> QED
        BY <2>1, <2>2, <2>3, <4>1, <4>2 DEF DepSafe, L!Is
    <3> QED
      BY <3>3, <3>4, <3>5, <3>6 DEF DepRoutes
  <2> QED
    BY <2>4, <2>5, <2>6, <2>7, <2>8, <2>9 DEF DepInv
<1> QED
  BY <1>2, <1>3 DEF L!Put

LEMMA DepSaves ==
  ASSUME DepInv, NEW t \in L!Task, L!Save(t)
  PROVE  DepInv'
<1>1. /\ task[t].pc = "save" /\ task[t].pc \in DepEdge /\ task[t] \in DepTask /\ dlock = t /\ domain.status \in L!Live
      /\ \A s \in L!Task : s # t => task[s].pc \notin DepEdge
  BY DepAlone DEF L!Save, L!At, DepEdge, DepInv, DepLocks, DepTyped
<1>2. PICK n \in DepTask : /\ n.pc = "wait" /\ n.d = task[t].d /\ n.up = task[t].up /\ n.then = task[t].then
                           /\ task' = [task EXCEPT ![t] = n]
  BY DepTurn DEF DepWork, DepEdge, L!Save
<1>3. PICK o : o = [status |-> "pending", upstream |-> task[t].up, applied |-> FALSE]
  OBVIOUS
<1>4. o \in DepDomain /\ o.status = "pending" /\ o.status \in L!Live /\ o.upstream = task[t].up /\ o.applied = FALSE
  BY <1>1, <1>3, DepConstants DEF DepDomain, DepTask
<1>5. domain' = o /\ UNCHANGED <<rows, leased, srv, config, serves, jobs, sick, dlock>>
  BY <1>3 DEF L!Save, L!Saved, L!outside
<1>6. \A s \in L!Task : task'[s] = IF s = t THEN n ELSE task[s]
  BY <1>2 DEF DepInv, DepTyped
<1>7. DepTyped'
  BY <1>2, <1>4, <1>5 DEF DepInv, DepTyped
<1>8. DepPlaced'
  BY <1>1, <1>2, <1>6, DepConstants DEF DepInv, DepPlaced, DepWork, DepEdge
<1>9. DepWorks'
  <2>1. \A w \in Worker : /\ task'[w].pc \in DepWork <=> task[w].pc \in DepWork
                          /\ task'[w].d = task[w].d /\ task'[w].then = task[w].then
                          /\ task'[w].pc = task[w].pc \/ (task'[w].pc = "wait" /\ task[w].pc = "save")
    BY <1>1, <1>2, <1>6, DepConstants DEF DepWork, DepEdge
  <2> QED
    BY <1>5, <2>1 DEF DepInv, DepWorks, L!Is, DepCommits, DepReverts, DepGivesUp, DepEdge
<1>10. DepRuns'
  <2>1. srv.status # "gone"
    BY <1>1, DepConstants DEF DepInv, DepRuns
  <2> QED
    BY <1>1, <1>2, <1>5, <1>6, <2>1, DepConstants DEF DepInv, DepRuns, L!Is
<1>11. DepLocks'
  <2>1. \A s \in L!Task : task'[s].pc \in DepEdge => dlock' = s /\ domain'.status \in L!Live
    BY <1>1, <1>4, <1>5, <1>6
  <2>2. task'[L!Creator].pc \notin {"provision", "provisioned"}
    BY <1>1, <1>2, <1>6, DepConstants DEF DepInv, DepLocks
  <2>3. \A s \in L!Task : task'[s].pc # "save"
    BY <1>1, <1>2, <1>6 DEF DepEdge
  <2>4. config' = domain'.upstream
    BY <1>1, <1>4, <1>5 DEF DepInv, DepLocks
  <2> QED
    BY <2>1, <2>2, <2>3, <2>4 DEF DepLocks
<1>12. DepRoutes'
  <2>1. \A s \in L!Task, x \in DepNumber : DepSends(s, x)' => DepSends(s, x)
    BY <1>1, <1>2, <1>4, <1>5, <1>6 DEF DepSends, DepEdge
  <2>2. \A x \in DepNumber : DepPublic(x) => DepPublic(x)'
    <3>1. \A w \in Worker : task[w].pc = "refresh" => task'[w] = task[w]
      BY <1>1, <1>6, DepConstants
    <3> QED
      BY <1>5, <3>1 DEF DepPublic, DepReverts
  <2>3. \A s \in L!Task, x \in DepNumber : DepSends(s, x)' => DepPublic(x)'
    BY <2>1, <2>2 DEF DepInv, DepRoutes
  <2>4. ASSUME NEW w \in Worker, NEW x \in DepNumber, DepSends(w, x)', DepCommits(task[w])' PROVE x = task'[w].d
    <3>1. DepSends(w, x) /\ task'[w].d = task[w].d /\ DepCommits(task[w])
      BY <1>1, <1>2, <1>6, <2>1, <2>4, DepConstants DEF DepCommits, DepEdge
    <3> QED
      BY <3>1 DEF DepInv, DepRoutes
  <2>5. ASSUME NEW w \in Worker, task'[w].pc = "commit"
        PROVE  \A s \in L!Task, x \in DepNumber : DepSends(s, x)' => x = task'[w].d
    <3>1. task'[w] = task[w] /\ task[w].pc = "commit"
      BY <1>2, <1>6, <2>5, DepConstants
    <3> QED
      BY <2>1, <3>1 DEF DepInv, DepRoutes
  <2> QED
    BY <1>4, <1>5, <2>3, <2>4, <2>5 DEF DepRoutes
<1> QED
  BY <1>7, <1>8, <1>9, <1>10, <1>11, <1>12 DEF DepInv

LEMMA DepWaits ==
  ASSUME DepInv, NEW t \in L!Task, L!Wait(t)
  PROVE  DepInv'
<1>1. /\ task[t].pc = "wait" /\ task[t].pc \in DepEdge /\ task[t] \in DepTask /\ dlock = t /\ domain.status \in L!Live
      /\ \A s \in L!Task : s # t => task[s].pc \notin DepEdge
  BY DepAlone DEF L!Wait, L!At, DepEdge, DepInv, DepLocks, DepTyped
<1>2. CASE L!To(t, L!Failing(t)) /\ dlock' = L!Free /\ UNCHANGED domain
  BY <1>1, <1>2, DepLosesRoute DEF L!Wait, L!outside
<1>3. CASE serves = config /\ domain' = [domain EXCEPT !.applied = TRUE] /\ L!To(t, task[t].then)
  <2>1. dlock' = L!Free /\ UNCHANGED <<rows, leased, srv, config, serves, jobs, sick>>
    BY <1>3 DEF L!Wait, L!outside
  <2>2. PICK o : o = [domain EXCEPT !.applied = TRUE]
    OBVIOUS
  <2>3. o \in DepDomain /\ o.status = domain.status /\ o.upstream = domain.upstream /\ o.applied = TRUE /\ domain' = o
    BY <1>3, <2>2 DEF DepInv, DepTyped, DepDomain
  <2>4. PICK x \in DepNumber : x = domain.upstream
    BY DEF DepInv, DepTyped, DepDomain
  <2>5. DepSends(t, x) /\ DepSafe(x) /\ DepPublic(x)
    BY <1>1, <2>4, DepPublicSafe DEF DepInv, DepRoutes, DepSends
  <2>6. config = x
    BY <1>1, <2>4 DEF DepInv, DepLocks, DepEdge
  <2>7. \/ t \in Worker /\ DepCommits(task[t]) /\ L!To(t, "commit")
        \/ t \in Worker /\ DepReverts(task[t]) /\ L!To(t, "cleanup")
        \/ t = L!Observer /\ task[t].then = "rest" /\ L!To(t, "rest")
    BY <1>1, <1>3, DepTravels DEF DepCommits, DepReverts
  <2>8. PICK n \in DepTask :
          /\ n.d = task[t].d /\ n.up = task[t].up /\ n.then = task[t].then /\ task' = [task EXCEPT ![t] = n]
          /\ \/ t \in Worker /\ DepCommits(task[t]) /\ n.pc = "commit"
             \/ t \in Worker /\ DepReverts(task[t]) /\ n.pc = "cleanup"
             \/ t = L!Observer /\ task[t].then = "rest" /\ n.pc = "rest"
    BY <2>7, DepTurn DEF DepWork
  <2>9. \A s \in L!Task : task'[s] = IF s = t THEN n ELSE task[s]
    BY <2>8 DEF DepInv, DepTyped
  <2>10. \A s \in L!Task : task'[s].pc \notin DepEdge
    BY <1>1, <2>8, <2>9 DEF DepEdge
  <2>11. DepTyped'
    BY <2>1, <2>3, <2>8 DEF DepInv, DepTyped
  <2>12. DepPlaced'
    BY <1>1, <2>8, <2>9, DepConstants DEF DepInv, DepPlaced, DepWork, DepEdge
  <2>13. DepWorks'
    <3>1. \A w \in Worker : (task'[w].pc \in DepWork => task[w].pc \in DepWork) /\ task'[w].d = task[w].d
      BY <1>1, <2>8, <2>9, DepConstants DEF DepWork, DepEdge
    <3>2. ASSUME NEW w \in Worker, task'[w].pc \in DepWork PROVE DepHas(task'[w]) /\ task'[w].d \in leased
      <4>1. DepHas(task[w]) /\ task[w].d \in leased
        BY <3>1, <3>2 DEF DepInv, DepWorks, DepHas
      <4> QED
        BY <1>1, <2>8, <2>9, <4>1, DepConstants DEF DepHas, DepCommits, DepReverts, DepGivesUp, DepEdge
    <3> QED
      BY <2>1, <3>1, <3>2 DEF DepInv, DepWorks, DepHas, L!Is, DepCommits, DepReverts, DepGivesUp
  <2>14. DepRuns'
    BY <1>1, <2>1, <2>3, <2>8, <2>9, DepConstants DEF DepInv, DepRuns, L!Is
  <2>15. DepLocks'
    <3>1. task'[L!Creator].pc \notin {"provision", "provisioned"}
      BY <1>1, <2>8, <2>9, DepConstants DEF DepInv, DepLocks
    <3> QED
      BY <2>1, <2>3, <2>4, <2>6, <2>10, <3>1 DEF DepLocks, DepEdge
  <2>16. DepRoutes'
    <3>1. \A s \in L!Task, y \in DepNumber : ~DepSends(s, y)'
      BY <2>10 DEF DepSends, DepEdge
    <3>2. \A s \in L!Task : task'[s].pc = "stopfailed" => task'[s] = task[s]
      BY <2>8, <2>9
    <3>3. DepSafe(x)'
      BY <2>1, <2>5, <3>2 DEF DepSafe, L!Is
    <3>4. DepSafe(domain.upstream)' /\ serves' \in {domain'.upstream, config'}
      BY <1>3, <2>1, <2>3, <2>4, <2>6, <3>3 DEF DepSafe, L!Is
    <3>5. ASSUME NEW w \in Worker, task'[w].pc = "commit" PROVE domain'.upstream = task'[w].d
      <4>1. CASE w = t
        <5>1. DepCommits(task[w]) /\ task'[w].d = task[w].d
          BY <2>8, <2>9, <3>5, <4>1, DepConstants
        <5> QED
          BY <2>3, <2>4, <2>5, <4>1, <5>1 DEF DepInv, DepRoutes
      <4>2. CASE w # t
        <5>1. task'[w] = task[w] /\ task[w].pc = "commit"
          BY <2>9, <3>5, <4>2, DepConstants
        <5> QED
          BY <2>3, <2>4, <2>5, <5>1 DEF DepInv, DepRoutes
      <4> QED
        BY <4>1, <4>2
    <3> QED
      BY <3>1, <3>4, <3>5, DepConstants DEF DepRoutes
  <2> QED
    BY <2>11, <2>12, <2>13, <2>14, <2>15, <2>16 DEF DepInv
<1> QED
  BY <1>2, <1>3 DEF L!Wait

\* The steps of the creation of a domain: nothing is routed yet.
LEMMA DepProvides ==
  ASSUME DepInv, NEW n \in DepTask, task' = [task EXCEPT ![L!Creator] = n],
         n.pc \in {"rest", "provision", "provisioned"},
         UNCHANGED <<rows, leased, srv, jobs, sick, serves>>, config' \in DepNumber, domain' \in DepDomain,
         \A s \in L!Task : task[s].pc \notin DepEdge,
         dlock' \in {L!Free, L!Creator},
         srv.status = "gone" => domain'.status = "none",
         n.pc \in {"provision", "provisioned"} => dlock' = L!Creator /\ domain'.status = "provisioning",
         n.pc = "provisioned" => config' = n.up,
         domain'.status \in L!Live => config' = domain'.upstream /\ domain'.applied = FALSE
  PROVE  DepInv'
<1>1. \A s \in L!Task : task'[s] = IF s = L!Creator THEN n ELSE task[s]
  BY DEF DepInv, DepTyped
<1>2. \A s \in L!Task : task'[s].pc \notin DepEdge /\ (s # L!Creator => task'[s] = task[s])
  BY <1>1 DEF DepEdge
<1>3. task'[L!Creator] = n
  BY <1>1, DepConstants
<1>4. DepTyped'
  BY DepConstants DEF DepInv, DepTyped
<1>5. DepPlaced'
  BY <1>2, <1>3, DepConstants DEF DepInv, DepPlaced
<1>6. DepWorks'
  <2>1. \A w \in Worker : task'[w] = task[w]
    BY <1>2, DepConstants
  <2> QED
    BY <2>1 DEF DepInv, DepWorks, L!Is, DepCommits, DepReverts, DepGivesUp
<1>7. DepRuns'
  BY <1>1, <1>2, <1>3, DepConstants DEF DepInv, DepRuns, L!Is
<1>8. DepLocks'
  BY <1>2, <1>3 DEF DepLocks, DepEdge
<1>9. DepRoutes'
  <2>1. \A s \in L!Task, x \in DepNumber : ~DepSends(s, x)'
    BY <1>2 DEF DepSends, DepEdge
  <2>2. domain'.status \in L!Live => ~domain'.applied
    OBVIOUS
  <2> QED
    BY <2>1, <2>2, DepConstants DEF DepRoutes
<1> QED
  BY <1>4, <1>5, <1>6, <1>7, <1>8, <1>9 DEF DepInv

LEMMA DepCreates ==
  ASSUME DepInv, L!CreateDomain
  PROVE  DepInv'
<1>1. L!Address \in DepNumber /\ config \in DepNumber /\ L!Creator \in L!Task
  BY DepConstants DEF DepInv, DepTyped, DepSrv, L!Address
<1>2. PICK n : n = [L!Rest EXCEPT !.pc = "provision", !.up = L!Address]
  OBVIOUS
<1>3. n \in DepTask /\ n.pc = "provision"
  BY <1>1, <1>2, DepRest DEF DepTask, L!Rest
<1>4. task' = [task EXCEPT ![L!Creator] = n]
  BY <1>2 DEF L!CreateDomain
<1>5. PICK o : o = [status |-> "provisioning", upstream |-> L!Address, applied |-> FALSE]
  OBVIOUS
<1>6. o \in DepDomain /\ o.status = "provisioning" /\ o.status \notin L!Live
  BY <1>1, <1>5, DepConstants DEF DepDomain
<1>7. domain' = o /\ dlock' = L!Creator /\ srv.status # "gone" /\ UNCHANGED <<rows, leased, srv, config, serves, jobs, sick>>
  BY <1>5 DEF L!CreateDomain, L!outside
<1>8. \A s \in L!Task : task[s].pc \notin DepEdge
  BY <1>1, DepAlone, DepConstants DEF L!CreateDomain, L!At, DepEdge
<1> QED
  BY <1>1, <1>3, <1>4, <1>6, <1>7, <1>8, DepProvides

LEMMA DepProvisions ==
  ASSUME DepInv, L!Provision
  PROVE  DepInv'
<1>1. /\ task[L!Creator].pc = "provision" /\ L!Creator \in L!Task /\ task[L!Creator] \in DepTask
      /\ dlock = L!Creator /\ domain.status = "provisioning" /\ domain \in DepDomain
  BY DepConstants DEF L!Provision, L!At, DepInv, DepTyped, DepLocks
<1>2. PICK n \in DepTask : n.pc = "provisioned" /\ n.up = task[L!Creator].up /\ task' = [task EXCEPT ![L!Creator] = n]
  BY <1>1, DepTurn DEF L!Provision
<1>3. config' = n.up /\ n.up \in DepNumber
  BY <1>1, <1>2 DEF L!Provision, DepTask
<1>4. \A s \in L!Task : task[s].pc \notin DepEdge
  BY <1>1, DepAlone, DepConstants DEF DepEdge
<1>5. domain'.status \notin L!Live /\ srv.status # "gone"
  BY <1>1, DepConstants DEF L!Provision, DepInv, DepRuns
<1> QED
  BY <1>1, <1>2, <1>3, <1>4, <1>5, DepProvides DEF L!Provision

LEMMA DepProvisioned ==
  ASSUME DepInv, L!Provisioned
  PROVE  DepInv'
<1>1. /\ task[L!Creator].pc = "provisioned" /\ L!Creator \in L!Task /\ task[L!Creator] \in DepTask
      /\ dlock = L!Creator /\ domain.status = "provisioning" /\ config = task[L!Creator].up /\ config \in DepNumber
  BY DepConstants DEF L!Provisioned, L!At, DepInv, DepTyped, DepLocks
<1>2. PICK n \in DepTask : n = L!Rest
  BY DepRest
<1>3. task' = [task EXCEPT ![L!Creator] = n] /\ n.pc = "rest"
  BY <1>2, DepRest DEF L!Provisioned, L!End
<1>4. PICK o : o = [status |-> "pending", upstream |-> task[L!Creator].up, applied |-> FALSE]
  OBVIOUS
<1>5. o \in DepDomain /\ o.upstream = config /\ o.applied = FALSE /\ domain' = o
  BY <1>1, <1>4 DEF DepDomain, L!Provisioned
<1>6. \A s \in L!Task : task[s].pc \notin DepEdge
  BY <1>1, DepAlone, DepConstants DEF DepEdge
<1>7. srv.status # "gone"
  BY <1>1 DEF DepInv, DepRuns
<1>8. dlock' = L!Free /\ UNCHANGED <<rows, leased, srv, config, serves, jobs, sick>>
  BY DEF L!Provisioned, L!outside
<1> QED
  BY <1>1, <1>3, <1>5, <1>6, <1>7, <1>8, DepProvides

LEMMA DepKept ==
  ASSUME DepInv, [L!Next]_L!svars
  PROVE  DepInv'
<1>1. CASE UNCHANGED L!svars
  <2>1. DepTyped'
    BY <1>1 DEF L!svars, DepInv, DepTyped
  <2> QED
    BY <1>1, <2>1, DepUntouched DEF L!svars, DepInv
<1>2. ASSUME NEW w \in Worker, L!WorkerStep(w) PROVE DepInv'
  BY <1>2, DepSelects, DepBuilds, DepTries, DepSchedules, DepPromotes, DepCommitsIt, DepRestores, DepCleanups, DepFails
     DEF L!WorkerStep
<1>3. ASSUME NEW t \in L!Task, L!TaskStep(t) PROVE DepInv'
  BY <1>3, DepSupersedes, DepStopsOldOne, DepStopsFailed, DepRefreshes, DepPuts, DepSaves, DepWaits DEF L!TaskStep
<1>4. ASSUME NEW d \in L!D, L!ReconcileFailed(d) \/ L!Health(d) \/ L!LeaseEnds(d) PROVE DepInv'
  BY <1>4, DepReconcilesFailed, DepSickens, DepLeaseEnds
<1>5. CASE L!Apply \/ L!ReconcileOld \/ L!ReadService \/ L!Observe \/ L!ObserveDomain \/ L!SeeDomain
  BY <1>5, DepApplies, DepReconcilesOld, DepReads, DepObserves, DepObservesDomain, DepSeesDomain
<1>6. CASE L!CreateDomain \/ L!Provision \/ L!Provisioned \/ L!Resume \/ L!DeleteDomain
  BY <1>6, DepCreates, DepProvisions, DepProvisioned, DepResumes, DepDeletesDomain
<1>7. CASE L!Deploy \/ L!RemoveService \/ L!Remove \/ L!Restart
  BY <1>7, DepDeploys, DepRemovesService, DepRemoves, DepRestarts
<1> QED
  BY <1>1, <1>2, <1>3, <1>4, <1>5, <1>6, <1>7 DEF L!Next

LEMMA DepPromises ==
  ASSUME DepInv
  PROVE  L!TypeOK /\ L!CurrentRuns /\ L!RoutedRuns /\ L!PromotionIsActive /\ L!GoneIsStopped
<1>1. L!TypeOK
  <2>1. \A t \in L!Task : task[t] \in DepTask
    BY DEF DepInv, DepTyped
  <2>2. \A t \in L!Task : task[t].d \in 0..MaxDeployments
    BY <2>1 DEF DepTask, DepNumber
  <2>3. srv.current \in 0..MaxDeployments /\ srv.promotion \in 0..MaxDeployments /\ domain.upstream \in 0..MaxDeployments
    BY DEF DepInv, DepTyped, DepSrv, DepDomain, DepNumber
  <2> QED
    BY <2>2, <2>3 DEF L!TypeOK, DepInv, DepTyped
<1>2. L!CurrentRuns /\ L!PromotionIsActive /\ L!GoneIsStopped
  BY DEF L!CurrentRuns, L!PromotionIsActive, L!GoneIsStopped, DepInv, DepRuns
<1>3. L!RoutedRuns
  <2>1. ASSUME domain.status \in L!Live, domain.applied PROVE serves \in jobs
    <3>1. DepSafe(domain.upstream) /\ serves \in {domain.upstream, config}
      BY <2>1 DEF DepInv, DepRoutes
    <3>2. CASE \A t \in L!Task : task[t].pc # "save"
      BY <2>1, <3>1, <3>2 DEF DepInv, DepLocks, DepSafe
    <3>3. ASSUME NEW t \in L!Task, task[t].pc = "save" PROVE config \in jobs
      <4>1. config = task[t].up /\ config \in DepNumber
        BY <3>3 DEF DepInv, DepLocks, DepTyped
      <4>2. DepPublic(config)
        BY <3>3, <4>1 DEF DepInv, DepRoutes, DepSends
      <4> QED
        BY <4>1, <4>2, DepPublicSafe DEF DepSafe
    <3> QED
      BY <3>1, <3>2, <3>3 DEF DepSafe
  <2> QED
    BY <2>1 DEF L!RoutedRuns
<1> QED
  BY <1>1, <1>2, <1>3

(***************************************************************************)
(* The parts together.  A step moves the part that focus names and leaves  *)
(* the others alone.                                                       *)
(***************************************************************************)
SelfFleet == IF focus = "commands" THEN RelayInv ELSE FleetInv
SelfInv == DepInv /\ DomInv /\ GitInv /\ PushInv /\ BaseInv /\ SelfFleet

SelfVars == <<focus, deploysVars, domainsVars, githubVars, pushesVars, databasesVars, fleetVars>>

LEMMA SelfBegins == Init => SelfInv
<1> SUFFICES ASSUME Init PROVE SelfInv
  OBVIOUS
<1>1. DepInv /\ DomInv /\ GitInv /\ PushInv /\ BaseInv
  BY DepBegins, DomBegins, GitBegins, PushBegins, BaseBegins DEF Init
<1>2. SelfFleet
  BY RelayBegins, FleetBegins DEF Init, SelfFleet
<1> QED
  BY <1>1, <1>2 DEF SelfInv

\* A step of all is a step of each part, or leaves it alone.
LEMMA SelfStepOfEach ==
  ASSUME [Next]_SelfVars
  PROVE  /\ [L!Next]_L!svars /\ [N!Next]_N!dvars /\ [H!Next]_H!ghvars
         /\ [P!Next]_P!shvars /\ [B!Next]_B!sdvars
         /\ focus' = focus
         /\ IF focus = "commands" THEN [C!Next]_C!shfvars ELSE [F!Next]_F!shfvars
<1>1. /\ (L!Next \/ UNCHANGED deploysVars) /\ (N!Next \/ UNCHANGED domainsVars)
      /\ (H!Next \/ UNCHANGED githubVars) /\ (P!Next \/ UNCHANGED pushesVars)
      /\ (B!Next \/ UNCHANGED databasesVars)
      /\ focus' = focus
  BY Zenon DEF Next, SelfVars
<1>2. IF focus = "commands" THEN C!Next \/ UNCHANGED fleetVars ELSE F!Next \/ UNCHANGED fleetVars
  <2>1. \/ UNCHANGED fleetVars
        \/ focus = "fleet" /\ F!Next
        \/ focus = "commands" /\ C!Next
    BY Zenon DEF Next, SelfVars
  <2> QED
    BY <2>1
<1>3. /\ deploysVars = L!svars /\ deploysVars' = L!svars'
      /\ domainsVars = N!dvars /\ domainsVars' = N!dvars'
      /\ githubVars = H!ghvars /\ githubVars' = H!ghvars'
      /\ pushesVars = P!shvars /\ pushesVars' = P!shvars'
      /\ databasesVars = B!sdvars /\ databasesVars' = B!sdvars'
      /\ fleetVars = F!shfvars /\ fleetVars' = F!shfvars'
      /\ fleetVars = C!shfvars /\ fleetVars' = C!shfvars'
  BY DEF deploysVars, domainsVars, githubVars, pushesVars, databasesVars, fleetVars,
         L!svars, N!dvars, H!ghvars, P!shvars, B!sdvars, F!shfvars, C!shfvars
<1> HIDE DEF deploysVars, domainsVars, githubVars, pushesVars, databasesVars, fleetVars
<1> QED
  BY <1>1, <1>2, <1>3, Zenon

LEMMA SelfKept ==
  ASSUME SelfInv, [Next]_SelfVars
  PROVE  SelfInv'
<1>1. DepInv'
  BY DepKept, SelfStepOfEach DEF SelfInv
<1>2. DomInv'
  BY DomKept, SelfStepOfEach DEF SelfInv
<1>3. GitInv'
  BY GitKept, SelfStepOfEach DEF SelfInv
<1>4. PushInv'
  BY PushKept, SelfStepOfEach DEF SelfInv
<1>5. BaseInv'
  BY BaseKept, SelfStepOfEach DEF SelfInv
<1>6. CASE focus = "commands"
  <2>1. RelayInv'
    BY <1>6, RelayKept, SelfStepOfEach DEF SelfInv, SelfFleet
  <2> QED
    BY <1>1, <1>2, <1>3, <1>4, <1>5, <1>6, <2>1, SelfStepOfEach DEF SelfInv, SelfFleet
<1>7. CASE focus # "commands"
  <2>1. FleetInv'
    BY <1>7, FleetKept, SelfStepOfEach DEF SelfInv, SelfFleet
  <2> QED
    BY <1>1, <1>2, <1>3, <1>4, <1>5, <1>7, <2>1, SelfStepOfEach DEF SelfInv, SelfFleet
<1> QED
  BY <1>6, <1>7

LEMMA SelfAlways == Spec => []SelfInv
<1>1. SelfInv /\ [Next]_SelfVars => SelfInv'
  BY SelfKept
<1> QED
  BY <1>1, SelfBegins, PTL DEF Spec, SelfVars

\* What the tickets and the placed services say names neither the tickets nor the
\* commands there are.
LEMMA SelfSameFleet ==
  /\ F!TicketOnce <=> C!TicketOnce
  /\ F!PlacedKeepsMachine <=> C!PlacedKeepsMachine
BY DEF F!TicketOnce, C!TicketOnce, F!NoTicket, C!NoTicket, F!PlacedKeepsMachine, C!PlacedKeepsMachine,
       F!Joined, C!Joined

LEMMA SelfFleetPromises ==
  ASSUME SelfInv
  PROVE  /\ IF focus = "commands" THEN C!TypeOK ELSE F!TypeOK
         /\ F!TicketOnce /\ F!PlacedKeepsMachine
         /\ focus = "commands" => C!RunsOnce
<1>1. CASE focus = "commands"
  BY <1>1, RelayPromises, SelfSameFleet DEF SelfInv, SelfFleet
<1>2. CASE focus # "commands"
  BY <1>2, FleetPromises DEF SelfInv, SelfFleet
<1> QED
  BY <1>1, <1>2

LEMMA SelfPromises == SelfInv => TypeOK /\ RunningKept /\ ClaimedOnce
<1> SUFFICES ASSUME SelfInv PROVE TypeOK /\ RunningKept /\ ClaimedOnce
  OBVIOUS
<1>1. L!TypeOK /\ L!CurrentRuns /\ L!RoutedRuns /\ L!PromotionIsActive /\ L!GoneIsStopped
  BY DepPromises DEF SelfInv
<1>2. N!TypeOK /\ N!NoOrphan
  BY DomPromises DEF SelfInv
<1>3. H!TypeOK /\ H!UnlinkedIsClean /\ H!GrantsExist /\ H!TokenUsable
  BY GitPromises DEF SelfInv
<1>4. P!TypeOK /\ P!DeployedOnce /\ P!NewerStays /\ P!OneHook
  BY PushPromises DEF SelfInv
<1>5. B!TypeOK /\ B!RemovedHasNoServer
  BY BasePromises DEF SelfInv
<1> QED
  BY <1>1, <1>2, <1>3, <1>4, <1>5, SelfFleetPromises DEF TypeOK, RunningKept, ClaimedOnce

\* What a step does with the records of the zone, the databases, the addresses and the
\* registration of the App.
NotOursHeld ==
  \/ zone.kind \in {N!None, "own"} \/ zone' = zone \/ N!Edit
  \/ zone.kind = "overtaken" /\ N!Doomed(zone.d)
RemovalHeld ==
  \A d \in Base : base[d].status \in {"deleting", "delete_failed"}
    => base'[d].status \in {"deleting", "delete_failed", "none"}
VerifiedHeld ==
  \A d \in Base : base[d].status # "healthy" /\ base'[d].status = "healthy"
    => \E t \in B!Crew : crew[t].d = d /\ crew[t].seen # 0 /\ crew[t].seen = base'[d].alloc
AddressesHeld ==
  \A h \in Host : nodes[h] # 0 /\ asks[h] # "none" /\ asks'[h] = "none"
    => nodes'[h] = nodes[h] /\ nextslot' = nextslot
SetOnceHeld ==
  /\ registered # 0 => registered' = registered
  /\ linked # H!Nobody => linked' \in {linked, H!Nobody}

LEMMA SelfStepsPromise ==
  ASSUME SelfInv, [Next]_SelfVars
  PROVE  /\ [NotOursHeld]_N!dvars /\ [RemovalHeld]_B!sdvars /\ [VerifiedHeld]_B!sdvars
         /\ [AddressesHeld]_F!shfvars /\ [SetOnceHeld]_H!ghvars
<1>1. [NotOursHeld]_N!dvars
  <2>1. N!Next => NotOursHeld
    BY DomNotOurs, DomConstants DEF SelfInv, NotOursHeld
  <2> QED
    BY <2>1, SelfStepOfEach
<1>2. [RemovalHeld]_B!sdvars /\ [VerifiedHeld]_B!sdvars
  <2>1. B!Next => RemovalHeld /\ VerifiedHeld
    BY BaseStepsStand DEF SelfInv, RemovalHeld, VerifiedHeld, BaseStands
  <2> QED
    BY <2>1, SelfStepOfEach
<1>3. [AddressesHeld]_F!shfvars
  <2>1. CASE focus = "commands"
    <3>1. C!Next => AddressesHeld
      BY <2>1, RelayAddressesKept DEF SelfInv, SelfFleet, AddressesHeld
    <3>2. UNCHANGED C!shfvars => UNCHANGED F!shfvars
      BY DEF C!shfvars, F!shfvars
    <3> QED
      BY <2>1, <3>1, <3>2, SelfStepOfEach
  <2>2. CASE focus # "commands"
    <3>1. F!Next => AddressesHeld
      BY <2>2, FleetAddressesKept DEF SelfInv, SelfFleet, AddressesHeld
    <3> QED
      BY <2>2, <3>1, SelfStepOfEach
  <2> QED
    BY <2>1, <2>2
<1>4. [SetOnceHeld]_H!ghvars
  <2>1. H!Next => SetOnceHeld
    BY GitSetsOnce DEF SelfInv, SetOnceHeld
  <2> QED
    BY <2>1, SelfStepOfEach
<1> QED
  BY <1>1, <1>2, <1>3, <1>4

\* The rows of every part, and what its tasks hold, have the shape the code gives
\* (runtime/deploy.rs, runtime/database.rs, integrations.rs, networking.rs, github_app.rs).
THEOREM SelfTyped == Spec => []TypeOK
BY SelfAlways, SelfPromises, PTL

\* Whatever workers, observers, removals and restarts do in between, what serves
\* visitors runs, and what was given up does not (runtime/deploy.rs:136-560,
\* runtime/database.rs, integrations.rs:1074-1190).  As in the suite, no clean-up
\* outlives its lease and no task ends between a PUT and the row it saves.
THEOREM RunningAlwaysKept == Spec => []RunningKept
BY SelfAlways, SelfPromises, PTL

\* A push, a webhook, a command, an enrollment token and the link of an account are
\* given once, whoever claims them at the same time (integrations.rs:1196-1330,
\* networking.rs:140-480, github_app.rs:380-600).
THEOREM AlwaysClaimedOnce == Spec => []ClaimedOnce
BY SelfAlways, SelfPromises, PTL

\* Late steps undo nothing: records of others stay, a removal that was asked for
\* stands, a database is healthy only when its own server was probed, addresses and the
\* registration of the App are given once (integrations.rs:1074-1190,
\* runtime/database.rs:671, networking.rs:180-260, github_app.rs:100-330).
THEOREM SelfStepsAlwaysHold == Spec => StepsHold
<1>1. SelfInv /\ [Next]_SelfVars =>
        /\ [NotOursHeld]_N!dvars /\ [RemovalHeld]_B!sdvars /\ [VerifiedHeld]_B!sdvars
        /\ [AddressesHeld]_F!shfvars /\ [SetOnceHeld]_H!ghvars
  BY SelfStepsPromise
<1> QED
  BY <1>1, SelfAlways, PTL DEF Spec, SelfVars, StepsHold, N!NotOurs, B!RemovalStands, B!HealthyIsVerified,
     F!AddressesAreKept, H!SetOnce, NotOursHeld, RemovalHeld, VerifiedHeld, AddressesHeld, SetOnceHeld
=============================================================================
