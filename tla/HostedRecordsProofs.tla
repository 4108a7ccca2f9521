------------------------ MODULE HostedRecordsProofs ------------------------
(***************************************************************************)
(* Theorems about what a workspace consists of, for any number of          *)
(* accounts, imports, machines, projects, dashboards and builders.  Each   *)
(* part has its inductive invariant; as the parts share nothing, a step of *)
(* one leaves those of the others alone.                                   *)
(***************************************************************************)
EXTENDS MCHostedRecords, FiniteSetTheorems, TLAPS

-----------------------------------------------------------------------------
(***************************************************************************)
(* Accounts.  A sign-in that may still store a token or a session has read *)
(* the generation it was begun under.                                      *)
(***************************************************************************)

Place == [name : Login, workspace : Workspace]
Flow  == [pc : {"none", "started", "original", "exchange", "token", "member", "session", "end"},
          session : Login \cup {U!Nobody}, workspace : Workspace \cup {U!Nobody},
          created : 0..MaxRevoked, generation : 0..MaxRevoked]

\* A flow is no younger than the authorization, which it reads once.
Flowing(f) ==
  /\ f.created <= user.generation
  /\ f.pc \in {"token", "member", "session"} => f.generation = f.created
  /\ f.pc = "session" => f.workspace \in Workspace

AccountsTyped ==
  /\ U!TypeOK /\ flow \in [Login -> Flow] /\ \A l \in Login : Flowing(flow[l])

\* A session, and the token, are of a sign-in that has begun.
Begun ==
  /\ \A s \in sessions : flow[s.name].pc # "none"
  /\ user.token # U!Nobody => flow[user.token].pc # "none"

AccountsInv == AccountsTyped /\ Begun /\ U!RevocationIsFinal /\ U!SessionsOfMembers

\* What a step may do to a sign-in: it keeps its beginning.
FlowMoves(l) == flow[l].pc # "none" => flow'[l].pc # "none" /\ flow'[l].created = flow[l].created

LEMMA OneFlow ==
  ASSUME AccountsInv, NEW l \in Login, NEW f \in Flow, flow' = [flow EXCEPT ![l] = f],
         flow[l].pc # "none" => f.pc # "none" /\ f.created = flow[l].created,
         Flowing(f), UNCHANGED user
  PROVE  flow' \in [Login -> Flow] /\ (\A k \in Login : FlowMoves(k) /\ Flowing(flow[k])')
<1>1. flow' \in [Login -> Flow] /\ \A k \in Login : flow'[k] = IF k = l THEN f ELSE flow[k]
  BY DEF AccountsInv, AccountsTyped
<1>2. ASSUME NEW k \in Login PROVE FlowMoves(k) /\ Flowing(flow[k])'
  <2>1. Flowing(flow[k]) /\ (flow'[k] = f \/ flow'[k] = flow[k])
    BY <1>1 DEF AccountsInv, AccountsTyped
  <2> QED
    BY <1>1, <2>1 DEF FlowMoves, Flowing
<1> QED
  BY <1>1, <1>2

\* A step within one generation.
LEMMA SameGeneration ==
  ASSUME AccountsInv, flow' \in [Login -> Flow],
         \A k \in Login : FlowMoves(k) /\ Flowing(flow[k])',
         U!TypeOK', user'.generation = user.generation,
         user'.token # user.token =>
           /\ user'.token \in Login /\ flow'[user'.token].pc # "none"
           /\ flow'[user'.token].created = user.generation,
         \A s \in sessions' :
           /\ s.workspace \in memberships'
           /\ \/ \E t \in sessions : s.name = t.name
              \/ /\ s.name \in Login /\ flow'[s.name].pc # "none"
                 /\ flow'[s.name].created = user.generation
  PROVE  AccountsInv'
<1>1. AccountsTyped' /\ U!SessionsOfMembers'
  BY DEF AccountsInv, AccountsTyped, U!SessionsOfMembers
<1>2. \A t \in sessions : t.name \in Login /\ flow'[t.name].pc # "none"
                          /\ flow'[t.name].created = user.generation
  BY DEF AccountsInv, AccountsTyped, U!TypeOK, Begun, U!RevocationIsFinal, FlowMoves
<1>3. user'.token # U!Nobody => /\ flow'[user'.token].pc # "none"
                                /\ flow'[user'.token].created = user.generation
  <2>1. user.token \in Login \cup {U!Nobody}
    BY DEF AccountsInv, AccountsTyped, U!TypeOK
  <2> QED
    BY <2>1 DEF AccountsInv, Begun, U!RevocationIsFinal, FlowMoves
<1>4. Begun'
  BY <1>2, <1>3 DEF Begun
<1>5. U!RevocationIsFinal'
  BY <1>2, <1>3 DEF U!RevocationIsFinal
<1> QED
  BY <1>1, <1>4, <1>5 DEF AccountsInv

\* A step of one sign-in, without a session or a token.
LEMMA FlowStep ==
  ASSUME AccountsInv, NEW l \in Login, NEW f \in Flow, flow' = [flow EXCEPT ![l] = f],
         flow[l].pc # "none" => f.pc # "none" /\ f.created = flow[l].created,
         Flowing(f), UNCHANGED <<user, sessions, closing, connecting, sockets, timer>>,
         memberships \subseteq memberships', memberships' \subseteq Workspace
  PROVE  AccountsInv'
<1>1. flow' \in [Login -> Flow] /\ (\A k \in Login : FlowMoves(k) /\ Flowing(flow[k])')
  BY OneFlow
<1>2. U!TypeOK' /\ (\A s \in sessions' : s.workspace \in memberships')
  BY DEF AccountsInv, AccountsTyped, U!TypeOK, U!SessionsOfMembers
<1> QED
  BY <1>1, <1>2, SameGeneration

LEMMA FlowFacts ==
  ASSUME AccountsInv, NEW l \in Login
  PROVE  flow[l] \in Flow /\ Flowing(flow[l]) /\ user.generation \in 0..MaxRevoked
BY DEF AccountsInv, AccountsTyped, U!TypeOK

LEMMA SignInKept ==
  ASSUME AccountsInv, NEW l \in Login, U!SignIn(l)
  PROVE  AccountsInv'
<1> DEFINE g == flow[l]
<1>1. g \in Flow /\ Flowing(g) /\ user.generation \in 0..MaxRevoked /\ MaxRevoked \in Nat
  BY FlowFacts, RecordsAssumption
<1>2. ASSUME NEW pc \in {"original", "exchange", "end"}, U!To(l, pc), g.pc # "none",
             UNCHANGED <<user, memberships, sessions, closing, U!live>>
      PROVE  AccountsInv'
  <2> DEFINE f == [g EXCEPT !.pc = pc]
  <2>1. f \in Flow /\ f.pc = pc /\ f.created = g.created
    BY <1>1 DEF Flow
  <2>2. flow' = [flow EXCEPT ![l] = f]
    BY <1>2 DEF U!To
  <2> HIDE DEF f
  <2>3. Flowing(f) /\ memberships \subseteq memberships' /\ memberships' \subseteq Workspace
    BY <1>1, <1>2, <2>1 DEF Flowing, AccountsInv, AccountsTyped, U!TypeOK
  <2> QED
    BY <1>2, <2>1, <2>2, <2>3, FlowStep DEF U!live
<1>3. ASSUME U!Start(l) \/ \E s \in sessions : U!StartLink(l, s) PROVE AccountsInv'
  <2>1. PICK f : /\ flow' = [flow EXCEPT ![l] = f]
                 /\ f \in Flow /\ f.pc = "started" /\ f.created = user.generation
    <3>2. CASE U!Start(l)
      <4>1. PICK n : n = U!NoFlow
        OBVIOUS
      <4>2. n \in Flow
        BY <1>1, <4>1 DEF U!NoFlow, Flow
      <4>3. PICK f : f = [n EXCEPT !.pc = "started", !.created = user.generation]
        OBVIOUS
      <4>4. f \in Flow /\ f.pc = "started" /\ f.created = user.generation
        BY <1>1, <4>2, <4>3 DEF Flow
      <4>5. flow' = [flow EXCEPT ![l] = f]
        BY <3>2, <4>1, <4>3 DEF U!Start
      <4> QED
        BY <4>4, <4>5
    <3>3. ASSUME NEW s \in sessions, U!StartLink(l, s)
          PROVE  \E f : /\ flow' = [flow EXCEPT ![l] = f]
                        /\ f \in Flow /\ f.pc = "started" /\ f.created = user.generation
      <4>1. s.name \in Login /\ s.workspace \in Workspace
        BY DEF AccountsInv, AccountsTyped, U!TypeOK
      <4>2. PICK f : f = [pc |-> "started", session |-> s.name, workspace |-> s.workspace,
                          created |-> user.generation, generation |-> 0]
        OBVIOUS
      <4>3. f \in Flow /\ f.pc = "started" /\ f.created = user.generation
        BY <1>1, <4>1, <4>2 DEF Flow
      <4>4. flow' = [flow EXCEPT ![l] = f]
        BY <3>3, <4>2 DEF U!StartLink
      <4> QED
        BY <4>3, <4>4
    <3> QED
      BY <1>3, <3>2, <3>3
  <2>2. g.pc = "none" /\ UNCHANGED <<user, memberships, sessions, closing, U!live>>
    BY <1>3 DEF U!Start, U!StartLink, U!At
  <2>3. Flowing(f) /\ memberships \subseteq memberships' /\ memberships' \subseteq Workspace
    BY <1>1, <2>1, <2>2 DEF Flowing, AccountsInv, AccountsTyped, U!TypeOK
  <2> QED
    BY <2>1, <2>2, <2>3, FlowStep DEF U!live
<1>4. CASE U!Consume(l) \/ U!Original(l)
  <2>1. g.pc # "none" /\ UNCHANGED <<user, memberships, sessions, closing, U!live>>
    BY <1>4 DEF U!Consume, U!Original, U!At
  <2>2. \E pc \in {"original", "exchange", "end"} : U!To(l, pc)
    BY <1>4 DEF U!Consume, U!Original
  <2> QED
    BY <1>2, <2>1, <2>2
<1>5. CASE U!ReadUser(l)
  <2> DEFINE pc == IF U!Revoked(l) THEN "end" ELSE "token"
             f == [g EXCEPT !.pc = pc, !.generation = user.generation]
  <2>1. f \in Flow /\ f.pc = pc /\ f.created = g.created /\ f.generation = user.generation
    BY <1>1 DEF Flow
  <2>2. /\ flow' = [flow EXCEPT ![l] = f]
        /\ UNCHANGED <<user, memberships, sessions, closing, U!live>>
    BY <1>1, <1>5 DEF U!ReadUser, Flow, AccountsInv, AccountsTyped
  <2>3. pc = "token" => g.created = user.generation
    BY <1>1 DEF U!Revoked, Flowing, Flow
  <2> HIDE DEF f
  <2>4. Flowing(f) /\ memberships \subseteq memberships' /\ memberships' \subseteq Workspace
    BY <1>1, <2>1, <2>2, <2>3 DEF Flowing, AccountsInv, AccountsTyped, U!TypeOK
  <2> QED
    BY <2>1, <2>2, <2>4, FlowStep DEF U!live
<1>6. CASE U!SaveUserToken(l)
  <2>1. CASE ~U!Unchanged(l)
    BY <1>2, <1>6, <2>1 DEF U!SaveUserToken, U!At
  <2>2. CASE U!Unchanged(l)
    <3> DEFINE f == [g EXCEPT !.pc = "member"]
    <3>1. f \in Flow /\ f.pc = "member" /\ f.created = g.created /\ f.generation = g.generation
      BY <1>1 DEF Flow
    <3>2. /\ flow' = [flow EXCEPT ![l] = f] /\ user' = [user EXCEPT !.token = l]
          /\ g.pc = "token" /\ user.generation = g.generation
          /\ UNCHANGED <<memberships, sessions, closing, U!live>>
      BY <1>6, <2>2 DEF U!SaveUserToken, U!At, U!Unchanged, U!To
    <3>3. g.created = user.generation
      BY <1>1, <3>2 DEF Flowing
    <3>4. user' \in [generation : 0..MaxRevoked, token : Login \cup {U!Nobody}]
          /\ user'.generation = user.generation /\ user'.token = l
      BY <3>2 DEF AccountsInv, AccountsTyped, U!TypeOK
    <3>5. U!TypeOK' /\ \A s \in sessions' : s.workspace \in memberships'
      BY <3>2, <3>4 DEF U!live, AccountsInv, AccountsTyped, U!TypeOK, U!SessionsOfMembers
    <3> HIDE DEF f
    <3>6. flow' \in [Login -> Flow] /\ \A k \in Login : flow'[k] = IF k = l THEN f ELSE flow[k]
      BY <3>1, <3>2 DEF AccountsInv, AccountsTyped
    <3>7. ASSUME NEW k \in Login PROVE FlowMoves(k) /\ Flowing(flow[k])'
      <4>1. Flowing(flow[k])
        BY FlowFacts
      <4>2. (flow'[k] = f /\ k = l) \/ flow'[k] = flow[k]
        BY <3>6
      <4> QED
        BY <1>1, <3>1, <3>2, <3>4, <4>1, <4>2 DEF FlowMoves, Flowing
    <3>8. flow'[user'.token].pc # "none" /\ flow'[user'.token].created = user.generation
      BY <3>1, <3>3, <3>4, <3>6
    <3>9. \A s \in sessions' : \E t \in sessions : s.name = t.name
      BY <3>2
    <3> QED
      BY <3>4, <3>5, <3>6, <3>7, <3>8, <3>9, SameGeneration
  <2> QED
    BY <2>1, <2>2
<1>7. CASE U!Member(l)
  <2>1. PICK w : /\ w \in IF g.workspace # U!Nobody THEN {g.workspace}
                          ELSE IF memberships = {} THEN {Owned} ELSE memberships
                 /\ flow' = [flow EXCEPT ![l].pc = "session", ![l].workspace = w]
                 /\ memberships' = IF g.workspace = U!Nobody /\ memberships = {}
                                   THEN {w} ELSE memberships
    BY <1>7 DEF U!Member
  <2>2. w \in Workspace
    BY <1>1, <2>1, RecordsAssumption DEF Flow, AccountsInv, AccountsTyped, U!TypeOK
  <2> DEFINE f == [g EXCEPT !.pc = "session", !.workspace = w]
  <2>3. f \in Flow /\ f.pc = "session" /\ f.created = g.created /\ f.generation = g.generation
        /\ f.workspace = w
    BY <1>1, <2>2 DEF Flow
  <2>4. /\ flow' = [flow EXCEPT ![l] = f] /\ g.pc = "member"
        /\ UNCHANGED <<user, sessions, closing, U!live>>
    BY <1>1, <1>7, <2>1 DEF U!Member, U!At, Flow, AccountsInv, AccountsTyped
  <2> HIDE DEF f
  <2>5. Flowing(f)
    BY <1>1, <2>2, <2>3, <2>4 DEF Flowing
  <2>6. memberships \subseteq memberships' /\ memberships' \subseteq Workspace
    BY <2>1, <2>2 DEF AccountsInv, AccountsTyped, U!TypeOK
  <2> QED
    BY <2>3, <2>4, <2>5, <2>6, FlowStep DEF U!live
<1>8. CASE U!CreateSession(l)
  <2> DEFINE f == [g EXCEPT !.pc = "end"]
             n == [name |-> l, workspace |-> g.workspace, generation |-> g.generation]
  <2>1. f \in Flow /\ f.pc = "end" /\ f.created = g.created
    BY <1>1 DEF Flow
  <2>2. /\ flow' = [flow EXCEPT ![l] = f] /\ g.pc = "session"
        /\ UNCHANGED <<user, memberships, closing, U!live>>
        /\ sessions' = IF U!Unchanged(l) /\ U!Joined(g.workspace) THEN sessions \cup {n} ELSE sessions
    BY <1>8 DEF U!CreateSession, U!At, U!To
  <2> HIDE DEF f
  <2>3. Flowing(f)
    BY <1>1, <2>1 DEF Flowing
  <2>4. /\ flow' \in [Login -> Flow] /\ flow'[l] = f
        /\ \A k \in Login : FlowMoves(k) /\ Flowing(flow[k])'
    BY <2>1, <2>2, <2>3, OneFlow DEF AccountsInv, AccountsTyped
  <2>5. n \in [name : Login, workspace : Workspace, generation : 0..MaxRevoked]
    BY <1>1, <2>2 DEF Flowing, Flow
  <2>6. U!TypeOK'
    BY <2>2, <2>5 DEF U!live, AccountsInv, AccountsTyped, U!TypeOK
  <2>7. ASSUME NEW s \in sessions'
        PROVE  /\ s.workspace \in memberships'
               /\ \/ \E t \in sessions : s.name = t.name
                  \/ /\ s.name \in Login /\ flow'[s.name].pc # "none"
                     /\ flow'[s.name].created = user.generation
    <3>1. CASE s \in sessions
      BY <2>2, <3>1 DEF AccountsInv, U!SessionsOfMembers
    <3>2. CASE s \notin sessions
      <4>1. s = n /\ U!Unchanged(l) /\ g.workspace \in memberships
        BY <2>2, <3>2 DEF U!Joined
      <4>2. user.generation = g.created
        BY <1>1, <2>2, <4>1 DEF U!Unchanged, Flowing
      <4> QED
        BY <2>1, <2>2, <2>4, <4>1, <4>2
    <3> QED
      BY <3>1, <3>2
  <2> QED
    BY <2>2, <2>4, <2>6, <2>7, SameGeneration
<1> QED
  BY <1>3, <1>4, <1>5, <1>6, <1>7, <1>8 DEF U!SignIn

\* Steps that leave the sign-ins and the user alone.
LEMMA SessionStep ==
  ASSUME AccountsInv, UNCHANGED <<user, flow>>, U!TypeOK',
         \A s \in sessions' : s.workspace \in memberships' /\ \E t \in sessions : s.name = t.name
  PROVE  AccountsInv'
<1>1. /\ flow' \in [Login -> Flow] /\ \A k \in Login : FlowMoves(k) /\ Flowing(flow[k])'
  BY DEF AccountsInv, AccountsTyped, FlowMoves, Flowing
<1> QED
  BY <1>1, SameGeneration

\* What Drop does to the sign-ins.
LEMMA DropMoves ==
  ASSUME AccountsInv, NEW left, U!Drop(left), user'.generation \in 0..MaxRevoked,
         user.generation <= user'.generation
  PROVE  flow' \in [Login -> Flow] /\ \A k \in Login : FlowMoves(k) /\ Flowing(flow[k])'
<1>1. \A k \in Login : flow'[k] \in {flow[k], [flow[k] EXCEPT !.pc = "end"]}
  BY DEF U!Drop
<1>2. DOMAIN flow' = Login /\ flow' = [k \in Login |-> flow'[k]]
  BY DEF U!Drop
<1>3. ASSUME NEW k \in Login
      PROVE  flow'[k] \in Flow /\ FlowMoves(k) /\ Flowing(flow[k])'
  <2>1. flow[k] \in Flow /\ Flowing(flow[k]) /\ user.generation \in 0..MaxRevoked
    BY FlowFacts
  <2>2. PICK f : f = [flow[k] EXCEPT !.pc = "end"]
    OBVIOUS
  <2>3. f \in Flow /\ f.pc = "end" /\ f.created = flow[k].created
    BY <2>1, <2>2 DEF Flow
  <2>4. flow'[k] = flow[k] \/ flow'[k] = f
    BY <1>1, <2>2
  <2>5. user'.generation \in Nat /\ user.generation \in Nat /\ flow[k].created \in Nat
    BY <2>1, RecordsAssumption DEF Flow
  <2> QED
    BY <2>1, <2>3, <2>4, <2>5 DEF FlowMoves, Flowing
<1> QED
  BY <1>2, <1>3

LEMMA AccountsKept ==
  ASSUME AccountsInv, U!Next \/ UNCHANGED accountsVars
  PROVE  AccountsInv'
<1> USE DEF U!live
<1>0. U!TypeOK /\ U!SessionsOfMembers
  BY DEF AccountsInv, AccountsTyped
<1>1. ASSUME NEW l \in Login, U!SignIn(l) PROVE AccountsInv'
  BY <1>1, SignInKept
<1>2. ASSUME NEW s \in sessions, U!Logout(s) \/ U!Expire(s) PROVE AccountsInv'
  <2>1. /\ UNCHANGED <<user, flow, memberships, connecting, sockets, timer>>
        /\ sessions' \subseteq sessions /\ closing' \subseteq closing \cup {s.workspace}
    BY <1>2 DEF U!Logout, U!Expire, U!EndSessions
  <2>2. U!TypeOK' /\ \A t \in sessions' : t \in sessions /\ t.workspace \in memberships'
    BY <1>0, <2>1 DEF U!TypeOK, U!SessionsOfMembers
  <2> QED
    BY <2>1, <2>2, SessionStep
<1>3. ASSUME NEW s \in sessions, U!Connect(s) PROVE AccountsInv'
  <2>1. /\ UNCHANGED <<user, flow, memberships, sessions, closing, sockets, timer>>
        /\ connecting' = connecting \cup {[name |-> s.name, workspace |-> s.workspace]}
    BY <1>3 DEF U!Connect
  <2>2. U!TypeOK' /\ \A t \in sessions' : t \in sessions /\ t.workspace \in memberships'
    BY <1>0, <2>1 DEF U!TypeOK, U!SessionsOfMembers
  <2> QED
    BY <2>1, <2>2, SessionStep
<1>4. ASSUME NEW s \in sessions, NEW w \in Workspace, U!SelectWorkspace(s, w) PROVE AccountsInv'
  <2>0. PICK n : n = [s EXCEPT !.workspace = w]
    OBVIOUS
  <2>1. /\ UNCHANGED <<user, flow, memberships, connecting, sockets, timer, closing>>
        /\ sessions' = (sessions \ {s}) \cup {n} /\ w \in memberships
    BY <1>4, <2>0 DEF U!SelectWorkspace, U!Joined
  <2>2. n \in [name : Login, workspace : Workspace, generation : 0..MaxRevoked]
        /\ n.name = s.name /\ n.workspace = w
    BY <1>0, <2>0 DEF U!TypeOK
  <2>3. U!TypeOK'
    BY <1>0, <2>1, <2>2 DEF U!TypeOK
  <2>4. \A t \in sessions' : t.workspace \in memberships' /\ \E u \in sessions : t.name = u.name
    BY <1>0, <2>1, <2>2 DEF U!SessionsOfMembers
  <2> QED
    BY <2>1, <2>3, <2>4, SessionStep
<1>5. ASSUME NEW w \in Workspace, U!AddMember(w) PROVE AccountsInv'
  <2>1. /\ UNCHANGED <<user, flow, sessions, connecting, sockets, timer, closing>>
        /\ memberships' = memberships \cup {w}
    BY <1>5 DEF U!AddMember
  <2>2. U!TypeOK' /\ \A t \in sessions' : t \in sessions /\ t.workspace \in memberships'
    BY <1>0, <2>1 DEF U!TypeOK, U!SessionsOfMembers
  <2> QED
    BY <2>1, <2>2, SessionStep
<1>6. ASSUME NEW w \in Workspace, U!RemoveMember(w) PROVE AccountsInv'
  <2>1. /\ UNCHANGED <<user, connecting, sockets, timer>> /\ w \in memberships
        /\ memberships' = memberships \ {w} /\ closing' = closing \cup {w}
        /\ sessions' = sessions \ U!Of(w) /\ U!Drop(Workspace \ {w})
    BY <1>6 DEF U!RemoveMember, U!EndSessions
  <2>2. U!TypeOK' /\ user.generation \in Nat /\ user.generation \in 0..MaxRevoked
    BY <1>0, <2>1, RecordsAssumption DEF U!TypeOK
  <2>3. flow' \in [Login -> Flow] /\ \A k \in Login : FlowMoves(k) /\ Flowing(flow[k])'
    BY <2>1, <2>2, DropMoves
  <2>4. \A t \in sessions' : t.workspace \in memberships' /\ \E s \in sessions : t.name = s.name
    BY <1>0, <2>1 DEF U!Of, U!SessionsOfMembers
  <2> QED
    BY <2>1, <2>2, <2>3, <2>4, SameGeneration
<1>7. CASE U!Revoke
  <2>1. /\ UNCHANGED <<memberships, connecting, sockets, timer>>
        /\ user' = [generation |-> user.generation + 1, token |-> U!Nobody]
        /\ user.generation < MaxRevoked /\ user.generation \in Nat
        /\ closing' = closing \cup memberships /\ sessions' = {} /\ U!Drop({})
    BY <1>0, <1>7, RecordsAssumption DEF U!Revoke, U!EndSessions, U!TypeOK
  <2>2. user'.generation \in 0..MaxRevoked /\ user.generation <= user'.generation
        /\ user'.token = U!Nobody
    BY <2>1, RecordsAssumption
  <2>3. U!TypeOK'
    BY <1>0, <2>1, <2>2 DEF U!TypeOK
  <2>4. flow' \in [Login -> Flow] /\ \A k \in Login : FlowMoves(k) /\ Flowing(flow[k])'
    BY <2>1, <2>2, DropMoves
  <2> QED
    BY <2>1, <2>2, <2>3, <2>4 DEF AccountsInv, AccountsTyped, Begun, U!RevocationIsFinal,
       U!SessionsOfMembers
<1>8. ASSUME UNCHANGED <<user, memberships, sessions, flow>>, U!TypeOK' PROVE AccountsInv'
  BY <1>0, <1>8, SessionStep DEF U!SessionsOfMembers
<1>9. ASSUME NEW w \in Workspace, U!CloseUserSockets(w) \/ U!AlarmEnds(w) PROVE AccountsInv'
  BY <1>0, <1>8, <1>9 DEF U!CloseUserSockets, U!AlarmEnds, U!TypeOK
<1>10. ASSUME NEW k \in connecting, U!Accept(k) PROVE AccountsInv'
  <2>1. k.workspace \in Workspace
    BY <1>0 DEF U!TypeOK
  <2> QED
    BY <1>0, <1>8, <1>10, <2>1 DEF U!Accept, U!TypeOK
<1>11. ASSUME NEW k \in sockets, U!CheckSocket(k) \/ U!Disconnect(k) PROVE AccountsInv'
  BY <1>0, <1>8, <1>11 DEF U!CheckSocket, U!Disconnect, U!TypeOK
<1>12. CASE UNCHANGED accountsVars
  BY <1>0, <1>8, <1>12 DEF accountsVars, U!TypeOK
<1> QED
  BY <1>1, <1>2, <1>3, <1>4, <1>5, <1>6, <1>7, <1>9, <1>10, <1>11, <1>12 DEF U!Next

LEMMA AccountsBegin ==
  ASSUME U!Init
  PROVE  AccountsInv
<1>1. U!NoFlow \in Flow /\ U!NoFlow.pc = "none" /\ U!NoFlow.created = 0
  BY RecordsAssumption DEF U!NoFlow, Flow
<1>2. U!TypeOK
  BY RecordsAssumption DEF U!Init, U!TypeOK
<1> QED
  BY <1>1, <1>2 DEF U!Init, AccountsInv, AccountsTyped, Flowing, Begun, U!RevocationIsFinal,
     U!SessionsOfMembers

LEMMA AccountsPromise ==
  ASSUME AccountsInv
  PROVE  U!TypeOK /\ U!RevocationIsFinal /\ U!SessionsOfMembers
BY DEF AccountsInv, AccountsTyped
-----------------------------------------------------------------------------
(***************************************************************************)
(* Migration.  An import that is about to activate a workspace has given   *)
(* it its routes and its owner, and nobody takes them before.              *)
(***************************************************************************)

Status == {"none", "staged", "active"}
Marker == [digest : Bundle \cup {M!None}, status : Status]
Visit  == [pc : {"none", "user", "members", "status", "machines", "domains", "stage", "batch",
                 "activate"}, bundle : Bundle \cup {M!None}]

MigrationTyped ==
  /\ M!TypeOK /\ documents \in [M!Target -> SUBSET (Bundle \cup {M!Own})]
  /\ marker \in [M!Target -> Marker] /\ members \in [M!Target -> SUBSET {"user", "another"}]
  /\ imports \in [Import -> Visit]
  /\ \A i \in Import : imports[i].pc # "none" => imports[i].bundle \in Bundle

\* The documents of the bundle a workspace is marked with are there.
Marked == \A w \in M!Target : marker[w].digest # M!None => marker[w].digest \in documents[w]

\* A workspace that is claimed has what the batch wrote, until it is active.
Has(w)  == machine_route = w /\ domain_route = M!Route(w) /\ "user" \in members[w]
Claimed == \A i \in Import : LET w == M!Into(imports[i].bundle) IN
             imports[i].pc = "activate" /\ marker[w].status # "active" => Has(w)

MigrationInv == MigrationTyped /\ Marked /\ Claimed

\* What a step does to the routes, the documents and the markers.
RouteHeld ==
  /\ machine_route # M!None => machine_route' \in {machine_route, M!None}
  /\ domain_route # M!NoRoute => domain_route' \in {domain_route, M!NoRoute}
WholeHeld ==
  \A w \in M!Target : M!Status(w) # "active" /\ marker'[w].status = "active" =>
       /\ marker[w].digest \in documents[w] /\ "user" \in members[w]
       /\ machine_route = w /\ domain_route = M!Route(w)
OnceHeld ==
  \A w \in M!Target, b \in Bundle : b \in documents'[w] \ documents[w] =>
       documents[w] = {} /\ documents'[w] = {b}
PauseHeld ==
  \A w \in M!Target : M!Status(w) = "staged" /\ documents'[w] # documents[w] =>
       w \in writing /\ w \notin writing'
MigrationHeld == RouteHeld /\ WholeHeld /\ OnceHeld /\ PauseHeld

LEMMA MigrationFacts ==
  ASSUME MigrationInv
  PROVE  /\ documents \in [M!Target -> SUBSET (Bundle \cup {M!Own})]
         /\ marker \in [M!Target -> Marker] /\ members \in [M!Target -> SUBSET {"user", "another"}]
         /\ imports \in [Import -> Visit] /\ machine_route \in M!Target \cup {M!None}
         /\ M!None \notin Bundle /\ M!Own \notin Bundle /\ M!None \notin M!Target
         /\ \A b : M!Into(b) \in M!Target
         /\ \A v, w \in M!Target : M!Route(v) = M!Route(w) => v = w
         /\ \A w \in M!Target : M!Route(w) # M!NoRoute /\ M!Route(w).to = w
BY RecordsAssumption DEF MigrationInv, MigrationTyped, M!TypeOK, M!None, M!Own, M!Target, M!Into,
   M!Route, M!NoRoute

\* A step of one import that writes neither documents, markers nor tables.
LEMMA ImportMoves ==
  ASSUME MigrationInv, NEW i \in Import, NEW v \in Visit,
         imports' = [imports EXCEPT ![i] = v], v.pc # "none" => v.bundle \in Bundle,
         v.pc # "activate" \/ marker[M!Into(v.bundle)].status = "active" \/ Has(M!Into(v.bundle)),
         UNCHANGED <<source, files, owner, members, machine_route, domain_route, documents,
                     marker, writing>>
  PROVE  MigrationInv' /\ MigrationHeld
<1>1. imports' \in [Import -> Visit] /\ \A k \in Import : imports'[k] = IF k = i THEN v ELSE imports[k]
  BY DEF MigrationInv, MigrationTyped
<1>2. MigrationTyped'
  BY <1>1 DEF MigrationInv, MigrationTyped, M!TypeOK
<1>3. Marked'
  BY DEF MigrationInv, Marked
<1>4. Claimed'
  BY <1>1 DEF MigrationInv, Claimed, Has, M!Into
<1>5. MigrationHeld
  BY DEF MigrationHeld, RouteHeld, WholeHeld, OnceHeld, PauseHeld, M!Status
<1> QED
  BY <1>2, <1>3, <1>4, <1>5 DEF MigrationInv

\* An import goes on, without an activation, or ends.
LEMMA GoesOn ==
  ASSUME MigrationInv, NEW i \in Import, imports[i].pc # "none",
         UNCHANGED <<source, files, owner, members, machine_route, domain_route, documents,
                     marker, writing>>,
         \/ M!End(i)
         \/ \E pc \in {"members", "status", "machines", "domains", "stage", "batch"} : M!To(i, pc)
  PROVE  MigrationInv' /\ MigrationHeld
<1>0. imports[i] \in Visit /\ imports[i].bundle \in Bundle
  BY DEF MigrationInv, MigrationTyped
<1>1. CASE M!End(i)
  <2>1. PICK v : v = M!NoImport
    OBVIOUS
  <2>2. v \in Visit /\ v.pc = "none"
    BY <2>1 DEF M!NoImport, M!None, Visit
  <2>3. imports' = [imports EXCEPT ![i] = v]
    BY <1>1, <2>1 DEF M!End
  <2> QED
    BY <2>2, <2>3, ImportMoves
<1>2. ASSUME NEW pc \in {"members", "status", "machines", "domains", "stage", "batch"}, M!To(i, pc)
      PROVE  MigrationInv' /\ MigrationHeld
  <2>1. PICK v : v = [imports[i] EXCEPT !.pc = pc]
    OBVIOUS
  <2>2. v \in Visit /\ v.pc = pc /\ v.bundle = imports[i].bundle
    BY <1>0, <2>1 DEF Visit
  <2>3. imports' = [imports EXCEPT ![i] = v]
    BY <1>2, <2>1 DEF M!To
  <2> QED
    BY <1>0, <2>2, <2>3, ImportMoves
<1> QED
  BY <1>1, <1>2

\* The workspace takes the documents of a bundle.
LEMMA Stages ==
  ASSUME MigrationInv, NEW i \in Import, M!Stage(i)
  PROVE  MigrationInv' /\ MigrationHeld
<1> DEFINE w == M!Of(i)
           b == imports[i].bundle
<1>0. /\ imports[i] \in Visit /\ imports[i].pc = "stage" /\ b \in Bundle /\ w \in M!Target
      /\ w = M!Into(b)
      /\ UNCHANGED <<source, files, owner, members, machine_route, domain_route, writing, stops>>
  BY MigrationFacts DEF M!Stage, M!At, M!Of, M!export, M!tables, MigrationInv, MigrationTyped
<1>1. CASE UNCHANGED <<documents, marker>> /\ (M!To(i, "batch") \/ M!End(i))
  BY <1>0, <1>1, GoesOn
<1>2. CASE /\ marker[w] = M!NoMarker /\ M!Vacant(w)
           /\ documents' = [documents EXCEPT ![w] = @ \cup {b}]
           /\ marker' = [marker EXCEPT ![w] = [digest |-> b, status |-> "staged"]]
           /\ M!To(i, "batch")
  <2>1. documents[w] = {} /\ marker[w].status = "none"
    BY <1>2 DEF M!Vacant, M!NoMarker, M!None
  <2>2. PICK v : v = [imports[i] EXCEPT !.pc = "batch"]
    OBVIOUS
  <2>3. v \in Visit /\ v.pc = "batch" /\ v.bundle = b
    BY <1>0, <2>2 DEF Visit
  <2>4. imports' \in [Import -> Visit] /\ \A k \in Import : imports'[k] = IF k = i THEN v ELSE imports[k]
    BY <1>2, <2>2, <2>3 DEF M!To, MigrationInv, MigrationTyped
  <2>5. PICK m : m = [digest |-> b, status |-> "staged"]
    OBVIOUS
  <2>6. m \in Marker /\ m.digest = b /\ m.status = "staged"
    BY <1>0, <2>5 DEF Marker, Status
  <2>7. /\ marker' \in [M!Target -> Marker]
        /\ \A u \in M!Target : marker'[u] = IF u = w THEN m ELSE marker[u]
    BY <1>0, <1>2, <2>5, <2>6, MigrationFacts
  <2>8. /\ documents' \in [M!Target -> SUBSET (Bundle \cup {M!Own})]
        /\ \A u \in M!Target : documents'[u] = IF u = w THEN {b} ELSE documents[u]
    BY <1>0, <1>2, <2>1, MigrationFacts
  <2>9. MigrationTyped'
    BY <1>0, <2>3, <2>4, <2>6, <2>7, <2>8, MigrationFacts DEF MigrationInv, MigrationTyped, M!TypeOK, M!None
  <2>10. Marked'
    BY <2>6, <2>7, <2>8 DEF Marked, MigrationInv
  <2>11. Claimed'
    <3> SUFFICES ASSUME NEW k \in Import, imports'[k].pc = "activate",
                        marker'[M!Into(imports'[k].bundle)].status # "active"
                 PROVE  Has(M!Into(imports[k].bundle))'
      BY DEF Claimed, M!Into, Has, M!Route
    <3>1. imports'[k] = imports[k] /\ imports[k].pc = "activate"
      BY <2>3, <2>4
    <3>2. marker[M!Into(imports[k].bundle)].status # "active"
      BY <2>1, <2>6, <2>7, <3>1, MigrationFacts
    <3>3. Has(M!Into(imports[k].bundle))
      BY <3>1, <3>2 DEF MigrationInv, Claimed
    <3> QED
      BY <1>0, <3>1, <3>3 DEF Has, M!Into, M!Route
  <2>12. RouteHeld /\ WholeHeld
    BY <1>0, <2>6, <2>7 DEF RouteHeld, WholeHeld, M!Status
  <2>13. OnceHeld
    BY <2>1, <2>8 DEF OnceHeld
  <2>14. PauseHeld
    BY <2>1, <2>8 DEF PauseHeld, M!Status
  <2> QED
    BY <2>9, <2>10, <2>11, <2>12, <2>13, <2>14 DEF MigrationInv, MigrationHeld
<1> QED
  BY <1>1, <1>2 DEF M!Stage

\* The directory takes the routes and the owner.
LEMMA Batches ==
  ASSUME MigrationInv, NEW i \in Import, M!Batch(i)
  PROVE  MigrationInv' /\ MigrationHeld
<1> DEFINE w == M!Of(i)
           b == imports[i].bundle
<1>0. /\ imports[i] \in Visit /\ imports[i].pc = "batch" /\ b \in Bundle /\ w \in M!Target
      /\ w = M!Into(b)
      /\ UNCHANGED <<source, files, documents, marker, writing, stops>>
  BY MigrationFacts DEF M!Batch, M!At, M!Of, M!export, M!object, MigrationInv, MigrationTyped
<1>1. CASE ~M!Unclaimed(w)
  BY <1>0, <1>1, GoesOn DEF M!Batch, M!tables
<1>2. CASE M!Unclaimed(w)
  <2>1. /\ owner' = "user" /\ members' = [members EXCEPT ![w] = @ \cup {"user"}]
        /\ machine_route' = w /\ domain_route' = M!Route(w) /\ M!To(i, "activate")
        /\ machine_route \in {M!None, w} /\ domain_route \in {M!NoRoute, M!Route(w)}
    BY <1>2 DEF M!Batch, M!Unclaimed
  <2>2. PICK v : v = [imports[i] EXCEPT !.pc = "activate"]
    OBVIOUS
  <2>3. v \in Visit /\ v.pc = "activate" /\ v.bundle = b
    BY <1>0, <2>2 DEF Visit
  <2>4. imports' \in [Import -> Visit] /\ \A k \in Import : imports'[k] = IF k = i THEN v ELSE imports[k]
    BY <2>1, <2>2, <2>3 DEF M!To, MigrationInv, MigrationTyped
  <2>5. /\ members' \in [M!Target -> SUBSET {"user", "another"}] /\ "user" \in members'[w]
    BY <1>0, <2>1, MigrationFacts
  <2>6. MigrationTyped'
    BY <1>0, <2>1, <2>3, <2>4, <2>5 DEF MigrationInv, MigrationTyped, M!TypeOK
  <2>7. Marked'
    BY <1>0 DEF Marked, MigrationInv
  <2>8. Claimed'
    <3> SUFFICES ASSUME NEW k \in Import, imports'[k].pc = "activate",
                        marker'[M!Into(imports'[k].bundle)].status # "active"
                 PROVE  Has(M!Into(imports[k].bundle))'
      BY DEF Claimed, M!Into, Has, M!Route
    <3>1. M!Into(imports'[k].bundle) = w
      <4>1. CASE k = i
        BY <1>0, <2>3, <2>4, <4>1
      <4>2. CASE k # i
        <5>1. imports'[k] = imports[k]
          BY <2>4, <4>2
        <5>2. machine_route = M!Into(imports[k].bundle)
          BY <1>0, <5>1 DEF MigrationInv, Claimed, Has
        <5> QED
          BY <2>1, <5>1, <5>2, MigrationFacts
      <4> QED
        BY <4>1, <4>2
    <3> QED
      BY <2>1, <2>5, <3>1 DEF Has, M!Into, M!Route
  <2>9. RouteHeld /\ WholeHeld /\ OnceHeld /\ PauseHeld
    BY <1>0, <2>1 DEF RouteHeld, WholeHeld, OnceHeld, PauseHeld, M!Status
  <2> QED
    BY <2>6, <2>7, <2>8, <2>9 DEF MigrationInv, MigrationHeld
<1> QED
  BY <1>1, <1>2

\* The workspace opens.
LEMMA Activates ==
  ASSUME MigrationInv, NEW i \in Import, M!Activate(i)
  PROVE  MigrationInv' /\ MigrationHeld
<1> DEFINE w == M!Of(i)
           b == imports[i].bundle
<1>0. /\ imports[i] \in Visit /\ imports[i].pc = "activate" /\ b \in Bundle /\ w \in M!Target
      /\ w = M!Into(b)
      /\ UNCHANGED <<source, files, owner, members, machine_route, domain_route, documents,
                     writing, stops>>
  BY MigrationFacts DEF M!Activate, M!At, M!Of, M!export, M!tables, MigrationInv, MigrationTyped
<1>1. CASE marker[w].digest # b
  BY <1>0, <1>1, GoesOn DEF M!Activate
<1>2. CASE marker[w].digest = b
  <2>1. PICK m : m = [marker[w] EXCEPT !.status = "active"]
    OBVIOUS
  <2>2. m \in Marker /\ m.digest = b /\ m.status = "active"
    BY <1>0, <1>2, <2>1, MigrationFacts DEF Marker, Status
  <2>3. /\ marker' \in [M!Target -> Marker]
        /\ \A u \in M!Target : marker'[u] = IF u = w THEN m ELSE marker[u]
    BY <1>0, <1>2, <2>1, <2>2, MigrationFacts DEF M!Activate, M!Of
  <2>4. PICK v : v = M!NoImport
    OBVIOUS
  <2>5. v \in Visit /\ v.pc = "none"
    BY <2>4 DEF M!NoImport, M!None, Visit
  <2>6. imports' \in [Import -> Visit] /\ \A k \in Import : imports'[k] = IF k = i THEN v ELSE imports[k]
    BY <2>4, <2>5 DEF M!Activate, M!End, MigrationInv, MigrationTyped
  <2>7. MigrationTyped'
    BY <1>0, <2>2, <2>3, <2>5, <2>6, MigrationFacts DEF MigrationInv, MigrationTyped, M!TypeOK, M!None
  <2>8. Marked'
    BY <1>0, <1>2, <2>2, <2>3, MigrationFacts DEF Marked, MigrationInv
  <2>9. Claimed'
    <3> SUFFICES ASSUME NEW k \in Import, imports'[k].pc = "activate",
                        marker'[M!Into(imports'[k].bundle)].status # "active"
                 PROVE  Has(M!Into(imports[k].bundle))'
      BY DEF Claimed, M!Into, Has, M!Route
    <3>1. imports'[k] = imports[k]
      BY <2>5, <2>6
    <3>2. Has(M!Into(imports[k].bundle))
      BY <2>2, <2>3, <3>1, MigrationFacts DEF MigrationInv, Claimed
    <3> QED
      BY <1>0, <3>1, <3>2 DEF Has, M!Into, M!Route
  <2>10. WholeHeld
    <3> SUFFICES ASSUME marker[w].status # "active"
                 PROVE  marker[w].digest \in documents[w] /\ Has(w)
      BY <2>2, <2>3 DEF WholeHeld, M!Status, Has
    <3>1. Has(w)
      BY <1>0 DEF MigrationInv, Claimed
    <3>2. marker[w].digest \in documents[w]
      BY <1>0, <1>2, MigrationFacts DEF MigrationInv, Marked
    <3> QED
      BY <3>1, <3>2
  <2>11. RouteHeld /\ OnceHeld /\ PauseHeld
    BY <1>0 DEF RouteHeld, OnceHeld, PauseHeld
  <2> QED
    BY <2>7, <2>8, <2>9, <2>10, <2>11 DEF MigrationInv, MigrationHeld
<1> QED
  BY <1>1, <1>2

\* The tables change without an import, and nothing a claimed workspace has is taken.
LEMMA TablesMove ==
  ASSUME MigrationInv,
         UNCHANGED <<source, files, documents, marker, writing, imports>>,
         owner' \in {M!None, "user", "another"}, members' \in [M!Target -> SUBSET {"user", "another"}],
         \A w \in M!Target : members[w] \subseteq members'[w],
         machine_route' \in M!Target \cup {M!None}, RouteHeld,
         \A w \in M!Target : Has(w) => M!Status(w) = "active" \/ UNCHANGED <<machine_route, domain_route>>
  PROVE  MigrationInv' /\ MigrationHeld
<1>1. MigrationTyped' /\ Marked'
  BY DEF MigrationInv, MigrationTyped, Marked, M!TypeOK
<1>2. Claimed'
  BY MigrationFacts DEF MigrationInv, Claimed, Has, M!Status, M!Into, M!Route
<1>3. WholeHeld /\ OnceHeld /\ PauseHeld
  BY DEF WholeHeld, OnceHeld, PauseHeld, M!Status
<1> QED
  BY <1>1, <1>2, <1>3 DEF MigrationInv, MigrationHeld

\* A request of a member writes a document of its own.
LEMMA Writes ==
  ASSUME MigrationInv, NEW w \in M!Target,
         UNCHANGED <<source, files, owner, members, machine_route, domain_route, marker, imports>>,
         documents' = [documents EXCEPT ![w] = @ \cup {M!Own}], writing' \subseteq writing,
         M!Status(w) = "staged" => w \in writing /\ w \notin writing'
  PROVE  MigrationInv' /\ MigrationHeld
<1>1. /\ documents' \in [M!Target -> SUBSET (Bundle \cup {M!Own})]
      /\ \A u \in M!Target : documents'[u] = IF u = w THEN documents[u] \cup {M!Own} ELSE documents[u]
  BY MigrationFacts
<1>2. MigrationTyped' /\ Marked'
  BY <1>1, MigrationFacts DEF MigrationInv, MigrationTyped, Marked, M!TypeOK
<1>3. Claimed'
  BY DEF MigrationInv, Claimed, Has, M!Into, M!Route
<1>4. RouteHeld /\ WholeHeld
  BY DEF RouteHeld, WholeHeld, M!Status
<1>5. OnceHeld
  BY <1>1, MigrationFacts DEF OnceHeld
<1>6. PauseHeld
  BY <1>1 DEF PauseHeld, M!Status
<1> QED
  BY <1>2, <1>3, <1>4, <1>5, <1>6 DEF MigrationInv, MigrationHeld

\* A step that touches neither what is moved nor an import.
LEMMA SourceMoves ==
  ASSUME MigrationInv, source' \subseteq M!Work, files' \subseteq Bundle, writing' \subseteq M!Target,
         UNCHANGED <<owner, members, machine_route, domain_route, documents, marker, imports>>
  PROVE  MigrationInv' /\ MigrationHeld
BY DEF MigrationInv, MigrationTyped, M!TypeOK, Marked, Claimed, Has, M!Into, M!Route, MigrationHeld,
   RouteHeld, WholeHeld, OnceHeld, PauseHeld, M!Status

LEMMA ImportsStep ==
  ASSUME MigrationInv, NEW i \in Import,
         M!ImportStep(i) \/ M!Stop(i) \/ \E b \in Bundle : M!Begin(i, b)
  PROVE  MigrationInv' /\ MigrationHeld
<1> USE DEF M!export, M!tables, M!object
<1>1. ASSUME NEW b \in Bundle, M!Begin(i, b) PROVE MigrationInv' /\ MigrationHeld
  <2>1. PICK v : v = [pc |-> "user", bundle |-> b]
    OBVIOUS
  <2>2. v \in Visit /\ v.pc = "user" /\ v.bundle \in Bundle
    BY <2>1 DEF Visit
  <2>3. imports' = [imports EXCEPT ![i] = v]
        /\ UNCHANGED <<source, files, owner, members, machine_route, domain_route, documents,
                     marker, writing>>
    BY <1>1, <2>1 DEF M!Begin
  <2> QED
    BY <2>2, <2>3, ImportMoves
<1>2. CASE M!CheckUser(i)
  BY <1>2, GoesOn DEF M!CheckUser, M!At
<1>3. CASE M!CheckMembers(i)
  BY <1>3, GoesOn DEF M!CheckMembers, M!At
<1>4. CASE M!ReadStatus(i)
  BY <1>4, GoesOn DEF M!ReadStatus, M!At, M!After
<1>5. CASE M!CheckMachines(i)
  BY <1>5, GoesOn DEF M!CheckMachines, M!At
<1>6. CASE M!CheckDomains(i)
  BY <1>6, GoesOn DEF M!CheckDomains, M!At
<1>7. CASE M!Stop(i)
  BY <1>7, GoesOn DEF M!Stop, M!At, M!None
<1> QED
  BY <1>1, <1>2, <1>3, <1>4, <1>5, <1>6, <1>7, Stages, Batches, Activates DEF M!ImportStep

LEMMA MigrationKept ==
  ASSUME MigrationInv, M!Next \/ UNCHANGED migrationVars
  PROVE  MigrationInv' /\ MigrationHeld
<1> USE DEF M!export, M!tables, M!object
<1>0. source \subseteq M!Work /\ files \subseteq Bundle /\ writing \subseteq M!Target
      /\ owner \in {M!None, "user", "another"}
  BY DEF MigrationInv, MigrationTyped, M!TypeOK
<1>1. CASE M!SourceWorks \/ (\E b \in Bundle : M!Export(b)) \/ UNCHANGED migrationVars
  BY <1>0, <1>1, SourceMoves DEF M!SourceWorks, M!Export, migrationVars, M!Work
<1>2. ASSUME NEW i \in Import, M!ImportStep(i) \/ M!Stop(i) \/ \E b \in Bundle : M!Begin(i, b)
      PROVE  MigrationInv' /\ MigrationHeld
  BY <1>2, ImportsStep
<1>3. ASSUME NEW w \in M!Target, M!Write(w) PROVE MigrationInv' /\ MigrationHeld
  <2>1. CASE UNCHANGED documents
    BY <1>0, <1>3, <2>1, SourceMoves DEF M!Write
  <2>2. CASE documents' = [documents EXCEPT ![w] = @ \cup {M!Own}] /\ UNCHANGED writing
    BY <1>3, <2>2, Writes DEF M!Write, M!Accessible
  <2> QED
    BY <1>3, <2>1, <2>2 DEF M!Write
<1>4. ASSUME NEW w \in M!Target, M!Written(w) PROVE MigrationInv' /\ MigrationHeld
  BY <1>4, Writes DEF M!Written
<1>5. ASSUME NEW w \in M!Target, M!Use(w) PROVE MigrationInv' /\ MigrationHeld
  <2>1. /\ UNCHANGED <<source, files, documents, marker, writing, imports, owner, members>>
        /\ M!Status(w) = "active"
        /\ \/ machine_route' = M!None /\ machine_route = w /\ UNCHANGED domain_route
           \/ domain_route' = M!NoRoute /\ domain_route.to = w /\ UNCHANGED machine_route
    BY <1>5 DEF M!Use
  <2>2. RouteHeld /\ machine_route' \in M!Target \cup {M!None}
    BY <2>1, MigrationFacts DEF RouteHeld
  <2>3. \A u \in M!Target : Has(u) => M!Status(u) = "active"
    BY <2>1, MigrationFacts DEF Has
  <2> QED
    BY <1>0, <2>1, <2>2, <2>3, TablesMove, MigrationFacts
<1>6. ASSUME NEW w \in M!Target, M!AddMember(w) PROVE MigrationInv' /\ MigrationHeld
  <2>1. /\ UNCHANGED <<source, files, documents, marker, writing, imports, owner, machine_route,
                       domain_route>>
        /\ members' = [members EXCEPT ![w] = @ \cup {"another"}]
    BY <1>6 DEF M!AddMember
  <2>2. /\ members' \in [M!Target -> SUBSET {"user", "another"}]
        /\ \A u \in M!Target : members[u] \subseteq members'[u]
    BY <2>1, MigrationFacts
  <2> QED
    BY <1>0, <2>1, <2>2, TablesMove, MigrationFacts DEF RouteHeld
<1>7. CASE M!SignUp
  BY <1>0, <1>7, TablesMove, MigrationFacts DEF M!SignUp, RouteHeld
<1>8. CASE M!TakeHostname
  <2>1. /\ UNCHANGED <<source, files, documents, marker, writing, imports, owner, members, machine_route>>
        /\ domain_route.to \in {M!None, "z"}
        /\ domain_route' = IF domain_route = M!NoRoute THEN [to |-> "z", id |-> "hosted"] ELSE M!NoRoute
    BY <1>8 DEF M!TakeHostname
  <2>2. \A u \in M!Target : ~Has(u)
    BY <2>1 DEF Has, M!Route, M!Target, M!None
  <2>3. RouteHeld
    BY <2>1 DEF RouteHeld
  <2> QED
    BY <1>0, <2>1, <2>2, <2>3, TablesMove, MigrationFacts
<1> QED
  BY <1>1, <1>2, <1>3, <1>4, <1>5, <1>6, <1>7, <1>8 DEF M!Next

LEMMA MigrationBegins ==
  ASSUME M!Init
  PROVE  MigrationInv
<1>1. M!NoMarker \in Marker /\ M!NoMarker.digest = M!None /\ M!NoMarker.status = M!None
  BY DEF M!NoMarker, M!None, Marker, Status
<1>2. M!NoImport \in Visit /\ M!NoImport.pc = "none"
  BY DEF M!NoImport, M!None, Visit
<1>3. members \in [M!Target -> SUBSET {"user", "another"}]
  BY DEF M!Init, M!Target
<1>4. M!TypeOK
  BY <1>1 DEF M!Init, M!TypeOK, M!Work
<1> QED
  BY <1>1, <1>2, <1>3, <1>4 DEF M!Init, MigrationInv, MigrationTyped, Marked, Claimed
-----------------------------------------------------------------------------
(***************************************************************************)
(* The export of a self-hosted installation.  The rows it reads are under  *)
(* the foreign keys and conditions of the handlers that wrote them.        *)
(***************************************************************************)

Healths == {"none", "pending", "healthy", "failed", "deleting", "delete_failed", "retained"}
Row     == [status : Healths, on : Server \cup {E!NoServer}]
Legacy  == [machines : SUBSET Server, nodes : SUBSET Server,
            hub : Server \cup {E!NoServer},
            runtime : Server \cup {E!NoServer, "direct"}, custom : BOOLEAN,
            service : {"none", "live", "deleting"}, promoting : BOOLEAN,
            deployment : {"none", "active", "failed", "healthy"}, current : BOOLEAN,
            volumes : [Volume -> Row], bound : SUBSET Volume,
            domain : {"none", "new", "provisioned", "deleting"}, token : BOOLEAN,
            github : BOOLEAN, command : {"none", "read", "write"}, push : BOOLEAN,
            over : SUBSET E!Limits]

\* A volume in use is on a machine; what runs, is routed or bound is of a service.
InUse(row) == row.status \notin {"none", "retained"}
Sound(rows) ==
  /\ rows.nodes \subseteq rows.machines
  /\ rows.hub # E!NoServer => rows.hub \in rows.nodes
  /\ \A v \in Volume : InUse(rows.volumes[v]) => rows.volumes[v].on \in rows.machines
  /\ \A v \in rows.bound : InUse(rows.volumes[v])
  /\ rows.service = "none" => /\ rows.deployment = "none" /\ rows.domain = "none"
                              /\ rows.bound = {} /\ ~rows.current
  /\ rows.current => rows.deployment # "none"
  /\ rows.domain # "none" => rows.token

ExportInv == legacy \in Legacy /\ Sound(legacy) /\ E!Importable

\* A step of the source forgets the bundle.
LEMMA BecomesKeeps ==
  ASSUME NEW new \in Legacy, Sound(new), E!Becomes(new)
  PROVE  ExportInv'
BY DEF E!Becomes, E!NoBundle, ExportInv, E!Importable

LEMMA MachinesKeep ==
  ASSUME ExportInv, NEW h \in Server, E!Machines(h)
  PROVE  ExportInv'
<1>1. legacy \in Legacy /\ Sound(legacy)
  BY DEF ExportInv
<1>2. CASE E!Becomes([legacy EXCEPT !.machines = @ \cup {h}])
  <2> DEFINE new == [legacy EXCEPT !.machines = @ \cup {h}]
  <2>1. new \in Legacy /\ Sound(new)
    BY <1>1 DEF Legacy, Sound
  <2> QED
    BY <1>2, <2>1, BecomesKeeps
<1>3. CASE /\ h \in legacy.machines
           /\ E!Becomes([legacy EXCEPT !.nodes = @ \cup {h}, !.hub = IF @ = E!NoServer THEN h ELSE @])
  <2> DEFINE new == [legacy EXCEPT !.nodes = @ \cup {h}, !.hub = IF @ = E!NoServer THEN h ELSE @]
  <2>1. new \in Legacy /\ Sound(new)
    BY <1>1, <1>3 DEF Legacy, Sound
  <2> QED
    BY <1>3, <2>1, BecomesKeeps
<1>4. CASE /\ h \in E!Removable
           /\ \A v \in Volume : legacy.volumes[v].on = h => legacy.volumes[v].status = "retained"
           /\ E!Becomes([legacy EXCEPT !.machines = @ \ {h}, !.nodes = @ \ {h}])
  <2> DEFINE new == [legacy EXCEPT !.machines = @ \ {h}, !.nodes = @ \ {h}]
  <2>1. PICK after : after = new
    OBVIOUS
  <2>2. /\ after \in Legacy /\ after.machines = legacy.machines \ {h} /\ after.nodes = legacy.nodes \ {h}
        /\ after.hub = legacy.hub /\ after.volumes = legacy.volumes /\ after.bound = legacy.bound
        /\ after.service = legacy.service /\ after.deployment = legacy.deployment
        /\ after.current = legacy.current /\ after.domain = legacy.domain /\ after.token = legacy.token
    BY <1>1, <2>1 DEF Legacy
  <2>3. \A v \in Volume : InUse(legacy.volumes[v]) => legacy.volumes[v].on \in legacy.machines \ {h}
    BY <1>1, <1>4 DEF Sound, InUse
  <2>4. Sound(after)
    BY <1>1, <1>4, <2>2, <2>3 DEF Sound, E!Removable
  <2> QED
    BY <1>4, <2>1, <2>2, <2>4, BecomesKeeps
<1> QED
  BY <1>2, <1>3, <1>4 DEF E!Machines

LEMMA RuntimeKeeps ==
  ASSUME ExportInv, E!Runtime
  PROVE  ExportInv'
<1>1. legacy \in Legacy /\ Sound(legacy)
  BY DEF ExportInv
<1>2. PICK new : E!Becomes(new) /\ new \in {[legacy EXCEPT !.runtime = x] : x \in {legacy.hub, "direct"}}
                   \cup {[legacy EXCEPT !.custom = ~@]}
                   \cup {[legacy EXCEPT !.command = c] : c \in {"none", "read", "write"}}
  BY DEF E!Runtime
<1>3. CASE new \in {[legacy EXCEPT !.runtime = x] : x \in {legacy.hub, "direct"}}
  <2>1. new \in Legacy /\ Sound(new)
    BY <1>1, <1>3 DEF Legacy, Sound
  <2> QED
    BY <1>2, <2>1, BecomesKeeps
<1>4. CASE new = [legacy EXCEPT !.custom = ~@]
  <2>1. new \in Legacy /\ Sound(new)
    BY <1>1, <1>4 DEF Legacy, Sound
  <2> QED
    BY <1>2, <2>1, BecomesKeeps
<1>5. CASE new \in {[legacy EXCEPT !.command = c] : c \in {"none", "read", "write"}}
  <2>1. new \in Legacy /\ Sound(new)
    BY <1>1, <1>5 DEF Legacy, Sound
  <2> QED
    BY <1>2, <2>1, BecomesKeeps
<1> QED
  BY <1>2, <1>3, <1>4, <1>5

LEMMA ServicesKeep ==
  ASSUME ExportInv, E!Services
  PROVE  ExportInv'
<1>1. legacy \in Legacy /\ Sound(legacy)
  BY DEF ExportInv
<1>2. CASE legacy.service = "none" /\ E!Becomes([legacy EXCEPT !.service = "live"])
  <2> DEFINE new == [legacy EXCEPT !.service = "live"]
  <2>1. new \in Legacy /\ Sound(new)
    BY <1>1, <1>2 DEF Legacy, Sound
  <2> QED
    BY <1>2, <2>1, BecomesKeeps
<1>3. CASE legacy.service = "live" /\ E!Becomes([legacy EXCEPT !.deployment = "active"])
  <2> DEFINE new == [legacy EXCEPT !.deployment = "active"]
  <2>1. new \in Legacy /\ Sound(new)
    BY <1>1, <1>3 DEF Legacy, Sound
  <2> QED
    BY <1>3, <2>1, BecomesKeeps
<1>4. ASSUME legacy.deployment = "active" PROVE legacy.service # "none"
  BY <1>1, <1>4 DEF Sound
<1>5. CASE legacy.deployment = "active" /\ E!Becomes([legacy EXCEPT !.promoting = TRUE])
  <2> DEFINE new == [legacy EXCEPT !.promoting = TRUE]
  <2>1. new \in Legacy /\ Sound(new)
    BY <1>1, <1>5 DEF Legacy, Sound
  <2> QED
    BY <1>5, <2>1, BecomesKeeps
<1>6. CASE /\ legacy.deployment = "active"
           /\ E!Becomes([legacy EXCEPT !.deployment = "failed", !.promoting = FALSE])
  <2> DEFINE new == [legacy EXCEPT !.deployment = "failed", !.promoting = FALSE]
  <2>1. new \in Legacy /\ Sound(new)
    BY <1>1, <1>4, <1>6 DEF Legacy, Sound
  <2> QED
    BY <1>6, <2>1, BecomesKeeps
<1>7. CASE /\ legacy.deployment = "active"
           /\ E!Becomes([legacy EXCEPT !.deployment = "healthy", !.promoting = FALSE, !.current = TRUE])
  <2> DEFINE new == [legacy EXCEPT !.deployment = "healthy", !.promoting = FALSE, !.current = TRUE]
  <2>1. new \in Legacy /\ Sound(new)
    BY <1>1, <1>4, <1>7 DEF Legacy, Sound
  <2> QED
    BY <1>7, <2>1, BecomesKeeps
<1>8. CASE /\ legacy.service = "live" /\ legacy.domain = "none"
           /\ E!Becomes([legacy EXCEPT !.service = "deleting"])
  <2> DEFINE new == [legacy EXCEPT !.service = "deleting"]
  <2>1. new \in Legacy /\ Sound(new)
    BY <1>1, <1>8 DEF Legacy, Sound
  <2> QED
    BY <1>8, <2>1, BecomesKeeps
<1>9. CASE E!Becomes([legacy EXCEPT !.push = ~@ /\ legacy.service = "live"])
  <2> DEFINE new == [legacy EXCEPT !.push = ~@ /\ legacy.service = "live"]
  <2>1. new \in Legacy /\ Sound(new)
    BY <1>1, <1>9 DEF Legacy, Sound
  <2> QED
    BY <1>9, <2>1, BecomesKeeps
<1> QED
  BY <1>2, <1>3, <1>5, <1>6, <1>7, <1>8, <1>9 DEF E!Services

LEMMA RoutesKeep ==
  ASSUME ExportInv, E!Routes
  PROVE  ExportInv'
<1>1. legacy \in Legacy /\ Sound(legacy)
  BY DEF ExportInv
<1>2. CASE E!Becomes([legacy EXCEPT !.token = TRUE])
  <2> DEFINE new == [legacy EXCEPT !.token = TRUE]
  <2>1. new \in Legacy /\ Sound(new)
    BY <1>1 DEF Legacy, Sound
  <2> QED
    BY <1>2, <2>1, BecomesKeeps
<1>3. ASSUME NEW d \in {"none", "new", "provisioned", "deleting"},
             d # "none" => legacy.token /\ legacy.service # "none",
             E!Becomes([legacy EXCEPT !.domain = d])
      PROVE  ExportInv'
  <2> DEFINE new == [legacy EXCEPT !.domain = d]
  <2>1. new \in Legacy /\ Sound(new)
    BY <1>1, <1>3 DEF Legacy, Sound
  <2> QED
    BY <1>3, <2>1, BecomesKeeps
<1>4. CASE E!Becomes([legacy EXCEPT !.github = ~@, !.over = @ \ {"installations"}])
  <2> DEFINE new == [legacy EXCEPT !.github = ~@, !.over = @ \ {"installations"}]
  <2>1. new \in Legacy /\ Sound(new)
    BY <1>1 DEF Legacy, Sound
  <2> QED
    BY <1>4, <2>1, BecomesKeeps
<1>5. legacy.domain # "none" => legacy.token /\ legacy.service # "none"
  BY <1>1 DEF Sound
<1> QED
  BY <1>2, <1>3, <1>4, <1>5 DEF E!Routes

LEMMA GrowsKeeps ==
  ASSUME ExportInv, E!Grows
  PROVE  ExportInv'
<1>1. legacy \in Legacy /\ Sound(legacy)
  BY DEF ExportInv
<1>2. PICK l \in E!Limits : E!Becomes([legacy EXCEPT !.over = @ \cup {l}])
  BY DEF E!Grows, E!Limits
<1> DEFINE new == [legacy EXCEPT !.over = @ \cup {l}]
<1>3. new \in Legacy /\ Sound(new)
  BY <1>1 DEF Legacy, Sound
<1> QED
  BY <1>2, <1>3, BecomesKeeps

LEMMA VolumeKeeps ==
  ASSUME ExportInv, NEW v \in Volume, NEW row \in Row, NEW bound,
         InUse(row) => row.on \in legacy.machines,
         bound \subseteq legacy.bound, v \in bound => InUse(row),
         E!Becomes([legacy EXCEPT !.volumes = [@ EXCEPT ![v] = row], !.bound = bound])
  PROVE  ExportInv'
<1> DEFINE new == [legacy EXCEPT !.volumes = [@ EXCEPT ![v] = row], !.bound = bound]
<1>1. legacy \in Legacy /\ Sound(legacy)
  BY DEF ExportInv
<1>2. /\ legacy.volumes \in [Volume -> Row]
      /\ new.volumes = [legacy.volumes EXCEPT ![v] = row] /\ new.bound = bound
      /\ new.machines = legacy.machines /\ new.nodes = legacy.nodes /\ new.hub = legacy.hub
      /\ new.service = legacy.service /\ new.deployment = legacy.deployment
      /\ new.domain = legacy.domain /\ new.current = legacy.current /\ new.token = legacy.token
  BY <1>1 DEF Legacy
<1>3. new \in Legacy
  BY <1>1 DEF Legacy
<1>4. Sound(new)
  <2> HIDE DEF new
  <2> QED
    BY <1>1, <1>2 DEF Sound
<1> QED
  BY <1>3, <1>4, BecomesKeeps

LEMMA DatabasesKeep ==
  ASSUME ExportInv, NEW v \in Volume, E!Databases(v)
  PROVE  ExportInv'
<1> DEFINE row == legacy.volumes[v]
<1>1. legacy \in Legacy /\ Sound(legacy) /\ row \in Row
  BY DEF ExportInv, Legacy
<1>2. ASSUME NEW s \in Healths, InUse(row), s # "none",
             E!Becomes([legacy EXCEPT !.volumes[v].status = s]), s # "retained"
      PROVE  ExportInv'
  <2> DEFINE new == [row EXCEPT !.status = s]
  <2>1. new \in Row /\ new.status = s /\ new.on = row.on
    BY <1>1 DEF Row
  <2>2. [legacy EXCEPT !.volumes[v].status = s]
          = [legacy EXCEPT !.volumes = [@ EXCEPT ![v] = new], !.bound = legacy.bound]
    BY <1>1 DEF Legacy
  <2>3. row.on \in legacy.machines
    BY <1>1, <1>2 DEF Sound
  <2> HIDE DEF new
  <2> QED
    BY <1>2, <2>1, <2>2, <2>3, VolumeKeeps DEF InUse
<1>3. CASE row.status = "none" /\ \E h \in legacy.machines :
             E!Becomes([legacy EXCEPT !.volumes[v] = [status |-> "pending", on |-> h]])
  <2>1. PICK h \in legacy.machines :
          E!Becomes([legacy EXCEPT !.volumes[v] = [status |-> "pending", on |-> h]])
    BY <1>3
  <2> DEFINE new == [status |-> "pending", on |-> h]
  <2>2. new \in Row /\ InUse(new) /\ new.on \in legacy.machines
    BY <1>1 DEF Row, Healths, InUse, Legacy
  <2>3. [legacy EXCEPT !.volumes[v] = new]
          = [legacy EXCEPT !.volumes = [@ EXCEPT ![v] = new], !.bound = legacy.bound]
    BY <1>1 DEF Legacy
  <2> HIDE DEF new
  <2> QED
    BY <2>1, <2>2, <2>3, VolumeKeeps DEF new
<1>4. CASE /\ row.status = "healthy" /\ legacy.service = "live"
           /\ E!Becomes([legacy EXCEPT !.bound = {v}])
  <2> DEFINE new == [legacy EXCEPT !.bound = {v}]
  <2>1. new \in Legacy /\ Sound(new)
    BY <1>1, <1>4 DEF Legacy, Sound, InUse
  <2> QED
    BY <1>4, <2>1, BecomesKeeps
<1>5. CASE /\ row.status = "deleting"
           /\ E!Becomes([legacy EXCEPT !.volumes[v].status = "retained", !.bound = @ \ {v}])
  <2> DEFINE new == [row EXCEPT !.status = "retained"]
  <2>1. new \in Row /\ new.status = "retained"
    BY <1>1 DEF Row, Healths
  <2>2. [legacy EXCEPT !.volumes[v].status = "retained", !.bound = @ \ {v}]
          = [legacy EXCEPT !.volumes = [@ EXCEPT ![v] = new], !.bound = legacy.bound \ {v}]
    BY <1>1 DEF Legacy
  <2> HIDE DEF new
  <2>3. /\ ~InUse(new) /\ legacy.bound \ {v} \subseteq legacy.bound
        /\ v \notin legacy.bound \ {v}
    BY <2>1 DEF InUse
  <2>4. E!Becomes([legacy EXCEPT !.volumes = [@ EXCEPT ![v] = new], !.bound = legacy.bound \ {v}])
    BY <1>5, <2>2
  <2> QED
    BY <2>1, <2>3, <2>4, VolumeKeeps
<1> QED
  BY <1>2, <1>3, <1>4, <1>5 DEF E!Databases, InUse, Healths

LEMMA ExportAccepted ==
  ASSUME ExportInv, E!Export
  PROVE  ExportInv'
<1>1. legacy \in Legacy /\ Sound(legacy) /\ E!Quiet /\ E!Transferable
      /\ bundle' = E!Documents /\ legacy' = legacy
  BY DEF ExportInv, E!Export
<1>2. PICK b : b = E!Documents
  OBVIOUS
<1>3. /\ b.machines = legacy.machines /\ b.nodes = legacy.nodes /\ b.hub = legacy.hub
      /\ b.runtime = legacy.runtime /\ b.service = legacy.service /\ b.current = legacy.current
      /\ b.deployment = legacy.deployment /\ b.domain = legacy.domain /\ b.bound = legacy.bound
      /\ b.grants = legacy.github /\ b.app = legacy.github
      /\ b.promoting = legacy.promoting /\ b.over = legacy.over
      /\ b.databases = [v \in E!DatabasesOf |-> [on |-> legacy.volumes[v].on,
                          phase |-> IF legacy.volumes[v].status = "failed" THEN "failed" ELSE "ready"]]
      /\ b.retained = [v \in E!RetainedOf |-> [on |-> legacy.volumes[v].on, owner |-> E!OwnerOf(v)]]
  BY <1>2 DEF E!Documents
<1>4. E!ValidFleet(b)
  BY <1>1, <1>3 DEF E!ValidFleet, E!Transferable, Sound
<1>5. E!ValidWorkloads(b)
  BY <1>1, <1>3 DEF E!ValidWorkloads, E!Quiet, Sound, Legacy, InUse, E!DatabasesOf
<1>6. E!ValidVolumes(b)
  BY <1>1, <1>3 DEF E!ValidVolumes, Sound, InUse, E!DatabasesOf, E!RetainedOf, E!OwnerOf
<1>7. E!ValidRoutes(b)
  BY <1>1, <1>3 DEF E!ValidRoutes, E!Quiet
<1>8. E!Acceptable(b)
  BY <1>4, <1>5, <1>6, <1>7 DEF E!Acceptable
<1>9. b.over = {} \/ b.over \cap {"document", "installations"} # {}
  BY <1>1, <1>3 DEF E!Transferable, Legacy, E!Limits
<1>10. bundle' = b
  BY <1>1, <1>2
<1> QED
  BY <1>1, <1>8, <1>9, <1>10 DEF ExportInv, E!Importable, E!Valid, E!Acceptable, E!ValidFleet,
     E!ValidWorkloads, E!ValidVolumes, E!ValidRoutes

LEMMA ExportKept ==
  ASSUME ExportInv, E!Next \/ UNCHANGED exportVars
  PROVE  ExportInv'
<1>1. CASE UNCHANGED exportVars
  BY <1>1 DEF exportVars, ExportInv, E!Importable, E!Valid, E!Acceptable, E!ValidFleet,
     E!ValidWorkloads, E!ValidVolumes, E!ValidRoutes
<1> QED
  BY <1>1, MachinesKeep, RuntimeKeeps, ServicesKeep, RoutesKeep, GrowsKeeps, DatabasesKeep, ExportAccepted
     DEF E!Next

LEMMA ExportBegins ==
  ASSUME E!Init
  PROVE  ExportInv
<1>1. legacy \in Legacy
  BY DEF E!Init, Legacy, Row, Healths
<1>2. Sound(legacy)
  BY DEF E!Init, Sound, InUse
<1> QED
  BY <1>1, <1>2 DEF E!Init, ExportInv, E!Importable, E!NoBundle

LEMMA ExportPromises ==
  ASSUME ExportInv
  PROVE  E!TypeOK /\ E!Importable
BY DEF ExportInv, Legacy, Sound, InUse, E!TypeOK
-----------------------------------------------------------------------------
(***************************************************************************)
(* Projects and the resources of the connected account.  What a dashboard  *)
(* has seen is what there is until the revision it has seen moves on.      *)
(***************************************************************************)

Doc     == [status : {"none", "active", "deleting", "gone"}, title : Title \cup {O!NoTitle},
            source : 0..1]
Assign  == [project : Project \cup {O!NoProject}, ignored : BOOLEAN, known : BOOLEAN]
Rows    == [Account -> [Resource -> Assign]]
Choices == Project \cup Title \cup {"leave", "ignore", "show", "none"}
Board   == [pc : {"idle", "body", "viewed", "reading", "read"}, rev : Nat,
            rows : Rows \cup {<<>>}, conn : Nat, account : Account \cup {O!NoAccount},
            resource : Resource \cup {O!NoTitle}, choice : Choices,
            project : Project \cup {O!NoProject}, saw : Account \cup {"none", "active", "deleting"}]
Link    == [rev : Int, account : Account \cup {O!NoAccount}]

Exists(p) == projects[p].status \in {"active", "deleting"}
Existing  == {p \in Project : Exists(p)}

BoardsTyped ==
  /\ assigned \in Rows /\ orgrev \in Nat /\ connection \in [rev : Nat, account : Account \cup {O!NoAccount}]
  /\ flight \in Link /\ attempt \in Link /\ boards \in [Dashboard -> Board]
ProjectsTyped ==
  /\ projects \in [Project -> Doc] /\ services \in [Project -> {"none", "live", "deleting"}]
  /\ IsFiniteSet(Existing) /\ Cardinality(Existing) <= MaxProjects

\* What a dashboard decides on, and the account it waits for.
Organizes(b) == \/ boards[b].pc = "viewed"
                \/ boards[b].pc \in {"reading", "read"} /\ boards[b].choice # "show"
Seen(b) == Organizes(b) =>
  /\ boards[b].rev <= orgrev
  /\ boards[b].rev = orgrev => boards[b].rows = assigned
Waits(b) == boards[b].pc = "reading" =>
  /\ boards[b].conn <= connection.rev
  /\ boards[b].conn = connection.rev => boards[b].saw = connection.account

ProjectsInv == ProjectsTyped /\ O!RowsHaveProject /\ O!ServicesHaveProject
BoardsInv   == BoardsTyped /\ \A b \in Dashboard : Seen(b) /\ Waits(b)
OrganizationInv == ProjectsInv /\ BoardsInv

\* What a step does to a dashboard, its revision and its connection.
RevMoves  == orgrev' = orgrev + 1 \/ UNCHANGED <<orgrev, assigned>>
LinkMoves == connection'.rev = connection.rev + 1 \/ UNCHANGED connection
BoardMoves(b) ==
  \/ boards'[b] = boards[b]
  \/ /\ boards'[b].pc \in {"idle", "body"}
     /\ orgrev' # orgrev => Organizes(b) /\ boards[b].rev = orgrev
  \/ /\ UNCHANGED <<orgrev, assigned>>
     /\ boards'[b].pc = "viewed" /\ boards'[b].rev = orgrev /\ boards'[b].rows = assigned
  \/ /\ UNCHANGED <<orgrev, assigned, connection>> /\ boards[b].pc \in {"idle", "viewed"}
     /\ boards'[b].pc \in {"reading", "read"}
     /\ boards'[b].conn = connection.rev /\ boards'[b].saw = connection.account
     /\ \/ boards'[b].choice = "show"
        \/ Organizes(b) /\ boards'[b].rev = boards[b].rev /\ boards'[b].rows = boards[b].rows
  \/ /\ UNCHANGED <<orgrev, assigned, connection>>
     /\ boards[b].pc = "reading" /\ boards'[b].pc = "read" /\ boards[b].conn = connection.rev
     /\ boards'[b].choice = boards[b].choice /\ boards'[b].rev = boards[b].rev
     /\ boards'[b].rows = boards[b].rows

ViewHeld ==
  \A b \in Dashboard : boards[b].pc = "read" /\ orgrev' # orgrev /\ boards'[b] # boards[b]
       => boards[b].rows = assigned
ShownHeld ==
  \A b \in Dashboard : boards[b].pc = "reading" /\ boards'[b].pc = "read"
       => boards[b].saw = connection.account

LEMMA BoardsKept ==
  ASSUME BoardsInv, BoardsTyped', RevMoves, LinkMoves, \A b \in Dashboard : BoardMoves(b)
  PROVE  BoardsInv' /\ ViewHeld /\ ShownHeld
<1>1. ASSUME NEW b \in Dashboard
      PROVE  /\ Seen(b)' /\ Waits(b)'
             /\ boards[b].pc = "read" /\ orgrev' # orgrev /\ boards'[b] # boards[b] =>
                  boards[b].rows = assigned
             /\ boards[b].pc = "reading" /\ boards'[b].pc = "read" => boards[b].saw = connection.account
  <2>1. /\ Seen(b) /\ Waits(b) /\ BoardMoves(b) /\ orgrev \in Nat /\ connection.rev \in Nat
        /\ boards[b].rev \in Nat /\ boards[b].conn \in Nat
    BY DEF BoardsInv, BoardsTyped, Board
  <2>2. CASE boards'[b] = boards[b]
    BY <2>1, <2>2 DEF RevMoves, LinkMoves, Seen, Waits, Organizes
  <2>3. CASE /\ boards'[b].pc \in {"idle", "body"}
             /\ orgrev' # orgrev => Organizes(b) /\ boards[b].rev = orgrev
    BY <2>1, <2>3 DEF Seen, Waits, Organizes
  <2>4. CASE /\ UNCHANGED <<orgrev, assigned>>
             /\ boards'[b].pc = "viewed" /\ boards'[b].rev = orgrev /\ boards'[b].rows = assigned
    BY <2>1, <2>4 DEF Seen, Waits, Organizes
  <2>5. CASE /\ UNCHANGED <<orgrev, assigned, connection>> /\ boards[b].pc \in {"idle", "viewed"}
             /\ boards'[b].pc \in {"reading", "read"}
             /\ boards'[b].conn = connection.rev /\ boards'[b].saw = connection.account
             /\ \/ boards'[b].choice = "show"
                \/ Organizes(b) /\ boards'[b].rev = boards[b].rev /\ boards'[b].rows = boards[b].rows
    BY <2>1, <2>5 DEF Seen, Waits, Organizes
  <2>6. CASE /\ UNCHANGED <<orgrev, assigned, connection>>
             /\ boards[b].pc = "reading" /\ boards'[b].pc = "read" /\ boards[b].conn = connection.rev
             /\ boards'[b].choice = boards[b].choice /\ boards'[b].rev = boards[b].rev
             /\ boards'[b].rows = boards[b].rows
    BY <2>1, <2>6 DEF Seen, Waits, Organizes
  <2> QED
    BY <2>1, <2>2, <2>3, <2>4, <2>5, <2>6 DEF BoardMoves
<1> QED
  BY <1>1 DEF BoardsInv, ViewHeld, ShownHeld

LEMMA BoardFacts ==
  ASSUME OrganizationInv
  PROVE  /\ BoardsTyped /\ \A b \in Dashboard : boards[b] \in Board
         /\ connection.rev \in Nat /\ connection.account \in Account \cup {O!NoAccount}
         /\ connection \in Link /\ O!NoOverview \in Link /\ orgrev \in Nat /\ assigned \in Rows
BY DEF OrganizationInv, BoardsInv, BoardsTyped, Link, O!NoOverview

LEMMA BlankBoard == O!Blank \in Board /\ O!Blank.pc = "idle"
BY DEF O!Blank, Board, O!NoAccount, O!NoTitle, O!NoProject, Choices

\* A step that moves one dashboard and nothing else the dashboards look at.
LEMMA OneBoard ==
  ASSUME OrganizationInv, NEW b \in Dashboard, NEW n \in Board, boards' = [boards EXCEPT ![b] = n],
         UNCHANGED <<orgrev, assigned, connection, attempt>>, flight' \in Link, BoardMoves(b)
  PROVE  BoardsInv' /\ ViewHeld /\ ShownHeld
<1>1. boards' \in [Dashboard -> Board] /\ \A k \in Dashboard : boards'[k] = IF k = b THEN n ELSE boards[k]
  BY BoardFacts DEF BoardsTyped
<1>2. BoardsTyped'
  BY <1>1, BoardFacts DEF BoardsTyped
<1>3. \A k \in Dashboard : BoardMoves(k)
  BY <1>1 DEF BoardMoves
<1> QED
  BY <1>2, <1>3, BoardsKept DEF RevMoves, LinkMoves, OrganizationInv

\* A dashboard's request ends.
LEMMA BoardEnds ==
  ASSUME OrganizationInv, NEW b \in Dashboard, boards' = [boards EXCEPT ![b] = O!Blank],
         UNCHANGED <<orgrev, assigned, connection, attempt, flight>>
  PROVE  BoardsInv' /\ ViewHeld /\ ShownHeld
<1>1. boards'[b] = O!Blank
  BY BoardFacts DEF BoardsTyped
<1>2. BoardMoves(b)
  BY <1>1, BlankBoard DEF BoardMoves
<1> QED
  BY <1>2, BlankBoard, OneBoard, BoardFacts DEF BoardsTyped

\* A step that leaves the dashboards alone.
LEMMA BoardsStay ==
  ASSUME OrganizationInv, UNCHANGED boards, RevMoves, LinkMoves, orgrev' \in Nat, assigned' \in Rows,
         connection' \in [rev : Nat, account : Account \cup {O!NoAccount}],
         flight' \in Link, attempt' \in Link
  PROVE  BoardsInv' /\ ViewHeld /\ ShownHeld
<1>1. BoardsTyped' /\ \A b \in Dashboard : BoardMoves(b)
  BY BoardFacts DEF BoardsTyped, BoardMoves
<1> QED
  BY <1>1, BoardsKept DEF OrganizationInv

\* A step that leaves projects, services and assignments alone.
LEMMA ProjectsStay ==
  ASSUME ProjectsInv, UNCHANGED <<projects, services, assigned>>
  PROVE  ProjectsInv'
BY DEF ProjectsInv, ProjectsTyped, Existing, Exists, O!RowsHaveProject, O!ServicesHaveProject

\* A project that is created, and one that changes.
LEMMA ExistingGrows ==
  ASSUME ProjectsTyped, NEW p \in Project, NEW d \in Doc, projects' = [projects EXCEPT ![p] = d],
         ~Exists(p) => Cardinality(Existing) < MaxProjects
  PROVE  /\ projects' \in [Project -> Doc] /\ IsFiniteSet(Existing') /\ Cardinality(Existing') <= MaxProjects
         /\ \A q \in Project : projects'[q] = IF q = p THEN d ELSE projects[q]
<1>1. /\ projects' \in [Project -> Doc]
      /\ \A q \in Project : projects'[q] = IF q = p THEN d ELSE projects[q]
  BY DEF ProjectsTyped
<1>2. IsFiniteSet(Existing) /\ Cardinality(Existing) <= MaxProjects /\ Cardinality(Existing) \in Nat
      /\ MaxProjects \in Nat
  BY RecordsAssumption, FS_CardinalityType DEF ProjectsTyped
<1>3. Existing' \subseteq Existing \cup {p}
  BY <1>1 DEF Existing, Exists
<1>4. IsFiniteSet(Existing \cup {p})
      /\ Cardinality(Existing \cup {p}) = IF p \in Existing THEN Cardinality(Existing)
                                           ELSE Cardinality(Existing) + 1
  BY <1>2, FS_AddElement
<1>5. Cardinality(Existing \cup {p}) <= MaxProjects
  BY <1>2, <1>4 DEF Existing
<1>6. IsFiniteSet(Existing') /\ Cardinality(Existing') <= Cardinality(Existing \cup {p})
  BY <1>3, <1>4, FS_Subset
<1>7. Cardinality(Existing') \in Nat /\ Cardinality(Existing \cup {p}) \in Nat
  BY <1>4, <1>6, FS_CardinalityType
<1> QED
  BY <1>1, <1>2, <1>5, <1>6, <1>7

LEMMA CountExists == O!Count = Cardinality(Existing)
<1>1. \A S : O!Cardinality(S) = Cardinality(S)
  BY Zenon DEF O!Cardinality, Cardinality
<1> QED
  BY <1>1 DEF O!Count, Existing, Exists

LEMMA ProjectFacts ==
  ASSUME ProjectsInv, NEW p \in Project
  PROVE  /\ projects[p] \in Doc /\ services[p] \in {"none", "live", "deleting"}
         /\ services[p] # "none" => Exists(p)
         /\ \A a \in Account, r \in Resource : assigned[a][r].project = p => Exists(p) \/ p = O!NoProject
BY DEF ProjectsInv, ProjectsTyped, O!ServicesHaveProject, O!RowsHaveProject, Exists

\* A project goes from nothing to active, keeps its status or is being removed.
LEMMA ProjectLives ==
  ASSUME ProjectsInv, NEW p \in Project, NEW d \in Doc, projects' = [projects EXCEPT ![p] = d],
         d.status \in {"active", "deleting"}, ~Exists(p) => O!Count < MaxProjects,
         UNCHANGED assigned, services' \in [Project -> {"none", "live", "deleting"}],
         \A q \in Project : services'[q] # "none" => services[q] # "none"
  PROVE  ProjectsInv' /\ \A q \in Project : Exists(q) => Exists(q)'
<1>1. /\ projects' \in [Project -> Doc] /\ IsFiniteSet(Existing') /\ Cardinality(Existing') <= MaxProjects
      /\ \A q \in Project : projects'[q] = IF q = p THEN d ELSE projects[q]
  BY ExistingGrows, CountExists DEF ProjectsInv
<1>2. \A q \in Project : Exists(q) => Exists(q)'
  BY <1>1 DEF Exists
<1>3. ProjectsTyped'
  BY <1>1 DEF ProjectsInv, ProjectsTyped
<1>4. O!ServicesHaveProject'
  BY <1>2 DEF ProjectsInv, O!ServicesHaveProject, Exists
<1> QED
  BY <1>1, <1>2, <1>3, <1>4 DEF ProjectsInv, O!RowsHaveProject, Exists, O!NoProject

\* Steps of projects and services that the dashboards do not see.
LEMMA QuietBoards ==
  ASSUME OrganizationInv, UNCHANGED <<assigned, orgrev, O!cloudflare, boards>>
  PROVE  BoardsInv' /\ ViewHeld /\ ShownHeld
BY BoardFacts, BoardsStay DEF O!cloudflare, RevMoves, LinkMoves, BoardsTyped

OrganizationHeld == ViewHeld /\ ShownHeld

LEMMA ProjectSteps ==
  ASSUME OrganizationInv, NEW p \in Project,
         \/ \E t \in Title : O!CreateProject(p, t)
         \/ O!UpdateProject(p, 1) \/ O!RemoveProject(p) \/ O!ServiceRemoved(p)
  PROVE  OrganizationInv' /\ OrganizationHeld
<1>1. BoardsInv' /\ ViewHeld /\ ShownHeld
  BY QuietBoards DEF O!CreateProject, O!UpdateProject, O!RemoveProject, O!ServiceRemoved
<1>2. ProjectsInv /\ projects[p] \in Doc /\ services \in [Project -> {"none", "live", "deleting"}]
  BY ProjectFacts DEF OrganizationInv, ProjectsInv, ProjectsTyped
<1>3. ASSUME NEW t \in Title, O!CreateProject(p, t) PROVE ProjectsInv'
  <2>1. PICK d : d = O!New(t)
    OBVIOUS
  <2>2. d \in Doc /\ d.status = "active"
    BY <2>1 DEF O!New, Doc
  <2>3. projects' = [projects EXCEPT ![p] = d] /\ O!Count < MaxProjects /\ UNCHANGED <<services, assigned>>
    BY <1>3, <2>1 DEF O!CreateProject
  <2> QED
    BY <1>2, <2>2, <2>3, ProjectLives
<1>4. ASSUME O!UpdateProject(p, 1) PROVE ProjectsInv'
  <2>1. PICK d : d = [projects[p] EXCEPT !.source = 1]
    OBVIOUS
  <2>2. d \in Doc /\ d.status = projects[p].status /\ Exists(p) /\ d.status = "active"
    BY <1>2, <1>4, <2>1 DEF Doc, O!UpdateProject, Exists
  <2>3. projects' = [projects EXCEPT ![p] = d] /\ UNCHANGED <<services, assigned>>
    BY <1>4, <2>1 DEF O!UpdateProject
  <2> QED
    BY <1>2, <2>2, <2>3, ProjectLives
<1>5. ASSUME O!RemoveProject(p) PROVE ProjectsInv'
  <2>1. PICK d : d = [projects[p] EXCEPT !.status = "deleting"]
    OBVIOUS
  <2>2. d \in Doc /\ d.status = "deleting" /\ Exists(p)
    BY <1>2, <1>5, <2>1 DEF Doc, O!RemoveProject, Exists
  <2>3. /\ projects' = [projects EXCEPT ![p] = d] /\ UNCHANGED assigned
        /\ services' = [services EXCEPT ![p] = IF @ = "none" THEN @ ELSE "deleting"]
    BY <1>5, <2>1 DEF O!RemoveProject
  <2>4. /\ services' \in [Project -> {"none", "live", "deleting"}]
        /\ \A q \in Project : services'[q] # "none" => services[q] # "none"
    BY <1>2, <2>3
  <2> QED
    BY <1>2, <2>2, <2>3, <2>4, ProjectLives
<1>6. ASSUME O!ServiceRemoved(p) PROVE ProjectsInv'
  <2>1. UNCHANGED <<projects, assigned>> /\ services' = [services EXCEPT ![p] = "none"]
    BY <1>6 DEF O!ServiceRemoved
  <2>2. services' \in [Project -> {"none", "live", "deleting"}]
    BY <1>2, <2>1
  <2>3. \A q \in Project : services'[q] # "none" => services[q] # "none"
    BY <1>2, <2>1
  <2> QED
    BY <2>1, <2>2, <2>3, <1>2 DEF ProjectsInv, ProjectsTyped, Existing, Exists, O!RowsHaveProject,
       O!ServicesHaveProject
<1> QED
  BY <1>1, <1>3, <1>4, <1>5, <1>6 DEF OrganizationInv, OrganizationHeld

\* The release of what a project was assigned.
LEMMA ReleaseFacts ==
  ASSUME assigned \in Rows, NEW p \in Project
  PROVE  /\ O!Released(p) \in Rows
         /\ \A a \in Account, r \in Resource :
              /\ O!Released(p)[a][r].project \in {assigned[a][r].project, O!NoProject} \ ({p} \ {O!NoProject})
              /\ O!Released(p)[a][r].ignored = assigned[a][r].ignored
         /\ (\A a \in Account, r \in Resource : assigned[a][r].project # p) => O!Released(p) = assigned
<1>1. \A a \in Account, r \in Resource : assigned[a][r] \in Assign
  BY DEF Rows
<1>2. \A a \in Account, r \in Resource :
        O!Released(p)[a][r] = IF assigned[a][r].project = p
                              THEN [assigned[a][r] EXCEPT !.project = O!NoProject] ELSE assigned[a][r]
  BY DEF O!Released
<1>3. ASSUME NEW a \in Account, NEW r \in Resource
      PROVE  /\ O!Released(p)[a][r] \in Assign
             /\ O!Released(p)[a][r].project \in {assigned[a][r].project, O!NoProject} \ ({p} \ {O!NoProject})
             /\ O!Released(p)[a][r].ignored = assigned[a][r].ignored
  <2>1. PICK x : x = assigned[a][r]
    OBVIOUS
  <2>2. x \in Assign /\ O!Released(p)[a][r] = IF x.project = p THEN [x EXCEPT !.project = O!NoProject] ELSE x
    BY <1>1, <1>2, <2>1
  <2> QED
    BY <2>1, <2>2 DEF Assign
<1>4. O!Released(p) \in Rows
  BY <1>3 DEF Rows, O!Released
<1>5. ASSUME \A a \in Account, r \in Resource : assigned[a][r].project # p
      PROVE  O!Released(p) = assigned
  <2>1. \A a \in Account, r \in Resource : O!Released(p)[a][r] = assigned[a][r]
    BY <1>2, <1>5
  <2>2. ASSUME NEW a \in Account PROVE O!Released(p)[a] = assigned[a]
    <3>1. O!Released(p)[a] \in [Resource -> Assign] /\ assigned[a] \in [Resource -> Assign]
      BY <1>4 DEF Rows
    <3> QED
      BY <2>1, <3>1
  <2>3. DOMAIN O!Released(p) = Account /\ DOMAIN assigned = Account
    BY <1>4 DEF Rows
  <2>4. O!Released(p) = [a \in Account |-> O!Released(p)[a]] /\ assigned = [a \in Account |-> assigned[a]]
    BY <1>4 DEF Rows
  <2> QED
    BY <2>2, <2>4
<1> QED
  BY <1>3, <1>4, <1>5

LEMMA ForgetKept ==
  ASSUME OrganizationInv, NEW p \in Project, O!ForgetProject(p)
  PROVE  OrganizationInv' /\ OrganizationHeld
<1>1. /\ projects' = [projects EXCEPT ![p].status = "gone"] /\ assigned' = O!Released(p)
      /\ orgrev' = IF \E a \in Account, r \in Resource : assigned[a][r].project = p
                   THEN orgrev + 1 ELSE orgrev
      /\ UNCHANGED <<services, connection, cache, flight, attempt, boards>>
      /\ services[p] = "none" /\ Exists(p)
  BY DEF O!ForgetProject, O!cloudflare, Exists
<1>2. ProjectsInv /\ projects[p] \in Doc /\ assigned \in Rows
  BY ProjectFacts, BoardFacts DEF OrganizationInv
<1>3. assigned' \in Rows /\ RevMoves /\ orgrev' \in Nat
  BY <1>1, <1>2, ReleaseFacts, BoardFacts DEF RevMoves
<1>4. BoardsInv' /\ ViewHeld /\ ShownHeld
  BY <1>1, <1>3, BoardFacts, BoardsStay DEF LinkMoves, BoardsTyped
<1>5. PICK d : d = [projects[p] EXCEPT !.status = "gone"]
  OBVIOUS
<1>6. d \in Doc /\ d.status = "gone"
  BY <1>2, <1>5 DEF Doc
<1>7. projects' = [projects EXCEPT ![p] = d]
  BY <1>1, <1>5
<1>8. /\ projects' \in [Project -> Doc] /\ IsFiniteSet(Existing') /\ Cardinality(Existing') <= MaxProjects
      /\ \A q \in Project : projects'[q] = IF q = p THEN d ELSE projects[q]
  BY <1>1, <1>2, <1>6, <1>7, ExistingGrows DEF ProjectsInv
<1>9. ProjectsTyped'
  BY <1>1, <1>2, <1>8 DEF ProjectsInv, ProjectsTyped
<1>10. O!ServicesHaveProject'
  BY <1>1, <1>2, <1>8 DEF ProjectsInv, O!ServicesHaveProject
<1>11. O!RowsHaveProject'
  <2> SUFFICES ASSUME NEW a \in Account, NEW r \in Resource, assigned'[a][r].project # O!NoProject
               PROVE  projects'[assigned'[a][r].project].status \in {"active", "deleting"}
                      /\ ~assigned'[a][r].ignored
    BY DEF O!RowsHaveProject
  <2>1. /\ assigned'[a][r].project = assigned[a][r].project /\ assigned[a][r].project # p
        /\ assigned'[a][r].ignored = assigned[a][r].ignored
    BY <1>1, <1>2, ReleaseFacts
  <2>2. /\ projects[assigned[a][r].project].status \in {"active", "deleting"} /\ ~assigned[a][r].ignored
        /\ assigned[a][r] \in Assign
    BY <1>2, <2>1 DEF ProjectsInv, O!RowsHaveProject, Rows
  <2>3. assigned[a][r].project \in Project
    BY <2>1, <2>2 DEF Assign
  <2> QED
    BY <1>8, <2>1, <2>2, <2>3
<1> QED
  BY <1>4, <1>9, <1>10, <1>11 DEF OrganizationInv, ProjectsInv, OrganizationHeld

\* A choice is saved.
LEMMA Saves ==
  ASSUME OrganizationInv, NEW b \in Dashboard, NEW p \in Project \cup {O!NoProject}, O!Save(b, p),
         boards[b].pc = "read", O!Accepted(b), boards[b].choice # "show",
         p # O!NoProject => boards[b].choice # "ignore" /\ Exists(p)',
         ProjectsTyped', services' = services, \A q \in Project : Exists(q) => Exists(q)',
         UNCHANGED O!cloudflare
  PROVE  OrganizationInv' /\ OrganizationHeld
<1>1. PICK o, x : o = boards[b] /\ x = [project |-> p, ignored |-> o.choice = "ignore", known |-> TRUE]
  OBVIOUS
<1>2. /\ assigned' = [assigned EXCEPT ![o.account][o.resource] = x]
      /\ orgrev' = orgrev + 1 /\ boards' = [boards EXCEPT ![b] = O!Blank]
      /\ UNCHANGED <<connection, cache, flight, attempt>>
  BY <1>1 DEF O!Save, O!cloudflare
<1>3. x \in Assign /\ x.project = p /\ (x.ignored <=> o.choice = "ignore")
  BY <1>1 DEF Assign
<1>4. assigned \in Rows /\ orgrev \in Nat
  BY BoardFacts
<1>5. \A a \in Account, r \in Resource :
        assigned'[a][r] = IF a = o.account /\ r = o.resource THEN x ELSE assigned[a][r]
  BY <1>2, <1>4 DEF Rows
<1>6. assigned' \in Rows
  BY <1>2, <1>3, <1>4 DEF Rows
<1>7. boards' \in [Dashboard -> Board] /\ \A k \in Dashboard : boards'[k] = IF k = b THEN O!Blank ELSE boards[k]
  BY <1>2, BoardFacts, BlankBoard DEF BoardsTyped
<1>8. BoardsTyped'
  BY <1>2, <1>4, <1>6, <1>7, BoardFacts DEF BoardsTyped
<1>9. \A k \in Dashboard : BoardMoves(k)
  BY <1>7, BlankBoard DEF BoardMoves, Organizes, O!Accepted, O!Current
<1>10. BoardsInv' /\ ViewHeld /\ ShownHeld
  BY <1>2, <1>8, <1>9, BoardsKept DEF RevMoves, LinkMoves, OrganizationInv
<1>11. O!RowsHaveProject'
  <2> SUFFICES ASSUME NEW a \in Account, NEW r \in Resource, assigned'[a][r].project # O!NoProject
               PROVE  projects'[assigned'[a][r].project].status \in {"active", "deleting"}
                      /\ ~assigned'[a][r].ignored
    BY DEF O!RowsHaveProject
  <2>1. CASE assigned'[a][r] = x
    BY <1>1, <1>3, <2>1 DEF Exists
  <2>2. CASE assigned'[a][r] = assigned[a][r]
    <3>1. assigned[a][r] \in Assign
      BY <1>4 DEF Rows
    <3>2. assigned[a][r].project \in Project
      BY <2>2, <3>1 DEF Assign
    <3>3. Exists(assigned[a][r].project) /\ ~assigned[a][r].ignored
      BY <2>2 DEF OrganizationInv, ProjectsInv, O!RowsHaveProject, Exists
    <3> QED
      BY <2>2, <3>2, <3>3 DEF Exists
  <2> QED
    BY <1>5, <2>1, <2>2
<1>12. O!ServicesHaveProject'
  BY DEF OrganizationInv, ProjectsInv, O!ServicesHaveProject, Exists
<1> QED
  BY <1>10, <1>11, <1>12 DEF OrganizationInv, ProjectsInv, OrganizationHeld

LEMMA DecisionsKept ==
  ASSUME OrganizationInv, NEW b \in Dashboard,
         O!Leave(b) \/ O!Assign(b) \/ \E p \in Project : O!AssignByName(b, p)
  PROVE  OrganizationInv' /\ OrganizationHeld
<1>1. ProjectsInv /\ ProjectsTyped /\ {"show", "ignore"} \cap (Project \cup Title) = {}
  BY RecordsAssumption DEF OrganizationInv, ProjectsInv
<1>2. ASSUME UNCHANGED <<projects, services>>
      PROVE  ProjectsTyped' /\ \A q \in Project : Exists(q) => Exists(q)'
  BY <1>1, <1>2 DEF ProjectsTyped, Existing, Exists
<1>3. CASE O!Leave(b)
  BY <1>2, <1>3, Saves DEF O!Leave
<1>4. CASE O!Assign(b)
  <2>1. PICK p \in Project : /\ p = boards[b].choice /\ projects[p].status = "active"
                             /\ boards[b].pc = "read" /\ O!Accepted(b) /\ O!Save(b, p)
                             /\ UNCHANGED <<projects, services, O!cloudflare>>
    BY <1>4 DEF O!Assign
  <2>2. ProjectsTyped' /\ (\A q \in Project : Exists(q) => Exists(q)') /\ Exists(p)'
    BY <1>2, <2>1 DEF Exists
  <2>3. boards[b].choice # "ignore" /\ boards[b].choice # "show"
    BY <1>1, <2>1
  <2> QED
    BY <2>1, <2>2, <2>3, Saves
<1>5. ASSUME NEW p \in Project, O!AssignByName(b, p) PROVE OrganizationInv' /\ OrganizationHeld
  <2> DEFINE t == boards[b].choice
  <2>1. /\ t \in Title /\ boards[b].pc = "read" /\ O!Accepted(b) /\ O!Save(b, p)
        /\ IF O!Named(t) = {} THEN projects[p].status = "none" /\ O!Count < MaxProjects
                              ELSE O!Named(t) = {p} /\ projects[p].status = "active"
        /\ projects' = [projects EXCEPT ![p] = IF @.status = "none" THEN O!New(t) ELSE @]
        /\ UNCHANGED <<services, O!cloudflare>>
    BY <1>5 DEF O!AssignByName
  <2>2. PICK d : d = IF projects[p].status = "none" THEN O!New(t) ELSE projects[p]
    OBVIOUS
  <2>3. projects[p] \in Doc
    BY <1>1, ProjectFacts
  <2>4. O!New(t) \in Doc /\ O!New(t).status = "active"
    BY <2>1 DEF O!New, Doc
  <2>5. d \in Doc /\ d.status = "active"
    BY <2>1, <2>2, <2>3, <2>4
  <2>6. projects' = [projects EXCEPT ![p] = d]
    BY <2>1, <2>2
  <2>7. ~Exists(p) => Cardinality(Existing) < MaxProjects
    BY <2>1, CountExists DEF Exists
  <2>8. /\ projects' \in [Project -> Doc] /\ IsFiniteSet(Existing') /\ Cardinality(Existing') <= MaxProjects
        /\ \A q \in Project : projects'[q] = IF q = p THEN d ELSE projects[q]
    BY <1>1, <2>5, <2>6, <2>7, ExistingGrows
  <2>9. ProjectsTyped' /\ (\A q \in Project : Exists(q) => Exists(q)') /\ Exists(p)'
    BY <1>1, <2>1, <2>5, <2>8 DEF ProjectsTyped, Exists
  <2>10. t # "ignore" /\ t # "show"
    BY <1>1, <2>1
  <2> QED
    BY <2>1, <2>9, <2>10, Saves
<1> QED
  BY <1>3, <1>4, <1>5

\* The connection and the overview.
LEMMA ConnectionKept ==
  ASSUME OrganizationInv,
         \/ \E a \in Account : O!Connect(a)
         \/ \E ok \in BOOLEAN : O!Connected(ok)
         \/ O!Disconnect \/ O!CacheExpires
  PROVE  OrganizationInv' /\ OrganizationHeld
<1>1. UNCHANGED <<projects, services, assigned, orgrev, boards, flight>>
  BY DEF O!Connect, O!Connected, O!Disconnect, O!CacheExpires
<1>2. ProjectsInv'
  BY <1>1, ProjectsStay DEF OrganizationInv
<1>3. /\ LinkMoves /\ connection' \in [rev : Nat, account : Account \cup {O!NoAccount}]
      /\ attempt' \in Link
  <2>1. /\ connection.rev \in Nat /\ connection \in [rev : Nat, account : Account \cup {O!NoAccount}]
        /\ attempt \in Link /\ O!NoOverview \in Link
    BY BoardFacts DEF BoardsTyped
  <2>2. ASSUME NEW a \in Account, O!Connect(a)
        PROVE  attempt' \in Link /\ UNCHANGED connection
    BY <2>1, <2>2 DEF O!Connect, Link
  <2>3. ASSUME NEW ok \in BOOLEAN, O!Connected(ok)
        PROVE  LinkMoves /\ connection' \in [rev : Nat, account : Account \cup {O!NoAccount}]
               /\ attempt' \in Link
    BY <2>1, <2>3 DEF O!Connected, LinkMoves, Link
  <2>4. CASE O!Disconnect
    BY <2>1, <2>4 DEF O!Disconnect, LinkMoves
  <2> QED
    BY <2>1, <2>2, <2>3, <2>4 DEF O!CacheExpires, LinkMoves
<1>4. BoardsInv' /\ ViewHeld /\ ShownHeld
  BY <1>1, <1>3, BoardsStay, BoardFacts DEF RevMoves, BoardsTyped
<1> QED
  BY <1>2, <1>4 DEF OrganizationInv, OrganizationHeld

LEMMA LandedKept ==
  ASSUME OrganizationInv, NEW ok \in BOOLEAN, O!Landed(ok)
  PROVE  OrganizationInv' /\ OrganizationHeld
<1>1. /\ UNCHANGED <<projects, services, assigned, orgrev, connection, attempt>>
      /\ flight' = O!NoOverview
      /\ boards' = [b \in Dashboard |->
           IF boards[b].pc # "reading" \/ boards[b].conn # flight.rev THEN boards[b]
           ELSE IF ok /\ O!Settled THEN [boards[b] EXCEPT !.pc = "read"] ELSE O!Blank]
  BY DEF O!Landed
<1>2. ASSUME NEW b \in Dashboard PROVE boards'[b] \in Board /\ BoardMoves(b)
  <2>1. boards[b] \in Board
    BY BoardFacts
  <2>2. CASE boards[b].pc # "reading" \/ boards[b].conn # flight.rev
    BY <1>1, <2>1, <2>2 DEF BoardMoves
  <2>3. CASE boards[b].pc = "reading" /\ boards[b].conn = flight.rev /\ ok /\ O!Settled
    <3>1. PICK n : n = [boards[b] EXCEPT !.pc = "read"]
      OBVIOUS
    <3>2. /\ n \in Board /\ n.pc = "read" /\ n.choice = boards[b].choice /\ n.rev = boards[b].rev
          /\ n.rows = boards[b].rows
      BY <2>1, <3>1 DEF Board
    <3>3. boards'[b] = n
      BY <1>1, <2>3, <3>1
    <3>4. boards[b].conn = connection.rev
      BY <2>3 DEF O!Settled
    <3> QED
      BY <1>1, <2>3, <3>2, <3>3, <3>4 DEF BoardMoves
  <2>4. CASE boards[b].pc = "reading" /\ boards[b].conn = flight.rev /\ ~(ok /\ O!Settled)
    BY <1>1, <2>4, BlankBoard DEF BoardMoves
  <2> QED
    BY <2>2, <2>3, <2>4
<1>3. BoardsTyped'
  <2>1. boards' \in [Dashboard -> Board]
    BY <1>1, <1>2
  <2> QED
    BY <1>1, <2>1, BoardFacts DEF BoardsTyped
<1>4. BoardsInv' /\ ViewHeld /\ ShownHeld
  BY <1>1, <1>2, <1>3, BoardsKept DEF RevMoves, LinkMoves, OrganizationInv
<1>5. ProjectsInv'
  BY <1>1, ProjectsStay DEF OrganizationInv
<1> QED
  BY <1>4, <1>5 DEF OrganizationInv, OrganizationHeld

\* A dashboard reads the overview, for what it was asked.
LEMMA Reads ==
  ASSUME OrganizationInv, NEW b \in Dashboard, NEW board \in Board, O!Read(b, board),
         boards[b].pc \in {"idle", "viewed"},
         \/ board.choice = "show"
         \/ Organizes(b) /\ board.rev = boards[b].rev /\ board.rows = boards[b].rows,
         UNCHANGED <<projects, services, assigned, orgrev, connection, attempt>>
  PROVE  OrganizationInv' /\ OrganizationHeld
<1>1. PICK pc : pc = IF connection.account = O!NoAccount \/ cache = connection THEN "read" ELSE "reading"
  OBVIOUS
<1>2. PICK n : n = [board EXCEPT !.pc = pc, !.conn = connection.rev, !.saw = connection.account]
  OBVIOUS
<1>3. boards' = [boards EXCEPT ![b] = n] /\ pc \in {"reading", "read"}
  BY <1>1, <1>2 DEF O!Read
<1>4. /\ n \in Board /\ n.pc \in {"reading", "read"} /\ n.conn = connection.rev
      /\ n.saw = connection.account /\ n.choice = board.choice /\ n.rev = board.rev
      /\ n.rows = board.rows
  BY <1>2, <1>3, BoardFacts DEF Board, O!NoAccount
<1>5. boards'[b] = n
  BY <1>3, <1>4, BoardFacts DEF BoardsTyped
<1>6. flight' \in Link
  BY BoardFacts DEF O!Read, BoardsTyped
<1>7. BoardMoves(b)
  BY <1>4, <1>5 DEF BoardMoves
<1>8. BoardsInv' /\ ViewHeld /\ ShownHeld
  BY <1>3, <1>4, <1>6, <1>7, OneBoard
<1>9. ProjectsInv'
  BY ProjectsStay DEF OrganizationInv
<1> QED
  BY <1>8, <1>9 DEF OrganizationInv, OrganizationHeld

LEMMA DashboardKept ==
  ASSUME OrganizationInv, NEW b \in Dashboard,
         \/ O!CreateService(b) \/ O!View(b) \/ O!Show(b) \/ O!Shown(b) \/ O!Superseded(b)
         \/ O!Refused(b) \/ \E p \in Project : O!ServiceRequest(b, p)
         \/ \E a \in Account, r \in Resource, c \in Project \cup Title \cup {"leave", "ignore"} :
              O!Organize(b, a, r, c)
  PROVE  OrganizationInv' /\ OrganizationHeld
<1> USE DEF O!cloudflare
<1>0. boards[b] \in Board /\ ProjectsInv
  BY BoardFacts DEF OrganizationInv
<1>1. CASE O!Shown(b) \/ O!Superseded(b) \/ O!Refused(b)
  <2>1. /\ boards' = [boards EXCEPT ![b] = O!Blank]
        /\ UNCHANGED <<projects, services, assigned, orgrev, connection, cache, flight, attempt>>
    BY <1>1 DEF O!Shown, O!Superseded, O!Refused
  <2>2. BoardsInv' /\ ViewHeld /\ ShownHeld
    BY <2>1, BoardEnds
  <2> QED
    BY <1>0, <2>1, <2>2, ProjectsStay DEF OrganizationInv, OrganizationHeld
<1>2. CASE O!CreateService(b)
  <2> DEFINE p == boards[b].project
  <2>1. /\ boards' = [boards EXCEPT ![b] = O!Blank]
        /\ services' = IF O!OpenNow(b) /\ projects[p].source # 0 /\ services[p] = "none"
                       THEN [services EXCEPT ![p] = "live"] ELSE services
        /\ UNCHANGED <<projects, assigned, orgrev, connection, cache, flight, attempt>>
    BY <1>2 DEF O!CreateService
  <2>2. BoardsInv' /\ ViewHeld /\ ShownHeld
    BY <2>1, BoardEnds
  <2>3. services \in [Project -> {"none", "live", "deleting"}]
    BY <1>0 DEF ProjectsInv, ProjectsTyped
  <2>4. services' \in [Project -> {"none", "live", "deleting"}]
    BY <2>1, <2>3
  <2>5. ASSUME NEW q \in Project PROVE services'[q] # "none" => services[q] # "none" \/ Exists(q)
    BY <2>1, <2>3 DEF O!OpenNow, Exists
  <2>6. ProjectsInv'
    BY <1>0, <2>1, <2>4, <2>5 DEF ProjectsInv, ProjectsTyped, Existing, Exists, O!RowsHaveProject,
       O!ServicesHaveProject
  <2> QED
    BY <2>2, <2>6 DEF OrganizationInv, OrganizationHeld
<1>3. ASSUME NEW p \in Project, O!ServiceRequest(b, p) PROVE OrganizationInv' /\ OrganizationHeld
  <2>1. PICK k : k = O!Blank
    OBVIOUS
  <2>2. PICK n : n = [k EXCEPT !.pc = "body", !.project = p, !.saw = projects[p].status]
    OBVIOUS
  <2>3. /\ boards' = [boards EXCEPT ![b] = n] /\ projects[p].status \in {"active", "deleting"}
        /\ UNCHANGED <<projects, services, assigned, orgrev, connection, cache, flight, attempt>>
    BY <1>3, <2>1, <2>2 DEF O!ServiceRequest
  <2>4. n \in Board /\ n.pc = "body"
    BY <2>1, <2>2, <2>3, BlankBoard DEF Board
  <2>5. boards'[b] = n
    BY <2>3, BoardFacts DEF BoardsTyped
  <2>6. BoardMoves(b) /\ flight' \in Link
    BY <2>3, <2>4, <2>5, BoardFacts DEF BoardMoves, BoardsTyped
  <2>7. BoardsInv' /\ ViewHeld /\ ShownHeld
    BY <2>3, <2>4, <2>6, OneBoard
  <2> QED
    BY <1>0, <2>3, <2>7, ProjectsStay DEF OrganizationInv, OrganizationHeld
<1>4. CASE O!View(b)
  <2>1. PICK k : k = O!Blank
    OBVIOUS
  <2>2. PICK n : n = [k EXCEPT !.pc = "viewed", !.rev = orgrev, !.rows = assigned]
    OBVIOUS
  <2>3. /\ boards' = [boards EXCEPT ![b] = n]
        /\ UNCHANGED <<projects, services, assigned, orgrev, connection, cache, flight, attempt>>
    BY <1>4, <2>1, <2>2 DEF O!View
  <2>4. n \in Board /\ n.pc = "viewed" /\ n.rev = orgrev /\ n.rows = assigned
    BY <2>1, <2>2, BlankBoard, BoardFacts DEF Board
  <2>5. boards'[b] = n
    BY <2>3, BoardFacts DEF BoardsTyped
  <2>6. BoardMoves(b) /\ flight' \in Link
    BY <2>3, <2>4, <2>5, BoardFacts DEF BoardMoves, BoardsTyped
  <2>7. BoardsInv' /\ ViewHeld /\ ShownHeld
    BY <2>3, <2>4, <2>6, OneBoard
  <2> QED
    BY <1>0, <2>3, <2>7, ProjectsStay DEF OrganizationInv, OrganizationHeld
<1>5. CASE O!Show(b)
  <2>1. PICK k : k = O!Blank
    OBVIOUS
  <2>2. PICK n : n = [k EXCEPT !.choice = "show"]
    OBVIOUS
  <2>3. n \in Board /\ n.choice = "show"
    BY <2>1, <2>2, BlankBoard DEF Board, Choices
  <2>4. /\ O!Read(b, n) /\ boards[b].pc = "idle"
        /\ UNCHANGED <<projects, services, assigned, orgrev, connection, attempt>>
    BY <1>5, <2>1, <2>2 DEF O!Show
  <2> QED
    BY <2>3, <2>4, Reads
<1>6. ASSUME NEW a \in Account, NEW r \in Resource,
             NEW c \in Project \cup Title \cup {"leave", "ignore"}, O!Organize(b, a, r, c)
      PROVE  OrganizationInv' /\ OrganizationHeld
  <2>1. PICK n : n = [boards[b] EXCEPT !.account = a, !.resource = r, !.choice = c]
    OBVIOUS
  <2>2. n \in Board /\ n.rev = boards[b].rev /\ n.rows = boards[b].rows
    BY <1>0, <2>1 DEF Board, Choices
  <2>3. /\ O!Read(b, n) /\ boards[b].pc = "viewed"
        /\ UNCHANGED <<projects, services, assigned, orgrev, connection, attempt>>
    BY <1>6, <2>1 DEF O!Organize
  <2>4. Organizes(b)
    BY <2>3 DEF Organizes
  <2> QED
    BY <2>2, <2>3, <2>4, Reads
<1> QED
  BY <1>1, <1>2, <1>3, <1>4, <1>5, <1>6

LEMMA OrganizationKept ==
  ASSUME OrganizationInv, O!Next \/ UNCHANGED projectsVars
  PROVE  OrganizationInv' /\ OrganizationHeld
<1>1. CASE UNCHANGED projectsVars
  <2>1. BoardsInv' /\ ViewHeld /\ ShownHeld
    BY <1>1, QuietBoards DEF projectsVars, O!cloudflare
  <2> QED
    BY <1>1, <2>1, ProjectsStay DEF projectsVars, OrganizationInv, OrganizationHeld
<1>2. ASSUME NEW p \in Project,
             \/ \E t \in Title : O!CreateProject(p, t)
             \/ O!UpdateProject(p, 1) \/ O!RemoveProject(p) \/ O!ServiceRemoved(p)
      PROVE  OrganizationInv' /\ OrganizationHeld
  BY <1>2, ProjectSteps
<1>3. ASSUME NEW p \in Project, O!ForgetProject(p) PROVE OrganizationInv' /\ OrganizationHeld
  BY <1>3, ForgetKept
<1>4. ASSUME NEW b \in Dashboard,
             O!Leave(b) \/ O!Assign(b) \/ \E p \in Project : O!AssignByName(b, p)
      PROVE  OrganizationInv' /\ OrganizationHeld
  BY <1>4, DecisionsKept
<1>5. ASSUME NEW b \in Dashboard,
             \/ O!CreateService(b) \/ O!View(b) \/ O!Show(b) \/ O!Shown(b) \/ O!Superseded(b)
             \/ O!Refused(b) \/ \E p \in Project : O!ServiceRequest(b, p)
             \/ \E a \in Account, r \in Resource, c \in Project \cup Title \cup {"leave", "ignore"} :
                  O!Organize(b, a, r, c)
      PROVE  OrganizationInv' /\ OrganizationHeld
  BY <1>5, DashboardKept
<1>6. ASSUME NEW ok \in BOOLEAN, O!Landed(ok) PROVE OrganizationInv' /\ OrganizationHeld
  BY <1>6, LandedKept
<1>7. ASSUME \/ \E a \in Account : O!Connect(a)
             \/ \E ok \in BOOLEAN : O!Connected(ok)
             \/ O!Disconnect \/ O!CacheExpires
      PROVE  OrganizationInv' /\ OrganizationHeld
  BY <1>7, ConnectionKept
<1> QED
  BY <1>1, <1>2, <1>3, <1>4, <1>5, <1>6, <1>7 DEF O!Next

LEMMA OrganizationBegins ==
  ASSUME O!Init
  PROVE  OrganizationInv
<1>1. projects \in [Project -> Doc] /\ services \in [Project -> {"none", "live", "deleting"}]
      /\ \A p \in Project : ~Exists(p) /\ services[p] = "none"
  BY DEF O!Init, Doc, Exists
<1>2. Existing = {}
  BY <1>1 DEF Existing
<1>3. ProjectsTyped
  BY <1>1, <1>2, FS_EmptySet, RecordsAssumption DEF ProjectsTyped
<1>4. O!Unassigned \in Assign /\ O!Unassigned.project = O!NoProject
  BY DEF O!Unassigned, Assign
<1>5. assigned \in Rows /\ \A a \in Account, r \in Resource : assigned[a][r].project = O!NoProject
  BY <1>4 DEF O!Init, Rows
<1>6. ProjectsInv
  BY <1>1, <1>3, <1>5 DEF ProjectsInv, O!RowsHaveProject, O!ServicesHaveProject
<1>7. BoardsTyped /\ \A b \in Dashboard : boards[b].pc = "idle"
  BY <1>5, BlankBoard DEF O!Init, BoardsTyped, Link, O!NoOverview
<1>8. BoardsInv
  BY <1>7 DEF BoardsInv, Seen, Waits, Organizes
<1> QED
  BY <1>6, <1>8 DEF OrganizationInv

LEMMA OrganizationPromises ==
  ASSUME OrganizationInv
  PROVE  O!TypeOK /\ O!RowsHaveProject /\ O!ServicesHaveProject
<1>1. O!Count <= MaxProjects
  BY CountExists DEF OrganizationInv, ProjectsInv, ProjectsTyped
<1>2. \A a \in Account, r \in Resource : assigned[a][r] \in Assign
  BY BoardFacts DEF Rows
<1> QED
  BY <1>1, <1>2 DEF OrganizationInv, ProjectsInv, ProjectsTyped, Doc, Assign, O!TypeOK
-----------------------------------------------------------------------------
(***************************************************************************)
(* Image pushes.  A request that has found content in the bucket may rely  *)
(* on it, since nothing is taken out.                                      *)
(***************************************************************************)

Push   == [pc : {"free", "check", "digest", "tag"}, repo : Repo \cup {G!NoRepo},
           digest : Image \cup Index \cup {G!Untagged}, tagged : BOOLEAN,
           left : SUBSET (Blob \cup Image)]

PushesTyped ==
  /\ blobs \in SUBSET Blob /\ manifests \in [Repo -> SUBSET (Image \cup Index)]
  /\ DOMAIN tag = Repo /\ pushing \in [Client -> Push]
  /\ \A c \in Client : pushing[c].pc # "free" =>
       /\ pushing[c].repo \in Repo /\ pushing[c].digest \in Image \cup Index
       /\ pushing[c].left \subseteq G!Needs(pushing[c].digest)

\* What a request has checked so far is stored, and it tags what it has put.
Found(p) ==
  /\ p.pc = "check" => G!Needs(p.digest) \ p.left \subseteq G!Stored(p.repo, p.digest)
  /\ p.pc = "digest" => G!Needs(p.digest) \subseteq G!Stored(p.repo, p.digest)
  /\ p.pc = "tag" => p.digest \in manifests[p.repo]

RegistryInv == PushesTyped /\ G!Pullable /\ \A c \in Client : Found(pushing[c])

\* The bucket only grows.
Grows == blobs \subseteq blobs' /\ \A r \in Repo : manifests[r] \subseteq manifests'[r]

LEMMA StoredGrows ==
  ASSUME Grows, NEW r \in Repo, NEW d
  PROVE  G!Stored(r, d) \subseteq G!Stored(r, d)'
BY DEF Grows, G!Stored

LEMMA FreePush ==
  G!Free \in Push /\ G!Free.pc = "free"
BY DEF G!Free, Push

\* A step of one request, which leaves the bucket or adds to it.
LEMMA OnePushKept ==
  ASSUME RegistryInv, Grows, NEW c \in Client, NEW q \in Push,
         pushing' = [pushing EXCEPT ![c] = q],
         q.pc # "free" => /\ q.repo \in Repo /\ q.digest \in Image \cup Index
                          /\ q.left \subseteq G!Needs(q.digest),
         Found(q)'
  PROVE  (\A k \in Client : Found(pushing[k]))' /\ pushing' \in [Client -> Push]
         /\ \A k \in Client : pushing'[k].pc # "free" =>
              /\ pushing'[k].repo \in Repo /\ pushing'[k].digest \in Image \cup Index
              /\ pushing'[k].left \subseteq G!Needs(pushing'[k].digest)
<1>1. pushing' \in [Client -> Push] /\ \A k \in Client : pushing'[k] = IF k = c THEN q ELSE pushing[k]
  BY DEF RegistryInv, PushesTyped
<1>2. ASSUME NEW k \in Client PROVE Found(pushing[k])'
  <2>1. CASE k = c
    <3>1. pushing'[k] = q
      BY <1>1, <2>1
    <3> QED
      BY <3>1 DEF Found, G!Needs, G!Stored
  <2>2. CASE k # c
    <3>1. pushing'[k] = pushing[k]
      BY <1>1, <2>2
    <3>2. Found(pushing[k])
      BY DEF RegistryInv
    <3>3. pushing[k].pc # "free" => pushing[k].repo \in Repo
      BY DEF RegistryInv, PushesTyped
    <3> QED
      BY <3>1, <3>2, <3>3 DEF Found, Grows, G!Stored, G!Needs
  <2> QED
    BY <2>1, <2>2
<1> QED
  BY <1>1, <1>2 DEF RegistryInv, PushesTyped

LEMMA PullableKept ==
  ASSUME RegistryInv, Grows, UNCHANGED <<manifests, tag>>
  PROVE  G!Pullable'
BY StoredGrows DEF RegistryInv, G!Pullable, G!Stored, G!Needs, Grows

LEMMA RegistryKept ==
  ASSUME RegistryInv, G!Next \/ UNCHANGED registryVars
  PROVE  RegistryInv'
<1>1. ASSUME NEW b \in Blob, G!Upload(b) PROVE RegistryInv'
  <2>1. Grows /\ UNCHANGED <<manifests, tag, pushing>> /\ blobs' \in SUBSET Blob
    BY <1>1 DEF G!Upload, Grows, RegistryInv, PushesTyped
  <2>2. \A c \in Client : Found(pushing[c])'
    BY <2>1, StoredGrows DEF RegistryInv, PushesTyped, Found, G!Stored, G!Needs, Grows
  <2> QED
    BY <2>1, <2>2, PullableKept DEF RegistryInv, PushesTyped, G!Needs
<1>2. ASSUME NEW c \in Client, UNCHANGED <<blobs, manifests, tag>>, NEW q \in Push,
             pushing' = [pushing EXCEPT ![c] = q],
             q.pc # "free" => /\ q.repo \in Repo /\ q.digest \in Image \cup Index
                              /\ q.left \subseteq G!Needs(q.digest),
             Found(q)
      PROVE  RegistryInv'
  <2>1. Grows /\ Found(q)'
    BY <1>2 DEF Grows, Found, G!Stored, G!Needs
  <2>2. (\A k \in Client : Found(pushing[k]))' /\ pushing' \in [Client -> Push]
        /\ \A k \in Client : pushing'[k].pc # "free" =>
              /\ pushing'[k].repo \in Repo /\ pushing'[k].digest \in Image \cup Index
              /\ pushing'[k].left \subseteq G!Needs(pushing'[k].digest)
    BY <1>2, <2>1, OnePushKept
  <2> QED
    BY <1>2, <2>1, <2>2, PullableKept DEF RegistryInv, PushesTyped, G!Needs
<1>3. ASSUME NEW c \in Client, G!Step(c, "free"), UNCHANGED <<blobs, manifests, tag>>
      PROVE  RegistryInv'
  <2>1. pushing' = [pushing EXCEPT ![c] = G!Free] /\ Found(G!Free)
    BY <1>3, FreePush DEF G!Step, Found
  <2> QED
    BY <1>2, <1>3, <2>1, FreePush
<1>4. ASSUME NEW c \in Client, NEW x \in Blob \cup Image, G!Check(c, x) PROVE RegistryInv'
  <2> DEFINE p == pushing[c]
             q == [p EXCEPT !.left = @ \ {x}, !.pc = IF p.left = {x} THEN "digest" ELSE "check"]
  <2>1. p \in Push /\ p.pc = "check" /\ Found(p) /\ x \in p.left
        /\ p.repo \in Repo /\ p.digest \in Image \cup Index /\ p.left \subseteq G!Needs(p.digest)
    BY <1>4 DEF G!Check, G!At, RegistryInv, PushesTyped
  <2>2. CASE G!Present(c, x)
    <3>1. pushing' = [pushing EXCEPT ![c] = q] /\ UNCHANGED <<blobs, manifests, tag>>
      BY <1>4, <2>2 DEF G!Check, G!bucket, RegistryInv, PushesTyped, Push
    <3>2. q \in Push /\ q.repo = p.repo /\ q.digest = p.digest /\ q.left = p.left \ {x}
          /\ q.pc = IF p.left = {x} THEN "digest" ELSE "check"
      BY <2>1 DEF Push
    <3>3. x \in G!Stored(p.repo, p.digest)
      BY <2>2 DEF G!Present
    <3> HIDE DEF q
    <3>4. Found(q)
      BY <2>1, <3>2, <3>3 DEF Found
    <3>5. /\ q.repo \in Repo /\ q.digest \in Image \cup Index
          /\ q.left \subseteq G!Needs(q.digest)
      BY <2>1, <3>2
    <3> QED
      BY <1>2, <3>1, <3>2, <3>4, <3>5
  <2>3. CASE ~G!Present(c, x)
    <3>1. G!Step(c, "free") /\ UNCHANGED <<blobs, manifests, tag>>
      BY <1>4, <2>3 DEF G!Check, G!bucket
    <3> QED
      BY <1>3, <3>1
  <2> QED
    BY <2>2, <2>3
<1>5. ASSUME NEW c \in Client, G!PutDigest(c) PROVE RegistryInv'
  <2>0. PICK p, q : p = pushing[c] /\ q = IF p.tagged THEN [p EXCEPT !.pc = "tag"] ELSE G!Free
    OBVIOUS
  <2>1. p \in Push /\ p.pc = "digest" /\ Found(p)
        /\ p.repo \in Repo /\ p.digest \in Image \cup Index /\ p.left \subseteq G!Needs(p.digest)
    BY <1>5, <2>0 DEF G!PutDigest, G!At, RegistryInv, PushesTyped
  <2>2. pushing' = [pushing EXCEPT ![c] = q]
    BY <1>5, <2>0 DEF G!PutDigest, G!Step
  <2>3. /\ manifests' = [manifests EXCEPT ![p.repo] = @ \cup {p.digest}] /\ UNCHANGED <<blobs, tag>>
    BY <1>5, <2>0 DEF G!PutDigest
  <2>4. /\ manifests' \in [Repo -> SUBSET (Image \cup Index)]
        /\ \A r \in Repo : manifests'[r] = IF r = p.repo THEN manifests[r] \cup {p.digest} ELSE manifests[r]
    BY <2>1, <2>3 DEF RegistryInv, PushesTyped
  <2>5. Grows
    BY <2>3, <2>4 DEF Grows
  <2>6. q \in Push /\ (q.pc # "free" => q.pc = "tag" /\ q.repo = p.repo /\ q.digest = p.digest /\ q.left = p.left)
    BY <2>0, <2>1, FreePush DEF Push
  <2>7. Found(q)' /\ (q.pc # "free" => /\ q.repo \in Repo /\ q.digest \in Image \cup Index
                              /\ q.left \subseteq G!Needs(q.digest))
    BY <2>1, <2>4, <2>6, FreePush DEF Found, Push
  <2>8. (\A k \in Client : Found(pushing[k]))' /\ pushing' \in [Client -> Push]
        /\ \A k \in Client : pushing'[k].pc # "free" =>
              /\ pushing'[k].repo \in Repo /\ pushing'[k].digest \in Image \cup Index
              /\ pushing'[k].left \subseteq G!Needs(pushing'[k].digest)
    BY <2>2, <2>5, <2>6, <2>7, OnePushKept
  <2>9. G!Pullable'
    <3> SUFFICES ASSUME NEW r \in Repo
                 PROVE  /\ tag'[r] # G!Untagged => tag'[r] \in manifests'[r]
                        /\ \A d \in manifests'[r] : G!Needs(d) \subseteq G!Stored(r, d)'
      BY DEF G!Pullable, G!Needs, G!Stored
    <3>1. tag'[r] # G!Untagged => tag'[r] \in manifests'[r]
      BY <2>3, <2>4 DEF RegistryInv, G!Pullable
    <3>2. ASSUME NEW d \in manifests'[r] PROVE G!Needs(d) \subseteq G!Stored(r, d)'
      <4>1. G!Needs(d) \subseteq G!Stored(r, d)
        <5>1. CASE d \in manifests[r]
          BY <5>1 DEF RegistryInv, G!Pullable
        <5>2. CASE d \notin manifests[r]
          <6>1. r = p.repo /\ d = p.digest
            BY <2>4, <5>2, <3>2
          <6> QED
            BY <2>1, <6>1 DEF Found
        <5> QED
          BY <5>1, <5>2
      <4> QED
        BY <4>1, <2>5, StoredGrows
    <3> QED
      BY <3>1, <3>2
  <2> QED
    BY <2>3, <2>4, <2>8, <2>9 DEF RegistryInv, PushesTyped, G!Needs
<1>6. ASSUME NEW c \in Client, G!PutTag(c) PROVE RegistryInv'
  <2> DEFINE p == pushing[c]
  <2>1. p \in Push /\ p.pc = "tag" /\ Found(p) /\ p.repo \in Repo
    BY <1>6 DEF G!PutTag, G!At, RegistryInv, PushesTyped
  <2>2. pushing' = [pushing EXCEPT ![c] = G!Free] /\ Found(G!Free)'
    BY <1>6, FreePush DEF G!PutTag, G!Step, Found
  <2>3. tag' = [tag EXCEPT ![p.repo] = p.digest] /\ UNCHANGED <<blobs, manifests>> /\ Grows
    BY <1>6 DEF G!PutTag, Grows
  <2>4. (\A k \in Client : Found(pushing[k]))' /\ pushing' \in [Client -> Push]
        /\ \A k \in Client : pushing'[k].pc # "free" =>
              /\ pushing'[k].repo \in Repo /\ pushing'[k].digest \in Image \cup Index
              /\ pushing'[k].left \subseteq G!Needs(pushing'[k].digest)
    BY <2>2, <2>3, FreePush, OnePushKept
  <2>5. G!Pullable'
    BY <2>1, <2>3 DEF Found, RegistryInv, G!Pullable, G!Needs, G!Stored, PushesTyped
  <2> QED
    BY <2>3, <2>4, <2>5 DEF RegistryInv, PushesTyped, G!Needs
<1>7. ASSUME NEW c \in Client, NEW r \in Repo, NEW d \in Image \cup Index, NEW t \in BOOLEAN,
             G!Authorize(c, r, d, t)
      PROVE  RegistryInv'
  <2> DEFINE q == [pc |-> "check", repo |-> r, digest |-> d, tagged |-> t, left |-> G!Needs(d)]
  <2>1. q \in Push /\ Found(q)
    BY DEF Push, Found, G!Needs
  <2>2. pushing' = [pushing EXCEPT ![c] = q] /\ UNCHANGED <<blobs, manifests, tag>>
    BY <1>7 DEF G!Authorize, G!bucket
  <2>3. q.repo \in Repo /\ q.digest \in Image \cup Index /\ q.left \subseteq G!Needs(q.digest)
    OBVIOUS
  <2> HIDE DEF q
  <2> QED
    BY <1>2, <2>1, <2>2, <2>3
<1>8. ASSUME NEW c \in Client, G!Ends(c) PROVE RegistryInv'
  BY <1>3, <1>8 DEF G!Ends, G!bucket
<1>9. CASE UNCHANGED registryVars
  BY <1>9 DEF registryVars, RegistryInv, PushesTyped, Found, G!Pullable, G!Stored, G!Needs
<1> QED
  BY <1>1, <1>4, <1>5, <1>6, <1>7, <1>8, <1>9 DEF G!Next

LEMMA RegistryBegins ==
  ASSUME G!Init
  PROVE  RegistryInv
BY FreePush DEF G!Init, RegistryInv, PushesTyped, G!Pullable, Found

LEMMA RegistryPromises ==
  ASSUME RegistryInv
  PROVE  G!TypeOK /\ G!Pullable
BY DEF RegistryInv, PushesTyped, G!TypeOK, G!At
-----------------------------------------------------------------------------
(***************************************************************************)
(* All together.  In a behaviour one part moves, and the others stay.      *)
(***************************************************************************)

RecordsInv  == AccountsInv /\ MigrationInv /\ ExportInv /\ OrganizationInv /\ RegistryInv
RecordsHeld == MigrationHeld /\ OrganizationHeld
All == <<focus, accountsVars, migrationVars, exportVars, projectsVars, registryVars>>

LEMMA RecordsBegin == Init => RecordsInv
<1> SUFFICES ASSUME Init PROVE RecordsInv
  OBVIOUS
<1>1. U!Init /\ M!Init /\ E!Init /\ O!Init /\ G!Init
  BY DEF Init
<1> QED
  BY <1>1, AccountsBegin, MigrationBegins, ExportBegins, OrganizationBegins, RegistryBegins
     DEF RecordsInv

LEMMA RecordsKept == RecordsInv /\ [Next]_All => RecordsInv' /\ RecordsHeld
<1> SUFFICES ASSUME RecordsInv, [Next]_All PROVE RecordsInv' /\ RecordsHeld
  OBVIOUS
<1>1. U!Next \/ UNCHANGED accountsVars
  BY Zenon DEF Next, All
<1>2. M!Next \/ UNCHANGED migrationVars
  BY Zenon DEF Next, All
<1>3. E!Next \/ UNCHANGED exportVars
  BY Zenon DEF Next, All
<1>4. O!Next \/ UNCHANGED projectsVars
  BY Zenon DEF Next, All
<1>5. G!Next \/ UNCHANGED registryVars
  BY Zenon DEF Next, All
<1>6. AccountsInv /\ MigrationInv /\ ExportInv /\ OrganizationInv /\ RegistryInv
  BY DEF RecordsInv
<1>7. AccountsInv'
  BY <1>1, <1>6, AccountsKept
<1>8. MigrationInv' /\ MigrationHeld
  BY <1>2, <1>6, MigrationKept
<1>9. ExportInv'
  BY <1>3, <1>6, ExportKept
<1>10. OrganizationInv' /\ OrganizationHeld
  BY <1>4, <1>6, OrganizationKept
<1>11. RegistryInv'
  BY <1>5, <1>6, RegistryKept
<1> QED
  BY <1>7, <1>8, <1>9, <1>10, <1>11 DEF RecordsInv, RecordsHeld

LEMMA RecordsAlways == Spec => []RecordsInv
<1>1. RecordsInv /\ [Next]_All => RecordsInv'
  BY RecordsKept
<1> QED
  BY <1>1, RecordsBegin, PTL DEF Spec, All

LEMMA RecordsPromise == RecordsInv => TypeOK /\ ReferencesHold
<1> SUFFICES ASSUME RecordsInv PROVE TypeOK /\ ReferencesHold
  OBVIOUS
<1>1. AccountsInv /\ MigrationInv /\ ExportInv /\ OrganizationInv /\ RegistryInv
  BY DEF RecordsInv
<1>2. U!TypeOK /\ U!RevocationIsFinal /\ U!SessionsOfMembers
  BY <1>1, AccountsPromise
<1>3. M!TypeOK
  BY <1>1 DEF MigrationInv, MigrationTyped
<1>4. E!TypeOK /\ E!Importable
  BY <1>1, ExportPromises
<1>5. O!TypeOK /\ O!RowsHaveProject /\ O!ServicesHaveProject
  BY <1>1, OrganizationPromises
<1>6. G!TypeOK /\ G!Pullable
  BY <1>1, RegistryPromises
<1> QED
  BY <1>2, <1>3, <1>4, <1>5, <1>6 DEF TypeOK, ReferencesHold

\* The documents and rows of every part have the shape their handlers give them, and
\* a workspace never has more projects than it may (auth.ts, migration.ts,
\* project-organization.ts, registry.ts).
THEOREM RecordsTyped == Spec => []TypeOK
BY RecordsAlways, RecordsPromise, PTL

\* What refers to something finds it, however many requests, imports, builders and
\* persons there are: an assigned resource and a service their project, a tag its
\* image at every depth, an export an import that accepts it, a session its
\* membership; and a revoked authorization leaves neither a session nor a token
\* (runtime.ts:476-491, project-organization.ts:42-56 and 185-229, registry.ts:257-290,
\* migration.ts:82-341, auth.ts:281-328).
THEOREM ReferencesAlwaysHold == Spec => []ReferencesHold
BY RecordsAlways, RecordsPromise, PTL

\* An import takes nothing from another workspace, is whole when it becomes active, is
\* made of one export and is paused until then; a person decides on what they see,
\* which is the account that is connected (migration.ts:356-393 and 467-551,
\* workspace.ts:184-185, project-organization.ts:121-123, cloudflare-overview.ts:589-595).
THEOREM StepsAlwaysHold == Spec => StepsHold
<1>1. RecordsInv /\ [Next]_All =>
        /\ [RouteHeld]_M!mvars /\ [WholeHeld]_M!mvars /\ [OnceHeld]_M!mvars /\ [PauseHeld]_M!mvars
        /\ [ViewHeld]_O!orgvars /\ [ShownHeld]_O!orgvars
  BY RecordsKept DEF RecordsHeld, MigrationHeld, OrganizationHeld
<1> QED
  BY <1>1, RecordsAlways, PTL DEF Spec, All, StepsHold, M!RoutesHold, M!ActiveIsWhole, M!ImportedOnce,
     M!StagedIsPaused, O!ViewHolds, O!ShownIsConnected, RouteHeld, WholeHeld, OnceHeld, PauseHeld,
     ViewHeld, ShownHeld
=============================================================================
