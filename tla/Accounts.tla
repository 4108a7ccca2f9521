------------------------------ MODULE Accounts ------------------------------
(***************************************************************************)
(* Sign-in, sessions, memberships and live connections of the hosted       *)
(* edition (auth.ts, index.ts, the webhook of github.ts for a revoked      *)
(* authorization, and the sockets of workspace.ts).                        *)
(*                                                                         *)
(* One GitHub user and the workspaces they own or are members of.  Every   *)
(* statement or batch of D1 is one step, and requests of any number of     *)
(* workers interleave between them.  Time is told by the revocations seen  *)
(* so far.  Cookies, origins, signatures and rate limits are left out.     *)
(***************************************************************************)
EXTENDS FiniteSets, Integers

CONSTANTS
  Login,        \* sign-ins; each names the session it may create
  Workspace,
  Own,          \* the workspace the user owns
  MaxRevoked    \* bound: revocations of the authorization

VARIABLES
  user,         \* auth_generation, and the sign-in whose token is stored
  memberships,  \* workspaces of the user
  sessions,     \* rows: the sign-in that made it, workspace and generation
  flow,         \* sign-ins: next step, session it continues, and what it has read
  closing,      \* workspaces still to be told that sessions have ended
  connecting,   \* requests for a socket, authenticated and not yet forwarded
  sockets,      \* of the objects: session and workspace
  timer         \* workspaces with an alarm

vars == <<user, memberships, sessions, flow, closing, connecting, sockets, timer>>
live == <<connecting, sockets, timer>>

Nobody == "none"
NoFlow == [pc |-> "none", session |-> Nobody, workspace |-> Nobody,
           created |-> 0, generation |-> 0]

Init ==
  /\ user = [generation |-> 0, token |-> Nobody]
  /\ memberships = {}
  /\ sessions = {}
  /\ flow = [l \in Login |-> NoFlow]
  /\ closing = {}
  /\ connecting = {}
  /\ sockets = {}
  /\ timer = {}

\* The row of an unexpired session whose generation is the user's, in a workspace
\* the user is a member of: what every request asks for.
Valid(s)  == s \in sessions /\ s.generation = user.generation /\ s.workspace \in memberships
Has(name) == \E s \in sessions : s.name = name

At(l, pc) == flow[l].pc = pc
To(l, pc) == flow' = [flow EXCEPT ![l].pc = pc]
-----------------------------------------------------------------------------
(* Signing in.                                                             *)

\* A sign-in, or the link of a session that is valid.
Start(l) ==
  /\ At(l, "none")
  /\ flow' = [flow EXCEPT ![l] = [NoFlow EXCEPT !.pc = "started", !.created = user.generation]]
  /\ UNCHANGED <<user, memberships, sessions, closing, live>>

StartLink(l, s) ==
  /\ At(l, "none") /\ Valid(s)
  /\ flow' = [flow EXCEPT ![l] = [pc |-> "started", session |-> s.name,
                workspace |-> s.workspace, created |-> user.generation, generation |-> 0]]
  /\ UNCHANGED <<user, memberships, sessions, closing, live>>

\* The callback takes the flow; a second one finds nothing.  A link is also
\* dropped when its session has ended.
Consume(l) ==
  /\ At(l, "started")
  /\ \/ To(l, "exchange") /\ flow[l].session = Nobody
     \/ To(l, "original") /\ flow[l].session # Nobody
  /\ UNCHANGED <<user, memberships, sessions, closing, live>>

Original(l) ==
  /\ At(l, "original")
  /\ To(l, IF \E s \in sessions : /\ Valid(s) /\ s.name = flow[l].session
                                  /\ s.workspace = flow[l].workspace
           THEN "exchange" ELSE "end")
  /\ UNCHANGED <<user, memberships, sessions, closing, live>>

BugRevoked(l) == FALSE
\* revoked_at > created_at: the generation grows with every revocation.
Revoked(l) == user.generation > flow[l].created

\* GitHub has exchanged the code; the user is read.
ReadUser(l) ==
  /\ At(l, "exchange")
  /\ flow' = [flow EXCEPT ![l].pc = IF Revoked(l) THEN "end" ELSE "token",
                          ![l].generation = user.generation]
  /\ UNCHANGED <<user, memberships, sessions, closing, live>>

BugUnchanged(l) == flow[l].session = Nobody \/ Has(flow[l].session)
\* No revocation since the user was read, nor an end of the session linked.
Unchanged(l) ==
  /\ user.generation = flow[l].generation
  /\ flow[l].session = Nobody \/ Has(flow[l].session)

SaveUserToken(l) ==
  /\ At(l, "token")
  /\ IF Unchanged(l)
     THEN /\ user' = [user EXCEPT !.token = l]
          /\ To(l, "member")
     ELSE /\ UNCHANGED user
          /\ To(l, "end")
  /\ UNCHANGED <<memberships, sessions, closing, live>>

\* The workspace of the session: that of the link, one the user is a member of,
\* or their own, made now.
Member(l) ==
  /\ At(l, "member")
  /\ \E w \in IF flow[l].workspace # Nobody THEN {flow[l].workspace}
              ELSE IF memberships = {} THEN {Own} ELSE memberships :
       /\ flow' = [flow EXCEPT ![l].pc = "session", ![l].workspace = w]
       /\ memberships' = IF flow[l].workspace = Nobody /\ memberships = {}
                         THEN {w} ELSE memberships
  /\ UNCHANGED <<user, sessions, closing, live>>

BugJoined(w) == TRUE
Joined(w) == w \in memberships

CreateSession(l) ==
  /\ At(l, "session") /\ To(l, "end")
  /\ sessions' = IF Unchanged(l) /\ Joined(flow[l].workspace)
                 THEN sessions \cup {[name |-> l, workspace |-> flow[l].workspace,
                                      generation |-> flow[l].generation]}
                 ELSE sessions
  /\ UNCHANGED <<user, memberships, closing, live>>
-----------------------------------------------------------------------------
(* Sessions and members.  A session that ends is also ended in the objects, *)
(* by a request that may not arrive.                                        *)

SelectWorkspace(s, w) ==
  /\ s \in sessions /\ Joined(w)
  /\ sessions' = (sessions \ {s}) \cup {[s EXCEPT !.workspace = w]}
  /\ UNCHANGED <<user, memberships, flow, closing, live>>

EndSessions(ended, where) ==
  /\ sessions' = sessions \ ended
  /\ closing' = closing \cup where

Logout(s) ==
  /\ s \in sessions /\ EndSessions({s}, {s.workspace})
  /\ UNCHANGED <<user, memberships, flow, live>>

Expire(s) ==
  /\ s \in sessions /\ EndSessions({s}, {})
  /\ UNCHANGED <<user, memberships, flow, live>>

AddMember(w) ==
  /\ w # Own /\ user.token # Nobody
  /\ memberships' = memberships \cup {w}
  /\ UNCHANGED <<user, sessions, flow, closing, live>>

BugOf(w) == {}
\* The sessions, and the flows not yet taken, of a member.
Of(w) == {s \in sessions : s.workspace = w}
Drop(left) == flow' = [l \in Login |-> IF At(l, "started") /\ flow[l].session # Nobody
                                          /\ flow[l].workspace \notin left
                                       THEN [flow[l] EXCEPT !.pc = "end"] ELSE flow[l]]

RemoveMember(w) ==
  /\ w \in memberships \ {Own}
  /\ memberships' = memberships \ {w}
  /\ EndSessions(Of(w), {w})
  /\ Drop(Workspace \ {w})
  /\ UNCHANGED <<user, live>>

\* GitHub tells that the authorization is revoked.
Revoke ==
  /\ user.token # Nobody /\ user.generation < MaxRevoked
  /\ user' = [generation |-> user.generation + 1, token |-> Nobody]
  /\ EndSessions(sessions, memberships)
  /\ Drop({})
  /\ UNCHANGED <<memberships, live>>
-----------------------------------------------------------------------------
(* Live connections.                                                       *)

\* The worker authenticates the request, and forwards it.
Connect(s) ==
  /\ Valid(s)
  /\ connecting' = connecting \cup {[name |-> s.name, workspace |-> s.workspace]}
  /\ UNCHANGED <<user, memberships, sessions, flow, closing, sockets, timer>>

Accept(k) ==
  /\ k \in connecting /\ connecting' = connecting \ {k}
  /\ sockets' = sockets \cup {k} /\ timer' = timer \cup {k.workspace}
  /\ UNCHANGED <<user, memberships, sessions, flow, closing>>

\* The object closes the sockets of the user, or the request is lost.
CloseUserSockets(w) ==
  /\ w \in closing /\ closing' = closing \ {w}
  /\ \/ sockets' = {k \in sockets : k.workspace # w}
     \/ UNCHANGED sockets
  /\ UNCHANGED <<user, memberships, sessions, flow, connecting, timer>>

BugStillIn(k) == Has(k.name)
\* What the alarm asks the directory of each socket.
StillIn(k) == \E s \in sessions : Valid(s) /\ s.name = k.name /\ s.workspace = k.workspace

CheckSocket(k) ==
  /\ k \in sockets /\ k.workspace \in timer /\ ~StillIn(k)
  /\ sockets' = sockets \ {k}
  /\ UNCHANGED <<user, memberships, sessions, flow, closing, connecting, timer>>

BugWatched(w) == \E s \in sessions : s.workspace = w
\* The alarm is set again while there are sockets.
Watched(w) == \E k \in sockets : k.workspace = w

AlarmEnds(w) ==
  /\ w \in timer /\ ~Watched(w)
  /\ timer' = timer \ {w}
  /\ UNCHANGED <<user, memberships, sessions, flow, closing, connecting, sockets>>

Disconnect(k) ==
  /\ k \in sockets /\ sockets' = sockets \ {k}
  /\ UNCHANGED <<user, memberships, sessions, flow, closing, connecting, timer>>
-----------------------------------------------------------------------------
SignIn(l) ==
  \/ Start(l) \/ Consume(l) \/ Original(l) \/ ReadUser(l) \/ SaveUserToken(l)
  \/ Member(l) \/ CreateSession(l) \/ \E s \in sessions : StartLink(l, s)

Next ==
  \/ \E l \in Login : SignIn(l)
  \/ \E s \in sessions : \/ Logout(s) \/ Expire(s) \/ Connect(s)
                         \/ \E w \in Workspace : SelectWorkspace(s, w)
  \/ \E w \in Workspace : AddMember(w) \/ RemoveMember(w) \/ CloseUserSockets(w) \/ AlarmEnds(w)
  \/ Revoke
  \/ \E k \in connecting : Accept(k)
  \/ \E k \in sockets : CheckSocket(k) \/ Disconnect(k)

Spec == Init /\ [][Next]_vars

\* The alarm looks at every socket.
Fairness == \A k \in [name : Login, workspace : Workspace] : WF_vars(CheckSocket(k))
-----------------------------------------------------------------------------
(* Properties.                                                             *)

TypeOK ==
  /\ user \in [generation : 0..MaxRevoked, token : Login \cup {Nobody}]
  /\ memberships \cup closing \cup timer \subseteq Workspace
  /\ sessions \subseteq [name : Login, workspace : Workspace, generation : 0..MaxRevoked]
  /\ connecting \cup sockets \subseteq [name : Login, workspace : Workspace]

\* A revoked authorization leaves nothing behind: neither a session nor a stored
\* token stems from a sign-in begun before it, however far that had got
\* (auth.ts:281-289 and 309-328, github.ts:118-132).
RevocationIsFinal ==
  /\ \A s \in sessions : flow[s.name].created = user.generation
  /\ user.token # Nobody => flow[user.token].created = user.generation

\* A session is of a workspace its user belongs to, wherever the user is removed
\* while signing in or changing workspaces (auth.ts:309-311, 452-457, 505-518).
SessionsOfMembers == \A s \in sessions : s.workspace \in memberships

\* A socket whose session is over is closed although the request to close it was
\* lost, or came before the socket (workspace.ts:252-258, 482-497, 541-546).
SocketsEnd ==
  \A n \in Login, w \in Workspace :
    LET k  == [name |-> n, workspace |-> w]
        on == \E s \in sessions : Valid(s) /\ s.name = n /\ s.workspace = w
    IN  [](k \in sockets /\ ~on => <>(k \notin sockets \/ on))
=============================================================================
