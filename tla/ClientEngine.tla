---------------------------- MODULE ClientEngine ----------------------------
(***************************************************************************)
(* The long-running client (client/src/engine.rs, run_client): it asks     *)
(* every relay that connects for its metadata, keeps the candidates,       *)
(* starts a session over the selected route, and moves packets between the *)
(* TUN device and the session.  Sessions are numbered as they are started; *)
(* 0 is "no session".  The relays appear as what may arrive from them.     *)
(***************************************************************************)
EXTENDS RouteSelection

CONSTANTS
  Mode,          \* route_mode: "OneHop" or "TwoHop"
  Metadata,      \* what relays report: health, status, latency, usable
  MaxConnects,   \* bound: connections established
  MaxSessions,   \* bound: sessions started
  MaxTime        \* bound: the clock

ASSUME EngineAssumption ==
  /\ Mode \in {"OneHop", "TwoHop"}
  /\ Metadata \subseteq [health : DOMAIN HealthRank, status : RelayStatus,
                         latency : Nat, usable : BOOLEAN]
  /\ {MaxConnects, MaxSessions, MaxTime} \subseteq Nat

VARIABLES
  now,
  conns,       \* libp2p: open connections per relay
  connects,    \* bound: connections established so far
  asked,       \* libp2p: metadata requests under way per relay
  candidates,  \* the candidates, in the order they came
  pending,     \* pending_session: its number and route
  started,     \* sessions started
  awaited,     \* libp2p: handshakes whose response may still come
  channel,     \* active_channel, by its session
  sessionId,   \* current_session_id
  route,       \* active_route
  exitPeer,    \* exit_peer, 0 when None
  ready,       \* ClientState.ready, with health and status
  answers,     \* libp2p: sessions with answers to packets under way
  faulty       \* history: a connection has closed, or a request was lost or refused

netVars == <<conns, connects, asked>>
activeVars == <<channel, sessionId, route, exitPeer, ready>>
vars == <<now, netVars, candidates, pending, started, awaited, activeVars, answers, faulty>>

NoSession == [id |-> 0, route |-> <<>>]

Init ==
  /\ now = 0
  /\ conns = [p \in Relay |-> 0] /\ connects = 0
  /\ asked = [p \in Relay |-> 0]
  /\ candidates = <<>>
  /\ pending = NoSession /\ started = 0 /\ awaited = {}
  /\ channel = 0 /\ sessionId = 0 /\ route = <<>> /\ exitPeer = 0 /\ ready = FALSE
  /\ answers = {} /\ faulty = FALSE

-----------------------------------------------------------------------------
\* A relay may be configured under several addresses and be dialled again.
PeerConnected(p) ==
  /\ connects < MaxConnects
  /\ connects' = connects + 1
  /\ conns' = [conns EXCEPT ![p] = @ + 1]
  /\ asked' = [asked EXCEPT ![p] = @ + 1]
  /\ UNCHANGED <<now, candidates, pending, started, awaited, activeVars, answers, faulty>>

\* Variant: a session is started although one is being established.
MayStartAlways == TRUE

MayStart == pending = NoSession

\* Variant: the route is selected before the new candidate is in the list.
RouteWithStale(candidate) == Select(candidates, Mode, now)

RouteWith(candidate) == Select(Append(candidates, candidate), Mode, now)

Candidate(p, metadata, seen) ==
  [peer |-> p, seen |-> seen, health |-> metadata.health, status |-> metadata.status,
   latency |-> metadata.latency, usable |-> metadata.usable]

\* A metadata response: keep the candidate, select, and start a session over
\* the route unless one is pending.  An active one does not matter.
MetadataResponse(p, metadata, seen) ==
  LET candidate == Candidate(p, metadata, seen)
      selected == RouteWith(candidate)
  IN /\ asked[p] > 0
     /\ asked' = [asked EXCEPT ![p] = @ - 1]
     /\ candidates' = IF Accepted(candidate, now) THEN Append(candidates, candidate) ELSE candidates
     /\ IF Accepted(candidate, now) /\ selected # <<>> /\ MayStart
        THEN /\ started < MaxSessions
             /\ started' = started + 1
             /\ awaited' = awaited \cup {started + 1}
             /\ pending' = [id |-> started + 1, route |-> selected]
        ELSE UNCHANGED <<started, awaited, pending>>
     /\ UNCHANGED <<now, conns, connects, activeVars, answers, faulty>>

\* The handshake response, from the first relay of the route.  The initiator
\* is taken whether complete accepts the response or not.
HandshakeResponse ==
  /\ pending.id \in awaited
  /\ conns[pending.route[1]] > 0
  /\ awaited' = awaited \ {pending.id}
  /\ pending' = NoSession
  /\ \/ /\ channel' = pending.id
        /\ sessionId' = pending.id
        /\ route' = pending.route
        /\ exitPeer' = pending.route[Len(pending.route)]
        /\ ready' = TRUE
        /\ UNCHANGED faulty
     \/ faulty' = TRUE /\ UNCHANGED activeVars
  /\ UNCHANGED <<now, netVars, candidates, started, answers>>

\* Variant: only the exit is watched.
EndsRouteExitOnly(p) == p = exitPeer

EndsRoute(p) == p = exitPeer \/ (route # <<>> /\ route[1] = p)

\* Variant: the session is forgotten but its channel is not.
ForgetAllButChannel ==
  /\ sessionId' = 0 /\ route' = <<>> /\ exitPeer' = 0
  /\ ready' = FALSE
  /\ UNCHANGED channel

Forget ==
  /\ channel' = 0 /\ sessionId' = 0 /\ route' = <<>> /\ exitPeer' = 0
  /\ ready' = FALSE

\* One connection has closed.  A pending session is kept.
PeerDisconnected(p) ==
  /\ faulty' = TRUE
  /\ conns[p] > 0
  /\ conns' = [conns EXCEPT ![p] = @ - 1]
  /\ IF EndsRoute(p) THEN Forget ELSE UNCHANGED activeVars
  /\ UNCHANGED <<now, connects, asked, candidates, pending, started, awaited, answers>>

\* A packet of the TUN device goes out over the active session, if there is one.
TunPacket ==
  /\ channel # 0 /\ route # <<>> /\ exitPeer # 0
  /\ answers' = answers \cup {sessionId}
  /\ UNCHANGED <<now, netVars, candidates, pending, started, awaited, activeVars, faulty>>

\* An answer is written to the TUN device if the channel takes it, and dropped
\* otherwise; the engine's own state stays as it is.
ForwardingResponse(s) ==
  /\ answers' = answers \ {s}
  /\ UNCHANGED <<now, netVars, candidates, pending, started, awaited, activeVars, faulty>>

-----------------------------------------------------------------------------
\* translate_event reports no failed request: a handshake that is lost stays
\* pending.
HandshakeLost ==
  /\ faulty' = TRUE
  /\ \E s \in awaited : awaited' = awaited \ {s}
  /\ UNCHANGED <<now, netVars, candidates, pending, started, activeVars, answers>>

MetadataLost(p) ==
  /\ faulty' = TRUE
  /\ asked[p] > 0
  /\ asked' = [asked EXCEPT ![p] = @ - 1]
  /\ UNCHANGED <<now, conns, connects, candidates, pending, started, awaited, activeVars, answers>>

Tick ==
  /\ now < MaxTime
  /\ now' = now + 1
  /\ UNCHANGED <<netVars, candidates, pending, started, awaited, activeVars, answers, faulty>>

MetadataArrives == \E p \in Relay, m \in Metadata, t \in 0 .. now : MetadataResponse(p, m, t)

Next ==
  \/ \E p \in Relay : PeerConnected(p) \/ PeerDisconnected(p) \/ MetadataLost(p)
  \/ MetadataArrives
  \/ HandshakeResponse \/ HandshakeLost
  \/ TunPacket
  \/ \E s \in answers : ForwardingResponse(s)
  \/ Tick

Spec == Init /\ [][Next]_vars

\* Responses that are not lost arrive.
FairSpec == Spec /\ WF_vars(MetadataArrives) /\ WF_vars(HandshakeResponse)

-----------------------------------------------------------------------------
\* The four parts of the active session belong together, and the state shown to
\* the user says so: with a channel there is a session id (the code's expect
\* never fails), a route and its exit, and without one nothing is left of them.
ActiveIsWhole ==
  /\ sessionId = channel
  /\ ready = (channel # 0)
  /\ IF channel = 0 THEN route = <<>> /\ exitPeer = 0
     ELSE route # <<>> /\ exitPeer = route[Len(route)]

\* The client shows itself ready only while it is connected to its first relay.
ReadyMeansConnected == ready => conns[route[1]] > 0

\* Only the newest handshake is waited for: the response to an abandoned one
\* never completes the pending session.
OneHandshakeAtATime == Cardinality(awaited) <= 1 /\ awaited \subseteq {pending.id}

\* A selected route starts at a fastest eligible candidate and goes on to a
\* fastest one of the other relays, although a relay may be in the list several
\* times and with different metadata.
SelectsBest ==
  LET E == EligibleIn(candidates)
      Fastest(p, S) == \E i \in S : /\ candidates[i].peer = p
                                    /\ \A j \in S : candidates[i].latency <= candidates[j].latency
      r == Select(candidates, Mode, now)
  IN r # <<>> => /\ Fastest(r[1], E)
                 /\ Mode = "TwoHop" =>
                      Fastest(r[2], {i \in E : candidates[i].peer # r[1]})

\* A client whose candidates make a route gets its session unless something is
\* lost on the way: the metadata that completes the route starts it, and no
\* other session under way prevents that.
RouteLeadsToSession ==
  Select(candidates, Mode, now) # <<>> ~> (ready \/ faulty)
=============================================================================
