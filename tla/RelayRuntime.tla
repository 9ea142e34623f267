---------------------------- MODULE RelayRuntime ----------------------------
(***************************************************************************)
(* One relay process around its data path: RelayCore's lifecycle and       *)
(* admission (core.rs), RelayState and RelayHealth (state.rs, health.rs),  *)
(* the heartbeat, the health signals its HTTP thread serves, and the       *)
(* shutdown branch of the event loop (main.rs).  An action is one turn of  *)
(* the single-threaded loop.  An error that a handler passes on with `?'   *)
(* leaves the loop and ends the process.                                   *)
(***************************************************************************)
EXTENDS Integers, FiniteSets, Sequences, SequencesExt

CONSTANTS
  Peer, Session, Flow,
  MaxPeers, MaxSessions, MaxFlows,  \* RelayResourceLimits
  MaxSamples,    \* MAX_LATENCY_SAMPLES
  Freshness,     \* heartbeat_freshness, in clock ticks
  MaxConns       \* bound: simultaneous connections explored per peer

ASSUME RelayLimitAssumption ==
  {MaxPeers, MaxSessions, MaxFlows, MaxSamples, Freshness, MaxConns} \subseteq Nat \ {0}

VARIABLES
  running,    \* the event loop has not been left
  lifecycle,  \* RelayLifecycle
  peers, sessions, flows,  \* the three admission sets of RelayCore
  seen,       \* SessionResponder's seen_sessions
  conns,      \* libp2p: open connections per peer
  active,     \* RelayState::active_peers
  connected,  \* total_successful_connections > 0
  status,     \* RelayStatus
  samples,    \* latency_measurements
  age,        \* time since last_heartbeat, Never before the first
  ready, healthy, alive    \* HealthSignals

coreVars == <<lifecycle, peers, sessions, flows, seen>>
stateVars == <<active, connected, status, samples, age>>
signals == <<ready, healthy, alive>>
relayVars == <<running, coreVars, conns, stateVars, signals>>

Never == -1

RelayInit ==
  /\ running = TRUE
  /\ lifecycle = "Starting"
  /\ peers = {} /\ sessions = {} /\ flows = {} /\ seen = {}
  /\ conns = [p \in Peer |-> 0]
  /\ active = {} /\ connected = FALSE
  /\ status = "Starting"
  /\ samples = <<>>
  /\ age = Never
  /\ ready = FALSE /\ healthy = FALSE /\ alive = TRUE

-----------------------------------------------------------------------------
(* Network events: apply_network_event, then the loop's own match. *)

\* The two transitions Starting -> Discovering -> Ready are one turn of the loop.
Listening ==
  /\ running
  /\ status' = "Online"
  /\ IF lifecycle = "Starting"
     THEN lifecycle' = "Ready" /\ ready' = TRUE /\ healthy' = TRUE
     ELSE UNCHANGED <<lifecycle, ready, healthy>>
  /\ UNCHANGED <<running, peers, sessions, flows, seen, conns, active, connected,
                 samples, age, alive>>

\* Variant: admission does not ask for the lifecycle.
AdmitsPeerEarly(p) == p \in peers \/ Cardinality(peers) < MaxPeers

\* admit_peer
AdmitsPeer(p) == p \in peers \/ (lifecycle = "Ready" /\ Cardinality(peers) < MaxPeers)

\* A peer beyond the limit is only counted and logged: it stays connected.
PeerConnected(p) ==
  /\ running
  /\ conns[p] < MaxConns
  /\ conns' = [conns EXCEPT ![p] = @ + 1]
  /\ active' = active \cup {p}
  /\ connected' = TRUE
  /\ status' = "Online"
  /\ peers' = IF AdmitsPeer(p) THEN peers \cup {p} ELSE peers
  /\ UNCHANGED <<running, lifecycle, sessions, flows, seen, samples, age,
                 signals>>

\* Variant: the core keeps a peer that has disconnected.
PeerDisconnectedKept(p) ==
  /\ running
  /\ conns[p] > 0
  /\ conns' = [conns EXCEPT ![p] = @ - 1]
  /\ active' = active \ {p}
  /\ UNCHANGED <<running, coreVars, connected, status, samples, age, signals>>

\* translate_event reports every closed connection, also when the peer has
\* another one open.
PeerDisconnected(p) ==
  /\ running
  /\ conns[p] > 0
  /\ conns' = [conns EXCEPT ![p] = @ - 1]
  /\ active' = active \ {p}
  /\ peers' = peers \ {p}
  /\ UNCHANGED <<running, lifecycle, sessions, flows, seen, connected, status,
                 samples, age, signals>>

\* record_latency: a bounded window of round trips, below or above
\* degraded_latency, or failures.
PingResult(p, result) ==
  /\ running
  /\ conns[p] > 0
  /\ samples' = Append(IF Len(samples) = MaxSamples THEN Tail(samples) ELSE samples, result)
  /\ UNCHANGED <<running, coreVars, conns, active, connected, status, age,
                 signals>>

-----------------------------------------------------------------------------
(* Admission of sessions and flows *)

\* accept_init refuses a session id it has seen, and remembers the new one
\* before the core is asked.
FreshInit(s) == s \notin seen

HandshakeInit(s) ==
  /\ running
  /\ \E p \in Peer : conns[p] > 0
  /\ FreshInit(s)
  /\ seen' = seen \cup {s}
  /\ sessions' = IF lifecycle = "Ready" /\ Cardinality(sessions) < MaxSessions
                 THEN sessions \cup {s} ELSE sessions
  /\ UNCHANGED <<running, lifecycle, peers, flows, conns, stateVars, signals>>

\* A forwarding message that reaches admit_flow, over the channel of an admitted
\* session: a known flow passes, a new one needs room, and the refusal is an
\* error of the loop.
ForwardFlow(f) ==
  /\ running
  /\ sessions # {}
  /\ IF f \in flows \/ Cardinality(flows) < MaxFlows
     THEN flows' = flows \cup {f} /\ running' = TRUE
     ELSE running' = FALSE /\ UNCHANGED flows
  /\ UNCHANGED <<lifecycle, peers, sessions, seen, conns, stateVars, signals>>

-----------------------------------------------------------------------------
(* Health *)

\* filter_map(round_trip).last(): the latest successful sample in the window.
Latency ==
  LET ok == SelectSeq(samples, LAMBDA r : r # "failed")
  IN IF ok = <<>> THEN "none" ELSE Last(ok)

Stale == age > Freshness

Isolated == active = {} /\ connected

\* Variant: a relay that has lost all its peers is not noticed.
EvaluateConnectivityBlind ==
  IF status \in {"Offline", "ShuttingDown"} \/ Stale THEN "Unhealthy"
  ELSE IF Latency = "slow" \/ status = "Degraded" THEN "Degraded"
  ELSE "Healthy"

\* RelayHealth::evaluate
Evaluate ==
  IF status \in {"Offline", "ShuttingDown"} \/ Stale \/ Isolated THEN "Unhealthy"
  ELSE IF Latency = "slow" \/ status = "Degraded" THEN "Degraded"
  ELSE "Healthy"

\* Variant: a relay that lost all its peers stays Offline for good.
StatusOfSticky(c) ==
  IF connected THEN "Offline"
  ELSE CASE c = "Healthy" -> "Online" [] c = "Degraded" -> "Degraded" [] c = "Unhealthy" -> "Offline"

StatusOf(c) ==
  CASE c = "Healthy" -> "Online" [] c = "Degraded" -> "Degraded" [] c = "Unhealthy" -> "Offline"

\* The timer branch evaluates, then writes the class back into the status the
\* next evaluation reads, and marks the heartbeat last.
Heartbeat ==
  /\ running
  /\ status' = StatusOf(Evaluate)
  /\ healthy' = (Evaluate # "Unhealthy")
  /\ age' = 0
  /\ UNCHANGED <<running, coreVars, conns, active, connected, samples, ready, alive>>

\* A loop that is late for its timer lets the heartbeat go stale.
Tick ==
  /\ running
  /\ age # Never
  /\ age <= Freshness
  /\ age' = age + 1
  /\ UNCHANGED <<running, coreVars, conns, active, connected, status, samples,
                 signals>>

-----------------------------------------------------------------------------
\* Draining, ShuttingDown and Stopped follow each other in one turn.  From
\* Starting the transition to ShuttingDown is invalid and its error ends the
\* loop before anything else is done.
Shutdown ==
  /\ running
  /\ running' = FALSE
  /\ IF lifecycle = "Ready"
     THEN /\ lifecycle' = "Stopped"
          /\ status' = "ShuttingDown"
          /\ ready' = FALSE /\ healthy' = FALSE /\ alive' = FALSE
     ELSE UNCHANGED <<lifecycle, status, signals>>
  /\ UNCHANGED <<peers, sessions, flows, seen, conns, active, connected, samples, age>>

RelayNext ==
  \/ Listening \/ Heartbeat \/ Tick \/ Shutdown
  \/ \E p \in Peer : PeerConnected(p) \/ PeerDisconnected(p)
  \/ \E p \in Peer, r \in {"fast", "slow", "failed"} : PingResult(p, r)
  \/ \E s \in Session : HandshakeInit(s)
  \/ \E f \in Flow : ForwardFlow(f)

RelaySpec == RelayInit /\ [][RelayNext]_relayVars

\* The interval timer keeps firing while the loop runs.
RelayFairSpec == RelaySpec /\ WF_relayVars(Heartbeat)

-----------------------------------------------------------------------------
\* The core never counts a peer that RelayState does not: the two copies of
\* the peer set are updated by different branches of the same event.
AdmittedAreActive == peers \subseteq active

\* A relay that is told to stop before it listens leaves the loop with an error
\* and cleans nothing up; there is nothing to clean, since neither peers nor
\* sessions nor flows were admitted and readiness was never signalled.
EarlyStopLeavesNothing ==
  ~running /\ lifecycle = "Starting" => peers \cup sessions \cup flows = {} /\ ~ready

\* A relay that stays without peers after having had some ends up reported
\* unhealthy for good.
IsolationIsReported == <>[](running /\ Isolated) => <>[](~running \/ ~healthy)

\* A relay whose loop is never late for its timer and that stays connected ends
\* up healthy, also after it had lost all its peers.
ConnectedRecovers ==
  []~Stale /\ <>[](running /\ active # {}) => <>[](~running \/ healthy)
=============================================================================
