---------------------------- MODULE TwoHopSession ---------------------------
(***************************************************************************)
(* Establishing a two-hop session (session.rs, relay/src/main.rs): a       *)
(* client's HandshakeInit makes the entry open its own session with the    *)
(* exit, and only the exit's answer releases the entry's answer to the     *)
(* client.  Several clients share one entry and one exit; every            *)
(* HandshakeInit makes the entry dial the exit, and every connection that  *)
(* comes up sends one of the inits waiting for it.                         *)
(*                                                                         *)
(* A client session is named by its client; the relay session the entry    *)
(* opens on its behalf has the same name.                                  *)
(***************************************************************************)
EXTENDS Integers, FiniteSets

CONSTANTS
  Client,
  SessionLimit    \* maximum_active_sessions of both relays

ASSUME SessionLimitAssumption == SessionLimit \in Nat \ {0}

VARIABLES
  client,        \* SessionState of each client's initiator
  waiting,       \* libp2p: clients whose request to the entry is still open
  net,           \* messages under way
  entryUp,       \* the entry's event loop has not been left
  entrySeen,     \* the entry's seen_sessions
  entryChannels, \* client sessions with a channel at the entry
  relayChannels, \* relay sessions with a channel at the entry
  pending,       \* pending_relay_handshakes
  first,         \* which of them pending_relay_handshakes.values() yields first
  dials,         \* connections to the exit being set up
  forwarding,    \* client_forwarding
  exitSeen,      \* the exit's seen_sessions
  exitChannels,  \* relay sessions with a channel at the exit
  faulty         \* history: a dial has failed, or a message or connection was lost

entryVars == <<entryUp, entrySeen, entryChannels, relayChannels, pending, first, dials, forwarding>>
exitVars == <<exitSeen, exitChannels>>
vars == <<client, waiting, net, entryVars, exitVars, faulty>>

Msg(kind, c) == [kind |-> kind, session |-> c]
Kinds == {"init", "relayInit", "relayResponse", "response"}
Nobody == "nobody"

Init ==
  /\ client = [c \in Client |-> "Idle"]
  /\ waiting = {} /\ net = {}
  /\ entryUp = TRUE
  /\ entrySeen = {} /\ entryChannels = {} /\ relayChannels = {}
  /\ pending = {} /\ first = Nobody /\ dials = 0
  /\ forwarding = {}
  /\ exitSeen = {} /\ exitChannels = {}
  /\ faulty = FALSE

\* HashMap iteration has no meaningful order, but keeps it while the map is
\* unchanged.
Reordered(map) == first' \in IF map = {} THEN {Nobody} ELSE map

-----------------------------------------------------------------------------
\* SessionInitiator::new and build_init
ClientInit(c) ==
  /\ client[c] = "Idle"
  /\ client' = [client EXCEPT ![c] = "Negotiating"]
  /\ waiting' = waiting \cup {c}
  /\ net' = net \cup {Msg("init", c)}
  /\ UNCHANGED <<entryVars, exitVars, faulty>>

\* Variant: the entry answers its client before it has asked the exit.
EntryAcceptEarly(c) ==
  /\ entryUp
  /\ Msg("init", c) \in net
  /\ c \notin entrySeen
  /\ entrySeen' = entrySeen \cup {c}
  /\ entryChannels' = entryChannels \cup {c}
  /\ pending' = pending \cup {c}
  /\ Reordered(pending')
  /\ dials' = dials + 1
  /\ net' = (net \ {Msg("init", c)}) \cup {Msg("response", c)}
  /\ UNCHANGED <<client, waiting, entryUp, relayChannels, forwarding, exitVars, faulty>>

\* accept_init, admit_session, and the relay handshake that waits for a
\* connection.  Beyond the session limit the request is dropped unanswered.
EntryAccept(c) ==
  /\ entryUp
  /\ Msg("init", c) \in net
  /\ c \notin entrySeen
  /\ net' = net \ {Msg("init", c)}
  /\ entrySeen' = entrySeen \cup {c}
  /\ IF Cardinality(entryChannels) < SessionLimit
     THEN /\ entryChannels' = entryChannels \cup {c}
          /\ pending' = pending \cup {c}
          /\ Reordered(pending')
          /\ dials' = dials + 1
          /\ UNCHANGED waiting
     ELSE /\ waiting' = waiting \ {c}
          /\ UNCHANGED <<entryChannels, pending, first, dials>>
  /\ UNCHANGED <<client, entryUp, relayChannels, forwarding, exitVars, faulty>>

\* Variant: connecting to the exit sends nothing.
SendFirstPendingNothing == net' = net

\* PeerConnected at the entry: the first pending handshake for that exit is
\* sent, the loop then breaks.
SendFirstPending ==
  net' = IF pending = {} THEN net ELSE net \cup {Msg("relayInit", first)}

ExitConnected ==
  /\ entryUp
  /\ dials > 0
  /\ dials' = dials - 1
  /\ SendFirstPending
  /\ UNCHANGED <<client, waiting, entryUp, entrySeen, entryChannels, relayChannels,
                 pending, first, forwarding, exitVars, faulty>>

\* Variant: the exit answers without opening a channel.
ExitAcceptNoChannel(c) ==
  /\ Msg("relayInit", c) \in net
  /\ exitSeen' = exitSeen \cup {c}
  /\ net' = (net \ {Msg("relayInit", c)}) \cup {Msg("relayResponse", c)}
  /\ UNCHANGED <<client, waiting, entryVars, exitChannels, faulty>>

\* The exit answers a one-hop handshake at once.  A session id it has seen, or
\* one beyond its session limit, is dropped unanswered.
ExitAccept(c) ==
  /\ Msg("relayInit", c) \in net
  /\ exitSeen' = exitSeen \cup {c}
  /\ IF c \notin exitSeen /\ Cardinality(exitChannels) < SessionLimit
     THEN /\ exitChannels' = exitChannels \cup {c}
          /\ net' = (net \ {Msg("relayInit", c)}) \cup {Msg("relayResponse", c)}
     ELSE /\ net' = net \ {Msg("relayInit", c)}
          /\ UNCHANGED exitChannels
  /\ UNCHANGED <<client, waiting, entryVars, faulty>>

\* complete, the relay channel, the forwarding context, and the response held
\* back for the client.  respond_to_discovery fails when the client's request
\* is no longer open, and that error ends the entry's loop.
EntryComplete(c) ==
  /\ entryUp
  /\ Msg("relayResponse", c) \in net
  /\ IF c \in pending
     THEN /\ pending' = pending \ {c}
          /\ IF first = c THEN Reordered(pending') ELSE UNCHANGED first
          /\ relayChannels' = relayChannels \cup {c}
          /\ forwarding' = forwarding \cup {c}
          /\ entryUp' = (c \in waiting)
          /\ net' = (net \ {Msg("relayResponse", c)}) \cup
                    (IF c \in waiting THEN {Msg("response", c)} ELSE {})
     ELSE /\ net' = net \ {Msg("relayResponse", c)}
          /\ UNCHANGED <<pending, first, relayChannels, forwarding, entryUp>>
  /\ UNCHANGED <<client, waiting, entrySeen, entryChannels, dials, exitVars, faulty>>

ClientComplete(c) ==
  /\ Msg("response", c) \in net
  /\ net' = net \ {Msg("response", c)}
  /\ waiting' = waiting \ {c}
  /\ client' = [client EXCEPT ![c] = IF @ = "Negotiating" THEN "Established" ELSE @]
  /\ UNCHANGED <<entryVars, exitVars, faulty>>

-----------------------------------------------------------------------------
(* Faults of the network: none of them is reported to the handlers above. *)

DialFails ==
  /\ faulty' = TRUE
  /\ dials > 0
  /\ dials' = dials - 1
  /\ UNCHANGED <<client, waiting, net, entryUp, entrySeen, entryChannels, relayChannels,
                 pending, first, forwarding, exitVars>>

\* A connection to the exit the handshakes did not ask for, such as one the
\* exit dials after the previous one broke.
ExitReconnects ==
  /\ faulty' = TRUE
  /\ entryUp
  /\ SendFirstPending
  /\ UNCHANGED <<client, waiting, entryVars, exitVars>>

Lose(m) ==
  /\ faulty' = TRUE
  /\ net' = net \ {m}
  /\ UNCHANGED <<client, waiting, entryVars, exitVars>>

\* The client's request times out or its connection closes.
ClientGivesUp(c) ==
  /\ faulty' = TRUE
  /\ c \in waiting
  /\ waiting' = waiting \ {c}
  /\ net' = net \ {Msg("init", c), Msg("response", c)}
  /\ UNCHANGED <<client, entryVars, exitVars>>

Next ==
  \/ \E c \in Client : \/ ClientInit(c) \/ EntryAccept(c) \/ ExitAccept(c)
                       \/ EntryComplete(c) \/ ClientComplete(c) \/ ClientGivesUp(c)
  \/ ExitConnected \/ DialFails \/ ExitReconnects
  \/ \E m \in net : Lose(m)

Spec == Init /\ [][Next]_vars

\* Both relays keep handling what arrives; dials come to an end.
Fairness ==
  /\ WF_vars(ExitConnected)
  /\ \A c \in Client : WF_vars(EntryAccept(c)) /\ WF_vars(ExitAccept(c))
                       /\ WF_vars(EntryComplete(c)) /\ WF_vars(ClientComplete(c))

FairSpec == Spec /\ Fairness

-----------------------------------------------------------------------------
\* A client that considers its session established has a path to the exit: the
\* entry has both channels and a forwarding context for it, and the exit has
\* the other end of the relay session.
EstablishedEndToEnd ==
  \A c \in Client : client[c] = "Established" =>
    c \in entryChannels \cap relayChannels \cap forwarding \cap exitChannels

\* The two ends of the relay session never disagree about which sessions are
\* up: the entry has one only if the exit has, and a handshake still pending
\* has no forwarding context yet.
RelaySessionsAgree ==
  /\ relayChannels \subseteq exitChannels
  /\ forwarding = relayChannels
  /\ pending \cap forwarding = {}

\* Whoever contends for the session slots and the one handshake a connection
\* sends, some client gets its session unless something is lost on the way.
SomeoneIsServed ==
  (\E c \in Client : client[c] = "Negotiating")
    ~> (faulty \/ \E c \in Client : client[c] = "Established")

\* docs/deployment.md: unreachable peers do not stop an otherwise valid relay.
EntryKeepsRunning == entryUp
=============================================================================
