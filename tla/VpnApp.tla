------------------------------- MODULE VpnApp -------------------------------
(***************************************************************************)
(* The Android application: the Flutter screen and its backend bridge      *)
(* (main.dart, backend_bridge.dart), the activity and the VPN service      *)
(* (MainActivity.kt, RealLayerVpnService.kt) and the native core with its  *)
(* threads (client/src/lib.rs).  Descriptors are numbers of one process:   *)
(* the service owns the one establish() returned, the core duplicates it   *)
(* in a thread of its own, and a closed number is handed out again.  The   *)
(* screen asks the health endpoint of the emulator's host, whatever is     *)
(* listening there.                                                        *)
(***************************************************************************)
EXTENDS NodeConfig

CONSTANTS
  MaxConnects,   \* bound: taps on Connect
  MaxPolls       \* bound: status requests in flight

ASSUME AppBoundAssumption == {MaxConnects, MaxPolls} \subseteq Nat \ {0}

VARIABLES
  ui,                \* _connectionState
  userDisconnected,  \* _userDisconnected
  connects,          \* taps on Connect so far
  awaiting,          \* tap handlers waiting for startVpn to return
  connecting,        \* the bridge's _connecting
  polls,             \* status requests answered and not yet applied
  byConnect,         \* history: the outcome of connect() set ui last
  dialog,            \* the VPN permission dialog is open
  prepared,          \* VpnService.prepare() returns null
  intents,           \* intents on their way to the service
  starting,          \* the interface startVpn has established but not passed on
  tun,               \* tunInterface, a descriptor, or None
  established,       \* interfaces established so far
  open,              \* open descriptor -> interface and owner
  running,           \* RUNNING
  core,              \* the core threads, in the order of their start
  logging,           \* the global subscriber of init_logging is set
  leaked             \* history: a dup failed after the other one succeeded

screenVars == <<ui, userDisconnected, connects, awaiting, connecting, polls, byConnect>>
serviceVars == <<dialog, prepared, intents, starting, tun, established>>
coreVars == <<running, core, logging, leaked>>
vars == <<screenVars, serviceVars, open, coreVars>>

None == 0

Init ==
  /\ ui = "disconnected" /\ userDisconnected = TRUE /\ byConnect = FALSE
  /\ connects = 0 /\ awaiting = 0
  /\ connecting = FALSE /\ polls = <<>>
  /\ dialog = FALSE /\ prepared = FALSE
  /\ intents = <<>> /\ starting = None /\ tun = None /\ established = 0
  /\ open = [fd \in {} |-> {}]
  /\ running = FALSE /\ core = <<>> /\ logging = FALSE /\ leaked = FALSE

-----------------------------------------------------------------------------
(* What the bridge makes of an answer: fetchStatus, fromJson and uiState.  *)

Reply(alive, ready, health, status) ==
  [alive |-> alive, ready |-> ready, health |-> health, status |-> status]

\* What may come back from port 8082 of the host, "" for a field that is not
\* there: a relay's /health, /ready or /live, whichever request is the first that
\* is answered in time; a client's state, served as it was created; or nothing.
RelayReplies == {Reply(FALSE, FALSE, "healthy", ""), Reply(FALSE, FALSE, "unhealthy", ""),
                 Reply(FALSE, TRUE, "", ""), Reply(TRUE, FALSE, "", "")}

ClientReply == Reply(TRUE, FALSE, "unhealthy", "disconnected")

NoReply == Reply(FALSE, FALSE, "unavailable", "disconnected")

Replies == RelayReplies \cup {ClientReply, NoReply}

FromJson(json) ==
  LET healthy == json.health = "healthy" \/ json.ready
      alive == json.alive \/ healthy
  IN [alive |-> alive, ready |-> json.ready,
      healthy |-> json.health = "healthy" \/ (json.health = "" /\ healthy),
      status |-> IF json.status # "" THEN json.status
                 ELSE IF healthy THEN "connected"
                 ELSE IF alive THEN "disconnected" ELSE "unavailable"]

UiState(s) ==
  IF s.status \in {"disconnecting", "disconnected", "connecting"} THEN s.status
  ELSE IF s.ready \/ s.healthy \/ s.alive THEN "connected" ELSE "disconnected"

-----------------------------------------------------------------------------
(* The screen.                                                             *)

Shows(state, byConnecting) == ui' = state /\ byConnect' = byConnecting

\* The activity starts the service, or asks for permission first.
InvokeStartVpn ==
  IF prepared THEN intents' = Append(intents, "START") /\ UNCHANGED dialog
              ELSE dialog' = TRUE /\ UNCHANGED intents

\* Nobody taps the button behind the permission dialog.
TapConnect ==
  /\ connects < MaxConnects /\ ~dialog
  /\ ui \in {"disconnected", "error"}
  /\ connects' = connects + 1
  /\ userDisconnected' = FALSE
  /\ Shows("connecting", FALSE)
  /\ awaiting' = awaiting + 1
  /\ InvokeStartVpn
  /\ UNCHANGED <<connecting, polls, prepared, starting, tun, established,
                 open, coreVars>>

\* startVpn has returned; connect() refuses to run twice.
BridgeConnect ==
  /\ awaiting > 0
  /\ awaiting' = awaiting - 1
  /\ connecting' = TRUE
  /\ IF connecting THEN Shows("error", TRUE) ELSE UNCHANGED <<ui, byConnect>>
  /\ UNCHANGED <<userDisconnected, connects, polls, serviceVars, open, coreVars>>

\* connect() has seen a ready backend, or given up; the handler shows the
\* outcome whatever was tapped meanwhile.
ConnectEnds ==
  /\ connecting
  /\ connecting' = FALSE
  /\ \E json \in Replies :
       LET status == FromJson(json)
       IN Shows(IF status.ready /\ status.healthy THEN UiState(status) ELSE "error", TRUE)
  /\ UNCHANGED <<userDisconnected, connects, awaiting, polls, serviceVars, open,
                 coreVars>>

\* Variant: the VPN service is not told.
TapDisconnectBridgeOnly ==
  /\ ui = "connected" /\ ~dialog
  /\ userDisconnected' = TRUE
  /\ Shows("disconnecting", FALSE)
  /\ UNCHANGED <<connects, awaiting, connecting, polls, serviceVars, open, coreVars>>

TapDisconnect ==
  /\ ui = "connected" /\ ~dialog
  /\ userDisconnected' = TRUE
  /\ Shows("disconnecting", FALSE)
  /\ intents' = Append(intents, "STOP")
  /\ UNCHANGED <<connects, awaiting, connecting, polls, dialog, prepared, starting, tun,
                 established, open, coreVars>>

\* A status request is answered: the timer's, or the one the disconnect handler
\* sends after stopVpn (the bridge has no process to kill on Android).
PollAnswered ==
  /\ Len(polls) < MaxPolls
  /\ \E json \in Replies : polls' = Append(polls, UiState(FromJson(json)))
  /\ UNCHANGED <<ui, byConnect, userDisconnected, connects, awaiting, connecting,
                 serviceVars, open, coreVars>>

\* Variant: the user's wish is not looked at.
PollShowsAnyway(state) == Shows(state, FALSE)

PollShows(state) ==
  IF userDisconnected /\ state = "connected" THEN Shows("disconnected", FALSE)
                                             ELSE Shows(state, FALSE)

\* Answers come back in any order.
PollApplied(i) ==
  /\ PollShows(polls[i])
  /\ polls' = [j \in 1 .. Len(polls) - 1 |-> polls[IF j < i THEN j ELSE j + 1]]
  /\ UNCHANGED <<userDisconnected, connects, awaiting, connecting, serviceVars,
                 open, coreVars>>

-----------------------------------------------------------------------------
(* The activity and the service.                                           *)

DialogAnswered ==
  /\ dialog
  /\ dialog' = FALSE
  /\ \/ prepared' = TRUE /\ intents' = Append(intents, "START")
     \/ UNCHANGED <<prepared, intents>>
  /\ UNCHANGED <<screenVars, starting, tun, established, open, coreVars>>

\* The operating system hands out the lowest descriptor that is free.
LowestFree(fds) ==
  CHOOSE fd \in 1 .. Cardinality(fds) + 1 : fd \notin fds /\ \A x \in 1 .. fd - 1 : x \in fds

Lowest == LowestFree(DOMAIN open)

Opened(fd, t, owner) ==
  [x \in DOMAIN open \cup {fd} |-> IF x = fd THEN [tun |-> t, owner |-> owner] ELSE open[x]]

Closed(fds) == [x \in DOMAIN open \ fds |-> open[x]]

\* startVpn up to establish(), which fails without permission.  tunInterface is
\* overwritten: an earlier interface is left to the garbage collector.
Establish ==
  /\ intents # <<>> /\ Head(intents) = "START"
  /\ starting = None
  /\ intents' = Tail(intents)
  /\ IF prepared
     THEN /\ open' = Opened(Lowest, established + 1, "service")
          /\ tun' = Lowest /\ starting' = Lowest
          /\ established' = established + 1
     ELSE tun' = None /\ UNCHANGED <<open, starting, established>>
  /\ UNCHANGED <<screenVars, dialog, prepared, coreVars>>

\* startCore(fd): a core that is running keeps running and the
\* new interface is not read.
StartCore ==
  /\ starting # None
  /\ starting' = None
  /\ IF running THEN UNCHANGED <<running, core>>
     ELSE /\ running' = TRUE
          /\ core' = Append(core, [phase |-> "spawned", fd |-> starting,
                                   read |-> None, write |-> None])
  /\ UNCHANGED <<screenVars, dialog, prepared, intents, tun, established, open,
                 logging, leaked>>

\* stopVpn
StopsCore ==
  /\ running' = FALSE
  /\ open' = Closed({tun})
  /\ tun' = None
  /\ UNCHANGED <<core, logging, leaked>>

ServiceStop ==
  /\ intents # <<>> /\ Head(intents) = "STOP"
  /\ starting = None
  /\ intents' = Tail(intents)
  /\ StopsCore
  /\ UNCHANGED <<screenVars, dialog, prepared, starting, established>>

\* onRevoke comes on a thread of its own, also in the middle of startVpn.
Revoke ==
  /\ prepared /\ tun # None
  /\ prepared' = FALSE
  /\ StopsCore
  /\ UNCHANGED <<screenVars, dialog, intents, starting, established>>

\* A ParcelFileDescriptor nobody refers to is closed by its finalizer.
Collect ==
  /\ \E fd \in DOMAIN open : /\ open[fd].owner = "service" /\ fd \notin {tun, starting}
                             /\ open' = Closed({fd})
  /\ UNCHANGED <<screenVars, serviceVars, coreVars>>

-----------------------------------------------------------------------------
(* The native core.                                                        *)

SecondLowest == LowestFree(DOMAIN open \cup {Lowest})

Runs(c, phase, read, write) ==
  core' = [core EXCEPT ![c] = [@ EXCEPT !.phase = phase, !.read = read, !.write = write]]

\* Variant: the core takes the service's descriptor for its own.
DuplicateNot(c) ==
  /\ core[c].phase = "spawned"
  /\ core[c].fd \in DOMAIN open
  /\ Runs(c, "ready", core[c].fd, None)
  /\ UNCHANGED <<screenVars, serviceVars, open, running, logging, leaked>>

\* The core thread duplicates the number it was given, by now perhaps closed or
\* handed out again, and starts the reader and the writer.
Duplicate(c) ==
  /\ core[c].phase = "spawned"
  /\ core[c].fd \in DOMAIN open
  /\ LET t == open[core[c].fd].tun
     IN open' = [x \in DOMAIN open \cup {Lowest, SecondLowest} |->
                   IF x \in DOMAIN open THEN open[x] ELSE [tun |-> t, owner |-> "core"]]
  /\ Runs(c, "ready", Lowest, SecondLowest)
  /\ UNCHANGED <<screenVars, serviceVars, running, logging, leaked>>

\* The descriptor is closed, or the process has none left: if only the second
\* dup fails, nobody closes the first.  RUNNING stays set.
DuplicateFails(c) ==
  /\ core[c].phase = "spawned"
  /\ Runs(c, "failed", None, None)
  /\ IF core[c].fd \in DOMAIN open
     THEN /\ open' = Opened(Lowest, open[core[c].fd].tun, "nobody")
          /\ leaked' = TRUE
     ELSE UNCHANGED <<open, leaked>>
  /\ UNCHANGED <<screenVars, serviceVars, running, logging>>

\* The environment the core sets for run_client.
AndroidEnv ==
  [LISTEN_ADDRESS |-> "quic-public", ADVERTISED_ADDRESS |-> "quic-public",
   NETWORK_ENVIRONMENT |-> "development", RELAY_ROLE |-> "client", LOG_LEVEL |-> "info",
   BOOTSTRAP_PEERS |-> <<[text |-> "host", form |-> "p2p"]>>,
   CONNECTION_TIMEOUT_SECS |-> 30, HEARTBEAT_INTERVAL_SECS |-> 10,
   HEARTBEAT_FRESHNESS_SECS |-> 60, DEGRADED_LATENCY_MS |-> 500,
   ROUTE_MODE |-> "one-hop"]

\* Setting the global subscriber panics the second time in a process.
InitLogging == ~logging

\* run_client sets up logging and reads its configuration; a core that gets past
\* them is ClientEngine's.
RunClient(c) ==
  /\ core[c].phase = "ready"
  /\ logging' = TRUE
  /\ Runs(c, IF InitLogging /\ Accepted(AndroidEnv) THEN "running" ELSE "ended",
          core[c].read, core[c].write)
  /\ UNCHANGED <<screenVars, serviceVars, open, running, leaked>>

\* The reader leaves its loop when RUNNING is cleared or a read fails.
ReaderEnds(c) ==
  /\ core[c].read # None
  /\ open' = Closed({core[c].read})
  /\ Runs(c, core[c].phase, None, core[c].write)
  /\ UNCHANGED <<screenVars, serviceVars, running, logging, leaked>>

ReaderStops(c) == ~running /\ ReaderEnds(c)

\* The writer ends when run_client has dropped its side of the queue.
WriterEnds(c) ==
  /\ core[c].write # None
  /\ core[c].phase = "ended"
  /\ open' = Closed({core[c].write})
  /\ Runs(c, "ended", core[c].read, None)
  /\ UNCHANGED <<screenVars, serviceVars, running, logging, leaked>>

CoreStep(c) == Duplicate(c) \/ DuplicateFails(c) \/ RunClient(c) \/ WriterEnds(c)

Next ==
  \/ TapConnect \/ TapDisconnect \/ BridgeConnect \/ ConnectEnds \/ PollAnswered
  \/ \E i \in DOMAIN polls : PollApplied(i)
  \/ DialogAnswered \/ Establish \/ StartCore \/ ServiceStop \/ Revoke \/ Collect
  \/ \E c \in DOMAIN core : CoreStep(c) \/ ReaderEnds(c)

Spec == Init /\ [][Next]_vars

\* Intents are delivered, threads run, and what is garbage is collected; nobody
\* has to tap, and reads need not fail.
FairSpec ==
  /\ Spec
  /\ WF_vars(BridgeConnect) /\ WF_vars(Establish) /\ WF_vars(StartCore)
  /\ WF_vars(ServiceStop) /\ WF_vars(Collect)
  /\ \A c \in 1 .. MaxConnects : /\ WF_vars(c \in DOMAIN core /\ CoreStep(c))
                               /\ WF_vars(c \in DOMAIN core /\ ReaderStops(c))

-----------------------------------------------------------------------------
\* Rust never closes the descriptor that Android owns (the comment at the dup
\* calls): while the service holds an interface its descriptor is open and is
\* the service's, whatever the threads of this and of earlier cores close.
AndroidKeepsItsDescriptor ==
  tun # None => tun \in DOMAIN open /\ open[tun].owner = "service"

\* A user who has disconnected, or not connected yet, is not shown as connected
\* by polling alone (_refreshBackendStatus), also when the answer was asked for
\* earlier.
DisconnectSticks == userDisconnected /\ ui = "connected" => byConnect

\* When the user has disconnected for good, the tunnel goes away: the STOP is
\* delivered after every START, and no reader, writer or forgotten interface
\* keeps the device up, unless a failed dup has leaked a descriptor.
DisconnectReleasesTun ==
  <>[]userDisconnected => <>[](leaked \/ open = [fd \in {} |-> {}])

\* README.md, step 4: tapping Connect spawns the Rust client.  A core that has
\* its descriptors gets its client running.
ClientComesUp ==
  \A c \in 1 .. MaxConnects :
    (c \in DOMAIN core /\ core[c].phase = "ready")
      ~> (c \in DOMAIN core /\ core[c].phase = "running")
=============================================================================
