----------------------------- MODULE NodeConfig -----------------------------
(***************************************************************************)
(* How a node reads its environment variables (network/src/config.rs).     *)
(* An environment is a function from the variables that are set to their   *)
(* values.  Values are abstract: a switch is "true", "false" or another    *)
(* string; a number that does not parse is Malformed; a socket address is  *)
(* a member of Dest whose kind is what the parsers look at; a multiaddr is *)
(* represented by the class the production checks tell apart.              *)
(* NodeConfig::from_map succeeds exactly for the environments Accepted.    *)
(***************************************************************************)
EXTENDS Integers, Sequences, FiniteSets

CONSTANTS
  Dest,    \* socket addresses that occur in the environment and in requests
  KindOf   \* what an address is: see Kinds

Kinds == {"unicast", "multicast", "unspecified", "zeroPort"}

ASSUME DestAssumption == KindOf \in [Dest -> Kinds]

Malformed == -1

\* optional(): a variable that is set to blank counts as absent.
Given(env, key) == key \in DOMAIN env

Value(env, key, default) == IF Given(env, key) THEN env[key] ELSE default

Switches == {"TUN_ENABLED", "NAT_ENABLED", "DNS_ENABLED", "UDP_ENABLED",
             "OS_ROUTING_ENABLED", "VPN_MODE"}

On(env, switch) == Value(env, switch, "false") = "true"

\* The numeric variables with their defaults, durations in their own units.
Default ==
  [CONNECTION_TIMEOUT_SECS  |-> 10,   HEARTBEAT_INTERVAL_SECS |-> 10,
   HEARTBEAT_FRESHNESS_SECS |-> 30,   DEGRADED_LATENCY_MS     |-> 500,
   TUN_MTU                  |-> 1500, TUN_MAXIMUM_PACKET_SIZE |-> 1500,
   TUN_READ_BUFFER_LIMIT    |-> 16,   TUN_WRITE_BUFFER_LIMIT  |-> 16,
   DNS_TIMEOUT_MS           |-> 1000, MAX_CONNECTED_PEERS     |-> 128,
   MAX_ACTIVE_SESSIONS      |-> 256,  MAX_ACTIVE_FLOWS        |-> 256,
   MAX_QUEUED_PACKETS       |-> 1024, MAX_EXIT_CONNECTIONS    |-> 64,
   SESSION_TIMEOUT_SECS     |-> 300,  FLOW_TIMEOUT_SECS       |-> 60]

Number(env, key) == Value(env, key, Default[key])

AllowedDestinations(env) == Value(env, "ALLOWED_EXIT_DESTINATIONS", {})

Routes(env) == Value(env, "OS_ROUTES", {})

BootstrapPeers(env) == Value(env, "BOOTSTRAP_PEERS", << >>)

RouteMode(env) == Value(env, "ROUTE_MODE", "one-hop")

NetworkEnvironment(env) == Value(env, "NETWORK_ENVIRONMENT", "development")

Role(env) == Value(env, "RELAY_ROLE", "both")

LogLevel(env) == Value(env, "LOG_LEVEL", "info")

RouteModes == {"one-hop", "two-hop"}

LogLevels == {"error", "warn", "info", "debug", "trace"}

NetworkEnvironments == {"development", "staging", "production"}

RelayRoles == {"entry", "exit", "both"}

-----------------------------------------------------------------------------
(* The parsers of single variables.                                        *)

SwitchesParse(env) == \A s \in Switches : Value(env, s, "false") \in {"true", "false"}

NumbersParse(env) == \A key \in DOMAIN Default : Number(env, key) # Malformed

ModesParse(env) ==
  /\ RouteMode(env) \in RouteModes
  /\ NetworkEnvironment(env) \in NetworkEnvironments
  /\ LogLevel(env) \in LogLevels
  /\ Role(env) \in RelayRoles

\* An allowed destination may be unspecified: only its port is looked at.
AllowedParse(env) == \A d \in AllowedDestinations(env) : KindOf[d] # "zeroPort"

ExternalParses(env) ==
  Given(env, "EXTERNAL_TEST_DESTINATION") =>
    KindOf[env["EXTERNAL_TEST_DESTINATION"]] \notin {"zeroPort", "unspecified"}

DnsServerParses(env) ==
  Given(env, "DNS_SERVER") => KindOf[env["DNS_SERVER"]] \notin {"zeroPort", "unspecified"}

\* Any address with a port will do for the health endpoint.
HealthAddressParses(env) ==
  Given(env, "HEALTH_LISTEN_ADDRESS") => KindOf[env["HEALTH_LISTEN_ADDRESS"]] # "zeroPort"

\* Routes are IPv6 prefix lengths here: a prefix is not a default route.
IsPrefix(length) == length \in 1 .. 128

RoutesParse(env) == \A length \in Routes(env) : IsPrefix(length)

Parses(env) ==
  /\ Given(env, "LISTEN_ADDRESS")
  /\ SwitchesParse(env) /\ NumbersParse(env) /\ ModesParse(env)
  /\ AllowedParse(env) /\ ExternalParses(env) /\ DnsServerParses(env)
  /\ HealthAddressParses(env) /\ RoutesParse(env)

-----------------------------------------------------------------------------
(* The checks across variables.                                            *)

TunValid(env) ==
  /\ Number(env, "TUN_MTU") \in 1 .. 65535
  /\ Number(env, "TUN_MAXIMUM_PACKET_SIZE") \in 1 .. Number(env, "TUN_MTU")
  /\ Number(env, "TUN_READ_BUFFER_LIMIT") > 0
  /\ Number(env, "TUN_WRITE_BUFFER_LIMIT") > 0

LimitsValid(env) ==
  \A key \in {"MAX_CONNECTED_PEERS", "MAX_ACTIVE_SESSIONS", "MAX_ACTIVE_FLOWS",
              "MAX_QUEUED_PACKETS", "MAX_EXIT_CONNECTIONS",
              "SESSION_TIMEOUT_SECS", "FLOW_TIMEOUT_SECS"} : Number(env, key) > 0

ExternalIsAllowed(env) ==
  Given(env, "EXTERNAL_TEST_DESTINATION") =>
    env["EXTERNAL_TEST_DESTINATION"] \in AllowedDestinations(env)

RoutingHasRoutes(env) == On(env, "OS_ROUTING_ENABLED") => Routes(env) # {}

\* Variant: the DNS server need not be an allowed destination.
DnsIsConfiguredOnly(env) == On(env, "DNS_ENABLED") => Given(env, "DNS_SERVER")

DnsIsAllowed(env) ==
  On(env, "DNS_ENABLED") =>
    Given(env, "DNS_SERVER") /\ env["DNS_SERVER"] \in AllowedDestinations(env)

\* Variant: UDP may be enabled without address translation.
UdpHasNatUnchecked(env) == TRUE

UdpHasNat(env) == On(env, "UDP_ENABLED") => On(env, "NAT_ENABLED")

\* A multiaddr that is QUIC and not on the loopback interface.
PublicQuic(env, key) == Given(env, key) /\ env[key] = "quic-public"

\* Peers are pairs of a text and its form; duplicates are found by text.
PeersValid(env) ==
  LET peers == BootstrapPeers(env)
  IN /\ \A i \in DOMAIN peers : peers[i].form = "p2p"
     /\ \A i, j \in DOMAIN peers : peers[i].text = peers[j].text => i = j

\* Something leaves the relay towards destinations: the features that need the
\* destination policy.
ExitFeatures(env) ==
  Given(env, "EXTERNAL_TEST_DESTINATION") \/ On(env, "UDP_ENABLED") \/ On(env, "DNS_ENABLED")

ProductionValid(env) ==
  NetworkEnvironment(env) = "production" =>
    /\ PublicQuic(env, "LISTEN_ADDRESS")
    /\ PublicQuic(env, "ADVERTISED_ADDRESS")
    /\ ExitFeatures(env) => AllowedDestinations(env) # {}
    /\ PeersValid(env)

VpnValid(env) ==
  On(env, "VPN_MODE") =>
    On(env, "TUN_ENABLED") /\ On(env, "OS_ROUTING_ENABLED") /\ Routes(env) # {}

Accepted(env) ==
  /\ Parses(env)
  /\ TunValid(env) /\ LimitsValid(env)
  /\ ExternalIsAllowed(env) /\ RoutingHasRoutes(env)
  /\ DnsIsAllowed(env) /\ Number(env, "DNS_TIMEOUT_MS") > 0
  /\ UdpHasNat(env) /\ ProductionValid(env) /\ VpnValid(env)
=============================================================================
