---------------------------- MODULE MCExitRelay ----------------------------
(* Every combination of the exit features over a unicast, a multicast and an *)
(* unspecified address, and environments that differ in one other variable.  *)
EXTENDS ExitRelay

CONSTANTS uni, multi, any, portless

MCDest == {uni, multi, any, portless}

MCKindOf ==
  [d \in MCDest |-> CASE d = uni -> "unicast" [] d = multi -> "multicast"
                      [] d = any -> "unspecified" [] d = portless -> "zeroPort"]

\* env with the variable absent, or set to one of the values.
Also(envs, key, values) ==
  envs \cup {[x \in DOMAIN env0 \cup {key} |-> IF x = key THEN v ELSE env0[x]] :
               env0 \in envs, v \in values}

Base == [LISTEN_ADDRESS |-> "quic-public", ADVERTISED_ADDRESS |-> "quic-public"]

Features ==
  LET udp  == Also(Also({Base}, "UDP_ENABLED", {"true"}), "NAT_ENABLED", {"true"})
      dns  == Also(Also(udp, "DNS_ENABLED", {"true"}), "DNS_SERVER", {uni, multi})
      tcp  == Also(dns, "EXTERNAL_TEST_DESTINATION", {uni})
  IN Also(tcp, "ALLOWED_EXIT_DESTINATIONS", {{uni}, {uni, multi}, {uni, any}, {uni, portless}})

Full ==
  [LISTEN_ADDRESS |-> "quic-public", ADVERTISED_ADDRESS |-> "quic-public",
   UDP_ENABLED |-> "true", NAT_ENABLED |-> "true", DNS_ENABLED |-> "true",
   DNS_SERVER |-> uni, EXTERNAL_TEST_DESTINATION |-> uni,
   ALLOWED_EXIT_DESTINATIONS |-> {uni, multi},
   TUN_ENABLED |-> "true", OS_ROUTING_ENABLED |-> "true", OS_ROUTES |-> {24}]

Others ==
  UNION {Also({Full}, "RELAY_ROLE", {"entry", "exit", "client"}),
         Also({Full}, "TUN_MAXIMUM_PACKET_SIZE", {0, 500, 9000, Malformed}),
         Also({Full}, "HEARTBEAT_INTERVAL_SECS", {0}),
         Also({Full}, "DNS_TIMEOUT_MS", {0}),
         Also({Full}, "MAX_ACTIVE_FLOWS", {0}),
         Also({Full}, "VPN_MODE", {"true", "maybe"}),
         Also({Full}, "OS_ROUTES", {{}, {0}}),
         Also({Full}, "HEALTH_LISTEN_ADDRESS", {uni, portless}),
         Also(Also(Also({Full}, "NETWORK_ENVIRONMENT", {"production"}),
                   "ADVERTISED_ADDRESS", {"quic-loopback"}),
              "BOOTSTRAP_PEERS", {<<[text |-> "a", form |-> "p2p"]>>,
                                  <<[text |-> "a", form |-> "p2p"], [text |-> "a", form |-> "p2p"]>>})}

MCEnvironments == Features \cup Others
=============================================================================
