----------------------------- MODULE ExitRelay ------------------------------
(***************************************************************************)
(* The exit relay from its environment variables to the destinations it    *)
(* talks to: start-up (relay/src/main.rs, lines 49-157), the dispatch of a *)
(* decrypted forward by protocol (426-521), the TCP and UDP adapters       *)
(* (relay/src/exit_network.rs, udp.rs), the DNS resolver                   *)
(* (network/src/dns.rs), the checks of relay/src/exit_handler.rs and the   *)
(* NAT table, whose actions are NatTable's own.  An exchange blocks the    *)
(* relay's loop; every error on the way ends the process, which the        *)
(* supervisor starts again.  Sockets get their ports from the operating    *)
(* system, which may hand out a port to which an old answer is under way.  *)
(* The sessions, contexts and packet ids in front of the dispatch are      *)
(* TwoHopForwarding's: here every forward has a new forwarding id.         *)
(***************************************************************************)
EXTENDS NodeConfig

CONSTANTS
  Environments,   \* the environments explored
  MaxRequests,    \* bound: forwards that reach the exit
  LocalPort,      \* ephemeral ports of the exit's sockets
  Size,           \* payload sizes explored
  FrameLimit,     \* largest payload whose sealed frame fits a message
  IoTimeout,      \* 3 s of the adapters, dns_timeout of the resolver
  FirstPort, LastPort, MaxMappings, Lifetime, MaxTime  \* see NatTable

ASSUME RequestAssumption == MaxRequests \in Nat \ {0} /\ Size \subseteq Nat
ASSUME TimeoutAssumption == {IoTimeout, Lifetime} \subseteq Nat \ {0} /\ IoTimeout < Lifetime

VARIABLES
  env,        \* the environment the process is started with
  process,    \* "down", "up" or "refused" (start-up failed)
  exchange,   \* the exchange the loop is blocked in, or NoExchange
  asked,      \* history: the forwards that arrived, and whether they were due an answer
  reached,    \* requests that reached a destination and are not answered yet
  wire,       \* answers under way to the relay
  contacted,  \* history: protocol and destination of everything sent
  returned,   \* history: answers sealed for the entry relay
  excused,    \* history: a fault that ended an exchange without an answer
  mappings, reverse, nextPort, now, answer   \* the NAT table

RequestId == 1 .. MaxRequests

Nat0 == INSTANCE NatTable WITH Flow <- RequestId, Session <- RequestId,
                               SessionOf <- [r \in RequestId |-> r]

natVars == <<mappings, reverse, nextPort, now, answer>>
history == <<asked, contacted, returned, excused>>
vars == <<env, process, exchange, reached, wire, history, natVars>>

Protocols == {"udp", "dns", "tcp", "ip"}

NoExchange == [id |-> 0]

Init ==
  /\ env \in Environments
  /\ process = "down"
  /\ exchange = NoExchange
  /\ asked = {}
  /\ reached = {}
  /\ wire = {}
  /\ contacted = {}
  /\ returned = {}
  /\ excused = FALSE
  /\ Nat0!Init

-----------------------------------------------------------------------------
(* Start-up and the end of the process.                                    *)

MaximumSize == Number(env, "TUN_MAXIMUM_PACKET_SIZE")

\* DestinationPolicy::from_strings, called only if an exit feature is on.
PolicyLoads ==
  ExitFeatures(env) => \A d \in AllowedDestinations(env) : KindOf[d] # "unspecified"

\* tokio::time::interval panics on a zero period.
TimerStarts == Number(env, "HEARTBEAT_INTERVAL_SECS") > 0

\* A start that fails because a file or an address cannot be opened leaves the
\* process down, to be started again.
Start ==
  /\ process = "down"
  /\ process' = IF Accepted(env) /\ PolicyLoads /\ TimerStarts THEN "up" ELSE "refused"
  /\ UNCHANGED <<env, exchange, reached, wire, history, natVars>>

\* The process ends: its sockets, exchange and NAT table are gone.
Ends ==
  /\ process' = "down"
  /\ exchange' = NoExchange
  /\ mappings' = [k \in {} |-> {}]
  /\ reverse' = [p \in {} |-> {}]
  /\ nextPort' = FirstPort
  /\ answer' = Nat0!NoAnswer
  /\ UNCHANGED <<env, now>>

\* The process is stopped or dies between exchanges.
Stop ==
  /\ process = "up" /\ exchange = NoExchange
  /\ Ends
  /\ UNCHANGED <<reached, wire, history>>

-----------------------------------------------------------------------------
(* A decrypted forward.                                                    *)

\* relay_capabilities, as far as exits are concerned.
Advertised ==
  IF Role(env) = "entry" THEN {}
  ELSE {p \in {"udp", "dns", "tcp"} :
          \/ p = "udp" /\ On(env, "UDP_ENABLED")
          \/ p = "dns" /\ On(env, "DNS_ENABLED")
          \/ p = "tcp" /\ Given(env, "EXTERNAL_TEST_DESTINATION")}

\* DestinationPolicy::validate and validate_udp; the policy exists if some exit
\* feature is on.
PolicyAllows(dest) ==
  /\ ExitFeatures(env)
  /\ KindOf[dest] \notin {"zeroPort", "unspecified"}
  /\ dest \in AllowedDestinations(env)

PolicyAllowsUdp(dest) == PolicyAllows(dest) /\ KindOf[dest] # "multicast"

IsServer(dest, key) == Given(env, key) /\ env[key] = dest

NatHasPort == Nat0!HasRoom /\ Nat0!FreePorts # {}

UdpServed(dest, size) ==
  /\ On(env, "UDP_ENABLED")
  /\ size <= MaximumSize
  /\ On(env, "NAT_ENABLED") /\ NatHasPort
  /\ PolicyAllowsUdp(dest)

\* A query that DnsQuery::parse refuses is not sent.
DnsServed(dest, size, query) ==
  /\ On(env, "DNS_ENABLED")
  /\ IsServer(dest, "DNS_SERVER")
  /\ size <= MaximumSize
  /\ query

TcpConnects(dest) == IsServer(dest, "EXTERNAL_TEST_DESTINATION") /\ PolicyAllows(dest)

\* What a client may count on: the protocol is advertised, the destination is
\* the one configured or allowed for it, and the table has a port left.
Due(proto, dest, size, query) ==
  /\ proto \in Advertised
  /\ size <= MaximumSize
  /\ CASE proto = "udp" -> /\ dest \in AllowedDestinations(env)
                           /\ KindOf[dest] = "unicast"
                           /\ NatHasPort
       [] proto = "dns" -> IsServer(dest, "DNS_SERVER") /\ query
       [] proto = "tcp" -> IsServer(dest, "EXTERNAL_TEST_DESTINATION")

Id == Cardinality(asked) + 1

\* A forward arrives while the loop is idle.
Arrives(proto, dest, size, query) ==
  /\ process = "up" /\ exchange = NoExchange
  /\ Id \in RequestId
  /\ asked' = asked \cup {[id |-> Id, due |-> Due(proto, dest, size, query)]}

\* The request leaves for dest from a socket on the given port, and the loop
\* waits for the answer.
Sends(proto, dest, port) ==
  LET ask == [id |-> Id, proto |-> proto, from |-> dest, port |-> port]
  IN /\ reached' = reached \cup {ask}
     /\ contacted' = contacted \cup {<<proto, dest>>}
     /\ exchange' = [id |-> Id, proto |-> proto, dest |-> dest, port |-> port, sent |-> now,
                     translated |-> IF proto = "udp" THEN answer'.mapping.translated ELSE 0,
                     reused |-> \E m \in reached \cup wire : m.port = port]

ForwardUdp(dest, size) ==
  /\ Role(env) # "entry"
  /\ Arrives("udp", dest, size, FALSE)
  /\ \/ /\ UdpServed(dest, size)
        /\ Nat0!Create(Id)
        /\ \E port \in LocalPort : Sends("udp", dest, port)
        /\ UNCHANGED <<env, process>>
     \/ /\ ~UdpServed(dest, size)
        /\ Ends
        /\ UNCHANGED <<reached, contacted>>
  /\ UNCHANGED <<wire, returned, excused>>

ForwardDns(dest, size, query) ==
  /\ Role(env) # "entry"
  /\ Arrives("dns", dest, size, query)
  /\ \/ /\ DnsServed(dest, size, query)
        /\ \E port \in LocalPort : Sends("dns", dest, port)
        /\ UNCHANGED <<env, process, natVars>>
     \/ /\ ~DnsServed(dest, size, query)
        /\ Ends
        /\ UNCHANGED <<reached, contacted>>
  /\ UNCHANGED <<wire, returned, excused>>

\* The connection is opened before the payload's size is looked at.
ForwardTcp(dest, size) ==
  /\ Role(env) # "entry"
  /\ Arrives("tcp", dest, size, FALSE)
  /\ \/ /\ TcpConnects(dest) /\ size <= MaximumSize
        /\ Sends("tcp", dest, 0)
        /\ UNCHANGED <<env, process, natVars>>
     \/ /\ ~(TcpConnects(dest) /\ size <= MaximumSize)
        /\ contacted' = IF TcpConnects(dest) THEN contacted \cup {<<"tcp", dest>>} ELSE contacted
        /\ Ends
        /\ UNCHANGED reached
  /\ UNCHANGED <<wire, returned, excused>>

\* An IP packet goes to the TUN device, where there is one, and is not answered;
\* an entry-only relay drops every forward with a warning.
ForwardDropped(proto, dest) ==
  /\ proto = "ip" \/ Role(env) = "entry"
  /\ process = "up" /\ exchange = NoExchange /\ Id \in RequestId
  /\ asked' = asked \cup {[id |-> Id, due |-> FALSE]}
  /\ UNCHANGED <<env, process, exchange, reached, wire, contacted, returned, excused, natVars>>

-----------------------------------------------------------------------------
(* Destinations, the network and the end of an exchange.                   *)

Fits(size) == size <= MaximumSize /\ size <= FrameLimit

\* A destination answers, possibly long after the exchange is over.
Reply(ask, size) ==
  /\ reached' = reached \ {ask}
  /\ wire' = wire \cup {[id |-> ask.id, proto |-> ask.proto, from |-> ask.from,
                         port |-> ask.port, size |-> size]}
  /\ excused' = (excused \/ ~Fits(size))
  /\ UNCHANGED <<env, process, exchange, asked, contacted, returned, natVars>>

Lose(m) ==
  /\ wire' = wire \ {m}
  /\ excused' = (excused \/ m.id = exchange.id)
  /\ UNCHANGED <<env, process, exchange, reached, asked, contacted, returned, natVars>>

\* What the socket of the exchange receives: a TCP connection its own bytes, a
\* connected UDP socket what its peer sends to its port, the resolver's
\* unconnected socket whatever is sent to its port.
Arrived(m) ==
  CASE exchange.proto = "tcp" -> m.proto = "tcp" /\ m.id = exchange.id
    [] exchange.proto = "udp" -> m.proto # "tcp" /\ m.port = exchange.port /\ m.from = exchange.dest
    [] exchange.proto = "dns" -> m.proto # "tcp" /\ m.port = exchange.port

\* Variant: the transaction id of a DNS answer is not compared.
TakesUnmatched(m) == m.size <= MaximumSize

\* The adapter's bound on an answer and the resolver's comparison of transaction
\* ids; those of the queries explored are distinct.
Takes(m) == m.size <= MaximumSize /\ (exchange.proto = "dns" => m.id = exchange.id)

\* lookup_reverse of the exchange's mapping succeeds.
MappingFound ==
  exchange.proto = "udp" =>
    /\ exchange.translated \in DOMAIN reverse
    /\ reverse[exchange.translated] \in Nat0!Kept
    /\ reverse[exchange.translated] = exchange.id

\* The answer is within bounds, its mapping is found and its frame fits.
Completes(m) == Takes(m) /\ MappingFound /\ m.size <= FrameLimit

Receive(m) ==
  /\ exchange # NoExchange
  /\ Arrived(m)
  /\ wire' = wire \ {m}
  /\ \/ /\ Completes(m)
        /\ IF exchange.proto = "udp"
           THEN Nat0!LookupReverse(exchange.translated, exchange.id)
           ELSE UNCHANGED natVars
        /\ returned' = returned \cup {[to |-> exchange.id, from |-> m.id, reused |-> exchange.reused,
                                      proto |-> exchange.proto]}
        /\ exchange' = NoExchange
        /\ UNCHANGED <<env, process, excused>>
     \/ /\ ~Completes(m)
        /\ Ends
        /\ excused' = (excused \/ m.id # exchange.id)
        /\ UNCHANGED returned
  /\ UNCHANGED <<reached, asked, contacted>>

\* The destination refuses or resets, the server reports a failure or sends what
\* is not a response, closing the connection fails, the timeout of the socket
\* runs out, or the process is killed.
ExchangeFails ==
  /\ exchange # NoExchange
  /\ Ends
  /\ excused' = TRUE
  /\ UNCHANGED <<reached, wire, asked, contacted, returned>>

\* The timeout of the socket has run out: time does not pass it.
Expired == exchange # NoExchange /\ now >= exchange.sent + IoTimeout

Tick ==
  /\ ~Expired
  /\ Nat0!Tick
  /\ UNCHANGED <<env, process, exchange, reached, wire, history>>

\* The heartbeat branch cleans the NAT table.
Heartbeat ==
  /\ process = "up" /\ exchange = NoExchange
  /\ On(env, "NAT_ENABLED")
  /\ Nat0!Sweep
  /\ UNCHANGED <<env, process, exchange, reached, wire, history>>

Answered == \E m \in wire : Receive(m)

DestinationAnswers == \E ask \in reached, size \in Size : Reply(ask, size)

Next ==
  \/ Start
  \/ Stop
  \/ \E dest \in Dest, size \in {s \in Size : s <= FrameLimit} :
       \/ ForwardUdp(dest, size)
       \/ \E query \in BOOLEAN : ForwardDns(dest, size, query)
       \/ ForwardTcp(dest, size)
  \/ \E proto \in Protocols, dest \in Dest : ForwardDropped(proto, dest)
  \/ DestinationAnswers
  \/ \E m \in wire : Lose(m)
  \/ Answered
  \/ ExchangeFails
  \/ Tick
  \/ Heartbeat

Spec == Init /\ [][Next]_vars

\* The supervisor restarts the process, a destination that was reached answers,
\* and a socket that has data is read.
FairSpec ==
  Spec /\ WF_vars(Start) /\ WF_vars(DestinationAnswers) /\ WF_vars(Answered)

-----------------------------------------------------------------------------
\* Whatever the exit sends goes to a destination its environment allows, that
\* is a real address and, for UDP, a unicast one.  The TCP and UDP adapters ask
\* the destination policy; the DNS resolver does not, and is within the list
\* only because from_map checked DNS_SERVER against it.
OnlyAllowedContacted ==
  \A c \in contacted :
    /\ c[2] \in AllowedDestinations(env)
    /\ KindOf[c[2]] \notin {"unspecified", "zeroPort"}
    /\ c[1] = "udp" => KindOf[c[2]] = "unicast"

\* An answer returned to a client answers its own request.  A DNS answer that is
\* late, of a query before a restart, is not taken even if its port was handed
\* out again; a UDP answer has only its port to tell it apart.
AnswerIsOwn ==
  \A a \in returned : a.from = a.to \/ (a.proto = "udp" /\ a.reused)

\* A forward for a protocol the relay advertises, to a destination configured
\* for it, is answered unless the network, the destination or a crash prevents
\* it: no environment that from_map accepts and the relay starts with lacks
\* what the dispatch then needs (a NAT table, a policy, a server), and the
\* mapping outlives the exchange it was made for.
AdvertisedIsAnswered ==
  \A r \in RequestId :
    (\E a \in asked : a.id = r /\ a.due) ~> (excused \/ \E a \in returned : a.to = r)
=============================================================================
