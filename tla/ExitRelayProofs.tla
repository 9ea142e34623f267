-------------------------- MODULE ExitRelayProofs ---------------------------
(***************************************************************************)
(* Proofs about the exit relay, for any destinations, environments, ports, *)
(* sizes and times.                                                        *)
(***************************************************************************)
EXTENDS ExitRelay, TLAPS

\* A relay that is up has been started with an environment from_map accepts, and
\* everything contacted so far was allowed by it.
ContactInv ==
  /\ process = "up" => Accepted(env)
  /\ OnlyAllowedContacted

\* What <<proto, dest>> has to satisfy to be contacted.
Permitted(proto, dest) ==
  /\ dest \in AllowedDestinations(env)
  /\ KindOf[dest] \notin {"unspecified", "zeroPort"}
  /\ proto = "udp" => KindOf[dest] = "unicast"

\* The TCP and UDP adapters ask DestinationPolicy.
LEMMA PolicyPermits ==
  ASSUME NEW dest \in Dest, PolicyAllows(dest)
  PROVE  Permitted("tcp", dest) /\ (PolicyAllowsUdp(dest) => Permitted("udp", dest))
<1>1. KindOf[dest] \in Kinds
  BY DestAssumption
<1> QED
  BY <1>1 DEF PolicyAllows, PolicyAllowsUdp, Permitted, Kinds

\* The resolver does not: from_map has compared its server with the list.
LEMMA ServerPermitted ==
  ASSUME Accepted(env), NEW dest \in Dest, On(env, "DNS_ENABLED"), IsServer(dest, "DNS_SERVER")
  PROVE  Permitted("dns", dest)
BY DEF Accepted, Parses, DnsIsAllowed, DnsServerParses, IsServer, Permitted

LEMMA ContactKept ==
  ASSUME ContactInv, NEW proto, NEW dest, Permitted(proto, dest),
         contacted' = contacted \cup {<<proto, dest>>}, env' = env
  PROVE  OnlyAllowedContacted'
BY DEF ContactInv, OnlyAllowedContacted, Permitted, AllowedDestinations, Value, Given

LEMMA NothingContacted ==
  ASSUME ContactInv, contacted' = contacted, env' = env
  PROVE  OnlyAllowedContacted'
BY DEF ContactInv, OnlyAllowedContacted, AllowedDestinations, Value, Given

LEMMA ForwardsArePermitted ==
  ASSUME ContactInv, NEW dest \in Dest, NEW size, NEW query,
         ForwardUdp(dest, size) \/ ForwardDns(dest, size, query) \/ ForwardTcp(dest, size)
  PROVE  ContactInv'
<1>1. process = "up" /\ Accepted(env)
  BY DEF ForwardUdp, ForwardDns, ForwardTcp, Arrives, ContactInv
<1>2. env' = env /\ process' \in {"up", "down"}
  BY <1>1 DEF ForwardUdp, ForwardDns, ForwardTcp, Ends
<1>3. OnlyAllowedContacted'
  <2>1. CASE contacted' = contacted
    BY <2>1, <1>2, NothingContacted
  <2>2. CASE ForwardUdp(dest, size) /\ contacted' # contacted
    <3>1. PolicyAllowsUdp(dest) /\ contacted' = contacted \cup {<<"udp", dest>>}
      BY <2>2 DEF ForwardUdp, UdpServed, Sends
    <3> QED
      BY <3>1, <1>2, PolicyPermits, ContactKept DEF PolicyAllowsUdp
  <2>3. CASE ForwardDns(dest, size, query) /\ contacted' # contacted
    <3>1. DnsServed(dest, size, query) /\ contacted' = contacted \cup {<<"dns", dest>>}
      BY <2>3 DEF ForwardDns, Sends
    <3> QED
      BY <3>1, <1>1, <1>2, ServerPermitted, ContactKept DEF DnsServed
  <2>4. CASE ForwardTcp(dest, size) /\ contacted' # contacted
    <3>1. TcpConnects(dest) /\ contacted' = contacted \cup {<<"tcp", dest>>}
      BY <2>4 DEF ForwardTcp, Sends
    <3> QED
      BY <3>1, <1>2, PolicyPermits, ContactKept DEF TcpConnects
  <2> QED
    BY <2>1, <2>2, <2>3, <2>4
<1>4. Accepted(env')
  BY <1>1, <1>2
<1> QED
  BY <1>2, <1>3, <1>4 DEF ContactInv, Accepted, Parses

LEMMA ContactStep == ContactInv /\ [Next]_vars => ContactInv'
<1> SUFFICES ASSUME ContactInv, [Next]_vars PROVE ContactInv'
  OBVIOUS
<1>1. ASSUME contacted' = contacted, env' = env,
             process' = "up" => process = "up" \/ Accepted(env)
      PROVE  ContactInv'
  <2>1. OnlyAllowedContacted'
    BY <1>1, NothingContacted
  <2> QED
    BY <1>1, <2>1 DEF ContactInv
<1>2. CASE Start
  BY <1>1, <1>2 DEF Start, history
<1>3. CASE Stop \/ ExchangeFails
  BY <1>1, <1>3 DEF Stop, ExchangeFails, Ends, history
<1>4. ASSUME NEW dest \in Dest, NEW size, NEW query,
             ForwardUdp(dest, size) \/ ForwardDns(dest, size, query) \/ ForwardTcp(dest, size)
      PROVE  ContactInv'
  BY <1>4, ForwardsArePermitted
<1>5. CASE \E proto \in Protocols, dest \in Dest : ForwardDropped(proto, dest)
  BY <1>1, <1>5 DEF ForwardDropped
<1>6. CASE DestinationAnswers \/ \E m \in wire : Lose(m)
  BY <1>1, <1>6 DEF DestinationAnswers, Reply, Lose
<1>7. CASE Answered
  BY <1>1, <1>7 DEF Answered, Receive, Ends
<1>8. CASE Tick \/ Heartbeat \/ UNCHANGED vars
  BY <1>1, <1>8 DEF Tick, Heartbeat, vars, history
<1> QED
  BY <1>2, <1>3, <1>4, <1>5, <1>6, <1>7, <1>8 DEF Next

\* Whatever the exit sends goes to a destination its environment allows
\* (DestinationPolicy, and from_map for the DNS server).
THEOREM ContactsAreAllowed == Spec => []OnlyAllowedContacted
<1>1. Init => ContactInv
  BY DEF Init, ContactInv, OnlyAllowedContacted
<1>2. ContactInv => OnlyAllowedContacted
  BY DEF ContactInv
<1> QED
  BY <1>1, <1>2, ContactStep, PTL DEF Spec

-----------------------------------------------------------------------------
\* While the loop waits, whatever else is under way to its socket's port was so
\* when the socket was opened.
PortInv ==
  exchange # NoExchange =>
    /\ exchange.proto \in {"udp", "dns", "tcp"}
    /\ \A m \in reached \cup wire : m.port = exchange.port => m.id = exchange.id \/ exchange.reused

AnswerInv == PortInv /\ AnswerIsOwn

LEMMA SendsKeepsPorts ==
  ASSUME NEW proto \in {"udp", "dns", "tcp"}, NEW dest, NEW port, Sends(proto, dest, port), wire' = wire
  PROVE  PortInv'
<1>1. exchange'.port = port /\ exchange'.id = Id /\ exchange'.proto = proto
  BY DEF Sends
<1>2. exchange'.reused = \E m \in reached \cup wire : m.port = port
  BY DEF Sends
<1>3. \A m \in reached' : m \in reached \/ m.id = Id
  BY DEF Sends
<1> QED
  BY <1>1, <1>2, <1>3 DEF PortInv

LEMMA EndsKeepsPorts ==
  ASSUME exchange' = NoExchange
  PROVE  PortInv'
BY DEF PortInv, NoExchange

LEMMA NoNewDatagrams ==
  ASSUME PortInv, exchange' = exchange, reached' \cup wire' \subseteq reached \cup wire
  PROVE  PortInv'
BY DEF PortInv, NoExchange

LEMMA ForwardsKeepPorts ==
  ASSUME NEW dest, NEW size, NEW query,
         ForwardUdp(dest, size) \/ ForwardDns(dest, size, query) \/ ForwardTcp(dest, size)
  PROVE  PortInv' /\ returned' = returned
<1>1. CASE ForwardUdp(dest, size)
  BY <1>1, SendsKeepsPorts, EndsKeepsPorts DEF ForwardUdp, Ends
<1>2. CASE ForwardDns(dest, size, query)
  BY <1>2, SendsKeepsPorts, EndsKeepsPorts DEF ForwardDns, Ends
<1>3. CASE ForwardTcp(dest, size)
  BY <1>3, SendsKeepsPorts, EndsKeepsPorts DEF ForwardTcp, Ends
<1> QED
  BY <1>1, <1>2, <1>3

\* A destination's answer is under way to the port its request came from.
LEMMA ReplyKeepsPorts ==
  ASSUME PortInv, NEW ask \in reached, NEW size, Reply(ask, size)
  PROVE  PortInv' /\ returned' = returned
<1>1. exchange' = exchange /\ returned' = returned
  BY DEF Reply
<1>2. \A m \in reached' \cup wire' : m \in reached \cup wire \/ (m.port = ask.port /\ m.id = ask.id)
  BY DEF Reply
<1> QED
  BY <1>1, <1>2 DEF PortInv, NoExchange

\* What receive takes for the answer: TCP has its connection, the resolver its
\* transaction id, a UDP socket only its port.
LEMMA ReceivedIsOwn ==
  ASSUME PortInv, NEW m \in wire, exchange # NoExchange, Arrived(m), Takes(m)
  PROVE  m.id = exchange.id \/ (exchange.proto = "udp" /\ exchange.reused)
BY DEF PortInv, Arrived, Takes

\* An answer returned to a client answers its own request, except a UDP answer
\* on a port to which an older one was under way.
THEOREM AnswersAreTheirOwn == Spec => []AnswerIsOwn
<1>1. Init => AnswerInv
  BY DEF Init, AnswerInv, PortInv, AnswerIsOwn
<1>2. AnswerInv /\ [Next]_vars => AnswerInv'
  <2> SUFFICES ASSUME AnswerInv, [Next]_vars PROVE AnswerInv'
    OBVIOUS
  <2>1. PortInv /\ (returned' = returned => AnswerIsOwn')
    BY DEF AnswerInv, AnswerIsOwn
  <2>2. CASE Start \/ Tick \/ Heartbeat \/ UNCHANGED vars
    BY <2>1, <2>2, NoNewDatagrams DEF Start, Tick, Heartbeat, vars, history, AnswerInv
  <2>3. CASE Stop \/ ExchangeFails
    BY <2>1, <2>3, EndsKeepsPorts DEF Stop, ExchangeFails, Ends, history, AnswerInv
  <2>4. ASSUME NEW dest, NEW size, NEW query,
               ForwardUdp(dest, size) \/ ForwardDns(dest, size, query) \/ ForwardTcp(dest, size)
        PROVE  AnswerInv'
    BY <2>1, <2>4, ForwardsKeepPorts DEF AnswerInv
  <2>5. CASE \E proto \in Protocols, dest \in Dest : ForwardDropped(proto, dest)
    BY <2>1, <2>5, NoNewDatagrams DEF ForwardDropped, AnswerInv
  <2>6. CASE DestinationAnswers
    BY <2>1, <2>6, ReplyKeepsPorts DEF DestinationAnswers, AnswerInv
  <2>7. CASE \E m \in wire : Lose(m)
    BY <2>1, <2>7, NoNewDatagrams DEF Lose, AnswerInv
  <2>8. CASE Answered
    <3>1. PICK m \in wire : Receive(m)
      BY <2>8 DEF Answered
    <3>2. PortInv'
      BY <3>1, EndsKeepsPorts DEF Receive, Ends
    <3>3. CASE returned' = returned
      BY <2>1, <3>2, <3>3 DEF AnswerInv
    <3>4. CASE Completes(m) /\ returned' = returned \cup
                 {[to |-> exchange.id, from |-> m.id, reused |-> exchange.reused,
                   proto |-> exchange.proto]}
      <4>1. m.id = exchange.id \/ (exchange.proto = "udp" /\ exchange.reused)
        BY <2>1, <3>1, <3>4, ReceivedIsOwn DEF Receive, Completes
      <4> QED
        BY <3>2, <3>4, <4>1 DEF AnswerInv, AnswerIsOwn
    <3> QED
      BY <3>1, <3>3, <3>4 DEF Receive
  <2> QED
    BY <2>2, <2>3, <2>4, <2>5, <2>6, <2>7, <2>8 DEF Next
<1>3. AnswerInv => AnswerIsOwn
  BY DEF AnswerInv
<1> QED
  BY <1>1, <1>2, <1>3, PTL DEF Spec

-----------------------------------------------------------------------------
\* While the loop waits for a UDP answer, nothing but the clock touches the
\* mapping the exchange was given, and the socket's timeout ends the wait first.
WaitInv ==
  /\ now \in Nat
  /\ exchange # NoExchange /\ exchange.proto = "udp" =>
       /\ exchange.sent \in Nat /\ now <= exchange.sent + IoTimeout
       /\ exchange.id \in DOMAIN mappings
       /\ mappings[exchange.id].expires = exchange.sent + Lifetime
       /\ exchange.translated \in DOMAIN reverse
       /\ reverse[exchange.translated] = exchange.id

\* lookup_reverse would find the mapping of the exchange the loop is blocked in.
MappingOutlivesExchange == exchange # NoExchange => MappingFound

LEMMA NoWait ==
  ASSUME WaitInv, now' = now, exchange' = NoExchange
  PROVE  WaitInv'
BY DEF WaitInv, NoExchange

LEMMA StillWaiting ==
  ASSUME WaitInv, now' = now, UNCHANGED <<exchange, mappings, reverse>>
  PROVE  WaitInv'
BY DEF WaitInv, NoExchange

LEMMA OtherExchange ==
  ASSUME WaitInv, now' = now, NEW proto \in {"dns", "tcp"}, NEW dest, NEW port,
         Sends(proto, dest, port)
  PROVE  WaitInv'
<1>1. exchange'.proto = proto
  BY DEF Sends
<1> QED
  BY <1>1 DEF WaitInv

\* create returns a mapping that the two maps have and that lives from now on.
LEMMA UdpExchange ==
  ASSUME WaitInv, NEW dest, NEW port, Nat0!Create(Id), Sends("udp", dest, port)
  PROVE  WaitInv'
<1> DEFINE k == Id
<1>1. /\ exchange'.id = k /\ exchange'.sent = now
      /\ exchange'.translated = answer'.mapping.translated
  BY DEF Sends
<1> HIDE DEF k
<1>2. now' = now
  BY DEF Nat0!Create
<1>3. PICK p \in Nat0!Port :
        /\ mappings' = [x \in Nat0!Kept \cup {k} |->
                          IF x = k THEN [translated |-> p, expires |-> now + Lifetime] ELSE mappings[x]]
        /\ reverse' = [q \in Nat0!KeptPorts \cup {p} |-> IF q = p THEN k ELSE reverse[q]]
        /\ answer' = [flow |-> {k}, mapping |-> [translated |-> p, expires |-> now + Lifetime]]
  BY DEF Nat0!Create, k
<1>4. answer'.mapping.translated = p
  BY <1>3
<1>5. k \in DOMAIN mappings' /\ mappings'[k].expires = now + Lifetime
  BY <1>3
<1>6. p \in DOMAIN reverse' /\ reverse'[p] = k
  BY <1>3
<1>7. now \in Nat /\ now <= now + IoTimeout
  BY TimeoutAssumption DEF WaitInv
<1> QED
  BY <1>1, <1>2, <1>4, <1>5, <1>6, <1>7 DEF WaitInv

LEMMA TickKeepsWaiting ==
  ASSUME WaitInv, Tick
  PROVE  WaitInv'
<1>1. now' = now + 1 /\ UNCHANGED <<exchange, mappings, reverse>> /\ ~Expired
  BY DEF Tick, Nat0!Tick
<1>2. now \in Nat /\ now' \in Nat
  BY <1>1 DEF WaitInv
<1>3. ASSUME exchange # NoExchange, exchange.proto = "udp"
      PROVE  now' <= exchange.sent + IoTimeout
  BY <1>1, <1>2, <1>3, TimeoutAssumption DEF WaitInv, Expired
<1> QED
  BY <1>1, <1>2, <1>3 DEF WaitInv, NoExchange

LEMMA WaitStep == WaitInv /\ [Next]_vars => WaitInv'
<1> SUFFICES ASSUME WaitInv, [Next]_vars PROVE WaitInv'
  OBVIOUS
<1>1. CASE Start \/ UNCHANGED vars
  BY <1>1, StillWaiting DEF Start, vars, natVars
<1>2. CASE Stop \/ ExchangeFails
  BY <1>2, NoWait DEF Stop, ExchangeFails, Ends
<1>3. ASSUME NEW dest, NEW size, ForwardUdp(dest, size) PROVE WaitInv'
  BY <1>3, UdpExchange, NoWait DEF ForwardUdp, Ends
<1>4. ASSUME NEW dest, NEW size, NEW query, ForwardDns(dest, size, query) PROVE WaitInv'
  BY <1>4, OtherExchange, NoWait DEF ForwardDns, Ends, natVars
<1>5. ASSUME NEW dest, NEW size, ForwardTcp(dest, size) PROVE WaitInv'
  BY <1>5, OtherExchange, NoWait DEF ForwardTcp, Ends, natVars
<1>6. CASE \E proto \in Protocols, dest \in Dest : ForwardDropped(proto, dest)
  BY <1>6, StillWaiting DEF ForwardDropped, natVars
<1>7. CASE DestinationAnswers \/ \E m \in wire : Lose(m)
  BY <1>7, StillWaiting DEF DestinationAnswers, Reply, Lose, natVars
<1>8. CASE Answered
  BY <1>8, NoWait DEF Answered, Receive, Ends, natVars, Nat0!LookupReverse
<1>9. CASE Tick
  BY <1>9, TickKeepsWaiting
<1>10. CASE Heartbeat
  <2>1. exchange' = NoExchange /\ now' = now
    BY <1>10 DEF Heartbeat, Nat0!Sweep
  <2> QED
    BY <2>1, NoWait
<1> QED
  BY <1>1, <1>2, <1>3, <1>4, <1>5, <1>6, <1>7, <1>8, <1>9, <1>10 DEF Next

\* The NAT mapping of a UDP exchange is still live when its answer is taken: the
\* adapter's timeout is shorter than the lifetime create gave it, and the sweep of
\* the heartbeat branch cannot run while the loop is blocked (relay/src/main.rs,
\* relay/src/udp.rs, network/src/nat.rs).
THEOREM MappingsOutliveExchanges == Spec => []MappingOutlivesExchange
<1>1. Init => WaitInv
  BY DEF Init, Nat0!Init, WaitInv
<1>2. WaitInv => MappingOutlivesExchange
  <2> SUFFICES ASSUME WaitInv, exchange # NoExchange, exchange.proto = "udp"
               PROVE  MappingFound
    BY DEF MappingOutlivesExchange, MappingFound
  <2>1. mappings[exchange.id].expires > now
    BY TimeoutAssumption DEF WaitInv
  <2> QED
    BY <2>1 DEF WaitInv, MappingFound, Nat0!Kept, Nat0!Live
<1> QED
  BY <1>1, <1>2, WaitStep, PTL DEF Spec

-----------------------------------------------------------------------------
\* m is the request the loop waits for, or the answer to it.
Outstanding(m) ==
  /\ m.id = exchange.id /\ m.proto = exchange.proto
  /\ m.port = exchange.port /\ m.from = exchange.dest

\* A forward the relay owes an answer has got it, or the loop is waiting for it
\* and the request is at its destination or the answer under way to the socket,
\* which will take it; only a fault of the network, of the destination or of the
\* process excuses another end (the dispatch of relay/src/main.rs, from the
\* arrival of the forward to the sealing of the answer).
DueIsKept ==
  \A a \in asked : a.due =>
    \/ excused
    \/ \E x \in returned : x.to = a.id
    \/ /\ exchange # NoExchange /\ exchange.id = a.id
       /\ \/ \E ask \in reached : Outstanding(ask)
          \/ \E m \in wire : Outstanding(m) /\ Arrived(m) /\ Completes(m)

\* Without a fault all answers fit, the loop never waits in vain, and what is due
\* is answered or waited for.
DueInv ==
  /\ excused \/ \A m \in wire : Fits(m.size)
  /\ exchange # NoExchange =>
       /\ exchange.proto \in {"udp", "dns", "tcp"}
       /\ excused \/ \E m \in reached \cup wire : Outstanding(m)
  /\ \A a \in asked : a.due =>
       \/ excused
       \/ \E x \in returned : x.to = a.id
       \/ exchange # NoExchange /\ exchange.id = a.id

\* from_map has checked whatever the dispatch needs: a NAT table for UDP, a server
\* for DNS, an allowed destination for TCP, and a policy for all of them.
LEMMA DueIsServed ==
  ASSUME Accepted(env), NEW dest \in Dest, NEW size, NEW query
  PROVE  /\ Due("udp", dest, size, query) => UdpServed(dest, size)
         /\ Due("dns", dest, size, query) => DnsServed(dest, size, query)
         /\ Due("tcp", dest, size, query) => TcpConnects(dest) /\ size <= MaximumSize
<1>1. Due("udp", dest, size, query) => UdpServed(dest, size)
  BY DEF Due, Advertised, UdpServed, PolicyAllowsUdp, PolicyAllows, ExitFeatures, Accepted, UdpHasNat
<1>2. Due("dns", dest, size, query) => DnsServed(dest, size, query)
  BY DEF Due, Advertised, DnsServed
<1>3. Due("tcp", dest, size, query) => TcpConnects(dest) /\ size <= MaximumSize
  BY DEF Due, Advertised, TcpConnects, PolicyAllows, IsServer, ExitFeatures, Accepted, Parses,
         ExternalParses, ExternalIsAllowed
<1> QED
  BY <1>1, <1>2, <1>3

\* The bounds of the environment do not change.
LEMMA SameFits ==
  ASSUME env' = env, NEW size, Fits(size)
  PROVE  Fits(size)'
BY DEF Fits, MaximumSize, Number, Value, Given

LEMMA AnswersStillFit ==
  ASSUME DueInv, env' = env, wire' \subseteq wire, excused => excused'
  PROVE  excused' \/ \A m \in wire' : Fits(m.size)'
BY SameFits DEF DueInv

LEMMA SameExchange ==
  ASSUME DueInv, UNCHANGED <<env, exchange, asked, reached, wire, returned, excused>>
  PROVE  DueInv'
<1>1. excused' \/ \A m \in wire' : Fits(m.size)'
  BY AnswersStillFit
<1> QED
  BY <1>1 DEF DueInv, Outstanding, NoExchange

\* An idle loop owes nothing, so the process may end.
LEMMA IdleOwesNothing ==
  ASSUME DueInv, exchange = NoExchange \/ excused', exchange' = NoExchange, env' = env,
         excused => excused', UNCHANGED <<asked, returned>>, wire' \subseteq wire
  PROVE  DueInv'
<1>1. excused' \/ \A m \in wire' : Fits(m.size)'
  BY AnswersStillFit
<1> QED
  BY <1>1 DEF DueInv, NoExchange

\* A new forward is sent, or was not due.
LEMMA NewExchange ==
  ASSUME DueInv, exchange = NoExchange, NEW proto \in {"udp", "dns", "tcp"}, NEW dest, NEW port, NEW due,
         Sends(proto, dest, port), asked' = asked \cup {[id |-> Id, due |-> due]},
         UNCHANGED <<env, wire, returned, excused>>
  PROVE  DueInv'
<1> PICK ask : ask = [id |-> Id, proto |-> proto, from |-> dest, port |-> port]
  OBVIOUS
<1>1. /\ exchange'.id = Id /\ exchange'.proto = proto /\ exchange'.dest = dest
      /\ exchange'.port = port /\ ask \in reached'
  BY DEF Sends
<1>2. exchange' # NoExchange
  <2>1. "proto" \in DOMAIN exchange' /\ "proto" \notin DOMAIN NoExchange
    BY DEF Sends, NoExchange
  <2> QED BY <2>1
<1>3. Outstanding(ask)'
  BY <1>1 DEF Outstanding
<1>4. excused' \/ \A m \in wire' : Fits(m.size)'
  BY AnswersStillFit
<1>5. ASSUME NEW a \in asked', a.due, ~excused', ~\E x \in returned' : x.to = a.id
      PROVE  exchange'.id = a.id
  BY <1>1, <1>5 DEF DueInv
<1> QED
  BY <1>1, <1>2, <1>3, <1>4, <1>5 DEF DueInv

LEMMA NotDue ==
  ASSUME DueInv, exchange = NoExchange, exchange' = NoExchange, NEW id,
         asked' = asked \cup {[id |-> id, due |-> FALSE]}, UNCHANGED <<env, wire, returned, excused>>
  PROVE  DueInv'
<1>1. excused' \/ \A m \in wire' : Fits(m.size)'
  BY AnswersStillFit
<1>2. \A a \in asked' : a.due => a \in asked
  OBVIOUS
<1> QED
  BY <1>1, <1>2 DEF DueInv, NoExchange

LEMMA ForwardsKeepDue ==
  ASSUME DueInv, process = "up" => Accepted(env), NEW dest \in Dest, NEW size, NEW query,
         ForwardUdp(dest, size) \/ ForwardDns(dest, size, query) \/ ForwardTcp(dest, size)
  PROVE  DueInv'
<1>1. Accepted(env) /\ exchange = NoExchange
  BY DEF ForwardUdp, ForwardDns, ForwardTcp, Arrives
<1>2. UNCHANGED <<env, wire, returned, excused>>
  BY DEF ForwardUdp, ForwardDns, ForwardTcp, Ends
<1>3. ASSUME NEW proto \in {"udp", "dns", "tcp"}, NEW due, NEW port, Sends(proto, dest, port),
             asked' = asked \cup {[id |-> Id, due |-> due]}
      PROVE  DueInv'
  BY <1>1, <1>2, <1>3, NewExchange
<1>4. ASSUME NEW due, ~due, due \in BOOLEAN, exchange' = NoExchange,
             asked' = asked \cup {[id |-> Id, due |-> due]}
      PROVE  DueInv'
  <2>1. due = FALSE
    BY <1>4
  <2> QED
    BY <1>1, <1>2, <1>4, <2>1, NotDue
<1>5. CASE ForwardUdp(dest, size)
  <2> DEFINE due == Due("udp", dest, size, FALSE)
  <2>1. asked' = asked \cup {[id |-> Id, due |-> due]} /\ due \in BOOLEAN
    BY <1>5 DEF ForwardUdp, Arrives, Due
  <2>2. due => UdpServed(dest, size)
    BY <1>1, DueIsServed
  <2> HIDE DEF due
  <2>3. \/ UdpServed(dest, size) /\ \E port \in LocalPort : Sends("udp", dest, port)
        \/ ~UdpServed(dest, size) /\ exchange' = NoExchange
    BY <1>5 DEF ForwardUdp, Ends
  <2> QED
    BY <2>1, <2>2, <2>3, <1>3, <1>4
<1>6. CASE ForwardDns(dest, size, query)
  <2> DEFINE due == Due("dns", dest, size, query)
  <2>1. asked' = asked \cup {[id |-> Id, due |-> due]} /\ due \in BOOLEAN
    BY <1>6 DEF ForwardDns, Arrives, Due
  <2>2. due => DnsServed(dest, size, query)
    BY <1>1, DueIsServed
  <2> HIDE DEF due
  <2>3. \/ DnsServed(dest, size, query) /\ \E port \in LocalPort : Sends("dns", dest, port)
        \/ ~DnsServed(dest, size, query) /\ exchange' = NoExchange
    BY <1>6 DEF ForwardDns, Ends
  <2> QED
    BY <2>1, <2>2, <2>3, <1>3, <1>4
<1>7. CASE ForwardTcp(dest, size)
  <2> DEFINE due == Due("tcp", dest, size, FALSE)
             served == TcpConnects(dest) /\ size <= MaximumSize
  <2>1. asked' = asked \cup {[id |-> Id, due |-> due]} /\ due \in BOOLEAN
    BY <1>7 DEF ForwardTcp, Arrives, Due
  <2>2. due => served
    BY <1>1, DueIsServed
  <2>3. \/ served /\ Sends("tcp", dest, 0)
        \/ ~served /\ exchange' = NoExchange
    BY <1>7 DEF ForwardTcp, Ends
  <2> HIDE DEF due, served
  <2> QED
    BY <2>1, <2>2, <2>3, <1>3, <1>4
<1> QED
  BY <1>5, <1>6, <1>7

LEMMA ReplyKeepsDue ==
  ASSUME DueInv, NEW ask \in reached, NEW size, Reply(ask, size)
  PROVE  DueInv'
<1> PICK m : m = [id |-> ask.id, proto |-> ask.proto, from |-> ask.from, port |-> ask.port, size |-> size]
  OBVIOUS
<1>1. /\ reached' = reached \ {ask} /\ wire' = wire \cup {m}
      /\ excused' = (excused \/ ~Fits(size)) /\ UNCHANGED <<env, exchange, asked, returned>>
  BY DEF Reply
<1>2. excused' \/ \A n \in wire' : Fits(n.size)'
  <2>1. m.size = size
    OBVIOUS
  <2>2. excused \/ (Fits(size) /\ \A n \in wire : Fits(n.size)) \/ ~Fits(size)
    BY DEF DueInv
  <2>3. excused' \/ \A n \in wire' : Fits(n.size)
    BY <1>1, <2>1, <2>2
  <2> QED
    BY <1>1, <2>3, SameFits
<1>3. Outstanding(ask) => Outstanding(m)
  BY DEF Outstanding
<1>4. \A n : Outstanding(n) <=> Outstanding(n)'
  BY <1>1 DEF Outstanding
<1>5. exchange' # NoExchange => excused' \/ \E n \in reached' \cup wire' : Outstanding(n)'
  BY <1>1, <1>3, <1>4 DEF DueInv
<1> QED
  BY <1>1, <1>2, <1>5 DEF DueInv, NoExchange

LEMMA LoseKeepsDue ==
  ASSUME DueInv, NEW m \in wire, Lose(m)
  PROVE  DueInv'
<1>1. /\ wire' = wire \ {m} /\ excused' = (excused \/ m.id = exchange.id)
      /\ UNCHANGED <<env, exchange, asked, reached, returned>>
  BY DEF Lose
<1>2. excused' \/ \A n \in wire' : Fits(n.size)'
  BY <1>1, AnswersStillFit
<1>3. \A n : Outstanding(n) <=> Outstanding(n)'
  BY <1>1 DEF Outstanding
<1>4. exchange' # NoExchange => excused' \/ \E n \in reached' \cup wire' : Outstanding(n)'
  BY <1>1, <1>3 DEF DueInv, Outstanding
<1> QED
  BY <1>1, <1>2, <1>4 DEF DueInv, NoExchange

\* What the socket receives for the exchange completes it, unless a fault came
\* before.
LEMMA OwnAnswerCompletes ==
  ASSUME DueInv, MappingOutlivesExchange, ~excused, exchange # NoExchange, NEW m \in wire, m.id = exchange.id
  PROVE  Completes(m)
BY DEF DueInv, MappingOutlivesExchange, Completes, Takes, Fits

LEMMA ReceiveKeepsDue ==
  ASSUME DueInv, MappingOutlivesExchange, NEW m \in wire, Receive(m)
  PROVE  DueInv'
<1>1. /\ exchange # NoExchange /\ exchange' = NoExchange
      /\ wire' = wire \ {m} /\ UNCHANGED <<env, asked, reached>>
  BY DEF Receive, Ends
<1>2. CASE Completes(m)
  <2> PICK x : x = [to |-> exchange.id, from |-> m.id, reused |-> exchange.reused, proto |-> exchange.proto]
    OBVIOUS
  <2>1. excused' = excused /\ returned' = returned \cup {x}
    BY <1>2 DEF Receive
  <2>2. excused' \/ \A n \in wire' : Fits(n.size)'
    <3>1. env' = env /\ wire' \subseteq wire /\ (excused => excused')
      BY <1>1, <2>1
    <3> QED
      BY <3>1, AnswersStillFit
  <2>3. x \in returned' /\ x.to = exchange.id
    BY <2>1
  <2>4. returned \subseteq returned'
    BY <2>1
  <2> QED
    BY <1>1, <2>1, <2>2, <2>3, <2>4 DEF DueInv
<1>3. CASE ~Completes(m)
  <2>1. excused' = (excused \/ m.id # exchange.id) /\ returned' = returned
    BY <1>3 DEF Receive
  <2>2. excused'
    BY <1>1, <1>3, <2>1, OwnAnswerCompletes
  <2> QED
    BY <1>1, <2>2, <2>1, IdleOwesNothing
<1> QED
  BY <1>2, <1>3

LEMMA DueStep ==
  DueInv /\ ContactInv /\ MappingOutlivesExchange /\ [Next]_vars => DueInv'
<1> SUFFICES ASSUME DueInv, ContactInv, MappingOutlivesExchange, [Next]_vars PROVE DueInv'
  OBVIOUS
<1>1. CASE Start \/ Tick \/ Heartbeat \/ UNCHANGED vars
  BY <1>1, SameExchange DEF Start, Tick, Heartbeat, vars, history
<1>2. CASE Stop \/ ExchangeFails
  BY <1>2, IdleOwesNothing DEF Stop, ExchangeFails, Ends, history
<1>3. ASSUME NEW dest \in Dest, NEW size, NEW query,
             ForwardUdp(dest, size) \/ ForwardDns(dest, size, query) \/ ForwardTcp(dest, size)
      PROVE  DueInv'
  BY <1>3, ForwardsKeepDue DEF ContactInv
<1>4. CASE \E proto \in Protocols, dest \in Dest : ForwardDropped(proto, dest)
  BY <1>4, NotDue DEF ForwardDropped
<1>5. CASE DestinationAnswers
  BY <1>5, ReplyKeepsDue DEF DestinationAnswers
<1>6. CASE \E m \in wire : Lose(m)
  BY <1>6, LoseKeepsDue
<1>7. CASE Answered
  BY <1>7, ReceiveKeepsDue DEF Answered
<1> QED
  BY <1>1, <1>2, <1>3, <1>4, <1>5, <1>6, <1>7 DEF Next

\* A forward for an advertised protocol and a configured destination is never lost
\* by the relay itself: no environment it starts with lacks what the dispatch
\* needs, and the answer that comes is taken, mapped back and sealed
\* (relay/src/main.rs, relay/src/udp.rs, network/src/config.rs).
THEOREM DueIsAlwaysKept == Spec => []DueIsKept
<1>1. Init => DueInv /\ ContactInv
  BY DEF Init, DueInv, NoExchange, ContactInv, OnlyAllowedContacted
<1>2. DueInv /\ MappingOutlivesExchange => DueIsKept
  <2> SUFFICES ASSUME DueInv, MappingOutlivesExchange, NEW a \in asked, a.due, ~excused,
                      ~\E x \in returned : x.to = a.id
               PROVE  /\ exchange # NoExchange /\ exchange.id = a.id
                      /\ \/ \E ask \in reached : Outstanding(ask)
                         \/ \E m \in wire : Outstanding(m) /\ Arrived(m) /\ Completes(m)
    BY DEF DueIsKept
  <2>1. exchange # NoExchange /\ exchange.id = a.id
    BY DEF DueInv
  <2>2. PICK m \in reached \cup wire : Outstanding(m)
    BY <2>1 DEF DueInv
  <2>3. Arrived(m)
    BY <2>1, <2>2 DEF Outstanding, Arrived, DueInv
  <2>4. m \in wire => Completes(m)
    BY <2>1, <2>2, OwnAnswerCompletes DEF Outstanding
  <2> QED
    BY <2>1, <2>2, <2>3, <2>4
<1> QED
  BY <1>1, <1>2, DueStep, ContactStep, MappingsOutliveExchanges, PTL DEF Spec

-----------------------------------------------------------------------------
\* The exchange names a flow and, for UDP, a port that create has allocated.
ExchangeInv ==
  exchange # NoExchange =>
    /\ exchange.id \in RequestId
    /\ exchange.proto = "udp" => exchange.translated \in Nat0!Port

\* The process has ended and its table with it.
NatRestarts ==
  /\ process' = "down"
  /\ DOMAIN mappings' = {} /\ DOMAIN reverse' = {}
  /\ nextPort' = FirstPort /\ answer' = Nat0!NoAnswer /\ now' = now

\* The relay uses the table only as NatTable describes, or loses all of it with the
\* process.
NatIsDriven == [][Nat0!Next \/ NatRestarts]_natVars

LEMMA EndsRestartsNat ==
  ASSUME Ends
  PROVE  NatRestarts /\ ExchangeInv'
BY DEF Ends, NatRestarts, ExchangeInv

LEMMA CreateDrivesNat ==
  ASSUME NEW dest, NEW size, ForwardUdp(dest, size), UdpServed(dest, size)
  PROVE  Nat0!Next /\ ExchangeInv'
<1>1. PICK k : k = Id
  OBVIOUS
<1>2. Arrives("udp", dest, size, FALSE) /\ Nat0!Create(Id)
  BY DEF ForwardUdp
<1>3. PICK port \in LocalPort : Sends("udp", dest, port)
  BY DEF ForwardUdp
<1>4. k \in RequestId /\ Nat0!Create(k)
  BY <1>1, <1>2 DEF Arrives
<1>5. /\ exchange'.id = k /\ exchange'.proto = "udp"
      /\ exchange'.translated = answer'.mapping.translated
  BY <1>1, <1>3 DEF Sends
<1>6. answer'.mapping.translated \in Nat0!Port
  <2>1. PICK p \in Nat0!Port :
          answer' = [flow |-> {k}, mapping |-> [translated |-> p, expires |-> now + Lifetime]]
    BY <1>4 DEF Nat0!Create
  <2> QED
    BY <2>1
<1> QED
  BY <1>4, <1>5, <1>6 DEF ExchangeInv, Nat0!Next

LEMMA NatStep ==
  ExchangeInv /\ [Next]_vars => ExchangeInv' /\ [Nat0!Next \/ NatRestarts]_natVars
<1> SUFFICES ASSUME ExchangeInv, [Next]_vars
             PROVE  ExchangeInv' /\ (Nat0!Next \/ NatRestarts \/ UNCHANGED natVars)
  OBVIOUS
<1>1. exchange' = exchange => ExchangeInv'
  BY DEF ExchangeInv, NoExchange
<1>2. CASE Start \/ UNCHANGED vars
  BY <1>1, <1>2 DEF Start, vars
<1>3. CASE Stop \/ ExchangeFails
  BY <1>3, EndsRestartsNat DEF Stop, ExchangeFails
<1>4. ASSUME NEW dest, NEW size, ForwardUdp(dest, size)
      PROVE  ExchangeInv' /\ (Nat0!Next \/ NatRestarts)
  BY <1>4, CreateDrivesNat, EndsRestartsNat DEF ForwardUdp
<1>5. ASSUME NEW proto \in {"dns", "tcp"}, NEW dest, NEW port, Sends(proto, dest, port), Id \in RequestId
      PROVE  ExchangeInv'
  <2>1. exchange'.id = Id /\ exchange'.proto = proto
    BY <1>5 DEF Sends
  <2> QED
    BY <1>5, <2>1 DEF ExchangeInv
<1>6. ASSUME NEW dest, NEW size, NEW query, ForwardDns(dest, size, query)
      PROVE  ExchangeInv' /\ (NatRestarts \/ UNCHANGED natVars)
  BY <1>5, <1>6, EndsRestartsNat DEF ForwardDns, Arrives
<1>7. ASSUME NEW dest, NEW size, ForwardTcp(dest, size)
      PROVE  ExchangeInv' /\ (NatRestarts \/ UNCHANGED natVars)
  BY <1>5, <1>7, EndsRestartsNat DEF ForwardTcp, Arrives
<1>8. CASE \E proto \in Protocols, dest \in Dest : ForwardDropped(proto, dest)
  BY <1>1, <1>8 DEF ForwardDropped
<1>9. CASE DestinationAnswers \/ \E m \in wire : Lose(m)
  BY <1>1, <1>9 DEF DestinationAnswers, Reply, Lose
<1>10. CASE Answered
  <2>1. PICK m \in wire : Receive(m)
    BY <1>10 DEF Answered
  <2>2. CASE Ends
    BY <2>2, EndsRestartsNat
  <2>3. CASE ~Ends
    <3>1. /\ exchange # NoExchange /\ exchange' = NoExchange
          /\ IF exchange.proto = "udp" THEN Nat0!LookupReverse(exchange.translated, exchange.id)
                                       ELSE UNCHANGED natVars
      BY <2>1, <2>3 DEF Receive
    <3> QED
      BY <3>1 DEF ExchangeInv, Nat0!Next
  <2> QED
    BY <2>2, <2>3
<1>11. CASE Tick \/ Heartbeat
  BY <1>1, <1>11 DEF Tick, Heartbeat, Nat0!Next
<1> QED
  BY <1>2, <1>3, <1>4, <1>6, <1>7, <1>8, <1>9, <1>10, <1>11 DEF Next

\* The exit relay drives its NAT table only through the operations of
\* network/src/nat.rs, with flows and ports that exist; so what is proved of the
\* table holds for it between two starts of the process.
THEOREM RelayDrivesNat == Spec => NatIsDriven
<1>1. Init => ExchangeInv
  BY DEF Init, ExchangeInv
<1> QED
  BY <1>1, NatStep, PTL DEF Spec, NatIsDriven
=============================================================================
