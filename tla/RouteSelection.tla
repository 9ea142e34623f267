--------------------------- MODULE RouteSelection ---------------------------
(***************************************************************************)
(* Ranking and selection of relays (relay/src/candidate.rs, routing.rs).   *)
(* Relays are numbered in the lexical order of their peer ids.  A          *)
(* candidate's "usable" stands for the checks on its protocol version,     *)
(* heartbeat, address, transport and capabilities.                         *)
(***************************************************************************)
EXTENDS Integers, Sequences, FiniteSets

CONSTANTS
  Relay,        \* peer ids, a set of numbers
  ClientPeer,   \* the client's own peer id
  Freshness     \* heartbeat_freshness

ASSUME RelayAssumption == Relay \subseteq Nat /\ ClientPeer \in Nat /\ Freshness \in Nat

\* latency_rank of a relay without a measured latency.
NoLatency == 1000000

RelayStatus == {"Starting", "Online", "Degraded", "Offline", "ShuttingDown"}

HealthRank == [Healthy |-> 2, Degraded |-> 1, Unhealthy |-> 0]

StatusRank(status) == IF status = "Online" THEN 1 ELSE 0

\* from_metadata: what the client takes as a candidate.
Accepted(c, now) ==
  /\ c.seen <= now
  /\ now - c.seen <= Freshness
  /\ c.usable
  /\ c.status # "Offline"

\* Variant: slower relays come first.
RankKeySlowFirst(c, now) ==
  <<2 - HealthRank[c.health], 1 - StatusRank(c.status), -c.latency, -(now - c.seen), c.peer>>

\* compare, as the list of its criteria: smaller comes first.  The age of the
\* metadata is compared right to left, as health and status are.
RankKey(c, now) ==
  <<2 - HealthRank[c.health], 1 - StatusRank(c.status), c.latency, -(now - c.seen), c.peer>>

Precedes(l, r, now) ==
  \E i \in 1 .. 5 :
    /\ RankKey(l, now)[i] < RankKey(r, now)[i]
    /\ \A j \in 1 .. i - 1 : RankKey(l, now)[j] = RankKey(r, now)[j]

\* sort_by is stable: equals stay in the order of the list.
Ahead(candidates, now, i, j) ==
  \/ Precedes(candidates[i], candidates[j], now)
  \/ ~Precedes(candidates[j], candidates[i], now) /\ i < j

\* The one rank puts first among the candidates at the places S of the list.
First(candidates, S, now) ==
  CHOOSE i \in S : \A j \in S \ {i} : Ahead(candidates, now, i, j)

Eligible(c) ==
  /\ c.peer # ClientPeer
  /\ c.status = "Online"
  /\ c.health = "Healthy"

EligibleIn(candidates) == {i \in DOMAIN candidates : Eligible(candidates[i])}

\* RouteSelector::select, <<>> for its errors.  It reads the first two of the
\* ranked list, which may be the same relay twice.
Select(candidates, mode, now) ==
  LET E == EligibleIn(candidates)
      first == First(candidates, E, now)
      second == First(candidates, E \ {first}, now)
      entry == candidates[first].peer
      exit == candidates[second].peer
  IN IF E = {} THEN <<>>
     ELSE IF mode = "OneHop" THEN <<entry>>
     ELSE IF E = {first} \/ entry = exit THEN <<>> ELSE <<entry, exit>>
=============================================================================
