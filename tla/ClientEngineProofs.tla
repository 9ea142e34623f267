------------------------- MODULE ClientEngineProofs -------------------------
(***************************************************************************)
(* Route selection and the client's event loop, for any relays, metadata   *)
(* and number of sessions.                                                 *)
(***************************************************************************)
EXTENDS ClientEngine, FiniteSetTheorems, WellFoundedInduction, TLAPS

CandidateType ==
  [peer : Relay, seen : Nat, health : DOMAIN HealthRank, status : RelayStatus,
   latency : Nat, usable : BOOLEAN]

-----------------------------------------------------------------------------
(* Selection.  Among eligible candidates health and status are equal, so    *)
(* that the rank is decided by latency, age, peer id and place in the list. *)

Lower(l, r) ==
  \/ l.latency < r.latency
  \/ l.latency = r.latency /\ l.seen < r.seen
  \/ l.latency = r.latency /\ l.seen = r.seen /\ l.peer < r.peer

LEMMA EligibleOrder ==
  ASSUME NEW l \in CandidateType, NEW r \in CandidateType, Eligible(l), Eligible(r),
         NEW t \in Nat
  PROVE  Precedes(l, r, t) <=> Lower(l, r)
<1> DEFINE k == RankKey(l, t)
           h == RankKey(r, t)
<1>1. /\ l.latency \in Nat /\ l.seen \in Nat /\ l.peer \in Nat
      /\ r.latency \in Nat /\ r.seen \in Nat /\ r.peer \in Nat
  BY RelayAssumption DEF CandidateType
<1>2. k = <<0, 0, l.latency, -(t - l.seen), l.peer>> /\ h = <<0, 0, r.latency, -(t - r.seen), r.peer>>
  BY DEF RankKey, Eligible, HealthRank, StatusRank
<1>3. /\ k[1] = 0 /\ k[2] = 0 /\ k[3] = l.latency /\ k[4] = l.seen - t /\ k[5] = l.peer
      /\ h[1] = 0 /\ h[2] = 0 /\ h[3] = r.latency /\ h[4] = r.seen - t /\ h[5] = r.peer
  BY <1>1, <1>2
<1>4. Precedes(l, r, t) <=>
        \E i \in 1 .. 5 : k[i] < h[i] /\ \A j \in 1 .. i - 1 : k[j] = h[j]
  BY DEF Precedes
<1> HIDE DEF k, h
<1>5. ASSUME NEW i \in 1 .. 5, k[i] < h[i], \A j \in 1 .. i - 1 : k[j] = h[j]
      PROVE  Lower(l, r)
  <2>1. i \in {3, 4, 5}
    BY <1>3, <1>5
  <2>2. CASE i = 3
    BY <1>3, <1>5, <2>2 DEF Lower
  <2>3. CASE i = 4
    <3>1. k[3] = h[3]
      BY <1>5, <2>3
    <3> QED BY <1>1, <1>3, <1>5, <2>3, <3>1 DEF Lower
  <2>4. CASE i = 5
    <3>1. k[3] = h[3] /\ k[4] = h[4]
      BY <1>5, <2>4
    <3> QED BY <1>1, <1>3, <1>5, <2>4, <3>1 DEF Lower
  <2> QED BY <2>1, <2>2, <2>3, <2>4
<1>6. ASSUME Lower(l, r)
      PROVE  \E i \in 1 .. 5 : k[i] < h[i] /\ \A j \in 1 .. i - 1 : k[j] = h[j]
  <2>1. CASE l.latency < r.latency
    <3>1. k[3] < h[3] /\ \A j \in 1 .. 3 - 1 : k[j] = h[j]
      BY <1>3, <2>1
    <3> QED BY <3>1
  <2>2. CASE l.latency = r.latency /\ l.seen < r.seen
    <3>1. k[4] < h[4] /\ \A j \in 1 .. 4 - 1 : k[j] = h[j]
      BY <1>1, <1>3, <2>2
    <3> QED BY <3>1
  <2>3. CASE l.latency = r.latency /\ l.seen = r.seen /\ l.peer < r.peer
    <3>1. k[5] < h[5] /\ \A j \in 1 .. 5 - 1 : k[j] = h[j]
      BY <1>1, <1>3, <2>3
    <3> QED BY <3>1
  <2> QED BY <1>6, <2>1, <2>2, <2>3 DEF Lower
<1> QED BY <1>4, <1>5, <1>6

\* The stable order of two places of the list.
LEMMA AheadOrder ==
  ASSUME NEW s \in Seq(CandidateType), NEW t \in Nat,
         NEW i \in EligibleIn(s), NEW j \in EligibleIn(s)
  PROVE  /\ i \in Nat /\ j \in Nat
         /\ s[i] \in CandidateType /\ s[j] \in CandidateType
         /\ Ahead(s, t, i, j) <=> Lower(s[i], s[j]) \/ (~Lower(s[j], s[i]) /\ i < j)
<1>1. i \in 1 .. Len(s) /\ j \in 1 .. Len(s) /\ Len(s) \in Nat
  BY DEF EligibleIn
<1>2. s[i] \in CandidateType /\ s[j] \in CandidateType
  BY <1>1
<1>3. Eligible(s[i]) /\ Eligible(s[j])
  BY DEF EligibleIn
<1> QED BY <1>1, <1>2, <1>3, EligibleOrder DEF Ahead

LEMMA LowerNumbers ==
  ASSUME NEW c \in CandidateType
  PROVE  c.latency \in Nat /\ c.seen \in Nat /\ c.peer \in Nat
BY RelayAssumption DEF CandidateType

LEMMA LowerIsFaster ==
  ASSUME NEW l \in CandidateType, NEW r \in CandidateType
  PROVE  /\ ~Lower(l, l)
         /\ Lower(l, r) => l.latency <= r.latency
         /\ ~Lower(r, l) => l.latency <= r.latency
<1>1. /\ l.latency \in Nat /\ l.seen \in Nat /\ l.peer \in Nat
      /\ r.latency \in Nat
  BY LowerNumbers
<1>2. ~Lower(l, l)
  BY <1>1 DEF Lower
<1>3. Lower(l, r) => l.latency <= r.latency
  BY <1>1 DEF Lower
<1>4. ~Lower(r, l) => l.latency <= r.latency
  BY <1>1 DEF Lower
<1> QED BY <1>2, <1>3, <1>4

\* It is a strict total order.
LEMMA AheadIsTotal ==
  ASSUME NEW s \in Seq(CandidateType), NEW t \in Nat,
         NEW i \in EligibleIn(s), NEW j \in EligibleIn(s)
  PROVE  /\ ~Ahead(s, t, i, i)
         /\ i # j /\ ~Ahead(s, t, j, i) => Ahead(s, t, i, j)
         /\ Ahead(s, t, i, j) => s[i].latency <= s[j].latency
<1>1. /\ s[i].latency \in Nat /\ s[i].seen \in Nat /\ s[i].peer \in Nat
      /\ s[j].latency \in Nat /\ s[j].seen \in Nat /\ s[j].peer \in Nat
      /\ i \in Nat /\ j \in Nat
  BY AheadOrder, LowerNumbers
<1>2. /\ Ahead(s, t, i, j) <=> Lower(s[i], s[j]) \/ (~Lower(s[j], s[i]) /\ i < j)
      /\ Ahead(s, t, j, i) <=> Lower(s[j], s[i]) \/ (~Lower(s[i], s[j]) /\ j < i)
      /\ Ahead(s, t, i, i) <=> Lower(s[i], s[i]) \/ (~Lower(s[i], s[i]) /\ i < i)
  BY AheadOrder
<1>3. /\ ~Lower(s[i], s[i])
      /\ Lower(s[i], s[j]) => s[i].latency <= s[j].latency
      /\ ~Lower(s[j], s[i]) => s[i].latency <= s[j].latency
  <2>1. s[i] \in CandidateType /\ s[j] \in CandidateType
    BY AheadOrder
  <2> QED BY <2>1, LowerIsFaster
<1>4. ~(i < i) /\ (i # j => i < j \/ j < i)
  BY <1>1
<1> QED BY <1>2, <1>3, <1>4

\* Lower, then the place: the order of latency, age, peer id and place.
LEMMA LowerThenPlace ==
  ASSUME NEW l \in CandidateType, NEW r \in CandidateType, NEW i \in Nat, NEW j \in Nat
  PROVE  Lower(l, r) \/ (~Lower(r, l) /\ i < j) <=>
           \/ l.latency < r.latency
           \/ /\ l.latency = r.latency
              /\ l.seen < r.seen \/ (l.seen = r.seen /\ (l.peer < r.peer \/ (l.peer = r.peer /\ i < j)))
BY LowerNumbers DEF Lower

LEMMA AheadIsTransitive ==
  ASSUME NEW s \in Seq(CandidateType), NEW t \in Nat,
         NEW i \in EligibleIn(s), NEW j \in EligibleIn(s), NEW k \in EligibleIn(s),
         Ahead(s, t, i, j), Ahead(s, t, j, k)
  PROVE  Ahead(s, t, i, k)
<1> DEFINE Lex(l1, l2, l3, l4, r1, r2, r3, r4) ==
             \/ l1 < r1
             \/ l1 = r1 /\ (l2 < r2 \/ (l2 = r2 /\ (l3 < r3 \/ (l3 = r3 /\ l4 < r4))))
           a1 == s[i].latency  b1 == s[j].latency  c1 == s[k].latency
           a2 == s[i].seen     b2 == s[j].seen     c2 == s[k].seen
           a3 == s[i].peer     b3 == s[j].peer     c3 == s[k].peer
<1>1. /\ a1 \in Nat /\ a2 \in Nat /\ a3 \in Nat /\ b1 \in Nat /\ b2 \in Nat /\ b3 \in Nat
      /\ c1 \in Nat /\ c2 \in Nat /\ c3 \in Nat /\ i \in Nat /\ j \in Nat /\ k \in Nat
  BY AheadOrder, LowerNumbers
<1>2. /\ s[i] \in CandidateType /\ s[j] \in CandidateType /\ s[k] \in CandidateType
      /\ Lower(s[i], s[j]) \/ (~Lower(s[j], s[i]) /\ i < j)
      /\ Lower(s[j], s[k]) \/ (~Lower(s[k], s[j]) /\ j < k)
      /\ Ahead(s, t, i, k) <=> Lower(s[i], s[k]) \/ (~Lower(s[k], s[i]) /\ i < k)
  BY AheadOrder
<1>3. Lex(a1, a2, a3, i, b1, b2, b3, j) /\ Lex(b1, b2, b3, j, c1, c2, c3, k)
  BY <1>1, <1>2, LowerThenPlace
<1>4. Lex(a1, a2, a3, i, c1, c2, c3, k)
  <2> HIDE DEF a1, a2, a3, b1, b2, b3, c1, c2, c3
  <2> QED BY <1>1, <1>3
<1> QED BY <1>1, <1>2, <1>4, LowerThenPlace

LEMMA LeastElement ==
  ASSUME NEW T \in SUBSET Nat, T # {}
  PROVE  \E x \in T : \A y \in T : x <= y
<1> DEFINE R == OpToRel(<, Nat)
<1>1. IsWellFoundedOn(R, Nat)
  BY NatLessThanWellFounded
<1>2. PICK x \in T : \A y \in T : ~(<<y, x>> \in R)
  <2> HIDE DEF R
  <2> QED BY <1>1, WFMin
<1>3. \A y \in T : ~(y < x)
  BY <1>2 DEF OpToRel
<1> QED
  BY <1>3

\* Some place has none ahead of it: one with as few ahead as any, because a
\* place ahead of it would have fewer.
LEMMA SomeoneIsFirst ==
  ASSUME NEW s \in Seq(CandidateType), NEW t \in Nat,
         NEW S \in SUBSET EligibleIn(s), S # {}
  PROVE  \E i \in S : \A j \in S \ {i} : Ahead(s, t, i, j)
<1> DEFINE Before(i) == {j \in S : Ahead(s, t, j, i)}
           Counts == {Cardinality(Before(i)) : i \in S}
<1>1. IsFiniteSet(S)
  <2>1. S \subseteq 1 .. Len(s) /\ Len(s) \in Nat
    BY DEF EligibleIn
  <2>2. IsFiniteSet(1 .. Len(s))
    BY <2>1, FS_Interval
  <2> QED BY <2>1, <2>2, FS_Subset
<1>2. ASSUME NEW i \in S PROVE IsFiniteSet(Before(i)) /\ Cardinality(Before(i)) \in Nat
  BY <1>1, FS_Subset, FS_CardinalityType
<1>3. PICK i \in S : \A j \in S : Cardinality(Before(i)) <= Cardinality(Before(j))
  <2>1. Counts \in SUBSET Nat /\ Counts # {}
    BY <1>2
  <2>2. PICK x \in Counts : \A y \in Counts : x <= y
    <3> HIDE DEF Counts
    <3> QED BY <2>1, LeastElement
  <2> QED BY <2>2
<1>4. ASSUME NEW j \in Before(i) PROVE FALSE
  <2>1. j \in S /\ Ahead(s, t, j, i)
    BY <1>4
  <2>2. Before(j) \subseteq Before(i)
    BY <2>1, AheadIsTransitive
  <2>3. j \notin Before(j)
    BY <2>1, AheadIsTotal
  <2>4. Cardinality(Before(j)) < Cardinality(Before(i))
    <3>1. Before(j) # Before(i)
      BY <1>4, <2>3
    <3>2. IsFiniteSet(Before(i)) /\ Cardinality(Before(i)) \in Nat /\ Cardinality(Before(j)) \in Nat
      BY <1>2, <2>1
    <3> HIDE DEF Before
    <3>3. /\ Cardinality(Before(j)) <= Cardinality(Before(i))
          /\ Cardinality(Before(i)) = Cardinality(Before(j)) => Before(i) = Before(j)
      BY <2>2, <3>2, FS_Subset
    <3> QED BY <3>1, <3>2, <3>3
  <2>5. /\ Cardinality(Before(i)) <= Cardinality(Before(j))
        /\ Cardinality(Before(i)) \in Nat /\ Cardinality(Before(j)) \in Nat
    BY <1>2, <1>3, <2>1
  <2> HIDE DEF Before
  <2> QED BY <2>4, <2>5
<1>5. \A j \in S \ {i} : Ahead(s, t, i, j)
  BY <1>4, AheadIsTotal
<1> QED BY <1>5

LEMMA FirstIsFastest ==
  ASSUME NEW s \in Seq(CandidateType), NEW t \in Nat,
         NEW S \in SUBSET EligibleIn(s), S # {}
  PROVE  /\ First(s, S, t) \in S
         /\ \A j \in S : s[First(s, S, t)].latency <= s[j].latency
<1> DEFINE i == First(s, S, t)
<1>1. i \in S /\ \A j \in S \ {i} : Ahead(s, t, i, j)
  BY SomeoneIsFirst DEF First
<1>2. s[i].latency \in Nat
  BY <1>1, AheadOrder, LowerNumbers
<1> QED BY <1>1, <1>2, AheadIsTotal

LEMMA SelectedRoute ==
  ASSUME NEW s \in Seq(CandidateType), NEW t \in Nat, NEW r, r = Select(s, Mode, t), r # <<>>
  PROVE  /\ r \in Seq(Relay)
         /\ \E first \in EligibleIn(s) :
              /\ r[1] = s[first].peer
              /\ \A j \in EligibleIn(s) : s[first].latency <= s[j].latency
              /\ Mode = "TwoHop" =>
                   \E second \in EligibleIn(s) \ {first} :
                     /\ r[2] = s[second].peer /\ r[2] # r[1]
                     /\ \A j \in EligibleIn(s) \ {first} : s[second].latency <= s[j].latency
<1> DEFINE E == EligibleIn(s)
           first == First(s, E, t)
           second == First(s, E \ {first}, t)
<1>1. E # {}
  BY DEF Select
<1>2. first \in E /\ \A j \in E : s[first].latency <= s[j].latency
  BY <1>1, FirstIsFastest
<1>3. s[first].peer \in Relay
  <2>1. s[first] \in CandidateType
    BY <1>2, AheadOrder
  <2> QED BY <2>1 DEF CandidateType
<1>4. CASE Mode = "OneHop"
  <2>1. r = <<s[first].peer>>
    BY <1>1, <1>4 DEF Select
  <2>2. r[1] = s[first].peer /\ r \in Seq(Relay)
    BY <1>3, <2>1
  <2> QED BY <1>2, <1>4, <2>2
<1>5. CASE Mode = "TwoHop"
  <2>1. r = <<s[first].peer, s[second].peer>> /\ E # {first} /\ s[first].peer # s[second].peer
    BY <1>1, <1>5 DEF Select
  <2>2. E \ {first} # {} /\ E \ {first} \in SUBSET EligibleIn(s)
    BY <1>2, <2>1
  <2>3. second \in E \ {first} /\ \A j \in E \ {first} : s[second].latency <= s[j].latency
    <3> HIDE DEF first
    <3> QED BY <2>2, FirstIsFastest
  <2>4. s[second].peer \in Relay
    <3>1. s[second] \in CandidateType
      BY <2>3, AheadOrder
    <3> QED BY <3>1 DEF CandidateType
  <2>5. r[1] = s[first].peer /\ r[2] = s[second].peer /\ r \in Seq(Relay)
    BY <1>3, <2>1, <2>4
  <2> HIDE DEF first, second
  <2> QED BY <1>2, <2>1, <2>3, <2>5
<1> QED BY <1>4, <1>5, EngineAssumption

-----------------------------------------------------------------------------
(* The event loop. *)

SessionType == [id : Nat, route : Seq(Relay)]

TypeInv ==
  /\ now \in Nat
  /\ conns \in [Relay -> Nat]
  /\ candidates \in Seq(CandidateType)
  /\ started \in Nat
  /\ pending \in SessionType
  /\ route \in Seq(Relay)

\* A session that is being established has a number and a route, and no other
\* handshake is under way.
PendingInv ==
  /\ pending.id # 0 => pending.route # <<>>
  /\ awaited \subseteq {pending.id} \ {0}

EngineInv == TypeInv /\ PendingInv /\ ActiveIsWhole /\ ReadyMeansConnected

LEMMA EngineInitially == Init => EngineInv
<1> SUFFICES ASSUME Init PROVE EngineInv
  OBVIOUS
<1>1. NoSession \in SessionType
  BY DEF NoSession, SessionType
<1>2. TypeInv
  BY <1>1 DEF Init, TypeInv
<1> QED
  BY <1>2 DEF Init, EngineInv, PendingInv, ActiveIsWhole, ReadyMeansConnected, NoSession

\* The metadata that completes a route starts a session only while none is
\* pending, and then no handshake is under way either.
LEMMA MetadataKeeps ==
  ASSUME EngineInv, NEW p \in Relay, NEW m \in Metadata, NEW t \in 0 .. now,
         MetadataResponse(p, m, t)
  PROVE  EngineInv'
<1> DEFINE candidate == Candidate(p, m, t)
           selected == RouteWith(candidate)
<1>1. /\ candidates' = IF Accepted(candidate, now) THEN Append(candidates, candidate) ELSE candidates
      /\ UNCHANGED <<now, conns, channel, sessionId, route, exitPeer, ready>>
  BY DEF MetadataResponse, activeVars
<1>2. candidate \in CandidateType
  <2>1. /\ m.health \in DOMAIN HealthRank /\ m.status \in RelayStatus
        /\ m.latency \in Nat /\ m.usable \in BOOLEAN
    BY EngineAssumption
  <2>2. t \in Nat
    BY DEF EngineInv, TypeInv
  <2> QED BY <2>1, <2>2 DEF Candidate, CandidateType
<1>3. candidates' \in Seq(CandidateType)
  <2> HIDE DEF candidate
  <2> QED BY <1>1, <1>2 DEF EngineInv, TypeInv
<1>4. ActiveIsWhole' /\ ReadyMeansConnected'
  BY <1>1 DEF EngineInv, ActiveIsWhole, ReadyMeansConnected
<1>5. CASE Accepted(candidate, now) /\ selected # <<>> /\ MayStart
  <2>1. /\ started' = started + 1
        /\ awaited' = awaited \cup {started + 1}
        /\ pending' = [id |-> started + 1, route |-> selected]
    BY <1>5 DEF MetadataResponse
  <2>2. awaited = {}
    BY <1>5 DEF MayStart, NoSession, EngineInv, PendingInv
  <2>3. selected \in Seq(Relay)
    <3>1. Append(candidates, candidate) \in Seq(CandidateType)
      BY <1>1, <1>3, <1>5
    <3> HIDE DEF candidate
    <3> QED BY <1>5, <3>1, SelectedRoute DEF RouteWith, EngineInv, TypeInv
  <2> HIDE DEF selected
  <2>4. started + 1 \in Nat \ {0}
    BY DEF EngineInv, TypeInv
  <2>5. pending' \in SessionType
    BY <2>1, <2>3, <2>4 DEF SessionType
  <2>6. TypeInv'
    BY <1>1, <1>3, <2>1, <2>4, <2>5 DEF EngineInv, TypeInv
  <2>7. PendingInv'
    BY <1>5, <2>1, <2>2, <2>4 DEF PendingInv
  <2> QED BY <1>4, <2>6, <2>7 DEF EngineInv
<1>6. CASE ~(Accepted(candidate, now) /\ selected # <<>> /\ MayStart)
  <2>1. UNCHANGED <<started, awaited, pending>>
    BY <1>6 DEF MetadataResponse
  <2> HIDE DEF candidate, selected
  <2>2. TypeInv'
    BY <1>1, <1>3, <2>1 DEF EngineInv, TypeInv
  <2> QED BY <1>4, <2>1, <2>2 DEF EngineInv, PendingInv
<1> QED BY <1>5, <1>6

\* The session that becomes active takes all its parts from the pending one, while
\* its first relay is connected.
LEMMA HandshakeKeeps ==
  ASSUME EngineInv, HandshakeResponse
  PROVE  EngineInv'
<1>1. /\ pending.id \in awaited /\ conns[pending.route[1]] > 0
      /\ awaited' = awaited \ {pending.id} /\ pending' = NoSession
      /\ UNCHANGED <<now, conns, candidates, started>>
  BY DEF HandshakeResponse, netVars
<1>2. pending.id # 0 /\ pending.route # <<>> /\ pending.route \in Seq(Relay)
  BY <1>1 DEF EngineInv, PendingInv, TypeInv, SessionType
<1>3. NoSession \in SessionType /\ NoSession.id = 0
  BY DEF NoSession, SessionType
<1>4. PendingInv'
  BY <1>1, <1>3 DEF EngineInv, PendingInv
<1>5. CASE /\ channel' = pending.id /\ sessionId' = pending.id /\ route' = pending.route
           /\ exitPeer' = pending.route[Len(pending.route)] /\ ready' = TRUE
  <2>1. TypeInv'
    BY <1>1, <1>2, <1>3, <1>5 DEF EngineInv, TypeInv
  <2>2. ActiveIsWhole' /\ ReadyMeansConnected'
    BY <1>1, <1>2, <1>5 DEF ActiveIsWhole, ReadyMeansConnected
  <2> QED BY <1>4, <2>1, <2>2 DEF EngineInv
<1>6. CASE UNCHANGED activeVars
  <2>1. TypeInv'
    BY <1>1, <1>3, <1>6 DEF EngineInv, TypeInv, activeVars
  <2>2. ActiveIsWhole' /\ ReadyMeansConnected'
    BY <1>1, <1>6 DEF EngineInv, ActiveIsWhole, ReadyMeansConnected, activeVars
  <2> QED BY <1>4, <2>1, <2>2 DEF EngineInv
<1> QED BY <1>5, <1>6 DEF HandshakeResponse

\* Only the end of a route ends the session, and then nothing is left of it; a
\* connection of another relay than the first is not the one a session needs.
LEMMA DisconnectKeeps ==
  ASSUME EngineInv, NEW p \in Relay, PeerDisconnected(p)
  PROVE  EngineInv'
<1>1. /\ conns[p] > 0 /\ conns' = [conns EXCEPT ![p] = @ - 1]
      /\ IF EndsRoute(p) THEN Forget ELSE UNCHANGED activeVars
      /\ UNCHANGED <<now, candidates, pending, started, awaited>>
  BY DEF PeerDisconnected
<1>2. conns' \in [Relay -> Nat]
  BY <1>1 DEF EngineInv, TypeInv
<1>3. PendingInv'
  BY <1>1 DEF EngineInv, PendingInv
<1>4. CASE EndsRoute(p)
  <2>1. TypeInv'
    BY <1>1, <1>2, <1>4 DEF EngineInv, TypeInv, Forget
  <2>2. ActiveIsWhole' /\ ReadyMeansConnected'
    BY <1>1, <1>4 DEF Forget, ActiveIsWhole, ReadyMeansConnected
  <2> QED BY <1>3, <2>1, <2>2 DEF EngineInv
<1>5. CASE ~EndsRoute(p)
  <2>1. UNCHANGED <<channel, sessionId, route, exitPeer, ready>>
    BY <1>1, <1>5 DEF activeVars
  <2>2. TypeInv'
    BY <1>1, <1>2, <2>1 DEF EngineInv, TypeInv
  <2>3. ActiveIsWhole'
    BY <2>1 DEF EngineInv, ActiveIsWhole
  <2>4. ReadyMeansConnected'
    <3> SUFFICES ASSUME ready PROVE conns'[route[1]] > 0
      BY <2>1 DEF ReadyMeansConnected
    <3>1. route # <<>> /\ conns[route[1]] > 0
      BY DEF EngineInv, ActiveIsWhole, ReadyMeansConnected
    <3>2. route[1] \in Relay /\ route[1] # p
      BY <1>5, <3>1 DEF EngineInv, TypeInv, EndsRoute
    <3> QED BY <1>1, <3>1, <3>2 DEF EngineInv, TypeInv
  <2> QED BY <1>3, <2>2, <2>3, <2>4 DEF EngineInv
<1> QED BY <1>4, <1>5

\* What the other steps leave alone.
LEMMA OtherStepsKeep ==
  ASSUME EngineInv, UNCHANGED <<candidates, pending, started, activeVars>>,
         now' \in Nat, conns' \in [Relay -> Nat], awaited' \subseteq awaited,
         \A p \in Relay : conns[p] <= conns'[p]
  PROVE  EngineInv'
<1>1. TypeInv' /\ PendingInv' /\ ActiveIsWhole'
  BY DEF EngineInv, TypeInv, PendingInv, ActiveIsWhole, activeVars
<1>2. ReadyMeansConnected'
  <2> SUFFICES ASSUME ready PROVE conns'[route[1]] > 0
    BY DEF ReadyMeansConnected, activeVars
  <2>1. route # <<>> /\ conns[route[1]] > 0
    BY DEF EngineInv, ActiveIsWhole, ReadyMeansConnected
  <2>2. route[1] \in Relay
    BY <2>1 DEF EngineInv, TypeInv
  <2> QED BY <2>1, <2>2 DEF EngineInv, TypeInv
<1> QED BY <1>1, <1>2 DEF EngineInv

LEMMA EngineStepKeeps == EngineInv /\ [Next]_vars => EngineInv'
<1> SUFFICES ASSUME EngineInv, [Next]_vars PROVE EngineInv'
  OBVIOUS
<1>t. now \in Nat /\ conns \in [Relay -> Nat]
  BY DEF EngineInv, TypeInv
<1>1. ASSUME NEW p \in Relay, PeerConnected(p) PROVE EngineInv'
  <2>1. conns' \in [Relay -> Nat] /\ \A q \in Relay : conns[q] <= conns'[q]
    BY <1>1, <1>t DEF PeerConnected
  <2> QED BY <1>1, <1>t, <2>1, OtherStepsKeep DEF PeerConnected
<1>2. ASSUME NEW p \in Relay, PeerDisconnected(p) PROVE EngineInv'
  BY <1>2, DisconnectKeeps
<1>3. ASSUME NEW p \in Relay, MetadataLost(p) PROVE EngineInv'
  BY <1>3, <1>t, OtherStepsKeep DEF MetadataLost
<1>4. CASE MetadataArrives
  BY <1>4, MetadataKeeps DEF MetadataArrives
<1>5. CASE HandshakeResponse
  BY <1>5, HandshakeKeeps
<1>6. CASE HandshakeLost
  BY <1>6, <1>t, OtherStepsKeep DEF HandshakeLost, netVars
<1>7. CASE TunPacket
  BY <1>7, <1>t, OtherStepsKeep DEF TunPacket, netVars
<1>8. ASSUME NEW s \in answers, ForwardingResponse(s) PROVE EngineInv'
  BY <1>8, <1>t, OtherStepsKeep DEF ForwardingResponse, netVars
<1>9. CASE Tick
  BY <1>9, <1>t, OtherStepsKeep DEF Tick, netVars
<1>10. CASE UNCHANGED vars
  BY <1>10, <1>t, OtherStepsKeep DEF vars, netVars
<1> QED
  BY <1>1, <1>2, <1>3, <1>4, <1>5, <1>6, <1>7, <1>8, <1>9, <1>10 DEF Next

LEMMA EngineAlwaysInv == Spec => []EngineInv
BY EngineInitially, EngineStepKeeps, PTL DEF Spec

\* The parts of the active session are set and cleared together by the handshake
\* and the disconnect branch of run_client, in every behaviour.
THEOREM ActiveAlwaysWhole == Spec => []ActiveIsWhole
BY EngineAlwaysInv, PTL DEF EngineInv

\* A client that shows itself ready has a connection to the first relay of its
\* route, although sessions are replaced and connections come and go.
THEOREM ReadyIsConnected == Spec => []ReadyMeansConnected
BY EngineAlwaysInv, PTL DEF EngineInv

\* No response to an abandoned handshake is under way beside the pending one.
THEOREM HandshakesDoNotOverlap == Spec => []OneHandshakeAtATime
<1>1. EngineInv => OneHandshakeAtATime
  <2> SUFFICES ASSUME EngineInv PROVE OneHandshakeAtATime
    OBVIOUS
  <2>1. awaited \in SUBSET {pending.id}
    BY DEF EngineInv, PendingInv
  <2>2. Cardinality(awaited) <= 1
    <3>1. IsFiniteSet({pending.id}) /\ Cardinality({pending.id}) = 1
      BY FS_Singleton
    <3>2. Cardinality(awaited) <= Cardinality({pending.id})
      BY <2>1, <3>1, FS_Subset
    <3> QED BY <3>1, <3>2
  <2> QED BY <2>1, <2>2 DEF OneHandshakeAtATime
<1> QED BY <1>1, EngineAlwaysInv, PTL

\* RouteSelector::select returns a fastest entry and a fastest exit among the
\* other relays, for every list of candidates a client can have collected.
THEOREM SelectionIsBest == Spec => []SelectsBest
<1>1. EngineInv => SelectsBest
  <2> SUFFICES ASSUME EngineInv PROVE SelectsBest
    OBVIOUS
  <2> DEFINE r == Select(candidates, Mode, now)
  <2>1. candidates \in Seq(CandidateType) /\ now \in Nat
    BY DEF EngineInv, TypeInv
  <2> QED BY <2>1, SelectedRoute DEF SelectsBest
<1> QED BY <1>1, EngineAlwaysInv, PTL

-----------------------------------------------------------------------------
\* As many relays as the mode asks for, each another one and none the client.
Proper(r) ==
  /\ Len(r) = IF Mode = "OneHop" THEN 1 ELSE 2
  /\ r[1] # ClientPeer
  /\ Mode = "TwoHop" => r[2] # r[1] /\ r[2] # ClientPeer

\* The session being established and the active one have such routes, and over
\* two hops the relay that sees the client is not the one that sees the traffic.
EntryIsNotExit ==
  /\ pending.id # 0 => Proper(pending.route)
  /\ channel # 0 => Proper(route) /\ (Mode = "TwoHop" => exitPeer # route[1])

RouteInv ==
  /\ pending.id # 0 => Proper(pending.route)
  /\ channel # 0 => Proper(route)

LEMMA SelectedIsProper ==
  ASSUME NEW s \in Seq(CandidateType), NEW t \in Nat, NEW r, r = Select(s, Mode, t), r # <<>>
  PROVE  Proper(r)
<1>1. PICK first \in EligibleIn(s) :
        /\ r[1] = s[first].peer
        /\ Mode = "TwoHop" =>
             \E second \in EligibleIn(s) \ {first} : r[2] = s[second].peer /\ r[2] # r[1]
  BY SelectedRoute
<1>2. \A i \in EligibleIn(s) : s[i].peer # ClientPeer
  BY DEF EligibleIn, Eligible
<1>3. Len(r) = IF Mode = "OneHop" THEN 1 ELSE 2
  BY EngineAssumption DEF Select
<1> QED BY <1>1, <1>2, <1>3 DEF Proper

LEMMA RouteStepKeeps ==
  ASSUME EngineInv, RouteInv, [Next]_vars
  PROVE  RouteInv'
<1>1. CASE UNCHANGED <<pending, channel, route>>
  BY <1>1 DEF RouteInv
<1>2. ASSUME NEW p \in Relay, PeerDisconnected(p) PROVE RouteInv'
  BY <1>2 DEF PeerDisconnected, Forget, activeVars, RouteInv
<1>3. CASE HandshakeResponse
  <2>1. pending.id # 0 /\ Proper(pending.route) /\ pending'.id = 0
    BY <1>3 DEF HandshakeResponse, EngineInv, PendingInv, RouteInv, NoSession
  <2>2. channel' # 0 => Proper(route')
    BY <1>3, <2>1 DEF HandshakeResponse, activeVars, RouteInv
  <2> QED BY <2>1, <2>2 DEF RouteInv, Proper
<1>4. ASSUME NEW p \in Relay, NEW m \in Metadata, NEW t \in 0 .. now, MetadataResponse(p, m, t),
             pending' # pending
      PROVE  RouteInv'
  <2> DEFINE candidate == Candidate(p, m, t)
             s == Append(candidates, candidate)
             selected == Select(s, Mode, now)
  <2>1. /\ selected # <<>> /\ pending' = [id |-> started + 1, route |-> selected]
        /\ candidates' = s /\ UNCHANGED <<channel, route>>
    BY <1>4 DEF MetadataResponse, RouteWith, activeVars
  <2>2. s \in Seq(CandidateType) /\ now \in Nat
    <3>1. EngineInv'
      BY <1>4, MetadataKeeps
    <3> HIDE DEF s
    <3> QED BY <2>1, <3>1 DEF EngineInv, TypeInv
  <2> HIDE DEF s
  <2>3. Proper(selected)
    BY <2>1, <2>2, SelectedIsProper
  <2> HIDE DEF selected
  <2>4. Proper(pending'.route)
    BY <2>1, <2>3
  <2> QED BY <2>1, <2>4 DEF RouteInv, Proper
<1>5. ASSUME NEW p \in Relay, NEW m \in Metadata, NEW t \in 0 .. now, MetadataResponse(p, m, t)
      PROVE  RouteInv'
  BY <1>1, <1>4, <1>5 DEF MetadataResponse, activeVars
<1>6. CASE \/ \E p \in Relay : PeerConnected(p) \/ MetadataLost(p)
           \/ HandshakeLost \/ TunPacket \/ Tick \/ UNCHANGED vars
           \/ \E s \in answers : ForwardingResponse(s)
  BY <1>1, <1>6 DEF PeerConnected, MetadataLost, HandshakeLost, TunPacket, Tick,
     ForwardingResponse, vars, activeVars
<1> QED BY <1>2, <1>3, <1>5, <1>6 DEF Next, MetadataArrives

\* Whatever relays report, however often and in whichever order, run_client never
\* establishes or uses a two-hop session whose entry is its exit, or a route
\* through itself (RouteSelector::select, relay/src/routing.rs).
THEOREM EntryIsNeverExit == Spec => []EntryIsNotExit
<1>1. Init => RouteInv
  BY DEF Init, RouteInv, NoSession
<1>2. EngineInv /\ RouteInv /\ [Next]_vars => RouteInv'
  BY RouteStepKeeps
<1>3. EngineInv /\ RouteInv => EntryIsNotExit
  <2> SUFFICES ASSUME EngineInv, RouteInv PROVE EntryIsNotExit
    OBVIOUS
  <2>1. channel # 0 => exitPeer = route[Len(route)]
    BY DEF EngineInv, ActiveIsWhole
  <2>2. channel # 0 /\ Mode = "TwoHop" => Len(route) = 2 /\ route[2] # route[1]
    BY DEF RouteInv, Proper
  <2> QED BY <2>1, <2>2 DEF RouteInv, EntryIsNotExit
<1> QED BY <1>1, <1>2, <1>3, EngineAlwaysInv, PTL DEF Spec

-----------------------------------------------------------------------------
(* A session for every route.  The rank compares the ages of two candidates, *)
(* which differ by the same amount at any time.                              *)

LEMMA FirstIgnoresTime ==
  ASSUME NEW s \in Seq(CandidateType), NEW t \in Nat, NEW u \in Nat,
         NEW S \in SUBSET EligibleIn(s), S # {}
  PROVE  First(s, S, t) = First(s, S, u)
<1> DEFINE i == First(s, S, t)
           k == First(s, S, u)
<1>1. i \in S /\ \A j \in S \ {i} : Ahead(s, t, i, j)
  BY SomeoneIsFirst DEF First
<1>2. k \in S /\ \A j \in S \ {k} : Ahead(s, u, k, j)
  BY SomeoneIsFirst DEF First
<1> HIDE DEF i, k
<1> SUFFICES ASSUME i # k PROVE FALSE
  BY DEF i, k
<1>3. Ahead(s, t, i, k) /\ Ahead(s, u, k, i)
  BY <1>1, <1>2
<1>4. Ahead(s, t, k, i)
  BY <1>1, <1>2, <1>3, AheadOrder
<1> QED
  BY <1>1, <1>2, <1>3, <1>4, AheadIsTransitive, AheadIsTotal

\* Which route RouteSelector::select returns does not depend on when it is asked.
LEMMA SelectIgnoresTime ==
  ASSUME NEW s \in Seq(CandidateType), NEW t \in Nat, NEW u \in Nat
  PROVE  Select(s, Mode, t) = Select(s, Mode, u)
<1> DEFINE E == EligibleIn(s)
           f == First(s, E, t)
<1>1. CASE E = {}
  BY <1>1 DEF Select
<1>2. CASE E # {}
  <2>1. f = First(s, E, u)
    BY <1>2, FirstIgnoresTime
  <2>2. CASE E = {f}
    <3> HIDE DEF E, f
    <3> QED BY <1>2, <2>1, <2>2 DEF Select, E, f
  <2>3. CASE E # {f}
    <3>1. f \in E
      BY <1>2, FirstIsFastest
    <3>2. E \ {f} # {} /\ E \ {f} \in SUBSET EligibleIn(s)
      BY <2>3, <3>1
    <3>3. First(s, E \ {f}, t) = First(s, E \ {f}, u)
      <4> HIDE DEF f
      <4> QED BY <3>2, FirstIgnoresTime
    <3> QED BY <2>1, <3>3 DEF Select
  <2> QED BY <2>2, <2>3
<1> QED BY <1>1, <1>2

\* While nothing was lost: a relay that was asked or has answered is connected,
\* a pending session's handshake is under way, and candidates that make a route
\* have led to a session.
SessionInv ==
  /\ asked \in [Relay -> Nat]
  /\ pending.id = 0 => pending = NoSession
  /\ ~faulty =>
       /\ \A p \in Relay : asked[p] > 0 => conns[p] > 0
       /\ \A i \in DOMAIN candidates : conns[candidates[i].peer] > 0
       /\ pending.id # 0 => pending.id \in awaited /\ conns[pending.route[1]] > 0
       /\ Select(candidates, Mode, now) # <<>> => ready \/ pending.id # 0

LEMMA MetadataStarts ==
  ASSUME EngineInv, SessionInv, NEW p \in Relay, NEW m \in Metadata, NEW t \in 0 .. now,
         MetadataResponse(p, m, t)
  PROVE  SessionInv'
<1> PICK candidate : candidate = Candidate(p, m, t)
  OBVIOUS
<1> DEFINE s == Append(candidates, candidate)
           selected == Select(s, Mode, now)
<1>1. /\ asked[p] > 0 /\ asked' = [asked EXCEPT ![p] = @ - 1]
      /\ candidates' = IF Accepted(candidate, now) THEN s ELSE candidates
      /\ UNCHANGED <<now, conns, ready, faulty>>
  BY DEF MetadataResponse, activeVars
<1>2. asked' \in [Relay -> Nat] /\ \A q \in Relay : asked'[q] > 0 => asked[q] > 0
  <2>1. asked \in [Relay -> Nat]
    BY DEF SessionInv
  <2>2. asked[p] > 0 /\ asked' = [asked EXCEPT ![p] = @ - 1]
    BY <1>1
  <2> QED
    BY <2>1, <2>2
<1>3. candidate.peer = p
  BY DEF Candidate
<1>4. candidates' \in Seq(CandidateType) /\ candidates \in Seq(CandidateType) /\ now \in Nat
  BY MetadataKeeps DEF EngineInv, TypeInv
<1>5. ~faulty => \A i \in DOMAIN candidates' : conns[candidates'[i].peer] > 0
  <2>1. CASE Accepted(candidate, now)
    <3>1. candidates' = Append(candidates, candidate)
      BY <1>1, <2>1
    <3>2. \A i \in DOMAIN candidates' :
            (i \in DOMAIN candidates /\ candidates'[i] = candidates[i]) \/ candidates'[i] = candidate
      BY <1>4, <3>1
    <3> QED BY <1>1, <1>3, <3>2 DEF SessionInv
  <2>2. CASE ~Accepted(candidate, now)
    BY <1>1, <2>2 DEF SessionInv
  <2> QED BY <2>1, <2>2
<1>6. CASE Accepted(candidate, now) /\ selected # <<>> /\ MayStart
  <2>1. /\ awaited' = awaited \cup {started + 1}
        /\ pending' = [id |-> started + 1, route |-> selected]
        /\ candidates' = s
    BY <1>1, <1>6 DEF MetadataResponse, RouteWith
  <2>2. PICK first \in DOMAIN candidates' : selected[1] = candidates'[first].peer
    <3>1. s \in Seq(CandidateType)
      BY <1>4, <2>1
    <3> HIDE DEF s
    <3>2. \E first \in EligibleIn(s) : selected[1] = s[first].peer
      BY <1>4, <1>6, <3>1, SelectedRoute
    <3> QED BY <2>1, <3>2 DEF EligibleIn
  <2>3. started + 1 # 0
    BY DEF EngineInv, TypeInv
  <2> HIDE DEF s, selected
  <2>4. pending'.id = started + 1 /\ pending'.route[1] = candidates'[first].peer
    BY <2>1, <2>2
  <2> QED BY <1>1, <1>2, <1>5, <2>1, <2>2, <2>3, <2>4 DEF SessionInv
<1>7. CASE ~(Accepted(candidate, now) /\ selected # <<>> /\ MayStart)
  <2>1. UNCHANGED <<started, awaited, pending>>
    BY <1>7 DEF MetadataResponse, RouteWith
  <2>2. ~faulty /\ Select(candidates', Mode, now) # <<>> => ready \/ pending.id # 0
    <3>1. CASE ~Accepted(candidate, now)
      BY <1>1, <3>1 DEF SessionInv
    <3>2. CASE selected = <<>>
      BY <1>1, <3>2 DEF SessionInv
    <3>3. CASE ~MayStart
      BY <3>3 DEF MayStart, SessionInv
    <3> QED BY <1>7, <3>1, <3>2, <3>3
  <2> HIDE DEF s, selected
  <2> QED BY <1>1, <1>2, <1>5, <2>1, <2>2 DEF SessionInv
<1> QED BY <1>6, <1>7

LEMMA SessionStep ==
  ASSUME EngineInv, SessionInv, [Next]_vars
  PROVE  SessionInv'
<1>t. now \in Nat /\ conns \in [Relay -> Nat] /\ candidates \in Seq(CandidateType)
  BY DEF EngineInv, TypeInv
<1>1. ASSUME NEW p \in Relay, PeerConnected(p) PROVE SessionInv'
  <2>1. /\ asked' = [asked EXCEPT ![p] = @ + 1] /\ conns' = [conns EXCEPT ![p] = @ + 1]
        /\ UNCHANGED <<now, candidates, pending, awaited, ready, faulty>>
    BY <1>1 DEF PeerConnected, activeVars
  <2>2. /\ asked' \in [Relay -> Nat]
        /\ \A q \in Relay : conns[q] > 0 => conns'[q] > 0
        /\ \A q \in Relay : asked'[q] > 0 => asked[q] > 0 \/ conns'[q] > 0
    BY <1>t, <2>1 DEF SessionInv
  <2>3. \A i \in DOMAIN candidates : candidates[i].peer \in Relay
    <3>1. \A i \in DOMAIN candidates : candidates[i] \in CandidateType
      BY <1>t
    <3> QED BY <3>1 DEF CandidateType
  <2>4. pending.id # 0 => pending.route[1] \in Relay
    <3>1. pending.id # 0 => pending.route # <<>> /\ pending.route \in Seq(Relay)
      BY DEF EngineInv, PendingInv, TypeInv, SessionType
    <3> QED BY <3>1
  <2> QED BY <2>1, <2>2, <2>3, <2>4 DEF SessionInv
<1>2. ASSUME NEW p \in Relay, PeerDisconnected(p) \/ MetadataLost(p) PROVE SessionInv'
  <2>1. faulty' /\ pending' = pending /\ (asked' = asked \/ asked' = [asked EXCEPT ![p] = @ - 1])
    BY <1>2 DEF PeerDisconnected, MetadataLost
  <2>2. asked' \in [Relay -> Nat]
    <3>1. asked \in [Relay -> Nat] /\ (asked' = asked \/ asked[p] > 0)
      BY <1>2 DEF PeerDisconnected, MetadataLost, SessionInv
    <3> QED BY <2>1, <3>1
  <2> QED BY <2>1, <2>2 DEF SessionInv
<1>3. CASE MetadataArrives
  BY <1>3, MetadataStarts DEF MetadataArrives
<1>4. CASE HandshakeResponse
  <2>1. /\ pending' = NoSession /\ UNCHANGED <<now, conns, asked, candidates>>
        /\ (ready' /\ faulty' = faulty) \/ faulty'
    BY <1>4 DEF HandshakeResponse, netVars
  <2> QED BY <2>1 DEF SessionInv, NoSession
<1>5. CASE HandshakeLost
  BY <1>5 DEF HandshakeLost, netVars, SessionInv
<1>6. CASE Tick
  <2>1. now' \in Nat /\ UNCHANGED <<conns, asked, candidates, pending, awaited, ready, faulty>>
    BY <1>t, <1>6 DEF Tick, netVars, activeVars
  <2>2. Select(candidates, Mode, now') = Select(candidates, Mode, now)
    BY <1>t, <2>1, SelectIgnoresTime
  <2> QED BY <2>1, <2>2 DEF SessionInv
<1>7. CASE TunPacket \/ (\E s \in answers : ForwardingResponse(s)) \/ UNCHANGED vars
  <2>1. UNCHANGED <<now, conns, asked, candidates, pending, awaited, ready, faulty>>
    BY <1>7 DEF TunPacket, ForwardingResponse, vars, netVars, activeVars
  <2> QED BY <2>1 DEF SessionInv
<1> QED BY <1>1, <1>2, <1>3, <1>4, <1>5, <1>6, <1>7 DEF Next

\* A route has its session, or the handshake of one is under way with a relay
\* that is connected.
RouteHasSession ==
  Select(candidates, Mode, now) # <<>> /\ ~faulty =>
    \/ ready
    \/ pending.id # 0 /\ pending.id \in awaited /\ conns[pending.route[1]] > 0

\* Unless something is lost, refused or disconnected, the candidates never make a
\* route that no session is started over, whatever else was pending when they
\* came: the safety half of RouteLeadsToSession (run_client, client/src/engine.rs).
THEOREM RoutesAreNotMissed == Spec => []RouteHasSession
<1>1. Init => SessionInv
  <2> SUFFICES ASSUME Init PROVE SessionInv
    OBVIOUS
  <2>1. Select(candidates, Mode, now) = <<>> /\ DOMAIN candidates = {}
    BY DEF Init, Select, EligibleIn
  <2> QED BY <2>1 DEF Init, SessionInv, NoSession
<1>2. EngineInv /\ SessionInv /\ [Next]_vars => SessionInv'
  BY SessionStep
<1>3. SessionInv => RouteHasSession
  BY DEF SessionInv, RouteHasSession
<1> QED BY <1>1, <1>2, <1>3, EngineAlwaysInv, PTL DEF Spec
=============================================================================
