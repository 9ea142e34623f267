-------------------------- MODULE RelayTableProofs --------------------------
(***************************************************************************)
(* Proofs about the relay's two tables with expiring entries: the NAT      *)
(* table, whatever the flows, ports, capacity and lifetime, and the        *)
(* return-path table, whatever the packets, bindings, capacity and         *)
(* lifetime.  The two do not interact.                                     *)
(***************************************************************************)
EXTENDS NatTable, ReturnPath, FiniteSetTheorems, WellFoundedInduction, TLAPS

\* A set of natural numbers has a smallest member.
LEMMA LeastNumber ==
  ASSUME NEW T \in SUBSET Nat, T # {}
  PROVE  \E n \in T : \A m \in T : n <= m
<1> DEFINE R == {ss \in Nat \X Nat : ss[1] < ss[2]}
<1>1. IsWellFoundedOn(R, Nat)
  BY NatLessThanWellFounded, Zenon DEF OpToRel
<1>2. PICK n \in T : \A m \in T : ~(<<m, n>> \in R)
  <2> HIDE DEF R
  <2> QED BY <1>1, WFMin
<1>3. \A m \in T : ~(m < n)
  BY <1>2
<1> QED
  BY <1>3

Bounded(S, limit) == IsFiniteSet(S) /\ Cardinality(S) <= limit

LEMMA SubsetBounded ==
  ASSUME NEW limit \in Nat, NEW S, Bounded(S, limit), NEW T \in SUBSET S
  PROVE  Bounded(T, limit)
<1>1. IsFiniteSet(T) /\ Cardinality(T) <= Cardinality(S)
  BY FS_Subset DEF Bounded
<1>2. Cardinality(T) \in Nat /\ Cardinality(S) \in Nat
  BY <1>1, FS_CardinalityType DEF Bounded
<1> QED
  BY <1>1, <1>2 DEF Bounded

\* A table with room that gains one entry is within its limit.
LEMMA AddBounded ==
  ASSUME NEW limit \in Nat, NEW S, IsFiniteSet(S), Cardinality(S) < limit, NEW x
  PROVE  Bounded(S \cup {x}, limit)
<1>1. Cardinality(S) \in Nat
  BY FS_CardinalityType
<1>2. IsFiniteSet(S \cup {x}) /\ Cardinality(S \cup {x}) = IF x \in S THEN Cardinality(S) ELSE Cardinality(S) + 1
  BY FS_AddElement
<1> QED
  BY <1>1, <1>2 DEF Bounded

-----------------------------------------------------------------------------
(* The NAT table. *)

\* Dropping any set of flows from both maps keeps them well typed and inverse.
LEMMA DropKeeps ==
  ASSUME TypeOK, Bijective, NEW keys \in SUBSET DOMAIN mappings, Drop(keys)
  PROVE  /\ DOMAIN mappings' \subseteq Flow
         /\ \A k \in DOMAIN mappings' : mappings'[k] \in Mapping
         /\ DOMAIN reverse' \subseteq Port
         /\ \A p \in DOMAIN reverse' : reverse'[p] \in Flow
         /\ Bijective'
<1>1. \A k \in DOMAIN mappings' : k \in DOMAIN mappings \ keys /\ mappings'[k] = mappings[k]
  BY DEF Drop
<1>2. \A p \in DOMAIN reverse' : p \in DOMAIN reverse \ PortsOf(keys) /\ reverse'[p] = reverse[p]
  BY DEF Drop
<1>3. \A k \in DOMAIN mappings \ keys : mappings[k].translated \notin PortsOf(keys)
  BY DEF Bijective, PortsOf
<1>4. \A k \in DOMAIN mappings' : /\ mappings'[k].translated \in DOMAIN reverse'
                                  /\ reverse'[mappings'[k].translated] = k
  BY <1>1, <1>3 DEF Bijective, Drop
<1>5. \A p \in DOMAIN reverse' : /\ reverse'[p] \in DOMAIN mappings'
                                 /\ mappings'[reverse'[p]].translated = p
  <2> SUFFICES ASSUME NEW p \in DOMAIN reverse'
               PROVE  reverse'[p] \in DOMAIN mappings' /\ mappings'[reverse'[p]].translated = p
    OBVIOUS
  <2>1. reverse'[p] = reverse[p] /\ reverse[p] \in DOMAIN mappings /\ mappings[reverse[p]].translated = p
    BY <1>2 DEF Bijective
  <2>2. reverse[p] \notin keys
    BY <1>2, <2>1 DEF PortsOf
  <2> QED BY <2>1, <2>2 DEF Drop
<1> QED BY <1>1, <1>2, <1>4, <1>5 DEF TypeOK, Bijective

\* Create installs a fresh flow on a free port, after dropping what expired.
LEMMA CreateKeeps ==
  ASSUME TypeOK, Bijective, NEW k \in Flow, Create(k)
  PROVE  TypeOK' /\ Bijective'
<1> PICK p \in Port :
      /\ Allocates(p)
      /\ nextPort' = After(p)
      /\ mappings' = [x \in Kept \cup {k} |->
                        IF x = k THEN [translated |-> p, expires |-> now + Lifetime]
                                 ELSE mappings[x]]
      /\ reverse' = [q \in KeptPorts \cup {p} |-> IF q = p THEN k ELSE reverse[q]]
  BY DEF Create
<1>1. k \notin Kept /\ now' = now /\ Kept \subseteq DOMAIN mappings
  BY DEF Create, Kept
<1>2. p \notin KeptPorts /\ KeptPorts \subseteq DOMAIN reverse
  BY DEF Allocates, FreePorts, KeptPorts
<1>3. \A x \in Kept : mappings[x].translated \in KeptPorts
  BY <1>1 DEF KeptPorts, PortsOf, Bijective
<1>4. \A q \in KeptPorts : reverse[q] \in Kept
  BY <1>2 DEF KeptPorts, PortsOf, Bijective
<1>5. mappings'[k] = [translated |-> p, expires |-> now + Lifetime]
  OBVIOUS
<1>6. \A x \in Kept : mappings'[x] = mappings[x]
  BY <1>1
<1>7. nextPort' \in Port
  BY PortAssumption DEF After, Port
<1>8. mappings'[k] \in Mapping
  BY <1>5, LimitAssumption DEF TypeOK, Mapping
<1>9. TypeOK'
  BY <1>1, <1>2, <1>4, <1>6, <1>7, <1>8 DEF TypeOK
<1>10. \A x \in DOMAIN mappings' : /\ mappings'[x].translated \in DOMAIN reverse'
                                   /\ reverse'[mappings'[x].translated] = x
  <2> SUFFICES ASSUME NEW x \in Kept \cup {k}
               PROVE  /\ mappings'[x].translated \in DOMAIN reverse'
                      /\ reverse'[mappings'[x].translated] = x
    OBVIOUS
  <2>1. CASE x = k
    BY <2>1, <1>5
  <2>2. CASE x \in Kept
    <3>1. mappings[x].translated \in KeptPorts /\ reverse[mappings[x].translated] = x
      BY <2>2, <1>1, <1>3 DEF Bijective
    <3> QED BY <2>2, <3>1, <1>2, <1>6
  <2> QED BY <2>1, <2>2
<1>11. \A q \in DOMAIN reverse' : /\ reverse'[q] \in DOMAIN mappings'
                                  /\ mappings'[reverse'[q]].translated = q
  <2> SUFFICES ASSUME NEW q \in KeptPorts \cup {p}
               PROVE  /\ reverse'[q] \in DOMAIN mappings'
                      /\ mappings'[reverse'[q]].translated = q
    OBVIOUS
  <2>1. CASE q = p
    BY <2>1, <1>5
  <2>2. CASE q \in KeptPorts
    <3>1. q # p /\ reverse'[q] = reverse[q] /\ reverse[q] \in Kept
      BY <2>2, <1>2, <1>4
    <3>2. mappings[reverse[q]].translated = q
      BY <2>2, <1>2 DEF Bijective
    <3> QED BY <3>1, <3>2, <1>6
  <2> QED BY <2>1, <2>2
<1> QED BY <1>9, <1>10, <1>11 DEF Bijective

LEMMA StepKeeps == TypeOK /\ Bijective /\ [Next]_vars => TypeOK' /\ Bijective'
<1> SUFFICES ASSUME TypeOK, Bijective, [Next]_vars PROVE TypeOK' /\ Bijective'
  OBVIOUS
<1>1. ASSUME NEW keys \in SUBSET DOMAIN mappings, Drop(keys), UNCHANGED <<nextPort, now>>
      PROVE  TypeOK' /\ Bijective'
  BY <1>1, DropKeeps DEF TypeOK
<1>2. ASSUME Cleanup, UNCHANGED <<nextPort, now>> PROVE TypeOK' /\ Bijective'
  BY <1>1, <1>2 DEF Cleanup
<1>3. ASSUME NEW k \in Flow, Create(k) PROVE TypeOK' /\ Bijective'
  BY <1>3, CreateKeeps
<1>4. ASSUME NEW k \in Flow, CreateRefused(k) PROVE TypeOK' /\ Bijective'
  BY <1>4, <1>2 DEF CreateRefused
<1>5. ASSUME NEW k \in Flow, LookupForward(k) PROVE TypeOK' /\ Bijective'
  BY <1>5, <1>2 DEF LookupForward
<1>6. ASSUME NEW p \in Port, NEW k \in Flow, LookupReverse(p, k) PROVE TypeOK' /\ Bijective'
  BY <1>6, <1>2 DEF LookupReverse
<1>7. ASSUME NEW s \in Session, RemoveSession(s) PROVE TypeOK' /\ Bijective'
  BY <1>7, <1>1 DEF RemoveSession
<1>8. CASE Sweep
  BY <1>8, <1>2 DEF Sweep
<1>9. CASE Tick
  BY <1>9 DEF Tick, TypeOK, Bijective
<1>10. CASE UNCHANGED vars
  BY <1>10 DEF vars, TypeOK, Bijective
<1> QED BY <1>3, <1>4, <1>5, <1>6, <1>7, <1>8, <1>9, <1>10 DEF Next

\* In every reachable state the forward and the reverse map are inverses, so
\* no two live flows share a translated port.
THEOREM NatIsBijective == Spec => []Bijective
<1>1. Init => TypeOK /\ Bijective
  BY PortAssumption DEF Init, TypeOK, Bijective, Port
<1> QED BY <1>1, StepKeeps, PTL DEF Spec

\* No step of the table hands a live port to another flow.
THEOREM LivePortsAreKept == Spec => PortNotTakenOver
<1>1. Init => TypeOK /\ Bijective
  BY PortAssumption DEF Init, TypeOK, Bijective, Port
<1>2. TypeOK /\ Bijective /\ [Next]_vars =>
        [\A p \in DOMAIN reverse \cap DOMAIN reverse' :
           reverse'[p] # reverse[p] => ~Live(reverse[p])]_vars
  <2> SUFFICES ASSUME TypeOK, Bijective, Next,
                      NEW q \in DOMAIN reverse \cap DOMAIN reverse',
                      reverse'[q] # reverse[q], Live(reverse[q])
               PROVE  FALSE
    OBVIOUS
  <2>1. \A keys : Drop(keys) => reverse'[q] = reverse[q]
    BY DEF Drop
  <2>2. PICK k \in Flow : Create(k)
    BY <2>1 DEF Next, CreateRefused, LookupForward, LookupReverse, RemoveSession,
                Sweep, Tick, Cleanup
  <2>3. PICK p \in Port : Allocates(p) /\
          reverse' = [x \in KeptPorts \cup {p} |-> IF x = p THEN k ELSE reverse[x]]
    BY <2>2 DEF Create
  <2>4. q = p
    BY <2>3
  <2>5. q \in KeptPorts
    BY DEF KeptPorts, PortsOf, Kept, Bijective
  <2> QED BY <2>3, <2>4, <2>5 DEF Allocates, FreePorts
<1> QED BY <1>1, <1>2, StepKeeps, PTL DEF Spec, PortNotTakenOver

\* A mapping that create or a lookup returns is live, the table's own, and that of
\* the flow it is returned for.
THEOREM AnswersAreTheAskers == Spec => []AnswerIsOwnAndLive
<1>1. Init => TypeOK /\ Bijective /\ AnswerIsOwnAndLive
  BY PortAssumption DEF Init, TypeOK, Bijective, Port, AnswerIsOwnAndLive
<1>2. TypeOK /\ Bijective /\ AnswerIsOwnAndLive /\ [Next]_vars => AnswerIsOwnAndLive'
  <2> SUFFICES ASSUME TypeOK, Bijective, AnswerIsOwnAndLive, [Next]_vars, answer' # NoAnswer
               PROVE  AnswerIsOwnAndLive'
    BY DEF AnswerIsOwnAndLive
  \* What a lookup finds among the live mappings survives its own cleanup.
  <2>1. ASSUME NEW k \in Kept, Cleanup, now' = now,
               answer' = [flow |-> {k}, mapping |-> mappings[k]]
        PROVE  AnswerIsOwnAndLive'
    <3>1. k \in DOMAIN mappings' /\ mappings'[k] = mappings[k] /\ mappings[k].expires > now
      BY <2>1 DEF Cleanup, Drop, Kept, Live
    <3> QED
      BY <2>1, <3>1 DEF AnswerIsOwnAndLive
  <2>2. ASSUME NEW k \in Flow, Create(k) PROVE AnswerIsOwnAndLive'
    <3>1. PICK p \in Port :
            LET m == [translated |-> p, expires |-> now + Lifetime]
            IN /\ mappings' = [x \in Kept \cup {k} |-> IF x = k THEN m ELSE mappings[x]]
               /\ answer' = [flow |-> {k}, mapping |-> m]
      BY <2>2 DEF Create
    <3>2. now' = now /\ now + Lifetime > now
      BY <2>2, LimitAssumption DEF Create, TypeOK
    <3> QED
      BY <3>1, <3>2 DEF AnswerIsOwnAndLive
  <2>3. ASSUME NEW k \in Flow, LookupForward(k) PROVE AnswerIsOwnAndLive'
    BY <2>1, <2>3 DEF LookupForward
  <2>4. ASSUME NEW p \in Port, NEW k \in Flow, LookupReverse(p, k) PROVE AnswerIsOwnAndLive'
    BY <2>1, <2>4 DEF LookupReverse
  <2>5. CASE UNCHANGED vars
    BY <2>5 DEF vars, AnswerIsOwnAndLive
  <2> QED
    BY <2>2, <2>3, <2>4, <2>5 DEF Next, CreateRefused, RemoveSession, Sweep, Tick
<1> QED BY <1>1, <1>2, StepKeeps, PTL DEF Spec

\* How far from next_port the loop of allocate_port comes to p.
Distance(p) == IF nextPort <= p THEN p - nextPort ELSE (LastPort - nextPort) + 1 + (p - FirstPort)

\* The loop tries the ports in the order of their distance.
LEMMA RingOrder ==
  ASSUME nextPort \in Port, NEW p \in Port, NEW q \in Port
  PROVE  /\ Distance(p) \in Nat
         /\ q \in Before(p) <=> Distance(q) < Distance(p)
         /\ Distance(p) = Distance(q) => p = q
BY PortAssumption DEF Port, Distance, Before

\* If any port is free, the loop of allocate_port stops at one, and at one only:
\* PortExhausted is returned only when every port is taken.
RingSearchDecides ==
  FreePorts # {} => \E p \in Port : Allocates(p) /\ \A q \in Port : Allocates(q) => q = p

LEMMA SearchDecides ==
  ASSUME nextPort \in Port
  PROVE  RingSearchDecides
<1> SUFFICES ASSUME FreePorts # {}
             PROVE  \E p \in Port : Allocates(p) /\ \A q \in Port : Allocates(q) => q = p
  BY DEF RingSearchDecides
<1>1. FreePorts \subseteq Port /\ \A p \in FreePorts : Distance(p) \in Nat
  BY RingOrder DEF FreePorts
<1>2. PICK n \in {Distance(p) : p \in FreePorts} : \A m \in {Distance(p) : p \in FreePorts} : n <= m
  <2>1. {Distance(p) : p \in FreePorts} \in SUBSET Nat /\ {Distance(p) : p \in FreePorts} # {}
    BY <1>1
  <2> QED
    BY <2>1, LeastNumber
<1>3. PICK p \in FreePorts : n = Distance(p)
  BY <1>2
<1>4. \A q \in FreePorts : ~(Distance(q) < Distance(p))
  BY <1>1, <1>2, <1>3
<1>5. Before(p) \cap FreePorts = {}
  BY <1>1, <1>4, RingOrder
<1>6. ASSUME NEW q \in Port, Allocates(q)
      PROVE  q = p
  <2>1. q \in FreePorts /\ p \notin Before(q)
    BY <1>3, <1>6 DEF Allocates
  <2>2. q \notin Before(p)
    BY <2>1, <1>5
  <2>3. ~(Distance(p) < Distance(q)) /\ ~(Distance(q) < Distance(p))
    BY <2>1, <2>2, <1>1, RingOrder
  <2> QED
    BY <2>1, <2>3, <1>1, RingOrder
<1> QED
  BY <1>1, <1>5, <1>6 DEF Allocates

\* allocate_port finds a free port whenever there is one, wherever next_port
\* stands on the ring, and which one it finds is determined.
THEOREM AllocationIsComplete == Spec => []RingSearchDecides
<1>1. Init => TypeOK /\ Bijective
  BY PortAssumption DEF Init, TypeOK, Bijective, Port
<1>2. TypeOK => RingSearchDecides
  BY SearchDecides DEF TypeOK
<1> QED
  BY <1>1, <1>2, StepKeeps, PTL DEF Spec

\* Neither map outgrows maximum_mappings: create checks the capacity after its
\* cleanup, and no port stays in reverse without its flow.
NatWithinLimit == Bounded(DOMAIN mappings, MaxMappings) /\ Bounded(DOMAIN reverse, MaxMappings)

LEMMA ReverseIsNoLarger ==
  ASSUME Bijective, Bounded(DOMAIN mappings, MaxMappings)
  PROVE  Bounded(DOMAIN reverse, MaxMappings)
<1> DEFINE owner == [p \in DOMAIN reverse |-> reverse[p]]
<1>1. owner \in Injection(DOMAIN reverse, DOMAIN mappings)
  BY DEF Bijective, Injection, IsInjective
<1>2. IsFiniteSet(DOMAIN reverse) /\ Cardinality(DOMAIN reverse) <= Cardinality(DOMAIN mappings)
  BY <1>1, FS_Injection DEF Bounded
<1>3. Cardinality(DOMAIN reverse) \in Nat /\ Cardinality(DOMAIN mappings) \in Nat
  BY <1>2, FS_CardinalityType DEF Bounded
<1> QED
  BY <1>2, <1>3, LimitAssumption DEF Bounded

LEMMA MappingsStayBounded ==
  ASSUME Bounded(DOMAIN mappings, MaxMappings), [Next]_vars
  PROVE  Bounded(DOMAIN mappings, MaxMappings)'
<1>1. MaxMappings \in Nat
  BY LimitAssumption
<1>2. ASSUME NEW k \in Flow, Create(k) PROVE Bounded(DOMAIN mappings', MaxMappings)
  <2>1. DOMAIN mappings' = Kept \cup {k} /\ Cardinality(Kept) < MaxMappings
    BY <1>2 DEF Create, HasRoom
  <2>2. Kept \subseteq DOMAIN mappings
    BY DEF Kept
  <2>3. IsFiniteSet(Kept)
    BY <2>2, FS_Subset DEF Bounded
  <2> QED
    BY <1>1, <2>1, <2>3, AddBounded
<1>3. CASE ~\E k \in Flow : Create(k)
  <2>1. DOMAIN mappings' \subseteq DOMAIN mappings
    BY <1>3 DEF Next, vars, CreateRefused, LookupForward, LookupReverse, RemoveSession, Sweep, Tick,
               Cleanup, Drop
  <2> QED
    BY <1>1, <2>1, SubsetBounded
<1> QED
  BY <1>2, <1>3

\* The table never holds more than maximum_mappings flows or ports.
THEOREM NatIsBounded == Spec => []NatWithinLimit
<1>1. Init => TypeOK /\ Bijective
  BY PortAssumption DEF Init, TypeOK, Bijective, Port
<1>2. Init => Bounded(DOMAIN mappings, MaxMappings)
  BY FS_EmptySet, LimitAssumption DEF Init, Bounded
<1>3. Bijective /\ Bounded(DOMAIN mappings, MaxMappings) => NatWithinLimit
  BY ReverseIsNoLarger DEF NatWithinLimit
<1>4. Bounded(DOMAIN mappings, MaxMappings) /\ [Next]_vars => Bounded(DOMAIN mappings, MaxMappings)'
  BY MappingsStayBounded
<1> QED
  BY <1>1, <1>2, <1>3, <1>4, StepKeeps, PTL DEF Spec

-----------------------------------------------------------------------------
(* The return-path table. *)

ReturnInv == ReturnTypeOK /\ OneReturnPerInsert /\ GuardInv /\ ReturnsAreSpaced

LEMMA CleanupFacts ==
  ASSUME ReturnTypeOK
  PROVE  /\ DOMAIN LiveEntries \subseteq DOMAIN entries
         /\ \A p \in DOMAIN LiveEntries :
              LiveEntries[p] = entries[p] /\ entries[p].expires > clock
         /\ DOMAIN LiveConsumed \subseteq DOMAIN consumed
         /\ \A p \in DOMAIN LiveConsumed : LiveConsumed[p] = consumed[p]
         /\ \A p \in DOMAIN consumed : consumed[p] > clock => p \in DOMAIN LiveConsumed
BY DEF LiveEntries, LiveConsumed, Keep, ReturnTypeOK

LEMMA InsertKeeps ==
  ASSUME ReturnInv, NEW p \in Packet, NEW b \in Binding, Insert(p, b)
  PROVE  ReturnInv'
<1> USE CleanupFacts, ReturnLimitAssumption DEF ReturnInv
<1>1. /\ DOMAIN entries' = DOMAIN LiveEntries \cup {p}
      /\ entries'[p] = [binding |-> b, expires |-> clock + ReturnLifetime]
      /\ \A q \in DOMAIN LiveEntries : q # p => entries'[q] = entries[q]
  BY DEF Insert, Put
<1>2. consumed' = LiveConsumed /\ clock' = clock /\ returned' = returned /\ gap' = gap
  BY DEF Insert
<1>3. entries'[p] \in Entry
  BY <1>1 DEF Entry, ReturnTypeOK
<1>4. credit' = [credit EXCEPT ![p] = 1]
  BY DEF Insert
<1>5. ReturnTypeOK'
  BY <1>1, <1>2, <1>3, <1>4 DEF ReturnTypeOK
<1>6. OneReturnPerInsert'
  BY <1>1, <1>4 DEF OneReturnPerInsert, ReturnTypeOK
<1>7. GuardInv'
  <2> SUFFICES ASSUME NEW q \in Packet PROVE GuardInv!(q)'
    BY DEF GuardInv
  <2>1. returned[q] \in Int /\ clock \in Int /\ ReturnLifetime \in Int
    BY DEF ReturnTypeOK
  <2>2. returned[q]  + ReturnLifetime > clock => q \in DOMAIN consumed' /\ consumed'[q] = returned[q] + ReturnLifetime
    BY <1>2, <2>1 DEF GuardInv
  <2>3. CASE q = p
    BY <2>1, <2>2, <2>3, <1>2 DEF GuardInv, Insert, Fresh
  <2>4. CASE q # p
    BY <2>1, <2>2, <2>4, <1>1, <1>2 DEF GuardInv
  <2> QED BY <2>3, <2>4
<1> QED BY <1>2, <1>5, <1>6, <1>7 DEF ReturnsAreSpaced

LEMMA ConsumeKeeps ==
  ASSUME ReturnInv, NEW p \in Packet, NEW b \in Binding, Consume(p, b)
  PROVE  ReturnInv'
<1> USE CleanupFacts, ReturnLimitAssumption DEF ReturnInv
<1>1. /\ DOMAIN entries' = DOMAIN LiveEntries \ {p}
      /\ \A q \in DOMAIN entries' : entries'[q] = entries[q]
  BY DEF Consume, Keep, ReturnTypeOK
<1>2. /\ DOMAIN consumed' = DOMAIN LiveConsumed \cup {p}
      /\ consumed'[p] = clock + ReturnLifetime
      /\ \A q \in DOMAIN LiveConsumed : q # p => consumed'[q] = consumed[q]
  BY DEF Consume, Put
<1>3. /\ clock' = clock
      /\ credit' = [credit EXCEPT ![p] = @ - 1]
      /\ returned' = [returned EXCEPT ![p] = clock]
      /\ gap' = [gap EXCEPT ![p] = clock - returned[p]]
  BY DEF Consume, RecordReturn
<1>4. p \in DOMAIN entries
  BY DEF Consume
<1>5. ReturnTypeOK'
  <2>1. consumed'[p] \in Nat
    BY <1>2 DEF ReturnTypeOK
  <2> QED BY <1>1, <1>2, <1>3, <2>1 DEF ReturnTypeOK
<1>6. OneReturnPerInsert'
  BY <1>1, <1>3, <1>4 DEF OneReturnPerInsert, ReturnTypeOK
<1>7. GuardInv'
  <2> SUFFICES ASSUME NEW q \in Packet PROVE GuardInv!(q)'
    BY DEF GuardInv
  <2>1. returned[q] \in Int /\ clock \in Int /\ ReturnLifetime \in Int
    BY DEF ReturnTypeOK
  <2>2. CASE q = p
    BY <2>1, <2>2, <1>1, <1>2, <1>3 DEF ReturnTypeOK
  <2>3. CASE q # p
    BY <2>1, <2>3, <1>1, <1>2, <1>3 DEF ReturnTypeOK, GuardInv
  <2> QED BY <2>2, <2>3
<1>8. ReturnsAreSpaced'
  <2>1. clock - returned[p] >= ReturnLifetime
    BY <1>4 DEF GuardInv, ReturnTypeOK
  <2> QED BY <1>3, <2>1 DEF ReturnsAreSpaced, ReturnTypeOK
<1> QED BY <1>5, <1>6, <1>7, <1>8

LEMMA ReturnStepKeeps == ReturnInv /\ [ReturnNext]_returnVars => ReturnInv'
<1> SUFFICES ASSUME ReturnInv, [ReturnNext]_returnVars PROVE ReturnInv'
  OBVIOUS
<1>1. ASSUME NEW p \in Packet, NEW b \in Binding, Insert(p, b) PROVE ReturnInv'
  BY <1>1, InsertKeeps
<1>2. ASSUME NEW p \in Packet, NEW b \in Binding, Consume(p, b) PROVE ReturnInv'
  BY <1>2, ConsumeKeeps
<1>3. ASSUME NEW s \in ReturnSession, RemoveSessionEntries(s) PROVE ReturnInv'
  <2>1. DOMAIN entries' \subseteq DOMAIN entries /\ \A q \in DOMAIN entries' : entries'[q] = entries[q]
    BY <1>3 DEF RemoveSessionEntries, Keep
  <2> QED BY <1>3, <2>1 DEF RemoveSessionEntries, ReturnInv, ReturnTypeOK,
      OneReturnPerInsert, GuardInv, ReturnsAreSpaced
<1>4. CASE CleanupOnly
  <2>1. entries' = LiveEntries /\ consumed' = LiveConsumed
        /\ UNCHANGED <<clock, credit, returned, gap>>
    BY <1>4 DEF CleanupOnly
  <2>2. ReturnTypeOK' /\ OneReturnPerInsert' /\ ReturnsAreSpaced'
    BY <2>1, CleanupFacts DEF ReturnInv, ReturnTypeOK, OneReturnPerInsert, ReturnsAreSpaced
  <2>3. GuardInv'
    <3> SUFFICES ASSUME NEW q \in Packet PROVE GuardInv!(q)'
      BY DEF GuardInv
    <3>1. returned[q] \in Int /\ clock \in Int /\ ReturnLifetime \in Int
      BY ReturnLimitAssumption DEF ReturnInv, ReturnTypeOK
    <3> QED BY <2>1, <3>1, CleanupFacts DEF ReturnInv, GuardInv
  <2> QED BY <2>2, <2>3 DEF ReturnInv
<1>5. CASE ClockTick
  BY <1>5, ReturnLimitAssumption DEF ClockTick, ReturnInv, ReturnTypeOK,
      OneReturnPerInsert, GuardInv, ReturnsAreSpaced
<1>6. CASE UNCHANGED returnVars
  BY <1>6 DEF returnVars, ReturnInv, ReturnTypeOK,
      OneReturnPerInsert, GuardInv, ReturnsAreSpaced
<1> QED BY <1>1, <1>2, <1>3, <1>4, <1>5, <1>6 DEF ReturnNext

LEMMA ReturnAlwaysInv == ReturnSpec => []ReturnInv
<1>1. ReturnInit => ReturnInv
  BY ReturnLimitAssumption
     DEF ReturnInit, Never, ReturnInv, ReturnTypeOK,
      OneReturnPerInsert, GuardInv, ReturnsAreSpaced
<1> QED BY <1>1, ReturnStepKeeps, PTL DEF ReturnSpec

\* Every insertion is answered at most once, in every behaviour.
THEOREM ReturnIsOneTime == ReturnSpec => []OneReturnPerInsert
BY ReturnAlwaysInv, PTL DEF ReturnInv

\* Two returns of one packet identity are at least a lifetime apart.
THEOREM ReplaysAreRejected == ReturnSpec => []ReturnsAreSpaced
BY ReturnAlwaysInv, PTL DEF ReturnInv

\* The table of pending answers stays within its capacity, which insert checks
\* after its cleanup; the replay guards are not counted.
PendingWithinCapacity == Bounded(DOMAIN entries, Capacity)

\* No more than capacity answers are ever pending.
THEOREM PendingIsBounded == ReturnSpec => []PendingWithinCapacity
<1>1. ReturnInit => PendingWithinCapacity
  BY FS_EmptySet, ReturnLimitAssumption DEF ReturnInit, PendingWithinCapacity, Bounded
<1>2. PendingWithinCapacity /\ [ReturnNext]_returnVars => PendingWithinCapacity'
  <2> SUFFICES ASSUME PendingWithinCapacity, [ReturnNext]_returnVars
               PROVE  Bounded(DOMAIN entries', Capacity)
    BY DEF PendingWithinCapacity
  <2>1. Capacity \in Nat
    BY ReturnLimitAssumption
  <2>2. DOMAIN LiveEntries \subseteq DOMAIN entries
    BY DEF LiveEntries, Keep
  <2>3. ASSUME NEW p \in Packet, NEW b \in Binding, Insert(p, b)
        PROVE  Bounded(DOMAIN entries', Capacity)
    <3>1. DOMAIN entries' = DOMAIN LiveEntries \cup {p} /\ Cardinality(DOMAIN LiveEntries) < Capacity
      BY <2>3 DEF Insert, Put, HasCapacity
    <3>2. IsFiniteSet(DOMAIN LiveEntries)
      BY <2>2, FS_Subset DEF PendingWithinCapacity, Bounded
    <3> QED
      BY <2>1, <3>1, <3>2, AddBounded
  <2>4. CASE ~\E p \in Packet, b \in Binding : Insert(p, b)
    <3>1. DOMAIN entries' \subseteq DOMAIN entries
      BY <2>2, <2>4 DEF ReturnNext, returnVars, Consume, RemoveSessionEntries, CleanupOnly, ClockTick, Keep
    <3> QED
      BY <2>1, <3>1, SubsetBounded DEF PendingWithinCapacity
  <2> QED
    BY <2>3, <2>4
<1> QED
  BY <1>1, <1>2, PTL DEF ReturnSpec
=============================================================================
