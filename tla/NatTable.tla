------------------------------ MODULE NatTable ------------------------------
(***************************************************************************)
(* The exit relay's UDP address translation table (network/src/nat.rs):    *)
(* a map from flows to translated ports, its inverse, and a ring of ports  *)
(* allocated from next_port on.  Every operation but remove_session first  *)
(* drops the mappings whose lifetime has run out, so the two maps change   *)
(* together at many places and must stay inverses of each other.           *)
(***************************************************************************)
EXTENDS Integers, FiniteSets

CONSTANTS
  Flow,         \* flow keys
  Session,      \* session ids
  SessionOf,    \* the session_id field of a flow key
  FirstPort,    \* 40000
  LastPort,     \* u16::MAX
  MaxMappings,  \* maximum_mappings
  Lifetime,     \* lifetime, in clock ticks
  MaxTime       \* bound: the last clock tick explored

ASSUME FlowAssumption == SessionOf \in [Flow -> Session]
ASSUME PortAssumption ==
  FirstPort \in Nat /\ LastPort \in Nat /\ FirstPort <= LastPort
ASSUME LimitAssumption ==
  MaxMappings \in Nat \ {0} /\ Lifetime \in Nat \ {0} /\ MaxTime \in Nat

VARIABLES
  mappings,  \* flow key -> translated port and expiry
  reverse,   \* translated port -> flow key
  nextPort,  \* next_port
  now,       \* Instant::now()
  answer     \* what the last lookup or create returned, NoAnswer if an error

vars == <<mappings, reverse, nextPort, now, answer>>

Port == FirstPort .. LastPort

Mapping == [translated : Port, expires : Nat]

NoAnswer == [flow |-> {}]

Init ==
  /\ mappings = [k \in {} |-> {}]
  /\ reverse = [p \in {} |-> {}]
  /\ nextPort = FirstPort
  /\ now = 0
  /\ answer = NoAnswer

-----------------------------------------------------------------------------
\* cleanup keeps a mapping while its expiry is strictly in the future.
Live(k) == mappings[k].expires > now

Kept == {k \in DOMAIN mappings : Live(k)}

PortsOf(keys) == {mappings[k].translated : k \in keys}

\* Variant: only the forward map is cleaned.
DropForwardOnly(keys) ==
  /\ mappings' = [k \in DOMAIN mappings \ keys |-> mappings[k]]
  /\ reverse' = reverse

\* Remove the given flows from mappings and their ports from reverse.
Drop(keys) ==
  /\ mappings' = [k \in DOMAIN mappings \ keys |-> mappings[k]]
  /\ reverse' = [p \in DOMAIN reverse \ PortsOf(keys) |-> reverse[p]]

Cleanup == Drop(DOMAIN mappings \ Kept)

\* The ports reverse still holds once the expired mappings are gone.
KeptPorts == DOMAIN reverse \ PortsOf(DOMAIN mappings \ Kept)

FreePorts == Port \ KeptPorts

After(p) == IF p = LastPort THEN FirstPort ELSE p + 1

\* The ports the loop of allocate_port has tried and found taken when it stops
\* at p: those from next_port up to p on the ring.
Before(p) ==
  IF nextPort <= p THEN nextPort .. (p - 1)
                   ELSE (nextPort .. LastPort) \cup (FirstPort .. (p - 1))

\* Variant: the loop takes next_port without looking at reverse.
AllocatesUnchecked(p) == p = nextPort

Allocates(p) == p \in FreePorts /\ Before(p) \cap FreePorts = {}

-----------------------------------------------------------------------------
HasRoom == Cardinality(Kept) < MaxMappings

Create(k) ==
  /\ k \notin Kept
  /\ HasRoom
  /\ \E p \in Port :
       LET m == [translated |-> p, expires |-> now + Lifetime]
       IN /\ Allocates(p)
          /\ nextPort' = After(p)
          /\ mappings' = [x \in Kept \cup {k} |-> IF x = k THEN m ELSE mappings[x]]
          /\ reverse' = [q \in KeptPorts \cup {p} |-> IF q = p THEN k ELSE reverse[q]]
          /\ answer' = [flow |-> {k}, mapping |-> m]
  /\ UNCHANGED now

\* Duplicate, Capacity or PortExhausted.  A failed allocation has gone once
\* round the ring, so next_port is back where it was.
CreateRefused(k) ==
  /\ k \in Kept \/ ~HasRoom \/ FreePorts = {}
  /\ Cleanup
  /\ answer' = NoAnswer
  /\ UNCHANGED <<nextPort, now>>

LookupForward(k) ==
  /\ Cleanup
  /\ answer' = IF k \in Kept THEN [flow |-> {k}, mapping |-> mappings[k]] ELSE NoAnswer
  /\ UNCHANGED <<nextPort, now>>

\* Variant: the lookup does not compare the owner with the expected flow.
LookupReverseUnbound(p, expected) ==
  /\ Cleanup
  /\ answer' = IF p \in DOMAIN reverse /\ reverse[p] \in Kept
               THEN [flow |-> {expected}, mapping |-> mappings[reverse[p]]]
               ELSE NoAnswer
  /\ UNCHANGED <<nextPort, now>>

\* UnknownMapping and BindingMismatch return no mapping.
LookupReverse(p, expected) ==
  /\ Cleanup
  /\ answer' = IF p \in DOMAIN reverse /\ reverse[p] \in Kept /\ reverse[p] = expected
               THEN [flow |-> {expected}, mapping |-> mappings[expected]]
               ELSE NoAnswer
  /\ UNCHANGED <<nextPort, now>>

\* remove_session does not clean up first.
RemoveSession(s) ==
  /\ Drop({k \in DOMAIN mappings : SessionOf[k] = s})
  /\ answer' = NoAnswer
  /\ UNCHANGED <<nextPort, now>>

\* The heartbeat branch of the relay's loop calls cleanup.
Sweep == Cleanup /\ answer' = NoAnswer /\ UNCHANGED <<nextPort, now>>

Tick ==
  /\ now < MaxTime
  /\ now' = now + 1
  /\ answer' = NoAnswer
  /\ UNCHANGED <<mappings, reverse, nextPort>>

Next ==
  \/ \E k \in Flow : Create(k) \/ CreateRefused(k) \/ LookupForward(k)
  \/ \E p \in Port, k \in Flow : LookupReverse(p, k)
  \/ \E s \in Session : RemoveSession(s)
  \/ Sweep
  \/ Tick

Spec == Init /\ [][Next]_vars

-----------------------------------------------------------------------------
\* Types of the table's fields.
TypeOK ==
  /\ DOMAIN mappings \subseteq Flow
  /\ \A k \in DOMAIN mappings : mappings[k] \in Mapping
  /\ DOMAIN reverse \subseteq Port
  /\ \A p \in DOMAIN reverse : reverse[p] \in Flow
  /\ nextPort \in Port
  /\ now \in Nat

\* The two maps are inverses: every flow's port leads back to that flow, and
\* every port in reverse is the port of the flow it names.  It is what
\* lookup_reverse relies on after reading reverse, and it makes a live port
\* belong to one flow only.
Bijective ==
  /\ \A k \in DOMAIN mappings : /\ mappings[k].translated \in DOMAIN reverse
                                /\ reverse[mappings[k].translated] = k
  /\ \A p \in DOMAIN reverse : /\ reverse[p] \in DOMAIN mappings
                               /\ mappings[reverse[p]].translated = p

\* A mapping handed out by create or a lookup is live, is the table's own, and
\* belongs to the flow it was handed out for.
AnswerIsOwnAndLive ==
  answer # NoAnswer =>
    /\ answer.mapping.expires > now
    /\ \A k \in answer.flow : k \in DOMAIN mappings /\ mappings[k] = answer.mapping

\* A port changes owner only across a moment when its old mapping has expired
\* or its session was removed: allocation never takes over a live port.
PortNotTakenOver ==
  [][\A p \in DOMAIN reverse \cap DOMAIN reverse' :
       reverse'[p] # reverse[p] => ~Live(reverse[p])]_vars
=============================================================================
