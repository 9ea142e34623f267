----------------------------- MODULE ReturnPath -----------------------------
(***************************************************************************)
(* The return-path table (network/src/return_path.rs): a packet identity   *)
(* is inserted with the binding it may be answered under, and consumed by  *)
(* the one answer.  A consumed identity is remembered for one lifetime, so *)
(* that a late copy of the answer is told apart from an unknown packet and *)
(* the identity cannot be inserted again meanwhile.                        *)
(***************************************************************************)
EXTENDS Integers, FiniteSets

CONSTANTS
  Packet,            \* packet ids
  Binding,           \* the other fields of a ReturnPathKey
  ReturnSession,     \* session ids
  SessionOfBinding,  \* the session_id field of a binding
  Capacity,          \* capacity
  ReturnLifetime,    \* lifetime, in clock ticks
  ReturnMaxTime      \* bound: the last clock tick explored

ASSUME ReturnBindingAssumption == SessionOfBinding \in [Binding -> ReturnSession]
ASSUME ReturnLimitAssumption ==
  Capacity \in Nat \ {0} /\ ReturnLifetime \in Nat \ {0} /\ ReturnMaxTime \in Nat

VARIABLES
  entries,    \* packet id -> binding and expiry
  consumed,   \* packet id -> expiry of the replay guard
  clock,      \* Instant::now()
  credit,     \* history: the latest insertion of a packet, less its returns
  returned,   \* history: when a packet was last returned, Never before that
  gap         \* history: the time between its last two returns

returnVars == <<entries, consumed, clock, credit, returned, gap>>

Never == -ReturnLifetime

Entry == [binding : Binding, expires : Nat]

ReturnInit ==
  /\ entries = [p \in {} |-> {}]
  /\ consumed = [p \in {} |-> {}]
  /\ clock = 0
  /\ credit = [p \in Packet |-> 0]
  /\ returned = [p \in Packet |-> Never]
  /\ gap = [p \in Packet |-> ReturnLifetime]

Keep(f, S) == [p \in DOMAIN f \cap S |-> f[p]]

Put(f, p, v) == [q \in DOMAIN f \cup {p} |-> IF q = p THEN v ELSE f[q]]

\* Both maps after cleanup, which every operation but remove_session runs first.
LiveEntries == Keep(entries, {p \in DOMAIN entries : entries[p].expires > clock})
LiveConsumed == Keep(consumed, {p \in DOMAIN consumed : consumed[p] > clock})

-----------------------------------------------------------------------------
\* Variant: an identity may be inserted again while its replay guard lives.
FreshUnguarded(p) == p \notin DOMAIN LiveEntries

\* insert answers Duplicate for a pending or recently consumed identity.
Fresh(p) == p \notin DOMAIN LiveEntries /\ p \notin DOMAIN LiveConsumed

HasCapacity == Cardinality(DOMAIN LiveEntries) < Capacity

Insert(p, b) ==
  /\ Fresh(p)
  /\ HasCapacity
  /\ entries' = Put(LiveEntries, p, [binding |-> b, expires |-> clock + ReturnLifetime])
  /\ consumed' = LiveConsumed
  /\ credit' = [credit EXCEPT ![p] = 1]
  /\ UNCHANGED <<clock, returned, gap>>

\* insert returned Duplicate or Capacity, lookup anything, or cleanup was called.
CleanupOnly ==
  /\ entries' = LiveEntries
  /\ consumed' = LiveConsumed
  /\ UNCHANGED <<clock, credit, returned, gap>>

RecordReturn(p) ==
  /\ credit' = [credit EXCEPT ![p] = @ - 1]
  /\ returned' = [returned EXCEPT ![p] = clock]
  /\ gap' = [gap EXCEPT ![p] = clock - returned[p]]

\* Variant: a consumed entry stays in the table until it expires.
ConsumeKeepsEntry(p, b) ==
  /\ p \in DOMAIN LiveEntries
  /\ LiveEntries[p].binding = b
  /\ entries' = LiveEntries
  /\ consumed' = Put(LiveConsumed, p, clock + ReturnLifetime)
  /\ RecordReturn(p)
  /\ UNCHANGED clock

\* A consume under another binding, of an unknown or of a consumed packet is
\* lookup's error and changes nothing but the cleanup: CleanupOnly.
Consume(p, b) ==
  /\ p \in DOMAIN LiveEntries
  /\ LiveEntries[p].binding = b
  /\ entries' = Keep(LiveEntries, Packet \ {p})
  /\ consumed' = Put(LiveConsumed, p, clock + ReturnLifetime)
  /\ RecordReturn(p)
  /\ UNCHANGED clock

\* Active entries only: the replay guards stay.
RemoveSessionEntries(s) ==
  /\ entries' = Keep(entries, {p \in DOMAIN entries : SessionOfBinding[entries[p].binding] # s})
  /\ UNCHANGED <<consumed, clock, credit, returned, gap>>

ClockTick ==
  /\ clock < ReturnMaxTime
  /\ clock' = clock + 1
  /\ UNCHANGED <<entries, consumed, credit, returned, gap>>

ReturnNext ==
  \/ \E p \in Packet, b \in Binding : Insert(p, b) \/ Consume(p, b)
  \/ \E s \in ReturnSession : RemoveSessionEntries(s)
  \/ CleanupOnly
  \/ ClockTick

ReturnSpec == ReturnInit /\ [][ReturnNext]_returnVars

-----------------------------------------------------------------------------
\* Types of the table's fields.
ReturnTypeOK ==
  /\ DOMAIN entries \subseteq Packet
  /\ \A p \in DOMAIN entries : entries[p] \in Entry
  /\ DOMAIN consumed \subseteq Packet
  /\ \A p \in DOMAIN consumed : consumed[p] \in Nat
  /\ clock \in Nat
  /\ credit \in [Packet -> Int]
  /\ returned \in [Packet -> Int]
  /\ gap \in [Packet -> Int]

\* consume is one-time: an insertion is answered at most once, and a pending
\* entry is one whose insertion is still unanswered.
OneReturnPerInsert ==
  \A p \in Packet : credit[p] >= 0 /\ (p \in DOMAIN entries => credit[p] = 1)

\* The replay guard works for a whole lifetime: two successful returns of one
\* packet identity are at least a lifetime apart, whatever was inserted, removed
\* with its session or expired in between.
ReturnsAreSpaced == \A p \in Packet : gap[p] >= ReturnLifetime

\* Why: for a lifetime after a return the guard is in the table with that
\* very expiry, and a pending entry is one whose packet was not returned within
\* that last lifetime.
GuardInv ==
  \A p \in Packet :
    /\ returned[p] <= clock
    /\ returned[p] + ReturnLifetime > clock =>
         p \in DOMAIN consumed /\ consumed[p] = returned[p] + ReturnLifetime
    /\ p \in DOMAIN entries => returned[p] + ReturnLifetime <= clock
=============================================================================
