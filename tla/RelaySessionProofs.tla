------------------------- MODULE RelaySessionProofs -------------------------
(***************************************************************************)
(* Proofs about the relays' sessions: the two-hop handshake, for any       *)
(* clients and session limit, and the lifecycle and admission of the relay *)
(* process they run in, for any peers, flows and limits.                   *)
(***************************************************************************)
EXTENDS TwoHopSession, RelayRuntime, FiniteSetTheorems, TLAPS

Bounded(S, limit) == IsFiniteSet(S) /\ Cardinality(S) <= limit

LEMMA SubsetBounded ==
  ASSUME NEW limit \in Nat, NEW S, Bounded(S, limit), NEW T \in SUBSET S
  PROVE  Bounded(T, limit)
<1>1. IsFiniteSet(T) /\ Cardinality(T) <= Cardinality(S)
  BY FS_Subset DEF Bounded
<1>2. Cardinality(T) \in Nat /\ Cardinality(S) \in Nat
  BY <1>1, FS_CardinalityType DEF Bounded
<1> QED
  BY <1>1, <1>2 DEF Bounded

\* A set with room that gains one member is within its limit.
LEMMA AddBounded ==
  ASSUME NEW limit \in Nat, NEW S, IsFiniteSet(S), Cardinality(S) < limit, NEW x
  PROVE  Bounded(S \cup {x}, limit)
<1>1. Cardinality(S) \in Nat
  BY FS_CardinalityType
<1>2. IsFiniteSet(S \cup {x}) /\ Cardinality(S \cup {x}) = IF x \in S THEN Cardinality(S) ELSE Cardinality(S) + 1
  BY FS_AddElement
<1> QED
  BY <1>1, <1>2 DEF Bounded

-----------------------------------------------------------------------------
(* The handshake. *)

\* Every place a client's handshake can be at has all the sessions of the places
\* before it: the entry's channel, then the exit's, then the relay channel and
\* the forwarding context, then the response.
Path(c) == c \in entryChannels \cap relayChannels \cap forwarding \cap exitChannels

HandshakeInv ==
  /\ DOMAIN client = Client
  /\ entryChannels \subseteq entrySeen
  /\ pending \subseteq entryChannels
  /\ relayChannels \subseteq entryChannels
  /\ RelaySessionsAgree
  /\ \A c \in Client : Msg("relayResponse", c) \in net => c \in exitChannels
  /\ \A c \in Client : Msg("response", c) \in net => Path(c)
  /\ EstablishedEndToEnd

LEMMA MessagesDiffer ==
  ASSUME NEW j, NEW k, NEW c, NEW d, Msg(j, c) = Msg(k, d)
  PROVE  j = k /\ c = d
<1>1. Msg(j, c).kind = j /\ Msg(j, c).session = c /\ Msg(k, d).kind = k /\ Msg(k, d).session = d
  BY DEF Msg
<1> QED
  BY <1>1

LEMMA HandshakeInitially == Init => HandshakeInv
BY DEF Init, HandshakeInv, RelaySessionsAgree, EstablishedEndToEnd

\* A step that leaves both relays' tables alone and adds no answer to the
\* network keeps the invariant; only ClientComplete changes client otherwise.
LEMMA AnswersOnlyLeave ==
  ASSUME HandshakeInv, UNCHANGED <<client, exitChannels>>,
         UNCHANGED <<entrySeen, entryChannels, relayChannels, pending, forwarding>>,
         \A c \in Client : /\ Msg("relayResponse", c) \in net' => Msg("relayResponse", c) \in net
                           /\ Msg("response", c) \in net' => Msg("response", c) \in net
  PROVE  HandshakeInv'
BY DEF HandshakeInv, RelaySessionsAgree, EstablishedEndToEnd, Path

LEMMA ClientStepKeeps ==
  ASSUME HandshakeInv, NEW c \in Client,
         ClientInit(c) \/ ClientComplete(c) \/ ClientGivesUp(c)
  PROVE  HandshakeInv'
<1>1. /\ UNCHANGED <<exitChannels, entrySeen, entryChannels, relayChannels, pending, forwarding>>
      /\ \A d \in Client : /\ Msg("relayResponse", d) \in net' => Msg("relayResponse", d) \in net
                           /\ Msg("response", d) \in net' => Msg("response", d) \in net
  BY MessagesDiffer DEF ClientInit, ClientComplete, ClientGivesUp, entryVars, exitVars
<1>2. CASE ClientInit(c)
  BY <1>1, <1>2 DEF ClientInit, HandshakeInv, RelaySessionsAgree, EstablishedEndToEnd, Path
<1>3. CASE ClientComplete(c)
  BY <1>1, <1>3 DEF ClientComplete, HandshakeInv, RelaySessionsAgree, EstablishedEndToEnd, Path
<1>4. CASE ClientGivesUp(c)
  BY <1>1, <1>4, AnswersOnlyLeave DEF ClientGivesUp
<1> QED
  BY <1>2, <1>3, <1>4

\* accept_init at the entry: a session id that was not seen is in no table.
LEMMA EntryAcceptKeeps ==
  ASSUME HandshakeInv, NEW c \in Client, EntryAccept(c)
  PROVE  HandshakeInv'
<1>1. /\ UNCHANGED <<client, relayChannels, forwarding, exitChannels>>
      /\ net' \subseteq net
      /\ c \notin entrySeen /\ entrySeen' = entrySeen \cup {c}
  BY DEF EntryAccept, exitVars
<1>2. \/ entryChannels' = entryChannels \cup {c} /\ pending' = pending \cup {c}
      \/ UNCHANGED <<entryChannels, pending>>
  BY DEF EntryAccept
<1> QED
  BY <1>1, <1>2 DEF HandshakeInv, RelaySessionsAgree, EstablishedEndToEnd, Path

LEMMA ExitAcceptKeeps ==
  ASSUME HandshakeInv, NEW c \in Client, ExitAccept(c)
  PROVE  HandshakeInv'
<1>1. UNCHANGED <<client, entrySeen, entryChannels, relayChannels, pending, forwarding>>
  BY DEF ExitAccept, entryVars
<1>2. \A d \in Client : Msg("response", d) \in net' => Msg("response", d) \in net
  BY MessagesDiffer DEF ExitAccept
<1>3. exitChannels \subseteq exitChannels'
  BY DEF ExitAccept
<1>4. \A d \in Client : Msg("relayResponse", d) \in net' => d \in exitChannels'
  BY MessagesDiffer DEF ExitAccept, HandshakeInv
<1> QED
  BY <1>1, <1>2, <1>3, <1>4 DEF HandshakeInv, RelaySessionsAgree, EstablishedEndToEnd, Path

\* The exit's answer: whoever is pending has the entry's channel, and the answer
\* says that the exit has the other.
LEMMA EntryCompleteKeeps ==
  ASSUME HandshakeInv, NEW c \in Client, EntryComplete(c)
  PROVE  HandshakeInv'
<1>1. UNCHANGED <<client, entrySeen, entryChannels, exitChannels>> /\ c \in exitChannels
  BY DEF EntryComplete, exitVars, HandshakeInv
<1>2. CASE c \in pending
  <2>1. /\ pending' = pending \ {c}
        /\ relayChannels' = relayChannels \cup {c}
        /\ forwarding' = forwarding \cup {c}
    BY <1>2 DEF EntryComplete
  <2>2. \A d \in Client :
          /\ Msg("relayResponse", d) \in net' => Msg("relayResponse", d) \in net
          /\ Msg("response", d) \in net' => d = c \/ Msg("response", d) \in net
    BY <1>2, MessagesDiffer DEF EntryComplete
  <2> QED
    BY <1>1, <1>2, <2>1, <2>2 DEF HandshakeInv, RelaySessionsAgree, EstablishedEndToEnd, Path
<1>3. CASE c \notin pending
  BY <1>1, <1>3, AnswersOnlyLeave DEF EntryComplete
<1> QED
  BY <1>2, <1>3

LEMMA NetworkStepKeeps ==
  ASSUME HandshakeInv,
         ExitConnected \/ DialFails \/ ExitReconnects \/ \E m \in net : Lose(m)
  PROVE  HandshakeInv'
<1>1. /\ UNCHANGED <<client, exitChannels>>
      /\ UNCHANGED <<entrySeen, entryChannels, relayChannels, pending, forwarding>>
  BY DEF ExitConnected, DialFails, ExitReconnects, Lose, entryVars, exitVars
<1>2. \A m \in net' : m \in net \/ m = Msg("relayInit", first)
  BY DEF ExitConnected, DialFails, ExitReconnects, Lose, SendFirstPending
<1>3. \A c \in Client : /\ Msg("relayResponse", c) \in net' => Msg("relayResponse", c) \in net
                        /\ Msg("response", c) \in net' => Msg("response", c) \in net
  BY <1>2, MessagesDiffer
<1> QED
  BY <1>1, <1>3, AnswersOnlyLeave

LEMMA HandshakeInvHolds == Spec => []HandshakeInv
<1>1. HandshakeInv /\ [Next]_vars => HandshakeInv'
  <2> SUFFICES ASSUME HandshakeInv, [Next]_vars PROVE HandshakeInv'
    OBVIOUS
  <2>1. CASE UNCHANGED vars
    BY <2>1, AnswersOnlyLeave DEF vars, entryVars, exitVars
  <2>2. CASE Next
    BY <2>2, ClientStepKeeps, EntryAcceptKeeps, ExitAcceptKeeps, EntryCompleteKeeps,
       NetworkStepKeeps DEF Next
  <2> QED
    BY <2>1, <2>2
<1> QED
  BY <1>1, HandshakeInitially, PTL DEF Spec

\* Whatever is lost, late or repeated, a client whose initiator is Established
\* has both channels and a context at the entry, and the exit its end.
THEOREM EstablishedHasPath == Spec => []EstablishedEndToEnd
<1>1. HandshakeInv => EstablishedEndToEnd
  BY DEF HandshakeInv
<1> QED
  BY <1>1, HandshakeInvHolds, PTL

\* The entry has a relay session only if the exit has it, and pending_relay_handshakes
\* and client_forwarding never hold the same session.
THEOREM RelaysAlwaysAgree == Spec => []RelaySessionsAgree
<1>1. HandshakeInv => RelaySessionsAgree
  BY DEF HandshakeInv
<1> QED
  BY <1>1, HandshakeInvHolds, PTL

-----------------------------------------------------------------------------
(* A handshake nothing disturbs. *)

SessionInv ==
  /\ client \in [Client -> {"Idle", "Negotiating", "Established"}]
  /\ entryChannels \subseteq Client /\ exitChannels \subseteq Client
  /\ pending # {} => first \in pending
  /\ dials \in Nat

LEMMA SessionInvKept == SessionInv /\ [Next]_vars => SessionInv'
<1> SUFFICES ASSUME SessionInv, [Next]_vars PROVE SessionInv'
  OBVIOUS
<1>1. ASSUME NEW c \in Client, ClientInit(c) \/ ClientComplete(c) \/ ClientGivesUp(c)
      PROVE  SessionInv'
  BY <1>1 DEF ClientInit, ClientComplete, ClientGivesUp, SessionInv, entryVars, exitVars
<1>2. ASSUME NEW c \in Client, EntryAccept(c) PROVE SessionInv'
  BY <1>2 DEF EntryAccept, Reordered, SessionInv, exitVars
<1>3. ASSUME NEW c \in Client, ExitAccept(c) PROVE SessionInv'
  BY <1>3 DEF ExitAccept, SessionInv, entryVars
<1>4. ASSUME NEW c \in Client, EntryComplete(c) PROVE SessionInv'
  <2>1. UNCHANGED <<client, entryChannels, exitChannels, dials>>
    BY <1>4 DEF EntryComplete, exitVars
  <2>2. \/ /\ c \in pending /\ pending' = pending \ {c}
           /\ IF first = c THEN first' \in (IF pending' = {} THEN {Nobody} ELSE pending') ELSE first' = first
        \/ UNCHANGED <<pending, first>>
    BY <1>4 DEF EntryComplete, Reordered
  <2>3. pending' # {} => first' \in pending'
    BY <2>2 DEF SessionInv
  <2> QED
    BY <2>1, <2>3 DEF SessionInv
<1>5. CASE ExitConnected \/ DialFails
  BY <1>5 DEF ExitConnected, DialFails, SessionInv, exitVars
<1>6. CASE ExitReconnects \/ (\E m \in net : Lose(m)) \/ UNCHANGED vars
  BY <1>6 DEF ExitReconnects, Lose, SessionInv, vars, entryVars, exitVars
<1> QED
  BY <1>1, <1>2, <1>3, <1>4, <1>5, <1>6 DEF Next

\* What holds as long as nothing was lost and no dial has failed.  At the client
\* and the entry: a request that is under way was not seen, and one that is
\* pending is still open.
RequestsOpen ==
  /\ entryUp
  /\ \A c \in Client : Msg("init", c) \in net =>
                           c \in waiting /\ c \notin entrySeen /\ client[c] = "Negotiating"
  /\ \A c \in Client : client[c] = "Idle" => c \notin entrySeen
  /\ \A c \in Client : client[c] = "Negotiating" => Msg("init", c) \in net \/ c \in entrySeen
  /\ pending \subseteq waiting

\* Between the relays: the first session each of them sees has room, and whatever
\* the entry has not completed is waiting for a dial or for the exit.
RelaysBusy ==
  /\ entrySeen # {} => entryChannels # {}
  /\ entryChannels \subseteq pending \cup relayChannels
  /\ entryChannels # {} => \/ dials > 0 \/ exitChannels # {}
                           \/ \E c \in Client : Msg("relayInit", c) \in net
  /\ exitSeen # {} => exitChannels # {}

\* Every session the exit has opened is on its way back to its client.
AnswersReturn ==
  /\ \A c \in Client : Msg("relayInit", c) \in net \/ c \in exitChannels => c \in pending \cup relayChannels
  /\ \A c \in exitChannels : Msg("relayResponse", c) \in net \/ c \in relayChannels
  /\ \A c \in relayChannels : Msg("response", c) \in net \/ client[c] = "Established"

Undisturbed == RequestsOpen /\ RelaysBusy /\ AnswersReturn

LEMMA ClientInitUndisturbed ==
  ASSUME HandshakeInv, SessionInv, Undisturbed, NEW c \in Client, ClientInit(c)
  PROVE  Undisturbed'
<1>1. /\ UNCHANGED <<entryVars, exitVars>> /\ net \subseteq net' /\ waiting' = waiting \cup {c}
      /\ client[c] = "Idle" /\ client' = [client EXCEPT ![c] = "Negotiating"]
      /\ Msg("init", c) \in net'
  BY DEF ClientInit
<1>2. \A d \in Client : /\ Msg("init", d) \in net' => d = c \/ Msg("init", d) \in net
                        /\ Msg("relayInit", d) \in net' => Msg("relayInit", d) \in net
  BY MessagesDiffer DEF ClientInit
<1>3. RequestsOpen'
  BY <1>1, <1>2 DEF Undisturbed, RequestsOpen, SessionInv, entryVars
<1>4. RelaysBusy'
  BY <1>1 DEF Undisturbed, RelaysBusy, entryVars, exitVars
<1>5. AnswersReturn'
  BY <1>1, <1>2 DEF Undisturbed, AnswersReturn, SessionInv, HandshakeInv, entryVars, exitVars
<1> QED
  BY <1>3, <1>4, <1>5 DEF Undisturbed

LEMMA EntryAcceptUndisturbed ==
  ASSUME HandshakeInv, SessionInv, Undisturbed, NEW c \in Client, EntryAccept(c)
  PROVE  Undisturbed'
<1>1. /\ UNCHANGED <<client, entryUp, relayChannels, forwarding, exitVars>>
      /\ Msg("init", c) \in net /\ net' = net \ {Msg("init", c)}
      /\ c \notin entrySeen /\ entrySeen' = entrySeen \cup {c}
  BY DEF EntryAccept
<1>2. \/ /\ entryChannels' = entryChannels \cup {c} /\ pending' = pending \cup {c}
         /\ dials' = dials + 1 /\ waiting' = waiting
      \/ /\ waiting' = waiting \ {c} /\ UNCHANGED <<entryChannels, pending, dials>>
         /\ ~(Cardinality(entryChannels) < SessionLimit)
  BY DEF EntryAccept
<1>3. \A d \in Client : /\ Msg("init", d) \in net' <=> d # c /\ Msg("init", d) \in net
                        /\ Msg("relayInit", d) \in net' <=> Msg("relayInit", d) \in net
                        /\ Msg("relayResponse", d) \in net' <=> Msg("relayResponse", d) \in net
                        /\ Msg("response", d) \in net' <=> Msg("response", d) \in net
  BY <1>1, MessagesDiffer
<1>4. c \in waiting /\ c \notin pending /\ client[c] # "Idle"
  BY <1>1 DEF Undisturbed, RequestsOpen, HandshakeInv
<1>5. RequestsOpen'
  BY <1>1, <1>2, <1>3, <1>4 DEF Undisturbed, RequestsOpen
<1>6. entryChannels' # {}
  <2>1. Cardinality({}) = 0 /\ SessionLimit > 0
    BY FS_EmptySet, SessionLimitAssumption
  <2> QED
    BY <1>2, <2>1
<1>7. RelaysBusy'
  BY <1>1, <1>2, <1>3, <1>6 DEF Undisturbed, RelaysBusy, SessionInv, exitVars
<1>8. AnswersReturn'
  BY <1>1, <1>2, <1>3 DEF Undisturbed, AnswersReturn, SessionInv, HandshakeInv, exitVars
<1> QED
  BY <1>5, <1>7, <1>8 DEF Undisturbed

LEMMA ExitConnectedUndisturbed ==
  ASSUME HandshakeInv, SessionInv, Undisturbed, ExitConnected
  PROVE  Undisturbed'
<1>1. /\ UNCHANGED <<client, waiting, entryUp, entrySeen, entryChannels, relayChannels, pending>>
      /\ UNCHANGED <<exitSeen, exitChannels>>
      /\ net' = IF pending = {} THEN net ELSE net \cup {Msg("relayInit", first)}
  BY DEF ExitConnected, SendFirstPending, exitVars
<1>2. pending # {} => first \in pending /\ first \in Client
  BY DEF SessionInv, HandshakeInv
<1>3. /\ net \subseteq net'
      /\ \A d \in Client : /\ Msg("init", d) \in net' => Msg("init", d) \in net
                           /\ Msg("relayInit", d) \in net' => Msg("relayInit", d) \in net \/ d \in pending
  BY <1>1, <1>2, MessagesDiffer
<1>4. RequestsOpen'
  BY <1>1, <1>3 DEF Undisturbed, RequestsOpen
<1>5. RelaysBusy'
  <2>1. entryChannels # {} => exitChannels # {} \/ \E c \in Client : Msg("relayInit", c) \in net'
    BY <1>1, <1>2 DEF Undisturbed, RelaysBusy, HandshakeInv, RelaySessionsAgree
  <2> QED
    BY <1>1, <2>1 DEF Undisturbed, RelaysBusy
<1>6. AnswersReturn'
  BY <1>1, <1>3 DEF Undisturbed, AnswersReturn
<1> QED
  BY <1>4, <1>5, <1>6 DEF Undisturbed

LEMMA ExitAcceptUndisturbed ==
  ASSUME HandshakeInv, SessionInv, Undisturbed, NEW c \in Client, ExitAccept(c)
  PROVE  Undisturbed'
<1>1. /\ UNCHANGED <<client, waiting, entryVars>>
      /\ Msg("relayInit", c) \in net /\ exitSeen' = exitSeen \cup {c}
  BY DEF ExitAccept
<1>2. \/ /\ exitChannels' = exitChannels \cup {c}
         /\ net' = (net \ {Msg("relayInit", c)}) \cup {Msg("relayResponse", c)}
      \/ /\ exitChannels' = exitChannels /\ net' = net \ {Msg("relayInit", c)}
         /\ c \in exitSeen \/ ~(Cardinality(exitChannels) < SessionLimit)
  BY DEF ExitAccept
<1>3. \A d \in Client : /\ Msg("init", d) \in net' <=> Msg("init", d) \in net
                        /\ Msg("relayInit", d) \in net' => Msg("relayInit", d) \in net
                        /\ Msg("relayResponse", d) \in net => Msg("relayResponse", d) \in net'
                        /\ Msg("response", d) \in net' <=> Msg("response", d) \in net
  BY <1>2, MessagesDiffer
<1>4. exitChannels' # {}
  <2>1. Cardinality({}) = 0 /\ SessionLimit > 0
    BY FS_EmptySet, SessionLimitAssumption
  <2> QED
    BY <1>2, <2>1 DEF Undisturbed, RelaysBusy
<1>5. RequestsOpen'
  BY <1>1, <1>3 DEF Undisturbed, RequestsOpen, entryVars
<1>6. RelaysBusy'
  BY <1>1, <1>4 DEF Undisturbed, RelaysBusy, entryVars
<1>7. \A d \in exitChannels' : d \in exitChannels \/ (d = c /\ Msg("relayResponse", d) \in net')
  BY <1>2
<1>8. AnswersReturn'
  BY <1>1, <1>3, <1>7 DEF Undisturbed, AnswersReturn, SessionInv, HandshakeInv, entryVars
<1> QED
  BY <1>5, <1>6, <1>8 DEF Undisturbed

LEMMA EntryCompleteUndisturbed ==
  ASSUME HandshakeInv, SessionInv, Undisturbed, NEW c \in Client, EntryComplete(c)
  PROVE  Undisturbed'
<1>1. /\ UNCHANGED <<client, waiting, entrySeen, entryChannels, dials, exitSeen, exitChannels>>
      /\ Msg("relayResponse", c) \in net /\ c \in exitChannels /\ c \in pending \cup relayChannels
  BY DEF EntryComplete, exitVars, HandshakeInv, Undisturbed, AnswersReturn
<1>2. CASE c \in pending
  <2>1. c \in waiting
    BY <1>2 DEF Undisturbed, RequestsOpen
  <2>2. /\ pending' = pending \ {c} /\ relayChannels' = relayChannels \cup {c} /\ entryUp' = TRUE
        /\ net' = (net \ {Msg("relayResponse", c)}) \cup {Msg("response", c)}
    BY <1>2, <2>1 DEF EntryComplete
  <2>3. \A d \in Client : /\ Msg("init", d) \in net' <=> Msg("init", d) \in net
                          /\ Msg("relayInit", d) \in net' <=> Msg("relayInit", d) \in net
                          /\ Msg("relayResponse", d) \in net => d = c \/ Msg("relayResponse", d) \in net'
                          /\ Msg("response", d) \in net => Msg("response", d) \in net'
    BY <2>2, MessagesDiffer
  <2>4. Msg("response", c) \in net'
    BY <2>2
  <2>5. RequestsOpen'
    BY <1>1, <2>2, <2>3 DEF Undisturbed, RequestsOpen
  <2>6. RelaysBusy'
    BY <1>1, <2>2, <2>3 DEF Undisturbed, RelaysBusy
  <2>7. AnswersReturn'
    BY <1>1, <2>2, <2>3, <2>4 DEF Undisturbed, AnswersReturn, SessionInv, HandshakeInv
  <2> QED
    BY <2>5, <2>6, <2>7 DEF Undisturbed
<1>3. CASE c \notin pending
  <2>1. net' = net \ {Msg("relayResponse", c)} /\ UNCHANGED <<pending, relayChannels, entryUp>>
    BY <1>3 DEF EntryComplete
  <2>2. \A d \in Client : /\ Msg("init", d) \in net' <=> Msg("init", d) \in net
                          /\ Msg("relayInit", d) \in net' <=> Msg("relayInit", d) \in net
                          /\ Msg("relayResponse", d) \in net => d = c \/ Msg("relayResponse", d) \in net'
                          /\ Msg("response", d) \in net' <=> Msg("response", d) \in net
    BY <2>1, MessagesDiffer
  <2>3. RequestsOpen' /\ RelaysBusy'
    BY <1>1, <2>1, <2>2 DEF Undisturbed, RequestsOpen, RelaysBusy
  <2>4. AnswersReturn'
    BY <1>1, <1>3, <2>1, <2>2 DEF Undisturbed, AnswersReturn, SessionInv, HandshakeInv
  <2> QED
    BY <2>3, <2>4 DEF Undisturbed
<1> QED
  BY <1>2, <1>3

LEMMA ClientCompleteUndisturbed ==
  ASSUME HandshakeInv, SessionInv, Undisturbed, NEW c \in Client, ClientComplete(c)
  PROVE  Undisturbed'
<1>1. /\ UNCHANGED <<entryVars, exitVars>> /\ waiting' = waiting \ {c}
      /\ Msg("response", c) \in net /\ net' = net \ {Msg("response", c)}
      /\ client' = [client EXCEPT ![c] = IF @ = "Negotiating" THEN "Established" ELSE @]
  BY DEF ClientComplete
<1>2. c \in entrySeen /\ c \notin pending
  BY <1>1 DEF HandshakeInv, Path, RelaySessionsAgree
<1>3. client[c] # "Idle" /\ client'[c] = "Established"
  BY <1>1, <1>2 DEF SessionInv, Undisturbed, RequestsOpen
<1>4. \A d \in Client : d # c => client'[d] = client[d]
  BY <1>1 DEF SessionInv
<1>5. \A d \in Client : /\ Msg("init", d) \in net' <=> Msg("init", d) \in net
                        /\ Msg("relayInit", d) \in net' <=> Msg("relayInit", d) \in net
                        /\ Msg("relayResponse", d) \in net' <=> Msg("relayResponse", d) \in net
                        /\ Msg("response", d) \in net => d = c \/ Msg("response", d) \in net'
  BY <1>1, MessagesDiffer
<1>6. RequestsOpen'
  BY <1>1, <1>2, <1>3, <1>4, <1>5 DEF Undisturbed, RequestsOpen, entryVars
<1>7. RelaysBusy'
  BY <1>1, <1>5 DEF Undisturbed, RelaysBusy, entryVars, exitVars
<1>8. AnswersReturn'
  BY <1>1, <1>3, <1>4, <1>5 DEF Undisturbed, AnswersReturn, SessionInv, HandshakeInv, entryVars, exitVars
<1> QED
  BY <1>6, <1>7, <1>8 DEF Undisturbed

\* As long as no dial has failed and nothing was lost, the entry runs, and a client
\* that negotiates waits for a connection that comes up or a message under way,
\* unless a client has its session already: no order of accepts, connects and
\* answers leaves all of them waiting for each other (PeerConnected and the two
\* handshake handlers of relay/src/main.rs).
HandshakesUnderWay ==
  faulty \/
    /\ entryUp
    /\ (\E c \in Client : client[c] = "Negotiating") =>
         (\E c \in Client : client[c] = "Established") \/ dials > 0 \/ net # {}

\* Nobody waits for nothing: the safety half of SomeoneIsServed, for any number of
\* clients and any session limit, and the reason why only a fault ends the entry.
THEOREM HandshakesProceed == Spec => []HandshakesUnderWay
<1>1. Init => SessionInv /\ (faulty \/ Undisturbed)
  BY DEF Init, SessionInv, Undisturbed, RequestsOpen, RelaysBusy, AnswersReturn
<1>2. HandshakeInv /\ SessionInv /\ (faulty \/ Undisturbed) /\ [Next]_vars => (faulty \/ Undisturbed)'
  <2> SUFFICES ASSUME HandshakeInv, SessionInv, faulty \/ Undisturbed, [Next]_vars, ~faulty'
               PROVE  Undisturbed'
    OBVIOUS
  <2>1. ~faulty
    BY DEF Next, vars, ClientInit, EntryAccept, ExitAccept, EntryComplete, ClientComplete, ClientGivesUp,
           ExitConnected, DialFails, ExitReconnects, Lose
  <2>2. CASE UNCHANGED vars
    BY <2>1, <2>2 DEF vars, entryVars, exitVars, Undisturbed, RequestsOpen, RelaysBusy, AnswersReturn
  <2>3. ASSUME NEW c \in Client,
               \/ ClientInit(c) \/ EntryAccept(c) \/ ExitAccept(c)
               \/ EntryComplete(c) \/ ClientComplete(c)
        PROVE  Undisturbed'
    BY <2>1, <2>3, ClientInitUndisturbed, EntryAcceptUndisturbed, ExitAcceptUndisturbed,
       EntryCompleteUndisturbed, ClientCompleteUndisturbed
  <2>4. CASE ExitConnected
    BY <2>1, <2>4, ExitConnectedUndisturbed
  <2> QED
    BY <2>2, <2>3, <2>4 DEF Next, ClientGivesUp, DialFails, ExitReconnects, Lose
<1>3. HandshakeInv /\ SessionInv /\ (faulty \/ Undisturbed) => HandshakesUnderWay
  <2> SUFFICES ASSUME HandshakeInv, SessionInv, Undisturbed, NEW c \in Client, client[c] = "Negotiating",
                      dials = 0, net = {}
               PROVE  \E d \in Client : client[d] = "Established"
    BY DEF HandshakesUnderWay, Undisturbed, RequestsOpen, SessionInv
  <2>1. entryChannels # {}
    BY DEF Undisturbed, RequestsOpen, RelaysBusy
  <2>2. PICK d \in exitChannels : d \in relayChannels
    BY <2>1 DEF Undisturbed, RelaysBusy, AnswersReturn
  <2> QED
    BY <2>2 DEF Undisturbed, AnswersReturn, SessionInv
<1> QED
  BY <1>1, <1>2, <1>3, SessionInvKept, HandshakeInvHolds, PTL DEF Spec

\* Neither relay holds more channels of sessions than admit_session allows.
SessionsWithinLimit == Bounded(entryChannels, SessionLimit) /\ Bounded(exitChannels, SessionLimit)

\* The session limit of both relays is kept: every channel was admitted, whatever
\* is lost or sent again.
THEOREM SessionsAreBounded == Spec => []SessionsWithinLimit
<1> USE SessionLimitAssumption
<1>1. Init => SessionsWithinLimit
  BY FS_EmptySet DEF Init, SessionsWithinLimit, Bounded
<1>2. SessionsWithinLimit /\ [Next]_vars => SessionsWithinLimit'
  <2> SUFFICES ASSUME SessionsWithinLimit, [Next]_vars
               PROVE  Bounded(entryChannels', SessionLimit) /\ Bounded(exitChannels', SessionLimit)
    BY DEF SessionsWithinLimit
  <2>1. \/ entryChannels' = entryChannels
        \/ Cardinality(entryChannels) < SessionLimit /\ \E c : entryChannels' = entryChannels \cup {c}
    BY DEF Next, vars, entryVars, ClientInit, EntryAccept, ExitAccept, EntryComplete, ClientComplete,
           ClientGivesUp, ExitConnected, DialFails, ExitReconnects, Lose
  <2>2. \/ exitChannels' = exitChannels
        \/ Cardinality(exitChannels) < SessionLimit /\ \E c : exitChannels' = exitChannels \cup {c}
    BY DEF Next, vars, exitVars, ClientInit, EntryAccept, ExitAccept, EntryComplete, ClientComplete,
           ClientGivesUp, ExitConnected, DialFails, ExitReconnects, Lose
  <2>3. Bounded(entryChannels', SessionLimit)
    BY <2>1, AddBounded DEF SessionsWithinLimit, Bounded
  <2>4. Bounded(exitChannels', SessionLimit)
    BY <2>2, AddBounded DEF SessionsWithinLimit, Bounded
  <2> QED
    BY <2>3, <2>4
<1> QED
  BY <1>1, <1>2, PTL DEF Spec

-----------------------------------------------------------------------------
(* The relay process. *)

\* Nothing is admitted before the relay listens: admit_peer and the session
\* handler ask for the lifecycle, and a flow needs a session.
NothingAdmitted == peers = {} /\ sessions = {} /\ flows = {} /\ ~ready

RuntimeInv ==
  /\ AdmittedAreActive
  /\ lifecycle = "Starting" => NothingAdmitted

LEMMA RuntimeInitially == RelayInit => RuntimeInv
BY DEF RelayInit, RuntimeInv, NothingAdmitted, AdmittedAreActive

LEMMA RuntimeStepKeeps == RuntimeInv /\ [RelayNext]_relayVars => RuntimeInv'
<1> SUFFICES ASSUME RuntimeInv, [RelayNext]_relayVars PROVE RuntimeInv'
  OBVIOUS
<1> USE DEF RuntimeInv, NothingAdmitted, AdmittedAreActive
<1>1. CASE Listening
  BY <1>1 DEF Listening
<1>2. CASE Heartbeat
  BY <1>2 DEF Heartbeat, coreVars
<1>3. CASE Tick
  BY <1>3 DEF Tick, coreVars, signals
<1>4. CASE Shutdown
  BY <1>4 DEF Shutdown, signals
<1>5. ASSUME NEW p \in Peer, PeerConnected(p) PROVE RuntimeInv'
  BY <1>5 DEF PeerConnected, AdmitsPeer, signals
<1>6. ASSUME NEW p \in Peer, PeerDisconnected(p) PROVE RuntimeInv'
  BY <1>6 DEF PeerDisconnected, signals
<1>7. ASSUME NEW p \in Peer, NEW r, PingResult(p, r) PROVE RuntimeInv'
  BY <1>7 DEF PingResult, coreVars, signals
<1>8. ASSUME NEW s \in Session, HandshakeInit(s) PROVE RuntimeInv'
  BY <1>8 DEF HandshakeInit, stateVars, signals
<1>9. ASSUME NEW f \in Flow, ForwardFlow(f) PROVE RuntimeInv'
  BY <1>9 DEF ForwardFlow, stateVars, signals
<1>10. CASE UNCHANGED relayVars
  BY <1>10 DEF relayVars, coreVars, stateVars, signals
<1> QED
  BY <1>1, <1>2, <1>3, <1>4, <1>5, <1>6, <1>7, <1>8, <1>9, <1>10 DEF RelayNext

LEMMA RuntimeAlwaysInv == RelaySpec => []RuntimeInv
BY RuntimeInitially, RuntimeStepKeeps, PTL DEF RelaySpec

\* The core's admitted peers are among RelayState's active ones in every
\* behaviour, whatever the order of connects and disconnects of a peer with
\* several connections.
THEOREM CoreNeverCountsMore == RelaySpec => []AdmittedAreActive
BY RuntimeAlwaysInv, PTL DEF RuntimeInv

\* The event loop that ends with the error of an early shutdown has admitted
\* nothing and never signalled readiness.
THEOREM EarlyStopIsClean == RelaySpec => []EarlyStopLeavesNothing
<1>1. RuntimeInv => EarlyStopLeavesNothing
  BY DEF RuntimeInv, NothingAdmitted, EarlyStopLeavesNothing
<1> QED BY <1>1, RuntimeAlwaysInv, PTL

\* The admission sets never outgrow RelayResourceLimits.
AdmissionWithinLimits ==
  Bounded(peers, MaxPeers) /\ Bounded(sessions, MaxSessions) /\ Bounded(flows, MaxFlows)

\* Peers, sessions and flows stay within their limits, for any number of those
\* that ask to be admitted (relay/src/core.rs).
THEOREM AdmissionIsBounded == RelaySpec => []AdmissionWithinLimits
<1>1. {MaxPeers, MaxSessions, MaxFlows} \subseteq Nat
  BY RelayLimitAssumption
<1>2. RelayInit => AdmissionWithinLimits
  BY <1>1, FS_EmptySet DEF RelayInit, AdmissionWithinLimits, Bounded
<1>3. AdmissionWithinLimits /\ [RelayNext]_relayVars => AdmissionWithinLimits'
  <2> SUFFICES ASSUME AdmissionWithinLimits, [RelayNext]_relayVars PROVE AdmissionWithinLimits'
    OBVIOUS
  <2> USE <1>1
  <2>1. ASSUME NEW S, NEW T, NEW limit \in Nat, Bounded(S, limit),
               \/ T \subseteq S
               \/ Cardinality(S) < limit /\ \E x : T = S \cup {x}
        PROVE  Bounded(T, limit)
    BY <2>1, SubsetBounded, AddBounded DEF Bounded
  <2>2. \/ peers' \subseteq peers
        \/ Cardinality(peers) < MaxPeers /\ \E p \in Peer : peers' = peers \cup {p}
    <3>1. ASSUME NEW p \in Peer, PeerConnected(p)
          PROVE  \/ peers' \subseteq peers
                 \/ Cardinality(peers) < MaxPeers /\ peers' = peers \cup {p}
      BY <3>1 DEF PeerConnected, AdmitsPeer
    <3> QED
      BY <3>1 DEF RelayNext, relayVars, coreVars, Listening, Heartbeat, Tick, Shutdown,
                  PeerDisconnected, PingResult, HandshakeInit, ForwardFlow
  <2>3. \/ sessions' \subseteq sessions
        \/ Cardinality(sessions) < MaxSessions /\ \E s \in Session : sessions' = sessions \cup {s}
    BY DEF RelayNext, relayVars, coreVars, Listening, Heartbeat, Tick, Shutdown, PeerConnected,
           PeerDisconnected, PingResult, HandshakeInit, ForwardFlow
  <2>4. \/ flows' \subseteq flows
        \/ Cardinality(flows) < MaxFlows /\ \E f \in Flow : flows' = flows \cup {f}
    <3>1. ASSUME NEW f \in Flow, ForwardFlow(f)
          PROVE  \/ flows' \subseteq flows
                 \/ Cardinality(flows) < MaxFlows /\ flows' = flows \cup {f}
      BY <3>1 DEF ForwardFlow
    <3> QED
      BY <3>1 DEF RelayNext, relayVars, coreVars, Listening, Heartbeat, Tick, Shutdown,
                  PeerConnected, PeerDisconnected, PingResult, HandshakeInit
  <2>5. Bounded(peers', MaxPeers)
    BY <2>1, <2>2 DEF AdmissionWithinLimits
  <2>6. Bounded(sessions', MaxSessions)
    BY <2>1, <2>3 DEF AdmissionWithinLimits
  <2>7. Bounded(flows', MaxFlows)
    BY <2>1, <2>4 DEF AdmissionWithinLimits
  <2> QED
    BY <2>5, <2>6, <2>7 DEF AdmissionWithinLimits
<1> QED
  BY <1>2, <1>3, PTL DEF RelaySpec

\* The signals the HTTP thread serves agree with the core's lifecycle, although
\* they are set by other statements of the same turn: ready exactly in Ready,
\* dead exactly once stopped, and healthy only while it lives.
SignalsAgree ==
  /\ lifecycle \in {"Starting", "Ready", "Stopped"}
  /\ ready <=> lifecycle = "Ready"
  /\ alive <=> lifecycle # "Stopped"
  /\ lifecycle = "Stopped" => ~running /\ ~healthy

\* The health endpoint never tells of another lifecycle than the core has.
THEOREM SignalsAlwaysAgree == RelaySpec => []SignalsAgree
<1>1. RelayInit => SignalsAgree
  BY DEF RelayInit, SignalsAgree
<1>2. SignalsAgree /\ [RelayNext]_relayVars => SignalsAgree'
  <2> SUFFICES ASSUME SignalsAgree, [RelayNext]_relayVars PROVE SignalsAgree'
    OBVIOUS
  <2> USE DEF SignalsAgree
  <2>1. CASE Listening
    BY <2>1 DEF Listening
  <2>2. CASE Heartbeat
    BY <2>2 DEF Heartbeat, coreVars
  <2>3. CASE Shutdown
    BY <2>3 DEF Shutdown, signals
  <2>4. CASE UNCHANGED <<lifecycle, signals>> /\ (running' => running)
    BY <2>4 DEF signals
  <2>5. CASE UNCHANGED relayVars
    BY <2>5 DEF relayVars, coreVars, signals
  <2> QED
    BY <2>1, <2>2, <2>3, <2>4, <2>5
       DEF RelayNext, coreVars, Tick, PeerConnected, PeerDisconnected, PingResult, HandshakeInit, ForwardFlow
<1> QED
  BY <1>1, <1>2, PTL DEF RelaySpec
=============================================================================
