-------------------------- MODULE TwoHopForwarding --------------------------
(***************************************************************************)
(* The data path of established two-hop sessions (relay/src/main.rs with   *)
(* forwarding.rs, exit_handler.rs and the channel's counters): a client's  *)
(* request is decrypted by the entry, re-encrypted for the exit, exchanged *)
(* with the destination, and the answer travels back the same way.         *)
(*                                                                         *)
(* A client stands for its session, its forwarding context and its relay   *)
(* session; n numbers its requests and stands for their payload.  Each     *)
(* direction of the two channels is a link with the counters of            *)
(* EncryptedChannel; nothing in the relays drains pending_outbound, so a   *)
(* link accepts MaxPending frames in its lifetime.  An error a handler     *)
(* passes on with `?' ends the relay's process.                            *)
(***************************************************************************)
EXTENDS Integers, FiniteSets, Sequences

CONSTANTS
  Client,
  MaxRequests,       \* bound: requests sent, by all clients together
  MaxPending,        \* maximum_pending_messages of the channels
  MaxFlows,          \* maximum_active_flows of both relays
  OneHopClient       \* clients with a one-hop session with the exit instead

ASSUME ForwardingLimitAssumption ==
  {MaxRequests, MaxPending, MaxFlows} \subseteq Nat \ {0}
ASSUME RouteAssumption == OneHopClient \subseteq Client

VARIABLES
  up,         \* which relays' event loops have not been left
  asked,      \* requests each client has sent
  open,       \* libp2p: requests whose client still waits for the response
  net,        \* messages under way
  sent, rcvd, \* send_sequence and receive_sequence of each link
  direction,  \* the entry context's last_request
  pending,    \* pending_client_forwards
  entryFlows, exitFlows, \* admitted flows of the two cores
  contexts,   \* exit_forwarding, whose contexts have taken sequence 1
  handled,    \* handled_packets of the exit handler
  activeExit, \* active_exit_relay_session, as a set of at most one
  exchanged,  \* history: payloads given to the destination, per client
  answers,    \* history: request and payload of the responses a client took
  disturbed   \* history: something was lost or failed, or came over one hop to
              \* a handler for two

clientVars == <<asked, open, answers>>
entryVars == <<direction, pending, entryFlows>>
exitVars == <<contexts, handled, activeExit, exitFlows, exchanged>>
vars == <<up, clientVars, net, sent, rcvd, entryVars, exitVars, disturbed>>

Relay == {"entry", "exit"}
Link == {"clientEntry", "entryExit", "exitEntry", "entryClient"}
TwoHopClient == Client \ OneHopClient

\* req is the request a message belongs to, n the payload its frame carries.
Msg(kind, c, req, n, seq) == [kind |-> kind, client |-> c, req |-> req, n |-> n, seq |-> seq]

Init ==
  /\ up = Relay
  /\ asked = [c \in Client |-> 0]
  /\ open = {} /\ net = {} /\ pending = {}
  /\ sent = [c \in Client |-> [l \in Link |-> 0]]
  /\ rcvd = [c \in Client |-> [l \in Link |-> 0]]
  /\ direction = [c \in Client |-> "none"]
  /\ entryFlows = {} /\ exitFlows = {}
  /\ contexts = {} /\ handled = {} /\ activeExit = {}
  /\ exchanged = [c \in Client |-> <<>>]
  /\ answers = [c \in Client |-> <<>>]
  /\ disturbed = FALSE

-----------------------------------------------------------------------------
(* What the handlers share *)

CanSend(c, l) == sent[c][l] < MaxPending

\* Variant: frames may be missing.
InSequenceOrLater(c, l, m) == m.seq >= rcvd[c][l]

InSequence(c, l, m) == m.seq = rcvd[c][l]

Received(f, c, l) == [f EXCEPT ![c][l] = @ + 1]

\* Variant: the last place is never given out.
AdmitsFlowOffByOne(flows, c) == c \in flows \/ Cardinality(flows) + 1 < MaxFlows

\* admit_flow
AdmitsFlow(flows, c) == c \in flows \/ Cardinality(flows) < MaxFlows

\* The relay's loop returns an error.  Its state dies with it.
Dies(r, m) ==
  /\ up' = up \ {r}
  /\ net' = net \ {m}
  /\ UNCHANGED <<clientVars, sent, rcvd, entryVars, exitVars, disturbed>>

-----------------------------------------------------------------------------
\* The client sends a ForwardingMessage with packet metadata ("protocol") or a
\* bare DataPlaneEnvelope, over two hops ("data") or one ("direct").
ClientRequest(c, kind) ==
  /\ Cardinality({r \in Client \X (1 .. MaxRequests) : r[2] <= asked[r[1]]}) < MaxRequests
  /\ CanSend(c, "clientEntry")
  /\ asked' = [asked EXCEPT ![c] = @ + 1]
  /\ open' = open \cup {<<c, asked[c] + 1>>}
  /\ net' = net \cup {Msg(kind, c, asked[c] + 1, asked[c] + 1, sent[c]["clientEntry"])}
  /\ sent' = Received(sent, c, "clientEntry")
  /\ UNCHANGED <<up, rcvd, answers, entryVars, exitVars, disturbed>>

\* Variant: the entry begins a request while another one is outstanding.
MayBeginRepeated(c, dir) == TRUE

\* begin_forwarding refuses to repeat the last request and direction.
MayBegin(c, dir) == direction[c] # dir

EntryTakes(c, m) ==
  /\ InSequence(c, "clientEntry", m)
  /\ m.kind = "protocol" => AdmitsFlow(entryFlows, c)
  /\ MayBegin(c, "toExit")
  /\ CanSend(c, "entryExit")

\* Decrypt, admit the flow (only with packet metadata), begin forwarding,
\* re-encrypt for the exit and remember whom the answer is for.
EntryForward(c, m) ==
  /\ "entry" \in up
  /\ m.kind \in {"protocol", "data"}
  /\ IF EntryTakes(c, m)
     THEN /\ rcvd' = Received(rcvd, c, "clientEntry")
          /\ entryFlows' = IF m.kind = "protocol" THEN entryFlows \cup {c} ELSE entryFlows
          /\ direction' = [direction EXCEPT ![c] = "toExit"]
          /\ sent' = Received(sent, c, "entryExit")
          /\ net' = (net \ {m}) \cup {Msg("forward", c, m.req, m.n, sent[c]["entryExit"])}
          /\ pending' = pending \cup {<<c, m.req>>}
          /\ UNCHANGED <<up, clientVars, exitVars, disturbed>>
     ELSE Dies("entry", m)

\* Variant: the exit takes any frame its channel takes.
ExitTakesRepeated(c, m) == InSequence(c, "entryExit", m) /\ CanSend(c, "exitEntry")

\* The exit creates the context with the first message, whose packet sequence
\* must exceed the last one and whose direction must not repeat; clients and
\* entry always write sequence 1.  The handler then takes each packet identity,
\* the forwarding id, once.
ExitTakes(c, m) ==
  /\ c \notin contexts
  /\ InSequence(c, "entryExit", m)
  /\ AdmitsFlow(exitFlows, c)
  /\ c \notin handled
  /\ CanSend(c, "exitEntry")

ExitForward(c, m) ==
  /\ "exit" \in up
  /\ m.kind = "forward"
  /\ IF ExitTakes(c, m)
     THEN /\ contexts' = contexts \cup {c}
          /\ rcvd' = Received(rcvd, c, "entryExit")
          /\ exitFlows' = exitFlows \cup {c}
          /\ handled' = handled \cup {c}
          /\ activeExit' = {c}
          /\ exchanged' = [exchanged EXCEPT ![c] = Append(@, m.n)]
          /\ sent' = Received(sent, c, "exitEntry")
          /\ net' = (net \ {m}) \cup {Msg("forwardResponse", c, m.req, m.n, sent[c]["exitEntry"])}
          /\ UNCHANGED <<up, clientVars, entryVars, disturbed>>
     ELSE Dies("exit", m)

\* The destination refuses, fails or times out, or the entry's request has timed
\* out when the answer is there: an error of the exit's loop, with or without
\* the payload having reached the destination.
ExchangeFails(c, m) ==
  /\ disturbed' = TRUE
  /\ "exit" \in up
  /\ m.kind = "forward"
  /\ ExitTakes(c, m)
  /\ up' = up \ {"exit"}
  /\ net' = net \ {m}
  /\ \/ exchanged' = [exchanged EXCEPT ![c] = Append(@, m.n)]
     \/ UNCHANGED exchanged
  /\ UNCHANGED <<clientVars, sent, rcvd, entryVars, contexts, handled, activeExit, exitFlows>>

\* Variant: the context still counts the forward as its last request.
EntryReturnsWhenIdle(c, m) == direction[c] # "toExit" /\ <<c, m.req>> \in open

EntryReturns(c, m) ==
  /\ MayBegin(c, "toClient")
  /\ InSequence(c, "exitEntry", m)
  /\ CanSend(c, "entryClient")
  /\ <<c, m.req>> \in open

\* Variant: the entry answers whichever client has waited for an answer.
EntryReturnAny(c, m) ==
  /\ "entry" \in up
  /\ m.kind = "forwardResponse"
  /\ \E p \in pending :
       /\ pending' = pending \ {p}
       /\ rcvd' = Received(rcvd, c, "exitEntry")
       /\ direction' = [direction EXCEPT ![c] = "toClient"]
       /\ sent' = Received(sent, p[1], "entryClient")
       /\ net' = (net \ {m}) \cup {Msg("response", p[1], p[2], m.n, sent[p[1]]["entryClient"])}
  /\ UNCHANGED <<up, clientVars, entryFlows, exitVars, disturbed>>

\* The answer is matched with its client by the outbound request id, and goes
\* to the response channel kept for it.  A closed channel is an error too.
EntryReturn(c, m) ==
  /\ "entry" \in up
  /\ m.kind = "forwardResponse"
  /\ <<c, m.req>> \in pending
  /\ IF EntryReturns(c, m)
     THEN /\ pending' = pending \ {<<c, m.req>>}
          /\ rcvd' = Received(rcvd, c, "exitEntry")
          /\ direction' = [direction EXCEPT ![c] = "toClient"]
          /\ sent' = Received(sent, c, "entryClient")
          /\ net' = (net \ {m}) \cup {Msg("response", c, m.req, m.n, sent[c]["entryClient"])}
          /\ UNCHANGED <<up, clientVars, entryFlows, exitVars, disturbed>>
     ELSE Dies("entry", m)

\* A frame out of sequence is only logged by the client.
ClientReceive(c, m) ==
  /\ m.kind = "response"
  /\ <<c, m.req>> \in open
  /\ open' = open \ {<<c, m.req>>}
  /\ net' = net \ {m}
  /\ IF InSequence(c, "entryClient", m)
     THEN /\ rcvd' = Received(rcvd, c, "entryClient")
          /\ answers' = [answers EXCEPT ![c] = Append(@, <<m.req, m.n>>)]
     ELSE UNCHANGED <<rcvd, answers>>
  /\ UNCHANGED <<up, asked, sent, entryVars, exitVars, disturbed>>

\* A packet from the exit's TUN device is sealed for the latest relay session and
\* sent to the entry as a request, which the entry logs and drops undecrypted.
TunReturn(c) ==
  /\ "exit" \in up
  /\ c \in activeExit
  /\ CanSend(c, "exitEntry")
  /\ sent' = Received(sent, c, "exitEntry")
  /\ UNCHANGED <<up, clientVars, net, rcvd, entryVars, exitVars, disturbed>>

\* Data over a one-hop session is acknowledged.  A frame out of sequence is
\* ignored, but an acknowledgement that cannot be sent ends the relay.
Acknowledge(c, m) ==
  /\ "exit" \in up
  /\ m.kind = "direct"
  /\ IF InSequence(c, "clientEntry", m) /\ CanSend(c, "entryClient") /\ <<c, m.req>> \in open
     THEN /\ rcvd' = Received(rcvd, c, "clientEntry")
          /\ sent' = Received(sent, c, "entryClient")
          /\ net' = (net \ {m}) \cup {Msg("response", c, m.req, m.n, sent[c]["entryClient"])}
          /\ UNCHANGED <<up, clientVars, entryVars, exitVars, disturbed>>
     ELSE IF InSequence(c, "clientEntry", m) THEN Dies("exit", m)
     ELSE /\ net' = net \ {m}
          /\ UNCHANGED <<up, clientVars, sent, rcvd, entryVars, exitVars, disturbed>>

\* A forwarding message over a one-hop route, sent to its relay directly:
\* with_forwarding_id takes two-hop routes only, and its error ends the loop.
OneHopForward(c) ==
  /\ "exit" \in up
  /\ c \in OneHopClient
  /\ up' = up \ {"exit"}
  /\ disturbed' = TRUE
  /\ UNCHANGED <<clientVars, net, sent, rcvd, entryVars, exitVars>>

-----------------------------------------------------------------------------
(* Faults, none of which is reported to the handlers *)

Lose(m) ==
  /\ disturbed' = TRUE
  /\ net' = net \ {m}
  /\ UNCHANGED <<up, clientVars, sent, rcvd, entryVars, exitVars>>

ClientGivesUp(r) ==
  /\ disturbed' = TRUE
  /\ open' = open \ {r}
  /\ UNCHANGED <<up, asked, answers, net, sent, rcvd, entryVars, exitVars>>

Next ==
  \/ \E c \in TwoHopClient, kind \in {"protocol", "data"} : ClientRequest(c, kind)
  \/ \E c \in OneHopClient : ClientRequest(c, "direct") \/ OneHopForward(c)
  \/ \E c \in TwoHopClient : TunReturn(c)
  \/ \E m \in net : \/ EntryForward(m.client, m) \/ ExitForward(m.client, m)
                    \/ ExchangeFails(m.client, m) \/ EntryReturn(m.client, m)
                    \/ ClientReceive(m.client, m) \/ Acknowledge(m.client, m)
                    \/ Lose(m)
  \/ \E r \in open : ClientGivesUp(r)

Spec == Init /\ [][Next]_vars

\* Both relays and the client keep handling what arrives.
Handle(c) ==
  \E m \in net : /\ m.client = c
                 /\ \/ EntryForward(c, m) \/ ExitForward(c, m)
                    \/ EntryReturn(c, m) \/ ClientReceive(c, m) \/ Acknowledge(c, m)

FairSpec == Spec /\ \A c \in Client : WF_vars(Handle(c))

-----------------------------------------------------------------------------
\* A client is only ever given the answer to its own request: the response to
\* request r carries the payload of r, which over two hops the exit has exchanged
\* for this client.
AnswersAreOwn ==
  \A c \in Client : \A i \in 1 .. Len(answers[c]) :
    LET a == answers[c][i]
    IN a[1] = a[2] /\ (c \in OneHopClient \/ \E j \in 1 .. Len(exchanged[c]) : exchanged[c][j] = a[2])

\* Answers come in the order of the requests and without a gap, over one hop and
\* over two: what is lost on the way silences a session, it is never skipped.
AnswersInOrder ==
  \A c \in Client : \A i \in 1 .. Len(answers[c]) : answers[c][i][1] = i

\* A forwarding context carries one exchange: no loss, retry or second request
\* of a client reaches the destination under the same forwarding id again.
OneExchangePerContext == \A c \in Client : Len(exchanged[c]) <= 1

\* The entry never has two forwards of one session outstanding, so the return
\* direction of a context always belongs to its one pending request.
OneForwardOutstanding ==
  \A p, q \in pending : "entry" \in up /\ p[1] = q[1] => p = q

\* The runs the client binary makes: one request per session, undisturbed.
OneRequestEach == ~disturbed /\ \A c \in Client : asked[c] <= 1

\* With one request per session every request is answered, however the sessions
\* interleave, unless something is lost or fails.
RequestsAreAnswered ==
  \A c \in Client : asked[c] = 1 ~> (Len(answers[c]) = 1 \/ ~OneRequestEach)

\* With one request per session nothing that the sessions do together ends a
\* relay: not the flow limits, the TUN packets or the order of the answers.
RelaysKeepRunning == OneRequestEach => up = Relay
=============================================================================
