----------------------- MODULE TwoHopForwardingProofs -----------------------
(***************************************************************************)
(* Proofs about the data path: a context is exchanged once, a session has  *)
(* one forward outstanding, answers are the client's own and in order, the *)
(* flow limit is kept, and undisturbed sessions of one request each end no *)
(* relay and always have their request under way.                          *)
(*                                                                         *)
(* The argument follows one payload along the links.  Request r leaves the *)
(* client in frame r - 1, and a relay that takes frames in sequence passes *)
(* request r on in frame r - 1.  Over two hops the exit takes a context's  *)
(* first frame only, so every answer on its way back is to request 1, and  *)
(* the client, who stops waiting with the first answer, takes one of them. *)
(* Over one hop the acknowledgements are numbered like the requests.       *)
(***************************************************************************)
EXTENDS TwoHopForwarding, FiniteSetTheorems, TLAPS

Kind == {"protocol", "data", "direct", "forward", "forwardResponse", "response"}

Message == [kind : Kind, client : Client, req : Nat, n : Nat, seq : Nat]

Counter == [Client -> [Link -> Nat]]

TypeInv ==
  /\ asked \in [Client -> Nat]
  /\ open \subseteq Client \X Nat
  /\ net \subseteq Message
  /\ sent \in Counter /\ rcvd \in Counter
  /\ direction \in [Client -> {"none", "toExit", "toClient"}]
  /\ pending \subseteq Client \X Nat
  /\ exchanged \in [Client -> Seq(Nat)]
  /\ answers \in [Client -> Seq(Nat \X Nat)]

\* While the exit runs, it has exchanged and received nothing for a context that
\* it does not have; it exchanges once.
ExchangeInv ==
  \A c \in Client :
    /\ Len(exchanged[c]) <= 1
    /\ "exit" \in up /\ c \notin contexts => Len(exchanged[c]) = 0 /\ rcvd[c]["entryExit"] = 0

\* A pending forward is the last request its context has begun, and the only one.
PendingInv ==
  "entry" \in up =>
    /\ \A p \in pending : direction[p[1]] = "toExit"
    /\ \A p, q \in pending : p[1] = q[1] => p = q

\* The exit has exchanged payload n for client c.
Given(c, n) == \E j \in 1 .. Len(exchanged[c]) : exchanged[c][j] = n

\* A message carries the payload of its own request, in the frame of its number
\* on the way to the destination and, over one hop, back.  An answer over two
\* hops is to the first request.
MessageOk(m) ==
  /\ m.req = m.n /\ m.req >= 1
  /\ m.kind = "direct" => m.client \in OneHopClient
  /\ m.kind \in {"protocol", "data", "forward", "forwardResponse"} => m.client \notin OneHopClient
  /\ m.kind \in {"protocol", "data", "direct", "forward"} => m.seq = m.req - 1
  /\ m.kind = "forwardResponse" => m.req = 1 /\ Given(m.client, m.n)
  /\ m.kind = "response" => IF m.client \in OneHopClient THEN m.seq = m.req - 1
                            ELSE m.req = 1 /\ Given(m.client, m.n)

NetInv == \A m \in net : MessageOk(m)

\* What a relay has taken from a client it has passed on or acknowledged.
CountersOk(c) ==
  /\ sent[c]["clientEntry"] = asked[c]
  /\ c \notin OneHopClient => rcvd[c]["clientEntry"] = sent[c]["entryExit"]
  /\ c \in OneHopClient => /\ rcvd[c]["clientEntry"] = sent[c]["entryClient"]
                           /\ rcvd[c]["entryClient"] = Len(answers[c])

CounterInv == \A c \in Client : CountersOk(c)

OpenInv == \A r \in open : r[2] <= asked[r[1]]

\* Answers are to the requests in their order, and exchanged over two hops.
AnswerInv ==
  \A c \in Client : \A i \in 1 .. Len(answers[c]) :
    answers[c][i] = <<i, i>> /\ (c \in OneHopClient \/ Given(c, i))

\* Over two hops there is one answer, and nobody waits for it any more.
SingleInv ==
  \A c \in Client \ OneHopClient :
    Len(answers[c]) = 0 \/ (Len(answers[c]) = 1 /\ asked[c] >= 1 /\ <<c, 1>> \notin open)

PathInv ==
  TypeInv /\ ExchangeInv /\ PendingInv /\ NetInv /\ CounterInv /\ OpenInv /\ AnswerInv
  /\ SingleInv

-----------------------------------------------------------------------------
\* One counter moves by one.
LEMMA CounterStep ==
  ASSUME NEW f \in Counter, NEW c \in Client, NEW l \in Link
  PROVE  /\ Received(f, c, l) \in Counter
         /\ Received(f, c, l)[c][l] = f[c][l] + 1
         /\ \A d \in Client, k \in Link : d # c \/ k # l => Received(f, c, l)[d][k] = f[d][k]
BY DEF Counter, Received

LEMMA MessageFields ==
  ASSUME TypeInv, NEW m \in net
  PROVE  m.kind \in Kind /\ m.client \in Client /\ m.req \in Nat /\ m.n \in Nat /\ m.seq \in Nat
BY DEF TypeInv, Message

LEMMA LinkCounters ==
  ASSUME TypeInv, NEW c \in Client
  PROVE  /\ \A l \in Link : sent[c][l] \in Nat /\ rcvd[c][l] \in Nat
         /\ {"clientEntry", "entryExit", "exitEntry", "entryClient"} \subseteq Link
BY DEF TypeInv, Counter, Link

LEMMA AppendedAnswer ==
  ASSUME NEW S, NEW s \in Seq(S), NEW x \in S
  PROVE  /\ Append(s, x) \in Seq(S)
         /\ Len(s) \in Nat /\ Len(Append(s, x)) = Len(s) + 1
         /\ Append(s, x)[Len(s) + 1] = x
         /\ \A i \in 1 .. Len(s) : Append(s, x)[i] = s[i]
OBVIOUS

\* What was exchanged once stays exchanged.
LEMMA GivenStays ==
  ASSUME TypeInv, NEW c \in Client, NEW n \in Nat,
         exchanged' = [exchanged EXCEPT ![c] = Append(@, n)]
  PROVE  /\ exchanged' \in [Client -> Seq(Nat)]
         /\ Len(exchanged'[c]) = Len(exchanged[c]) + 1
         /\ \A d \in Client : d # c => exchanged'[d] = exchanged[d]
         /\ Given(c, n)'
         /\ \A d \in Client, k \in Nat : Given(d, k) => Given(d, k)'
<1>1. exchanged[c] \in Seq(Nat) /\ exchanged'[c] = Append(exchanged[c], n)
  BY DEF TypeInv
<1>2. \A d \in Client : d # c => exchanged'[d] = exchanged[d]
  BY DEF TypeInv
<1>3. exchanged' \in [Client -> Seq(Nat)] /\ Len(exchanged'[c]) = Len(exchanged[c]) + 1
  BY <1>1 DEF TypeInv
<1>4. Given(c, n)'
  BY <1>1, <1>3 DEF Given
<1>5. \A k \in Nat : Given(c, k) => Given(c, k)'
  BY <1>1, <1>3 DEF Given
<1>6. \A d \in Client, k \in Nat : Given(d, k) => Given(d, k)'
  BY <1>2, <1>5 DEF Given
<1> QED
  BY <1>2, <1>3, <1>4, <1>6

LEMMA AnswersStay ==
  ASSUME PathInv, answers' = answers,
         \A d \in Client, k \in Nat : Given(d, k) => Given(d, k)'
  PROVE  AnswerInv'
<1> SUFFICES ASSUME NEW c \in Client, NEW i \in 1 .. Len(answers[c])
             PROVE  answers[c][i] = <<i, i>> /\ (c \in OneHopClient \/ Given(c, i)')
  BY DEF AnswerInv
<1>1. i \in Nat
  BY DEF PathInv, TypeInv
<1>2. answers[c][i] = <<i, i>> /\ (c \in OneHopClient \/ Given(c, i))
  BY DEF PathInv, AnswerInv
<1> QED
  BY <1>1, <1>2

\* A step that loses messages, relays or waiting clients, or seals a TUN packet,
\* keeps the invariant.
LEMMA QuietKeeps ==
  ASSUME PathInv, net' \subseteq net, up' \subseteq up, open' \subseteq open,
         sent' \in Counter,
         \A c \in Client, l \in Link : l # "exitEntry" => sent'[c][l] = sent[c][l],
         UNCHANGED <<asked, answers, rcvd, direction, pending, contexts, exchanged>>
  PROVE  PathInv'
<1>1. TypeInv'
  BY DEF PathInv, TypeInv
<1>2. ExchangeInv' /\ PendingInv'
  BY DEF PathInv, ExchangeInv, PendingInv
<1>3. NetInv'
  BY DEF PathInv, NetInv, MessageOk, Given
<1>4. CounterInv'
  BY DEF PathInv, CounterInv, CountersOk, Link
<1>5. OpenInv'
  BY DEF PathInv, OpenInv
<1>6. AnswerInv'
  <2>1. \A d \in Client, k \in Nat : Given(d, k) => Given(d, k)'
    BY DEF Given
  <2> QED
    BY <2>1, AnswersStay
<1>7. SingleInv'
  BY DEF PathInv, SingleInv
<1> QED
  BY <1>1, <1>2, <1>3, <1>4, <1>5, <1>6, <1>7 DEF PathInv

LEMMA DeathKeeps ==
  ASSUME PathInv, NEW r, NEW m, Dies(r, m)
  PROVE  PathInv'
BY QuietKeeps DEF Dies, clientVars, entryVars, exitVars, PathInv, TypeInv

LEMMA ClientRequestKeeps ==
  ASSUME PathInv, NEW c \in Client,
         NEW kind \in {"protocol", "data", "direct"}, kind = "direct" <=> c \in OneHopClient,
         ClientRequest(c, kind)
  PROVE  PathInv'
<1> DEFINE new == Msg(kind, c, asked[c] + 1, asked[c] + 1, sent[c]["clientEntry"])
<1>1. TypeInv /\ "clientEntry" \in Link /\ asked[c] \in Nat /\ sent[c]["clientEntry"] \in Nat
  BY DEF PathInv, TypeInv, Counter, Link
<1>2. /\ new \in Message /\ new.kind = kind /\ new.client = c
      /\ new.req = asked[c] + 1 /\ new.n = asked[c] + 1 /\ new.seq = sent[c]["clientEntry"]
  BY <1>1 DEF Msg, Message, Kind
<1>3. /\ sent' \in Counter /\ sent'[c]["clientEntry"] = sent[c]["clientEntry"] + 1
      /\ \A d \in Client, k \in Link : d # c \/ k # "clientEntry" => sent'[d][k] = sent[d][k]
  <2>1. sent \in Counter /\ "clientEntry" \in Link
    BY <1>1 DEF TypeInv
  <2>2. sent' = Received(sent, c, "clientEntry")
    BY DEF ClientRequest
  <2> QED
    BY <2>1, <2>2, CounterStep
<1>4. /\ asked' \in [Client -> Nat] /\ asked'[c] = asked[c] + 1
      /\ \A d \in Client : d # c => asked'[d] = asked[d]
  BY <1>1 DEF ClientRequest, TypeInv
<1>5. net' = net \cup {new} /\ open' = open \cup {<<c, asked[c] + 1>>}
  BY DEF ClientRequest
<1>6. UNCHANGED <<up, rcvd, answers, direction, pending, contexts, exchanged>>
  BY DEF ClientRequest, entryVars, exitVars
<1> HIDE DEF new
<1>7. TypeInv'
  <2>1. open' \subseteq Client \X Nat
    BY <1>1, <1>5 DEF TypeInv
  <2>2. net' \subseteq Message
    BY <1>1, <1>2, <1>5 DEF TypeInv
  <2>3. /\ rcvd' \in Counter /\ direction' \in [Client -> {"none", "toExit", "toClient"}]
        /\ pending' \subseteq Client \X Nat
        /\ exchanged' \in [Client -> Seq(Nat)] /\ answers' \in [Client -> Seq(Nat \X Nat)]
    BY <1>1, <1>6 DEF TypeInv
  <2> QED
    BY <1>3, <1>4, <2>1, <2>2, <2>3 DEF TypeInv
<1>8. ExchangeInv' /\ PendingInv'
  BY <1>6 DEF PathInv, ExchangeInv, PendingInv
<1>9. NetInv'
  <2>1. sent[c]["clientEntry"] = asked[c]
    BY DEF PathInv, CounterInv, CountersOk
  <2>2. ASSUME NEW m, m = new PROVE MessageOk(m)'
    BY <1>1, <1>2, <2>1, <2>2 DEF MessageOk
  <2>3. \A m \in net : MessageOk(m)'
    BY <1>6 DEF PathInv, NetInv, MessageOk, Given
  <2> QED
    BY <1>5, <2>2, <2>3 DEF NetInv
<1>10. CounterInv'
  BY <1>1, <1>3, <1>4, <1>6 DEF PathInv, CounterInv, CountersOk, Link
<1>11. OpenInv'
  BY <1>1, <1>4, <1>5 DEF PathInv, OpenInv, TypeInv
<1>12. AnswerInv'
  <2>1. AnswerInv /\ answers' = answers /\ exchanged' = exchanged
    BY <1>6 DEF PathInv
  <2> QED
    BY <2>1, Zenon DEF AnswerInv, Given
<1>13. SingleInv'
  <2> SUFFICES ASSUME NEW d \in Client \ OneHopClient, Len(answers[d]) # 0
               PROVE  Len(answers[d]) = 1 /\ asked'[d] >= 1 /\ <<d, 1>> \notin open'
    BY <1>6 DEF SingleInv
  <2>1. Len(answers[d]) = 1 /\ asked[d] >= 1 /\ <<d, 1>> \notin open
    BY DEF PathInv, SingleInv
  <2>2. asked'[d] >= 1
    BY <1>1, <1>4, <2>1
  <2>3. d = c => asked[c] + 1 # 1
    BY <1>1, <2>1
  <2>4. <<d, 1>> # <<c, asked[c] + 1>>
    BY <2>3
  <2> QED
    BY <1>5, <2>1, <2>2, <2>4
<1> QED
  BY <1>7, <1>8, <1>9, <1>10, <1>11, <1>12, <1>13 DEF PathInv

LEMMA EntryForwardKeeps ==
  ASSUME PathInv, NEW m \in net, NEW c, c = m.client, EntryForward(c, m)
  PROVE  PathInv'
<1> DEFINE new == Msg("forward", c, m.req, m.n, sent[c]["entryExit"])
<1>1. CASE ~EntryTakes(c, m)
  BY <1>1, DeathKeeps DEF EntryForward
<1>2. CASE EntryTakes(c, m)
  <2>1. /\ TypeInv /\ c \in Client /\ m.req \in Nat /\ m.n \in Nat /\ m.seq \in Nat
        /\ \A l \in Link : sent[c][l] \in Nat /\ rcvd[c][l] \in Nat
        /\ {"clientEntry", "entryExit", "exitEntry", "entryClient"} \subseteq Link
    BY MessageFields, LinkCounters DEF PathInv
  <2>2. /\ new \in Message /\ new.kind = "forward" /\ new.client = c
        /\ new.req = m.req /\ new.n = m.n /\ new.seq = sent[c]["entryExit"]
    BY <2>1 DEF Msg, Message, Kind
  <2>3. /\ m.kind \in {"protocol", "data"} /\ "entry" \in up
        /\ m.seq = rcvd[c]["clientEntry"] /\ direction[c] # "toExit"
    BY <1>2 DEF EntryForward, EntryTakes, InSequence, MayBegin
  <2>4. /\ rcvd' = Received(rcvd, c, "clientEntry") /\ sent' = Received(sent, c, "entryExit")
        /\ direction' = [direction EXCEPT ![c] = "toExit"]
        /\ net' = (net \ {m}) \cup {new}
        /\ pending' = pending \cup {<<c, m.req>>}
        /\ UNCHANGED <<up, asked, open, answers, contexts, exchanged>>
    BY <1>2 DEF EntryForward, clientVars, exitVars
  <2>5. c \notin OneHopClient /\ m.seq = m.req - 1 /\ m.req = m.n /\ m.req >= 1
    BY <2>3 DEF PathInv, NetInv, MessageOk
  <2>6. /\ rcvd' \in Counter /\ rcvd'[c]["clientEntry"] = rcvd[c]["clientEntry"] + 1
        /\ \A d \in Client, k \in Link : d # c \/ k # "clientEntry" => rcvd'[d][k] = rcvd[d][k]
    <3>1. rcvd \in Counter /\ c \in Client /\ "clientEntry" \in Link
      BY <2>1 DEF TypeInv
    <3>2. rcvd' = Received(rcvd, c, "clientEntry")
      BY <2>4
    <3> QED
      BY <3>1, <3>2, CounterStep
  <2>7. /\ sent' \in Counter /\ sent'[c]["entryExit"] = sent[c]["entryExit"] + 1
        /\ \A d \in Client, k \in Link : d # c \/ k # "entryExit" => sent'[d][k] = sent[d][k]
    <3>1. sent \in Counter /\ c \in Client /\ "entryExit" \in Link
      BY <2>1 DEF TypeInv
    <3>2. sent' = Received(sent, c, "entryExit")
      BY <2>4
    <3> QED
      BY <3>1, <3>2, CounterStep
  <2> HIDE DEF new
  <2>8. TypeInv'
    <3>1. net' \subseteq Message
      BY <2>1, <2>2, <2>4 DEF TypeInv
    <3>2. pending' \subseteq Client \X Nat
      BY <2>1, <2>4 DEF TypeInv
    <3>3. direction' \in [Client -> {"none", "toExit", "toClient"}]
      BY <2>1, <2>4 DEF TypeInv
    <3>4. /\ asked' \in [Client -> Nat] /\ open' \subseteq Client \X Nat
          /\ exchanged' \in [Client -> Seq(Nat)] /\ answers' \in [Client -> Seq(Nat \X Nat)]
      BY <2>1, <2>4 DEF TypeInv
    <3> QED
      BY <2>6, <2>7, <3>1, <3>2, <3>3, <3>4 DEF TypeInv
  <2>9. ExchangeInv'
    BY <2>4, <2>6 DEF PathInv, ExchangeInv, Link
  <2>10. PendingInv'
    <3>1. \A p \in pending : direction[p[1]] = "toExit"
      BY <2>3 DEF PathInv, PendingInv
    <3>2. \A p \in pending : p[1] \in Client /\ p[1] # c
      BY <2>1, <2>3, <3>1 DEF TypeInv
    <3>3. \A p \in pending' : direction'[p[1]] = "toExit"
      BY <2>1, <2>4, <3>1, <3>2 DEF TypeInv
    <3>4. \A p, q \in pending' : p[1] = q[1] => p = q
      BY <2>3, <2>4, <3>2 DEF PathInv, PendingInv
    <3> QED
      BY <3>3, <3>4 DEF PendingInv
  <2>11. NetInv'
    <3>1. rcvd[c]["clientEntry"] = sent[c]["entryExit"]
      BY <2>1, <2>5 DEF PathInv, CounterInv, CountersOk
    <3>2. ASSUME NEW k, k = new PROVE MessageOk(k)'
      BY <2>1, <2>2, <2>3, <2>5, <3>1, <3>2 DEF MessageOk
    <3>3. \A k \in net : MessageOk(k)'
      BY <2>4 DEF PathInv, NetInv, MessageOk, Given
    <3> QED
      BY <2>4, <3>2, <3>3 DEF NetInv
  <2>12. CounterInv'
    <3>1. CountersOk(c) /\ \A d \in Client \ {c} : CountersOk(d)
      BY <2>1 DEF PathInv, CounterInv
    <3>2. ASSUME NEW d \in Client \ {c} PROVE CountersOk(d)'
      <4>1. /\ \A l \in Link : sent'[d][l] = sent[d][l] /\ rcvd'[d][l] = rcvd[d][l]
            /\ asked'[d] = asked[d] /\ answers'[d] = answers[d]
        BY <2>4, <2>5, <2>6, <2>7
      <4> QED
        BY <2>1, <3>1, <4>1 DEF CountersOk
    <3>3. /\ rcvd'[c]["clientEntry"] = rcvd[c]["clientEntry"] + 1
          /\ sent'[c]["entryExit"] = sent[c]["entryExit"] + 1
          /\ sent'[c]["clientEntry"] = sent[c]["clientEntry"]
          /\ c \notin OneHopClient /\ asked' = asked
      BY <2>4, <2>5, <2>6, <2>7, <2>1
    <3>4. CountersOk(c)'
      BY <3>1, <3>3 DEF CountersOk
    <3> QED
      BY <3>2, <3>4 DEF CounterInv
  <2>13. OpenInv' /\ AnswerInv' /\ SingleInv'
    BY <2>4 DEF PathInv, OpenInv, AnswerInv, SingleInv, Given
  <2> QED
    BY <2>8, <2>9, <2>10, <2>11, <2>12, <2>13 DEF PathInv
<1> QED
  BY <1>1, <1>2

LEMMA ExitForwardKeeps ==
  ASSUME PathInv, NEW m \in net, NEW c, c = m.client, ExitForward(c, m)
  PROVE  PathInv'
<1> DEFINE new == Msg("forwardResponse", c, m.req, m.n, sent[c]["exitEntry"])
<1>1. CASE ~ExitTakes(c, m)
  BY <1>1, DeathKeeps DEF ExitForward
<1>2. CASE ExitTakes(c, m)
  <2>1. /\ TypeInv /\ c \in Client /\ m.req \in Nat /\ m.n \in Nat /\ m.seq \in Nat
        /\ \A l \in Link : sent[c][l] \in Nat /\ rcvd[c][l] \in Nat
        /\ {"clientEntry", "entryExit", "exitEntry", "entryClient"} \subseteq Link
    BY MessageFields, LinkCounters DEF PathInv
  <2>2. /\ new \in Message /\ new.kind = "forwardResponse" /\ new.client = c
        /\ new.req = m.req /\ new.n = m.n
    BY <2>1 DEF Msg, Message, Kind
  <2>3. /\ m.kind = "forward" /\ "exit" \in up /\ c \notin contexts
        /\ m.seq = rcvd[c]["entryExit"]
    BY <1>2 DEF ExitForward, ExitTakes, InSequence
  <2>4. /\ rcvd' = Received(rcvd, c, "entryExit") /\ sent' = Received(sent, c, "exitEntry")
        /\ contexts' = contexts \cup {c}
        /\ exchanged' = [exchanged EXCEPT ![c] = Append(@, m.n)]
        /\ net' = (net \ {m}) \cup {new}
        /\ UNCHANGED <<up, asked, open, answers, direction, pending>>
    BY <1>2 DEF ExitForward, clientVars, entryVars
  <2>5. c \notin OneHopClient /\ m.seq = m.req - 1 /\ m.req = m.n
    BY <2>3 DEF PathInv, NetInv, MessageOk
  <2>6. m.req = 1 /\ Len(exchanged[c]) = 0
    <3>1. rcvd[c]["entryExit"] = 0 /\ Len(exchanged[c]) = 0
      BY <2>1, <2>3 DEF PathInv, ExchangeInv
    <3>2. m.seq = 0 /\ m.seq = m.req - 1 /\ m.req \in Nat
      BY <2>1, <2>3, <2>5, <3>1
    <3> QED
      BY <3>1, <3>2
  <2>7. /\ rcvd' \in Counter /\ rcvd'[c]["entryExit"] = rcvd[c]["entryExit"] + 1
        /\ \A d \in Client, k \in Link : d # c \/ k # "entryExit" => rcvd'[d][k] = rcvd[d][k]
    <3>1. rcvd \in Counter /\ c \in Client /\ "entryExit" \in Link
      BY <2>1 DEF TypeInv
    <3>2. rcvd' = Received(rcvd, c, "entryExit")
      BY <2>4
    <3> QED
      BY <3>1, <3>2, CounterStep
  <2>8. /\ sent' \in Counter /\ sent'[c]["exitEntry"] = sent[c]["exitEntry"] + 1
        /\ \A d \in Client, k \in Link : d # c \/ k # "exitEntry" => sent'[d][k] = sent[d][k]
    <3>1. sent \in Counter /\ c \in Client /\ "exitEntry" \in Link
      BY <2>1 DEF TypeInv
    <3>2. sent' = Received(sent, c, "exitEntry")
      BY <2>4
    <3> QED
      BY <3>1, <3>2, CounterStep
  <2>9. /\ exchanged' \in [Client -> Seq(Nat)]
        /\ Len(exchanged'[c]) = Len(exchanged[c]) + 1
        /\ \A d \in Client : d # c => exchanged'[d] = exchanged[d]
        /\ Given(c, m.n)'
        /\ \A d \in Client, k \in Nat : Given(d, k) => Given(d, k)'
    BY <2>1, <2>4, GivenStays
  <2> HIDE DEF new
  <2>10. TypeInv'
    BY <2>1, <2>2, <2>4, <2>7, <2>8, <2>9 DEF TypeInv
  <2>11. ExchangeInv'
    <3>1. Len(exchanged'[c]) <= 1
      BY <2>6, <2>9
    <3>2. c \in contexts'
      BY <2>4
    <3> SUFFICES ASSUME NEW d \in Client
                 PROVE  /\ Len(exchanged'[d]) <= 1
                        /\ "exit" \in up' /\ d \notin contexts' =>
                             Len(exchanged'[d]) = 0 /\ rcvd'[d]["entryExit"] = 0
      BY DEF ExchangeInv
    <3>3. CASE d = c
      BY <3>1, <3>2, <3>3, Zenon
    <3>4. CASE d # c
      <4>1. /\ exchanged'[d] = exchanged[d] /\ rcvd'[d]["entryExit"] = rcvd[d]["entryExit"]
            /\ up' = up /\ (d \in contexts' <=> d \in contexts)
        BY <2>1, <2>4, <2>7, <2>9, <3>4
      <4>2. /\ Len(exchanged[d]) <= 1
            /\ "exit" \in up /\ d \notin contexts =>
                 Len(exchanged[d]) = 0 /\ rcvd[d]["entryExit"] = 0
        BY DEF PathInv, ExchangeInv
      <4> QED
        BY <4>1, <4>2
    <3> QED
      BY <3>3, <3>4
  <2>12. PendingInv'
    BY <2>4 DEF PathInv, PendingInv
  <2>13. NetInv'
    <3>1. ASSUME NEW k, k = new PROVE MessageOk(k)'
      BY <2>1, <2>2, <2>5, <2>6, <2>9, <3>1 DEF MessageOk
    <3>2. \A k \in net : MessageOk(k)'
      BY <2>1, <2>9, MessageFields DEF PathInv, NetInv, MessageOk
    <3> QED
      BY <2>4, <3>1, <3>2 DEF NetInv
  <2>14. CounterInv'
    <3>1. ASSUME NEW d \in Client, NEW l \in {"clientEntry", "entryClient"}
          PROVE  rcvd'[d][l] = rcvd[d][l] /\ sent'[d][l] = sent[d][l]
      BY <2>1, <2>7, <2>8
    <3>2. \A d \in Client : sent'[d]["entryExit"] = sent[d]["entryExit"]
      BY <2>1, <2>8
    <3>3. asked' = asked /\ answers' = answers
      BY <2>4
    <3> QED
      BY <3>1, <3>2, <3>3 DEF PathInv, CounterInv, CountersOk
  <2>15. OpenInv' /\ SingleInv'
    BY <2>4 DEF PathInv, OpenInv, SingleInv
  <2>16. AnswerInv'
    BY <2>4, <2>9, AnswersStay
  <2> QED
    BY <2>10, <2>11, <2>12, <2>13, <2>14, <2>15, <2>16 DEF PathInv
<1> QED
  BY <1>1, <1>2

LEMMA ExchangeFailsKeeps ==
  ASSUME PathInv, NEW m \in net, NEW c, c = m.client, ExchangeFails(c, m)
  PROVE  PathInv'
<1>1. CASE UNCHANGED exchanged
  BY <1>1, QuietKeeps DEF ExchangeFails, clientVars, entryVars, PathInv, TypeInv
<1>2. CASE exchanged' = [exchanged EXCEPT ![c] = Append(@, m.n)]
  <2>1. TypeInv /\ c \in Client /\ m.n \in Nat
    BY MessageFields DEF PathInv
  <2>2. /\ "exit" \in up /\ "exit" \notin up' /\ up' \subseteq up /\ c \notin contexts
        /\ net' \subseteq net
        /\ UNCHANGED <<asked, open, answers, sent, rcvd, direction, pending, contexts>>
    BY DEF ExchangeFails, ExitTakes, clientVars, entryVars
  <2>3. /\ exchanged' \in [Client -> Seq(Nat)]
        /\ Len(exchanged'[c]) = Len(exchanged[c]) + 1
        /\ \A d \in Client : d # c => exchanged'[d] = exchanged[d]
        /\ \A d \in Client, k \in Nat : Given(d, k) => Given(d, k)'
    BY <1>2, <2>1, GivenStays
  <2>4. TypeInv'
    BY <2>1, <2>2, <2>3 DEF TypeInv
  <2>5. ExchangeInv'
    BY <2>1, <2>2, <2>3 DEF PathInv, ExchangeInv
  <2>6. PendingInv' /\ CounterInv' /\ OpenInv' /\ SingleInv'
    BY <2>2 DEF PathInv, PendingInv, CounterInv, CountersOk, OpenInv, SingleInv
  <2>7. NetInv'
    BY <2>1, <2>2, <2>3, MessageFields DEF PathInv, NetInv, MessageOk
  <2>8. AnswerInv'
    BY <2>2, <2>3, AnswersStay
  <2> QED
    BY <2>4, <2>5, <2>6, <2>7, <2>8 DEF PathInv
<1> QED
  BY <1>1, <1>2 DEF ExchangeFails

LEMMA EntryReturnKeeps ==
  ASSUME PathInv, NEW m \in net, NEW c, c = m.client, EntryReturn(c, m)
  PROVE  PathInv'
<1> DEFINE new == Msg("response", c, m.req, m.n, sent[c]["entryClient"])
<1>1. CASE ~EntryReturns(c, m)
  BY <1>1, DeathKeeps DEF EntryReturn
<1>2. CASE EntryReturns(c, m)
  <2>1. /\ TypeInv /\ c \in Client /\ m.req \in Nat /\ m.n \in Nat /\ m.seq \in Nat
        /\ \A l \in Link : sent[c][l] \in Nat /\ rcvd[c][l] \in Nat
        /\ {"clientEntry", "entryExit", "exitEntry", "entryClient"} \subseteq Link
    BY MessageFields, LinkCounters DEF PathInv
  <2>2. /\ new \in Message /\ new.kind = "response" /\ new.client = c
        /\ new.req = m.req /\ new.n = m.n
    BY <2>1 DEF Msg, Message, Kind
  <2>3. m.kind = "forwardResponse" /\ "entry" \in up /\ <<c, m.req>> \in pending
    BY DEF EntryReturn
  <2>4. /\ rcvd' = Received(rcvd, c, "exitEntry") /\ sent' = Received(sent, c, "entryClient")
        /\ direction' = [direction EXCEPT ![c] = "toClient"]
        /\ pending' = pending \ {<<c, m.req>>}
        /\ net' = (net \ {m}) \cup {new}
        /\ UNCHANGED <<up, asked, open, answers, contexts, exchanged>>
    BY <1>2 DEF EntryReturn, clientVars, exitVars
  <2>5. c \notin OneHopClient /\ m.req = m.n /\ m.req = 1 /\ Given(c, m.n)
    BY <2>3 DEF PathInv, NetInv, MessageOk
  <2>6. /\ rcvd' \in Counter /\ rcvd'[c]["exitEntry"] = rcvd[c]["exitEntry"] + 1
        /\ \A d \in Client, k \in Link : d # c \/ k # "exitEntry" => rcvd'[d][k] = rcvd[d][k]
    <3>1. rcvd \in Counter /\ c \in Client /\ "exitEntry" \in Link
      BY <2>1 DEF TypeInv
    <3>2. rcvd' = Received(rcvd, c, "exitEntry")
      BY <2>4
    <3> QED
      BY <3>1, <3>2, CounterStep
  <2>7. /\ sent' \in Counter /\ sent'[c]["entryClient"] = sent[c]["entryClient"] + 1
        /\ \A d \in Client, k \in Link : d # c \/ k # "entryClient" => sent'[d][k] = sent[d][k]
    <3>1. sent \in Counter /\ c \in Client /\ "entryClient" \in Link
      BY <2>1 DEF TypeInv
    <3>2. sent' = Received(sent, c, "entryClient")
      BY <2>4
    <3> QED
      BY <3>1, <3>2, CounterStep
  <2> HIDE DEF new
  <2>8. TypeInv'
    BY <2>1, <2>2, <2>4, <2>6, <2>7 DEF TypeInv
  <2>9. ExchangeInv'
    BY <2>1, <2>4, <2>6 DEF PathInv, ExchangeInv
  <2>10. PendingInv'
    <3>1. \A p \in pending' : p \in pending /\ p[1] \in Client /\ p[1] # c
      BY <2>1, <2>3, <2>4 DEF PathInv, PendingInv, TypeInv
    <3>2. \A p \in pending' : direction'[p[1]] = direction[p[1]]
      BY <2>1, <2>4, <3>1 DEF TypeInv
    <3> QED
      BY <2>3, <3>1, <3>2 DEF PathInv, PendingInv
  <2>11. NetInv'
    <3>1. ASSUME NEW k, k = new PROVE MessageOk(k)'
      BY <2>1, <2>2, <2>4, <2>5, <3>1 DEF MessageOk, Given
    <3>2. \A k \in net : MessageOk(k)'
      BY <2>4 DEF PathInv, NetInv, MessageOk, Given
    <3> QED
      BY <2>4, <3>1, <3>2 DEF NetInv
  <2>12. CounterInv'
    <3>1. CountersOk(c) /\ \A d \in Client \ {c} : CountersOk(d)
      BY <2>1 DEF PathInv, CounterInv
    <3>2. ASSUME NEW d \in Client \ {c} PROVE CountersOk(d)'
      <4>1. /\ \A l \in Link : sent'[d][l] = sent[d][l] /\ rcvd'[d][l] = rcvd[d][l]
            /\ asked'[d] = asked[d] /\ answers'[d] = answers[d]
        BY <2>4, <2>5, <2>6, <2>7
      <4> QED
        BY <2>1, <3>1, <4>1 DEF CountersOk
    <3>3. /\ rcvd'[c]["clientEntry"] = rcvd[c]["clientEntry"]
          /\ sent'[c]["entryExit"] = sent[c]["entryExit"]
          /\ sent'[c]["clientEntry"] = sent[c]["clientEntry"]
          /\ c \notin OneHopClient /\ asked' = asked
      BY <2>4, <2>5, <2>6, <2>7, <2>1
    <3>4. CountersOk(c)'
      BY <3>1, <3>3 DEF CountersOk
    <3> QED
      BY <3>2, <3>4 DEF CounterInv
  <2>13. OpenInv' /\ AnswerInv' /\ SingleInv'
    BY <2>4 DEF PathInv, OpenInv, AnswerInv, SingleInv, Given
  <2> QED
    BY <2>8, <2>9, <2>10, <2>11, <2>12, <2>13 DEF PathInv
<1> QED
  BY <1>1, <1>2

LEMMA AcknowledgeKeeps ==
  ASSUME PathInv, NEW m \in net, NEW c, c = m.client, Acknowledge(c, m)
  PROVE  PathInv'
<1> DEFINE new == Msg("response", c, m.req, m.n, sent[c]["entryClient"])
           taken == InSequence(c, "clientEntry", m) /\ CanSend(c, "entryClient") /\ <<c, m.req>> \in open
<1>1. CASE ~taken
  <2>1. CASE InSequence(c, "clientEntry", m)
    BY <1>1, <2>1, DeathKeeps DEF Acknowledge
  <2>2. CASE ~InSequence(c, "clientEntry", m)
    BY <1>1, <2>2, QuietKeeps DEF Acknowledge, clientVars, entryVars, exitVars, PathInv, TypeInv
  <2> QED
    BY <2>1, <2>2
<1>2. CASE taken
  <2>1. /\ TypeInv /\ c \in Client /\ m.req \in Nat /\ m.n \in Nat /\ m.seq \in Nat
        /\ \A l \in Link : sent[c][l] \in Nat /\ rcvd[c][l] \in Nat
        /\ {"clientEntry", "entryExit", "exitEntry", "entryClient"} \subseteq Link
    BY MessageFields, LinkCounters DEF PathInv
  <2>2. /\ new \in Message /\ new.kind = "response" /\ new.client = c
        /\ new.req = m.req /\ new.n = m.n /\ new.seq = sent[c]["entryClient"]
    BY <2>1 DEF Msg, Message, Kind
  <2>3. m.kind = "direct" /\ m.seq = rcvd[c]["clientEntry"]
    BY <1>2 DEF Acknowledge, InSequence
  <2>4. /\ rcvd' = Received(rcvd, c, "clientEntry") /\ sent' = Received(sent, c, "entryClient")
        /\ net' = (net \ {m}) \cup {new}
        /\ UNCHANGED <<up, asked, open, answers, direction, pending, contexts, exchanged>>
    BY <1>2 DEF Acknowledge, clientVars, entryVars, exitVars
  <2>5. c \in OneHopClient /\ m.req = m.n /\ m.req >= 1 /\ m.seq = m.req - 1
    BY <2>3 DEF PathInv, NetInv, MessageOk
  <2>6. /\ rcvd' \in Counter /\ rcvd'[c]["clientEntry"] = rcvd[c]["clientEntry"] + 1
        /\ \A d \in Client, k \in Link : d # c \/ k # "clientEntry" => rcvd'[d][k] = rcvd[d][k]
    <3>1. rcvd \in Counter /\ c \in Client /\ "clientEntry" \in Link
      BY <2>1 DEF TypeInv
    <3>2. rcvd' = Received(rcvd, c, "clientEntry")
      BY <2>4
    <3> QED
      BY <3>1, <3>2, CounterStep
  <2>7. /\ sent' \in Counter /\ sent'[c]["entryClient"] = sent[c]["entryClient"] + 1
        /\ \A d \in Client, k \in Link : d # c \/ k # "entryClient" => sent'[d][k] = sent[d][k]
    <3>1. sent \in Counter /\ c \in Client /\ "entryClient" \in Link
      BY <2>1 DEF TypeInv
    <3>2. sent' = Received(sent, c, "entryClient")
      BY <2>4
    <3> QED
      BY <3>1, <3>2, CounterStep
  <2> HIDE DEF new
  <2>8. TypeInv'
    BY <2>1, <2>2, <2>4, <2>6, <2>7 DEF TypeInv
  <2>9. ExchangeInv' /\ PendingInv'
    BY <2>1, <2>4, <2>6 DEF PathInv, ExchangeInv, PendingInv
  <2>10. NetInv'
    <3>1. rcvd[c]["clientEntry"] = sent[c]["entryClient"]
      BY <2>1, <2>5 DEF PathInv, CounterInv, CountersOk
    <3>2. ASSUME NEW k, k = new PROVE MessageOk(k)'
      BY <2>1, <2>2, <2>3, <2>5, <3>1, <3>2 DEF MessageOk
    <3>3. \A k \in net : MessageOk(k)'
      BY <2>4 DEF PathInv, NetInv, MessageOk, Given
    <3> QED
      BY <2>4, <3>2, <3>3 DEF NetInv
  <2>11. CounterInv'
    <3>1. CountersOk(c) /\ \A d \in Client \ {c} : CountersOk(d)
      BY <2>1 DEF PathInv, CounterInv
    <3>2. ASSUME NEW d \in Client \ {c} PROVE CountersOk(d)'
      <4>1. /\ \A l \in Link : sent'[d][l] = sent[d][l] /\ rcvd'[d][l] = rcvd[d][l]
            /\ asked'[d] = asked[d] /\ answers'[d] = answers[d]
        BY <2>4, <2>5, <2>6, <2>7
      <4> QED
        BY <2>1, <3>1, <4>1 DEF CountersOk
    <3>3. /\ rcvd'[c]["clientEntry"] = rcvd[c]["clientEntry"] + 1
          /\ sent'[c]["entryClient"] = sent[c]["entryClient"] + 1
          /\ sent'[c]["clientEntry"] = sent[c]["clientEntry"]
          /\ rcvd'[c]["entryClient"] = rcvd[c]["entryClient"]
          /\ c \in OneHopClient /\ asked' = asked /\ answers' = answers
      BY <2>4, <2>5, <2>6, <2>7, <2>1
    <3>4. CountersOk(c)'
      BY <3>1, <3>3 DEF CountersOk
    <3> QED
      BY <3>2, <3>4 DEF CounterInv
  <2>12. OpenInv' /\ AnswerInv' /\ SingleInv'
    BY <2>4 DEF PathInv, OpenInv, AnswerInv, SingleInv, Given
  <2> QED
    BY <2>8, <2>9, <2>10, <2>11, <2>12 DEF PathInv
<1> QED
  BY <1>1, <1>2

LEMMA ClientReceiveKeeps ==
  ASSUME PathInv, NEW m \in net, NEW c, c = m.client, ClientReceive(c, m)
  PROVE  PathInv'
<1>1. CASE ~InSequence(c, "entryClient", m)
  BY <1>1, QuietKeeps DEF ClientReceive, entryVars, exitVars, PathInv, TypeInv
<1>2. CASE InSequence(c, "entryClient", m)
  <2>1. /\ TypeInv /\ c \in Client /\ m.req \in Nat /\ m.n \in Nat /\ m.seq \in Nat
        /\ \A l \in Link : sent[c][l] \in Nat /\ rcvd[c][l] \in Nat
        /\ {"clientEntry", "entryExit", "exitEntry", "entryClient"} \subseteq Link
    BY MessageFields, LinkCounters DEF PathInv
  <2>2. m.kind = "response" /\ <<c, m.req>> \in open /\ m.seq = rcvd[c]["entryClient"]
    BY <1>2 DEF ClientReceive, InSequence
  <2>3. /\ rcvd' = Received(rcvd, c, "entryClient")
        /\ answers' = [answers EXCEPT ![c] = Append(@, <<m.req, m.n>>)]
        /\ open' = open \ {<<c, m.req>>} /\ net' = net \ {m}
        /\ UNCHANGED <<up, asked, sent, direction, pending, contexts, exchanged>>
    BY <1>2 DEF ClientReceive, entryVars, exitVars
  <2>4. /\ m.req = m.n /\ m.req >= 1
        /\ c \in OneHopClient => m.seq = m.req - 1
        /\ c \notin OneHopClient => m.req = 1 /\ Given(c, m.n)
    BY <2>2 DEF PathInv, NetInv, MessageOk
  <2>5. /\ rcvd' \in Counter /\ rcvd'[c]["entryClient"] = rcvd[c]["entryClient"] + 1
        /\ \A d \in Client, k \in Link : d # c \/ k # "entryClient" => rcvd'[d][k] = rcvd[d][k]
    <3>1. rcvd \in Counter /\ c \in Client /\ "entryClient" \in Link
      BY <2>1 DEF TypeInv
    <3>2. rcvd' = Received(rcvd, c, "entryClient")
      BY <2>3
    <3> QED
      BY <3>1, <3>2, CounterStep
  \* The answer is the next one in the order of the requests.
  <2>6. m.req = Len(answers[c]) + 1 /\ m.req <= asked[c]
    <3>1. m.req <= asked[c]
      BY <2>2 DEF PathInv, OpenInv
    <3>2. CASE c \in OneHopClient
      <4>1. m.seq = Len(answers[c]) /\ m.seq = m.req - 1 /\ m.req \in Nat
        BY <2>1, <2>2, <2>4, <3>2 DEF PathInv, CounterInv, CountersOk
      <4> QED
        BY <3>1, <4>1
    <3>3. CASE c \notin OneHopClient
      <4>1. m.req = 1 /\ <<c, 1>> \in open
        BY <2>2, <2>4, <3>3
      <4>2. Len(answers[c]) = 0
        BY <2>1, <3>3, <4>1 DEF PathInv, SingleInv
      <4> QED
        BY <3>1, <4>1, <4>2
    <3> QED
      BY <3>2, <3>3
  <2>7. /\ answers[c] \in Seq(Nat \X Nat) /\ answers'[c] = Append(answers[c], <<m.req, m.n>>)
        /\ \A d \in Client : d # c => answers'[d] = answers[d]
    BY <2>1, <2>3 DEF TypeInv
  <2>8. /\ answers'[c] \in Seq(Nat \X Nat)
        /\ Len(answers[c]) \in Nat /\ Len(answers'[c]) = Len(answers[c]) + 1
        /\ answers'[c][Len(answers[c]) + 1] = <<m.req, m.n>>
        /\ \A i \in 1 .. Len(answers[c]) : answers'[c][i] = answers[c][i]
    <3>1. <<m.req, m.n>> \in Nat \X Nat
      BY <2>1
    <3>2. answers[c] \in Seq(Nat \X Nat) /\ answers'[c] = Append(answers[c], <<m.req, m.n>>)
      BY <2>7
    <3> QED
      BY <3>1, <3>2, AppendedAnswer
  <2>9. TypeInv'
    <3>1. answers' \in [Client -> Seq(Nat \X Nat)]
      BY <2>1, <2>3, <2>8 DEF TypeInv
    <3> QED
      BY <2>1, <2>3, <2>5, <3>1 DEF TypeInv
  <2>10. ExchangeInv' /\ PendingInv'
    BY <2>1, <2>3, <2>5 DEF PathInv, ExchangeInv, PendingInv
  <2>11. NetInv' /\ OpenInv'
    BY <2>3 DEF PathInv, NetInv, OpenInv, MessageOk, Given
  <2>12. CounterInv'
    <3>1. CountersOk(c) /\ \A d \in Client \ {c} : CountersOk(d)
      BY <2>1 DEF PathInv, CounterInv
    <3>2. ASSUME NEW d \in Client \ {c} PROVE CountersOk(d)'
      <4>1. /\ \A l \in Link : sent'[d][l] = sent[d][l] /\ rcvd'[d][l] = rcvd[d][l]
            /\ asked'[d] = asked[d] /\ answers'[d] = answers[d]
        BY <2>3, <2>5, <2>7, <2>8
      <4> QED
        BY <2>1, <3>1, <4>1 DEF CountersOk
    <3>3. /\ rcvd'[c]["entryClient"] = rcvd[c]["entryClient"] + 1
          /\ Len(answers'[c]) = Len(answers[c]) + 1
          /\ rcvd'[c]["clientEntry"] = rcvd[c]["clientEntry"] /\ sent' = sent /\ asked' = asked
      BY <2>3, <2>5, <2>7, <2>8, <2>1
    <3>4. CountersOk(c)'
      BY <3>1, <3>3 DEF CountersOk
    <3> QED
      BY <3>2, <3>4 DEF CounterInv
  <2>13. AnswerInv'
    <3> SUFFICES ASSUME NEW d \in Client, NEW i \in 1 .. Len(answers'[d])
                 PROVE  answers'[d][i] = <<i, i>> /\ (d \in OneHopClient \/ Given(d, i))
      <4>1. \A d \in Client : \A i : Given(d, i) => Given(d, i)'
        BY <2>3 DEF Given
      <4> QED
        BY <4>1 DEF AnswerInv
    <3>1. CASE d # c
      BY <2>7, <3>1 DEF PathInv, AnswerInv
    <3>2. CASE d = c /\ i = Len(answers[c]) + 1
      BY <2>4, <2>6, <2>8, <3>2
    <3>3. CASE d = c /\ i # Len(answers[c]) + 1
      <4>1. Len(answers[c]) \in Nat /\ i \in 1 .. Len(answers[c]) + 1
        BY <2>8, <3>3
      <4>2. i \in 1 .. Len(answers[c])
        BY <3>3, <4>1
      <4> QED
        BY <2>8, <3>3, <4>2 DEF PathInv, AnswerInv
    <3> QED
      BY <3>1, <3>2, <3>3
  <2>14. SingleInv'
    BY <2>1, <2>3, <2>4, <2>6, <2>7, <2>8 DEF PathInv, SingleInv, TypeInv
  <2> QED
    BY <2>9, <2>10, <2>11, <2>12, <2>13, <2>14 DEF PathInv
<1> QED
  BY <1>1, <1>2

LEMMA PathInvInit == Init => PathInv
<1> SUFFICES ASSUME Init PROVE PathInv
  OBVIOUS
<1>1. TypeInv
  BY DEF Init, TypeInv, Counter
<1>2. ExchangeInv /\ PendingInv /\ NetInv /\ OpenInv
  BY DEF Init, ExchangeInv, PendingInv, NetInv, OpenInv, Link
<1>3. CounterInv /\ AnswerInv /\ SingleInv
  BY DEF Init, CounterInv, CountersOk, AnswerInv, SingleInv, Link
<1> QED
  BY <1>1, <1>2, <1>3 DEF PathInv

LEMMA PathInvStep == PathInv /\ [Next]_vars => PathInv'
<1> SUFFICES ASSUME PathInv, [Next]_vars PROVE PathInv'
  OBVIOUS
<1> USE RouteAssumption
<1>1. CASE \E c \in TwoHopClient, kind \in {"protocol", "data"} : ClientRequest(c, kind)
  BY <1>1, ClientRequestKeeps DEF TwoHopClient
<1>2. CASE \E c \in OneHopClient : ClientRequest(c, "direct")
  BY <1>2, ClientRequestKeeps
<1>3. CASE \E c \in OneHopClient : OneHopForward(c)
  BY <1>3, QuietKeeps DEF OneHopForward, clientVars, entryVars, exitVars, PathInv, TypeInv
<1>4. CASE \E c \in TwoHopClient : TunReturn(c)
  <2> PICK c \in TwoHopClient : TunReturn(c)
    BY <1>4
  <2>1. c \in Client /\ sent \in Counter /\ "exitEntry" \in Link
    BY DEF PathInv, TypeInv, Link, TwoHopClient
  <2>2. sent' = Received(sent, c, "exitEntry")
    BY DEF TunReturn
  <2>3. sent' \in Counter /\ \A d \in Client, k \in Link : k # "exitEntry" => sent'[d][k] = sent[d][k]
    BY <2>1, <2>2, CounterStep
  <2>4. UNCHANGED <<up, asked, open, answers, net, rcvd, direction, pending, contexts, exchanged>>
    BY DEF TunReturn, clientVars, entryVars, exitVars
  <2> QED
    BY <2>3, <2>4, QuietKeeps
<1>5. CASE \E m \in net : \/ EntryForward(m.client, m) \/ ExitForward(m.client, m)
                         \/ ExchangeFails(m.client, m) \/ EntryReturn(m.client, m)
                         \/ ClientReceive(m.client, m) \/ Acknowledge(m.client, m)
  BY <1>5, EntryForwardKeeps, ExitForwardKeeps, ExchangeFailsKeeps, EntryReturnKeeps,
     ClientReceiveKeeps, AcknowledgeKeeps
<1>6. CASE \E m \in net : Lose(m)
  BY <1>6, QuietKeeps DEF Lose, clientVars, entryVars, exitVars, PathInv, TypeInv
<1>7. CASE \E r \in open : ClientGivesUp(r)
  BY <1>7, QuietKeeps DEF ClientGivesUp, entryVars, exitVars, PathInv, TypeInv
<1>8. CASE UNCHANGED vars
  BY <1>8, QuietKeeps DEF vars, clientVars, entryVars, exitVars, PathInv, TypeInv
<1> QED
  BY <1>1, <1>2, <1>3, <1>4, <1>5, <1>6, <1>7, <1>8 DEF Next

LEMMA PathInvHolds == Spec => []PathInv
BY PathInvInit, PathInvStep, PTL DEF Spec

-----------------------------------------------------------------------------
\* Whatever is lost, repeated or asked again, the exit gives one payload of a
\* forwarding context to the destination (exit_handler.rs, forwarding.rs).
THEOREM ContextsAreExchangedOnce == Spec => []OneExchangePerContext
<1>1. PathInv => OneExchangePerContext
  BY DEF PathInv, ExchangeInv, OneExchangePerContext
<1> QED
  BY <1>1, PathInvHolds, PTL

\* pending_client_forwards never has two entries of one session while the entry
\* runs, for any number of sessions (relay/src/main.rs).
THEOREM SessionsForwardOneAtATime == Spec => []OneForwardOutstanding
<1>1. PathInv => OneForwardOutstanding
  BY DEF PathInv, PendingInv, OneForwardOutstanding
<1> QED
  BY <1>1, PathInvHolds, PTL

\* An answer a client takes carries the payload of the request it is given for,
\* which over two hops was exchanged for this client.
THEOREM AnswersBelongToTheirRequests == Spec => []AnswersAreOwn
<1>1. PathInv => AnswersAreOwn
  BY DEF PathInv, AnswerInv, AnswersAreOwn, Given
<1> QED
  BY <1>1, PathInvHolds, PTL

\* Answers come in the order of the requests and without a gap, over one hop and
\* over two.
THEOREM AnswersComeInOrder == Spec => []AnswersInOrder
<1>1. PathInv => AnswersInOrder
  BY DEF PathInv, AnswerInv, AnswersInOrder
<1> QED
  BY <1>1, PathInvHolds, PTL

-----------------------------------------------------------------------------
WithinLimit(flows) == IsFiniteSet(flows) /\ Cardinality(flows) <= MaxFlows

FlowsWithinLimit == WithinLimit(entryFlows) /\ WithinLimit(exitFlows)

LEMMA AdmittedWithinLimit ==
  ASSUME NEW flows, WithinLimit(flows), NEW c, AdmitsFlow(flows, c)
  PROVE  WithinLimit(flows \cup {c})
<1>1. CASE c \in flows
  <2>1. flows \cup {c} = flows
    BY <1>1
  <2> QED
    BY <2>1
<1>2. CASE c \notin flows
  <2>1. /\ IsFiniteSet(flows \cup {c}) /\ Cardinality(flows) \in Nat
        /\ Cardinality(flows \cup {c}) = Cardinality(flows) + 1
    BY <1>2, FS_AddElement, FS_CardinalityType DEF WithinLimit
  <2>2. Cardinality(flows) < MaxFlows /\ MaxFlows \in Nat
    BY <1>2, ForwardingLimitAssumption DEF AdmitsFlow
  <2> QED
    BY <2>1, <2>2 DEF WithinLimit
<1> QED
  BY <1>1, <1>2

\* Neither relay's core ever has more flows than maximum_active_flows, whatever
\* arrives in whatever order (admit_flow, relay/src/core.rs).
THEOREM FlowsAreBounded == Spec => []FlowsWithinLimit
<1>1. Init => FlowsWithinLimit
  <2>1. IsFiniteSet({}) /\ Cardinality({}) = 0 /\ MaxFlows \in Nat
    BY FS_EmptySet, ForwardingLimitAssumption
  <2> QED
    BY <2>1 DEF Init, FlowsWithinLimit, WithinLimit
<1>2. FlowsWithinLimit /\ [Next]_vars => FlowsWithinLimit'
  <2> SUFFICES ASSUME FlowsWithinLimit, [Next]_vars PROVE FlowsWithinLimit'
    OBVIOUS
  <2>1. ASSUME UNCHANGED <<entryFlows, exitFlows>> PROVE FlowsWithinLimit'
    BY <2>1 DEF FlowsWithinLimit, WithinLimit
  <2>2. ASSUME NEW m \in net, NEW c, EntryForward(c, m) PROVE FlowsWithinLimit'
    <3>1. \/ UNCHANGED <<entryFlows, exitFlows>>
          \/ entryFlows' = entryFlows \cup {c} /\ AdmitsFlow(entryFlows, c) /\ exitFlows' = exitFlows
      BY <2>2 DEF EntryForward, EntryTakes, Dies, entryVars, exitVars
    <3> QED
      BY <2>1, <3>1, AdmittedWithinLimit DEF FlowsWithinLimit, WithinLimit
  <2>3. ASSUME NEW m \in net, NEW c, ExitForward(c, m) PROVE FlowsWithinLimit'
    <3>1. \/ UNCHANGED <<entryFlows, exitFlows>>
          \/ exitFlows' = exitFlows \cup {c} /\ AdmitsFlow(exitFlows, c) /\ entryFlows' = entryFlows
      BY <2>3 DEF ExitForward, ExitTakes, Dies, entryVars, exitVars
    <3> QED
      BY <2>1, <3>1, AdmittedWithinLimit DEF FlowsWithinLimit, WithinLimit
  <2>4. CASE \/ \E c \in Client, kind \in {"protocol", "data", "direct"} : ClientRequest(c, kind)
             \/ \E c \in Client : OneHopForward(c) \/ TunReturn(c)
             \/ \E r \in open : ClientGivesUp(r)
             \/ UNCHANGED vars
    BY <2>1, <2>4 DEF ClientRequest, OneHopForward, TunReturn, ClientGivesUp, vars, entryVars,
                      exitVars
  <2>5. CASE \E m \in net : \/ ExchangeFails(m.client, m) \/ EntryReturn(m.client, m)
                           \/ ClientReceive(m.client, m) \/ Acknowledge(m.client, m) \/ Lose(m)
    BY <2>1, <2>5 DEF ExchangeFails, EntryReturn, ClientReceive, Acknowledge, Lose, Dies,
                      entryVars, exitVars
  <2> QED
    BY <2>2, <2>3, <2>4, <2>5, RouteAssumption DEF Next, TwoHopClient
<1> QED
  BY <1>1, <1>2, PTL DEF Spec

-----------------------------------------------------------------------------
(* Relays that keep running.  While every client has asked once at most and *)
(* nothing has failed, a session has one message under way, and the parts   *)
(* of the path ahead of it are as they were in the beginning.               *)

EntryFresh(c) == direction[c] = "none" /\ rcvd[c]["clientEntry"] = 0

ExitFresh(c) ==
  /\ c \notin contexts \cup handled \cup activeExit
  /\ sent[c]["exitEntry"] = 0 /\ rcvd[c]["entryExit"] = 0

ReturnFresh(c) == rcvd[c]["exitEntry"] = 0 /\ sent[c]["entryClient"] = 0

\* What lies ahead of a message, and that its client waits for the answer.
PathAhead(m) ==
  /\ m.req = 1
  /\ m.kind \in {"protocol", "data", "direct"} =>
       EntryFresh(m.client) /\ ExitFresh(m.client) /\ ReturnFresh(m.client)
  /\ m.kind = "forward" =>
       direction[m.client] = "toExit" /\ ExitFresh(m.client) /\ ReturnFresh(m.client)
  /\ m.kind = "forwardResponse" =>
       direction[m.client] = "toExit" /\ m.seq = 0 /\ ReturnFresh(m.client)
  /\ m.kind # "response" => <<m.client, 1>> \in open

Undisturbed ==
  /\ up = Relay
  /\ entryFlows \subseteq TwoHopClient /\ exitFlows \subseteq TwoHopClient
  /\ \A c \in Client : asked[c] = 0 =>
       /\ EntryFresh(c) /\ ExitFresh(c) /\ ReturnFresh(c)
       /\ \A m \in net : m.client # c
  /\ \A m \in net : PathAhead(m)
  /\ \A m, k \in net : m.client = k.client => m = k

KeepInv == OneRequestEach => Undisturbed

\* The limits leave room for the flow of every two-hop session.
FlowsSuffice == IsFiniteSet(TwoHopClient) /\ Cardinality(TwoHopClient) <= MaxFlows

LEMMA RoomForFlow ==
  ASSUME FlowsSuffice, NEW F \in SUBSET TwoHopClient, NEW c \in TwoHopClient
  PROVE  AdmitsFlow(F, c)
<1>1. IsFiniteSet(F) /\ Cardinality(F) \in Nat /\ Cardinality(F) <= Cardinality(TwoHopClient)
  BY FS_Subset, FS_CardinalityType DEF FlowsSuffice
<1>2. c \notin F => Cardinality(F) # Cardinality(TwoHopClient)
  BY FS_Subset DEF FlowsSuffice
<1>3. MaxFlows \in Nat /\ Cardinality(TwoHopClient) \in Nat
  BY ForwardingLimitAssumption, FS_CardinalityType DEF FlowsSuffice
<1> QED
  BY <1>1, <1>2, <1>3 DEF AdmitsFlow, FlowsSuffice

\* A step that is not about session d.
Leaves(d) ==
  /\ asked'[d] = asked[d] /\ direction'[d] = direction[d]
  /\ \A l \in Link : sent'[d][l] = sent[d][l] /\ rcvd'[d][l] = rcvd[d][l]
  /\ d \in contexts' \cup handled' \cup activeExit' => d \in contexts \cup handled \cup activeExit
  /\ <<d, 1>> \in open => <<d, 1>> \in open'

\* A step of session c that ends with message k, or none, of it under way.
LEMMA SessionMoves ==
  ASSUME Undisturbed, NEW c \in Client, NEW k, up' = up,
         entryFlows' \subseteq TwoHopClient, exitFlows' \subseteq TwoHopClient,
         asked'[c] # 0, \A d \in Client \ {c} : Leaves(d),
         \A x \in net' : x.client \in Client /\ (IF x.client = c THEN x = k ELSE x \in net),
         k \in net' /\ k.client = c => PathAhead(k)'
  PROVE  Undisturbed'
<1>l. {"clientEntry", "entryExit", "exitEntry", "entryClient"} \subseteq Link
  BY DEF Link
<1>1. ASSUME NEW d \in Client \ {c}
      PROVE  /\ EntryFresh(d) => EntryFresh(d)'
             /\ ExitFresh(d) => ExitFresh(d)'
             /\ ReturnFresh(d) => ReturnFresh(d)'
  BY <1>1, <1>l DEF Leaves, EntryFresh, ExitFresh, ReturnFresh
<1>2. ASSUME NEW d \in Client, asked'[d] = 0
      PROVE  EntryFresh(d)' /\ ExitFresh(d)' /\ ReturnFresh(d)' /\ \A m \in net' : m.client # d
  <2>1. d # c /\ asked[d] = 0
    BY <1>2 DEF Leaves
  <2> QED
    BY <1>1, <2>1 DEF Undisturbed
<1>3. ASSUME NEW x \in net' PROVE PathAhead(x)'
  <2>1. CASE x.client = c
    BY <2>1
  <2>2. CASE x.client # c
    <3>1. x \in net /\ x.client \in Client \ {c} /\ PathAhead(x)
      BY <2>2 DEF Undisturbed
    <3> QED
      BY <1>1, <3>1 DEF PathAhead, Leaves
  <2> QED
    BY <2>1, <2>2
<1>4. \A x, y \in net' : x.client = y.client => x = y
  BY DEF Undisturbed
<1> QED
  BY <1>2, <1>3, <1>4 DEF Undisturbed

\* One counter of session c moves, those of the others do not.
LEMMA SentMoves ==
  ASSUME sent \in Counter, NEW c \in Client, NEW l \in Link, sent' = Received(sent, c, l)
  PROVE  /\ \A k \in Link : k # l => sent'[c][k] = sent[c][k]
         /\ \A d \in Client \ {c}, k \in Link : sent'[d][k] = sent[d][k]
BY CounterStep

LEMMA RcvdMoves ==
  ASSUME rcvd \in Counter, NEW c \in Client, NEW l \in Link, rcvd' = Received(rcvd, c, l)
  PROVE  /\ \A k \in Link : k # l => rcvd'[c][k] = rcvd[c][k]
         /\ \A d \in Client \ {c}, k \in Link : rcvd'[d][k] = rcvd[d][k]
BY CounterStep

\* The session of a message under way has asked, and it is the only message.
LEMMA UnderWay ==
  ASSUME PathInv, Undisturbed, NEW m \in net
  PROVE  /\ m.client \in Client /\ asked[m.client] # 0 /\ PathAhead(m) /\ MessageOk(m)
         /\ m.kind \in Kind /\ m.req = 1 /\ m.n = 1
         /\ \A x \in net : x.client \in Client /\ (x.client = m.client => x = m)
         /\ sent \in Counter /\ rcvd \in Counter
         /\ {"clientEntry", "entryExit", "exitEntry", "entryClient"} \subseteq Link
         /\ MaxPending \in Nat \ {0}
<1>1. TypeInv /\ \A x \in net : x.client \in Client
  BY MessageFields DEF PathInv
<1>2. m.client \in Client /\ asked[m.client] # 0 /\ PathAhead(m)
  BY <1>1 DEF Undisturbed
<1>3. m.kind \in Kind /\ MessageOk(m)
  BY <1>1, MessageFields DEF PathInv, NetInv
<1>4. m.req = 1 /\ m.n = 1
  BY <1>2, <1>3 DEF PathAhead, MessageOk
<1>5. \A x \in net : x.client \in Client /\ (x.client = m.client => x = m)
  BY <1>1 DEF Undisturbed
<1> QED
  BY <1>1, <1>2, <1>3, <1>4, <1>5, ForwardingLimitAssumption DEF TypeInv, Link

\* No handler that meets a message of an undisturbed session returns an error.
LEMMA EntryTakesIt ==
  ASSUME FlowsSuffice, PathInv, Undisturbed, NEW m \in net, NEW c, c = m.client,
         EntryForward(c, m)
  PROVE  /\ EntryFresh(c) /\ ExitFresh(c) /\ ReturnFresh(c) /\ <<c, 1>> \in open
         /\ c \in TwoHopClient /\ EntryTakes(c, m)
<1>1. /\ c \in Client /\ asked[c] # 0 /\ PathAhead(m) /\ MessageOk(m) /\ m.req = 1
      /\ \A x \in net : x.client \in Client /\ (x.client = c => x = m)
      /\ sent \in Counter /\ rcvd \in Counter
      /\ {"clientEntry", "entryExit", "exitEntry", "entryClient"} \subseteq Link
      /\ MaxPending \in Nat \ {0}
  BY UnderWay
<1>2. m.kind \in {"protocol", "data"}
  BY DEF EntryForward
<1>3. /\ EntryFresh(c) /\ ExitFresh(c) /\ ReturnFresh(c) /\ <<c, 1>> \in open
      /\ c \in TwoHopClient /\ m.seq = 0
  <2>1. EntryFresh(c) /\ ExitFresh(c) /\ ReturnFresh(c) /\ <<c, 1>> \in open
    BY <1>1, <1>2 DEF PathAhead
  <2>2. c \notin OneHopClient /\ m.seq = m.req - 1
    BY <1>1, <1>2 DEF MessageOk
  <2> QED
    BY <1>1, <2>1, <2>2 DEF TwoHopClient
<1>4. sent[c]["entryExit"] = 0
  BY <1>1, <1>3 DEF PathInv, CounterInv, CountersOk, EntryFresh, TwoHopClient
<1>5. EntryTakes(c, m)
  <2>1. InSequence(c, "clientEntry", m) /\ MayBegin(c, "toExit")
    BY <1>3 DEF InSequence, MayBegin, EntryFresh
  <2>2. CanSend(c, "entryExit")
    BY <1>1, <1>4 DEF CanSend
  <2>3. AdmitsFlow(entryFlows, c)
    BY <1>3, RoomForFlow DEF Undisturbed
  <2> QED
    BY <2>1, <2>2, <2>3 DEF EntryTakes
<1> QED
  BY <1>3, <1>5

LEMMA EntryForwardRuns ==
  ASSUME FlowsSuffice, PathInv, Undisturbed, NEW m \in net, NEW c, c = m.client,
         EntryForward(c, m)
  PROVE  Undisturbed'
<1>1. /\ c \in Client /\ asked[c] # 0 /\ PathAhead(m) /\ MessageOk(m) /\ m.req = 1
      /\ \A x \in net : x.client \in Client /\ (x.client = c => x = m)
      /\ sent \in Counter /\ rcvd \in Counter
      /\ {"clientEntry", "entryExit", "exitEntry", "entryClient"} \subseteq Link
      /\ MaxPending \in Nat \ {0}
  BY UnderWay
<1>3. EntryFresh(c) /\ ExitFresh(c) /\ ReturnFresh(c) /\ <<c, 1>> \in open /\ c \in TwoHopClient
  BY EntryTakesIt
<1>5. EntryTakes(c, m)
  BY EntryTakesIt
<1> PICK k : k = Msg("forward", c, m.req, m.n, sent[c]["entryExit"])
  OBVIOUS
<1>6. /\ rcvd' = Received(rcvd, c, "clientEntry") /\ sent' = Received(sent, c, "entryExit")
      /\ entryFlows' \subseteq entryFlows \cup {c}
      /\ direction' = [direction EXCEPT ![c] = "toExit"]
      /\ net' = (net \ {m}) \cup {k}
      /\ UNCHANGED <<up, asked, open, contexts, handled, activeExit, exitFlows>>
  BY <1>5 DEF EntryForward, clientVars, exitVars
<1>7. k.kind = "forward" /\ k.client = c /\ k.req = 1
  BY <1>1 DEF Msg
<1>8. direction'[c] = "toExit" /\ \A d \in Client \ {c} : direction'[d] = direction[d]
  BY <1>1, <1>6 DEF PathInv, TypeInv
<1>9. /\ \A d \in Client \ {c}, l \in Link : sent'[d][l] = sent[d][l] /\ rcvd'[d][l] = rcvd[d][l]
      /\ \A l \in Link : l # "entryExit" => sent'[c][l] = sent[c][l]
      /\ \A l \in Link : l # "clientEntry" => rcvd'[c][l] = rcvd[c][l]
  <2>1. c \in Client /\ sent \in Counter /\ rcvd \in Counter /\ {"entryExit", "clientEntry"} \subseteq Link
    BY <1>1
  <2>2. sent' = Received(sent, c, "entryExit") /\ rcvd' = Received(rcvd, c, "clientEntry")
    BY <1>6
  <2>3. /\ \A d \in Client \ {c}, l \in Link : sent'[d][l] = sent[d][l]
        /\ \A l \in Link : l # "entryExit" => sent'[c][l] = sent[c][l]
    BY <2>1, <2>2, SentMoves
  <2>4. /\ \A d \in Client \ {c}, l \in Link : rcvd'[d][l] = rcvd[d][l]
        /\ \A l \in Link : l # "clientEntry" => rcvd'[c][l] = rcvd[c][l]
    BY <2>1, <2>2, RcvdMoves
  <2> QED
    BY <2>3, <2>4
<1>10. PathAhead(k)'
  <2>1. ExitFresh(c)'
    BY <1>1, <1>3, <1>6, <1>9 DEF ExitFresh
  <2>2. ReturnFresh(c)'
    BY <1>1, <1>3, <1>9 DEF ReturnFresh
  <2>3. <<c, 1>> \in open'
    BY <1>3, <1>6
  <2> QED
    BY <1>7, <1>8, <2>1, <2>2, <2>3 DEF PathAhead
<1>11. \A d \in Client \ {c} : Leaves(d)
  BY <1>6, <1>8, <1>9 DEF Leaves
<1>12. \A x \in net' : x.client \in Client /\ (IF x.client = c THEN x = k ELSE x \in net)
  BY <1>1, <1>6, <1>7
<1>13. entryFlows' \subseteq TwoHopClient /\ exitFlows' \subseteq TwoHopClient
  BY <1>3, <1>6 DEF Undisturbed
<1> QED
  <2>1. c \in Client /\ up' = up /\ asked'[c] # 0
    BY <1>1, <1>6
  <2> QED
    BY <2>1, <1>10, <1>11, <1>12, <1>13, SessionMoves

LEMMA ExitTakesIt ==
  ASSUME FlowsSuffice, PathInv, Undisturbed, NEW m \in net, NEW c, c = m.client,
         ExitForward(c, m)
  PROVE  /\ direction[c] = "toExit" /\ ExitFresh(c) /\ ReturnFresh(c) /\ <<c, 1>> \in open
         /\ c \in TwoHopClient /\ ExitTakes(c, m)
<1>1. /\ c \in Client /\ asked[c] # 0 /\ PathAhead(m) /\ MessageOk(m) /\ m.req = 1
      /\ \A x \in net : x.client \in Client /\ (x.client = c => x = m)
      /\ sent \in Counter /\ rcvd \in Counter
      /\ {"clientEntry", "entryExit", "exitEntry", "entryClient"} \subseteq Link
      /\ MaxPending \in Nat \ {0}
  BY UnderWay
<1>2. m.kind = "forward"
  BY DEF ExitForward
<1>3. /\ direction[c] = "toExit" /\ ExitFresh(c) /\ ReturnFresh(c) /\ <<c, 1>> \in open
      /\ c \in TwoHopClient /\ m.seq = 0
  <2>1. direction[c] = "toExit" /\ ExitFresh(c) /\ ReturnFresh(c) /\ <<c, 1>> \in open
    BY <1>1, <1>2 DEF PathAhead
  <2>2. c \notin OneHopClient /\ m.seq = m.req - 1
    BY <1>1, <1>2 DEF MessageOk
  <2> QED
    BY <1>1, <2>1, <2>2 DEF TwoHopClient
<1>4. ExitTakes(c, m)
  <2>1. InSequence(c, "entryExit", m) /\ c \notin contexts /\ c \notin handled
    BY <1>3 DEF InSequence, ExitFresh
  <2>2. CanSend(c, "exitEntry")
    BY <1>1, <1>3 DEF CanSend, ExitFresh
  <2>3. AdmitsFlow(exitFlows, c)
    BY <1>3, RoomForFlow DEF Undisturbed
  <2> QED
    BY <2>1, <2>2, <2>3 DEF ExitTakes
<1> QED
  BY <1>3, <1>4

LEMMA ExitForwardRuns ==
  ASSUME FlowsSuffice, PathInv, Undisturbed, NEW m \in net, NEW c, c = m.client,
         ExitForward(c, m)
  PROVE  Undisturbed'
<1>1. /\ c \in Client /\ asked[c] # 0 /\ PathAhead(m) /\ MessageOk(m) /\ m.req = 1
      /\ \A x \in net : x.client \in Client /\ (x.client = c => x = m)
      /\ sent \in Counter /\ rcvd \in Counter
      /\ {"clientEntry", "entryExit", "exitEntry", "entryClient"} \subseteq Link
      /\ MaxPending \in Nat \ {0}
  BY UnderWay
<1>3. /\ direction[c] = "toExit" /\ ExitFresh(c) /\ ReturnFresh(c) /\ <<c, 1>> \in open
      /\ c \in TwoHopClient
  BY ExitTakesIt
<1>4. ExitTakes(c, m)
  BY ExitTakesIt
<1> PICK k : k = Msg("forwardResponse", c, m.req, m.n, sent[c]["exitEntry"])
  OBVIOUS
<1>5. /\ rcvd' = Received(rcvd, c, "entryExit") /\ sent' = Received(sent, c, "exitEntry")
      /\ contexts' = contexts \cup {c} /\ handled' = handled \cup {c} /\ activeExit' = {c}
      /\ exitFlows' = exitFlows \cup {c} /\ net' = (net \ {m}) \cup {k}
      /\ UNCHANGED <<up, asked, open, direction, entryFlows>>
  BY <1>4 DEF ExitForward, clientVars, entryVars
<1>6. k.kind = "forwardResponse" /\ k.client = c /\ k.req = 1 /\ k.seq = 0
  BY <1>1, <1>3 DEF Msg, ExitFresh
<1>7. /\ \A d \in Client \ {c}, l \in Link : sent'[d][l] = sent[d][l] /\ rcvd'[d][l] = rcvd[d][l]
      /\ \A l \in Link : l # "exitEntry" => sent'[c][l] = sent[c][l]
      /\ \A l \in Link : l # "entryExit" => rcvd'[c][l] = rcvd[c][l]
  <2>1. c \in Client /\ sent \in Counter /\ rcvd \in Counter /\ {"exitEntry", "entryExit"} \subseteq Link
    BY <1>1
  <2>2. sent' = Received(sent, c, "exitEntry") /\ rcvd' = Received(rcvd, c, "entryExit")
    BY <1>5
  <2>3. /\ \A d \in Client \ {c}, l \in Link : sent'[d][l] = sent[d][l]
        /\ \A l \in Link : l # "exitEntry" => sent'[c][l] = sent[c][l]
    BY <2>1, <2>2, SentMoves
  <2>4. /\ \A d \in Client \ {c}, l \in Link : rcvd'[d][l] = rcvd[d][l]
        /\ \A l \in Link : l # "entryExit" => rcvd'[c][l] = rcvd[c][l]
    BY <2>1, <2>2, RcvdMoves
  <2> QED
    BY <2>3, <2>4
<1>8. PathAhead(k)'
  <2>1. ReturnFresh(c)'
    BY <1>1, <1>3, <1>7 DEF ReturnFresh
  <2>2. direction'[c] = "toExit" /\ <<c, 1>> \in open'
    BY <1>3, <1>5
  <2> QED
    BY <1>6, <2>1, <2>2 DEF PathAhead
<1>9. \A d \in Client \ {c} : Leaves(d)
  BY <1>5, <1>7 DEF Leaves
<1>10. \A x \in net' : x.client \in Client /\ (IF x.client = c THEN x = k ELSE x \in net)
  BY <1>1, <1>5, <1>6
<1>11. entryFlows' \subseteq TwoHopClient /\ exitFlows' \subseteq TwoHopClient
  BY <1>3, <1>5 DEF Undisturbed
<1> QED
  <2>1. c \in Client /\ up' = up /\ asked'[c] # 0
    BY <1>1, <1>5
  <2> QED
    BY <2>1, <1>8, <1>9, <1>10, <1>11, SessionMoves

LEMMA EntryReturnsIt ==
  ASSUME PathInv, Undisturbed, NEW m \in net, NEW c, c = m.client, EntryReturn(c, m)
  PROVE  EntryReturns(c, m) /\ ReturnFresh(c) /\ <<c, 1>> \in open
<1>1. /\ c \in Client /\ asked[c] # 0 /\ PathAhead(m) /\ m.req = 1
      /\ \A x \in net : x.client \in Client /\ (x.client = c => x = m)
      /\ sent \in Counter /\ rcvd \in Counter
      /\ {"clientEntry", "entryExit", "exitEntry", "entryClient"} \subseteq Link
      /\ MaxPending \in Nat \ {0}
  BY UnderWay
<1>2. /\ direction[c] = "toExit" /\ m.seq = 0 /\ ReturnFresh(c) /\ <<c, 1>> \in open
  BY <1>1 DEF EntryReturn, PathAhead
<1>3. EntryReturns(c, m)
  <2>1. InSequence(c, "exitEntry", m) /\ MayBegin(c, "toClient")
    BY <1>2 DEF InSequence, MayBegin, ReturnFresh
  <2>2. CanSend(c, "entryClient")
    BY <1>1, <1>2 DEF CanSend, ReturnFresh
  <2> QED
    BY <1>1, <1>2, <2>1, <2>2 DEF EntryReturns
<1> QED
  BY <1>2, <1>3

LEMMA EntryReturnRuns ==
  ASSUME PathInv, Undisturbed, NEW m \in net, NEW c, c = m.client, EntryReturn(c, m)
  PROVE  Undisturbed'
<1>1. /\ c \in Client /\ asked[c] # 0 /\ PathAhead(m) /\ m.req = 1
      /\ \A x \in net : x.client \in Client /\ (x.client = c => x = m)
      /\ sent \in Counter /\ rcvd \in Counter
      /\ {"clientEntry", "entryExit", "exitEntry", "entryClient"} \subseteq Link
      /\ MaxPending \in Nat \ {0}
  BY UnderWay
<1>3. EntryReturns(c, m)
  BY EntryReturnsIt
<1> PICK k : k = Msg("response", c, m.req, m.n, sent[c]["entryClient"])
  OBVIOUS
<1>4. /\ rcvd' = Received(rcvd, c, "exitEntry") /\ sent' = Received(sent, c, "entryClient")
      /\ direction' = [direction EXCEPT ![c] = "toClient"]
      /\ net' = (net \ {m}) \cup {k}
      /\ UNCHANGED <<up, asked, open, contexts, handled, activeExit, entryFlows, exitFlows>>
  BY <1>3 DEF EntryReturn, clientVars, exitVars
<1>5. k.kind = "response" /\ k.client = c /\ k.req = 1
  BY <1>1 DEF Msg
<1>6. \A d \in Client \ {c} : direction'[d] = direction[d]
  BY <1>1, <1>4 DEF PathInv, TypeInv
<1>7. \A d \in Client \ {c}, l \in Link : sent'[d][l] = sent[d][l] /\ rcvd'[d][l] = rcvd[d][l]
  <2>1. c \in Client /\ sent \in Counter /\ rcvd \in Counter /\ {"entryClient", "exitEntry"} \subseteq Link
    BY <1>1
  <2>2. sent' = Received(sent, c, "entryClient") /\ rcvd' = Received(rcvd, c, "exitEntry")
    BY <1>4
  <2>3. \A d \in Client \ {c}, l \in Link : sent'[d][l] = sent[d][l]
    BY <2>1, <2>2, SentMoves
  <2>4. \A d \in Client \ {c}, l \in Link : rcvd'[d][l] = rcvd[d][l]
    BY <2>1, <2>2, RcvdMoves
  <2> QED
    BY <2>3, <2>4
<1>8. PathAhead(k)'
  BY <1>5 DEF PathAhead
<1>9. \A d \in Client \ {c} : Leaves(d)
  BY <1>4, <1>6, <1>7 DEF Leaves
<1>10. \A x \in net' : x.client \in Client /\ (IF x.client = c THEN x = k ELSE x \in net)
  BY <1>1, <1>4, <1>5
<1>11. entryFlows' \subseteq TwoHopClient /\ exitFlows' \subseteq TwoHopClient
  BY <1>4 DEF Undisturbed
<1> QED
  <2>1. c \in Client /\ up' = up /\ asked'[c] # 0
    BY <1>1, <1>4
  <2> QED
    BY <2>1, <1>8, <1>9, <1>10, <1>11, SessionMoves

LEMMA AcknowledgesIt ==
  ASSUME PathInv, Undisturbed, NEW m \in net, NEW c, c = m.client, Acknowledge(c, m)
  PROVE  /\ InSequence(c, "clientEntry", m) /\ CanSend(c, "entryClient") /\ <<c, m.req>> \in open
         /\ ReturnFresh(c) /\ <<c, 1>> \in open
<1>1. /\ c \in Client /\ asked[c] # 0 /\ PathAhead(m) /\ MessageOk(m) /\ m.req = 1
      /\ \A x \in net : x.client \in Client /\ (x.client = c => x = m)
      /\ sent \in Counter /\ rcvd \in Counter
      /\ {"clientEntry", "entryExit", "exitEntry", "entryClient"} \subseteq Link
      /\ MaxPending \in Nat \ {0}
  BY UnderWay
<1>2. EntryFresh(c) /\ ReturnFresh(c) /\ <<c, 1>> \in open /\ m.seq = 0
  <2>1. m.kind = "direct"
    BY DEF Acknowledge
  <2>2. EntryFresh(c) /\ ReturnFresh(c) /\ <<c, 1>> \in open
    BY <1>1, <2>1 DEF PathAhead
  <2>3. m.seq = m.req - 1
    BY <1>1, <2>1 DEF MessageOk
  <2> QED
    BY <1>1, <2>2, <2>3
<1>3. InSequence(c, "clientEntry", m) /\ CanSend(c, "entryClient") /\ <<c, m.req>> \in open
  <2>1. InSequence(c, "clientEntry", m)
    BY <1>2 DEF InSequence, EntryFresh
  <2>2. CanSend(c, "entryClient")
    <3>1. sent[c]["entryClient"] = 0 /\ MaxPending \in Nat \ {0}
      BY <1>1, <1>2 DEF ReturnFresh
    <3> QED
      BY <3>1 DEF CanSend
  <2> QED
    BY <1>1, <1>2, <2>1, <2>2
<1> QED
  BY <1>2, <1>3

LEMMA AcknowledgeRuns ==
  ASSUME PathInv, Undisturbed, NEW m \in net, NEW c, c = m.client, Acknowledge(c, m)
  PROVE  Undisturbed'
<1>1. /\ c \in Client /\ asked[c] # 0 /\ PathAhead(m) /\ MessageOk(m) /\ m.req = 1
      /\ \A x \in net : x.client \in Client /\ (x.client = c => x = m)
      /\ sent \in Counter /\ rcvd \in Counter
      /\ {"clientEntry", "entryExit", "exitEntry", "entryClient"} \subseteq Link
      /\ MaxPending \in Nat \ {0}
  BY UnderWay
<1>3. InSequence(c, "clientEntry", m) /\ CanSend(c, "entryClient") /\ <<c, m.req>> \in open
  BY AcknowledgesIt
<1> PICK k : k = Msg("response", c, m.req, m.n, sent[c]["entryClient"])
  OBVIOUS
<1>4. /\ rcvd' = Received(rcvd, c, "clientEntry") /\ sent' = Received(sent, c, "entryClient")
      /\ net' = (net \ {m}) \cup {k}
      /\ UNCHANGED <<up, asked, open, direction, contexts, handled, activeExit, entryFlows,
                     exitFlows>>
  BY <1>3 DEF Acknowledge, clientVars, entryVars, exitVars
<1>5. k.kind = "response" /\ k.client = c /\ k.req = 1
  BY <1>1 DEF Msg
<1>6. \A d \in Client \ {c}, l \in Link : sent'[d][l] = sent[d][l] /\ rcvd'[d][l] = rcvd[d][l]
  <2>1. c \in Client /\ sent \in Counter /\ rcvd \in Counter /\ {"entryClient", "clientEntry"} \subseteq Link
    BY <1>1
  <2>2. sent' = Received(sent, c, "entryClient") /\ rcvd' = Received(rcvd, c, "clientEntry")
    BY <1>4
  <2>3. \A d \in Client \ {c}, l \in Link : sent'[d][l] = sent[d][l]
    BY <2>1, <2>2, SentMoves
  <2>4. \A d \in Client \ {c}, l \in Link : rcvd'[d][l] = rcvd[d][l]
    BY <2>1, <2>2, RcvdMoves
  <2> QED
    BY <2>3, <2>4
<1>7. PathAhead(k)'
  BY <1>5 DEF PathAhead
<1>8. \A d \in Client \ {c} : Leaves(d)
  BY <1>4, <1>6 DEF Leaves
<1>9. \A x \in net' : x.client \in Client /\ (IF x.client = c THEN x = k ELSE x \in net)
  BY <1>1, <1>4, <1>5
<1>10. entryFlows' \subseteq TwoHopClient /\ exitFlows' \subseteq TwoHopClient
  BY <1>4 DEF Undisturbed
<1> QED
  <2>1. c \in Client /\ up' = up /\ asked'[c] # 0
    BY <1>1, <1>4
  <2> QED
    BY <2>1, <1>7, <1>8, <1>9, <1>10, SessionMoves

LEMMA ClientReceiveRuns ==
  ASSUME PathInv, Undisturbed, NEW m \in net, NEW c, c = m.client, ClientReceive(c, m)
  PROVE  Undisturbed'
<1>1. /\ c \in Client /\ asked[c] # 0 /\ m.req = 1
      /\ \A x \in net : x.client \in Client /\ (x.client = c => x = m)
      /\ rcvd \in Counter /\ "entryClient" \in Link
  BY UnderWay
<1>2. /\ rcvd' = Received(rcvd, c, "entryClient") \/ rcvd' = rcvd
      /\ net' = net \ {m} /\ open' = open \ {<<c, m.req>>}
      /\ UNCHANGED <<up, asked, sent, direction, contexts, handled, activeExit, entryFlows,
                     exitFlows>>
  BY DEF ClientReceive, entryVars, exitVars
<1>3. \A d \in Client \ {c}, l \in Link : rcvd'[d][l] = rcvd[d][l]
  BY <1>1, <1>2, RcvdMoves
<1>4. \A d \in Client \ {c} : Leaves(d)
  BY <1>2, <1>3 DEF Leaves
<1>5. \A x \in net' : x.client \in Client /\ (IF x.client = c THEN x = m ELSE x \in net)
  BY <1>1, <1>2
<1>6. entryFlows' \subseteq TwoHopClient /\ exitFlows' \subseteq TwoHopClient
  BY <1>2 DEF Undisturbed
<1> QED
  <2>1. c \in Client /\ up' = up /\ asked'[c] # 0
    BY <1>1, <1>2
  <2>2. m \notin net'
    BY <1>2
  <2> QED
    BY <2>1, <1>4, <1>5, <1>6, <2>2, SessionMoves

LEMMA ClientRequestRuns ==
  ASSUME PathInv, Undisturbed, NEW c \in Client,
         NEW kind \in {"protocol", "data", "direct"}, ClientRequest(c, kind), asked'[c] <= 1
  PROVE  Undisturbed'
<1>1. /\ asked[c] \in Nat /\ asked'[c] = asked[c] + 1
      /\ \A d \in Client \ {c} : asked'[d] = asked[d]
  BY DEF ClientRequest, PathInv, TypeInv
<1>2. asked[c] = 0 /\ asked'[c] # 0
  BY <1>1
<1>3. /\ EntryFresh(c) /\ ExitFresh(c) /\ ReturnFresh(c)
      /\ \A x \in net : x.client \in Client /\ x.client # c
  BY <1>2, MessageFields DEF Undisturbed, PathInv
<1> PICK k : k = Msg(kind, c, asked[c] + 1, asked[c] + 1, sent[c]["clientEntry"])
  OBVIOUS
<1>4. /\ sent' = Received(sent, c, "clientEntry")
      /\ net' = net \cup {k} /\ open' = open \cup {<<c, asked[c] + 1>>}
      /\ UNCHANGED <<up, rcvd, direction, contexts, handled, activeExit, entryFlows, exitFlows>>
  BY DEF ClientRequest, entryVars, exitVars
<1>5. k.kind = kind /\ k.client = c /\ k.req = 1
  <2>1. k.kind = kind /\ k.client = c /\ k.req = asked[c] + 1
    BY DEF Msg
  <2> QED
    BY <1>2, <2>1
<1>6. /\ sent \in Counter
      /\ {"clientEntry", "entryExit", "exitEntry", "entryClient"} \subseteq Link
  BY DEF PathInv, TypeInv, Link
<1>7. /\ \A d \in Client \ {c}, l \in Link : sent'[d][l] = sent[d][l]
      /\ \A l \in Link : l # "clientEntry" => sent'[c][l] = sent[c][l]
  <2>1. sent' = Received(sent, c, "clientEntry") /\ sent \in Counter /\ "clientEntry" \in Link
    BY <1>4, <1>6
  <2> QED
    BY <2>1, SentMoves
<1>8. PathAhead(k)'
  <2>1. EntryFresh(c)'
    BY <1>3, <1>4 DEF EntryFresh
  <2>2. ExitFresh(c)'
    <3>1. /\ sent'[c]["exitEntry"] = sent[c]["exitEntry"]
          /\ UNCHANGED <<rcvd, contexts, handled, activeExit>>
      BY <1>4, <1>6, <1>7
    <3> QED
      BY <1>3, <3>1 DEF ExitFresh
  <2>3. ReturnFresh(c)'
    BY <1>3, <1>4, <1>6, <1>7 DEF ReturnFresh
  <2>4. <<c, 1>> \in open'
    <3>1. asked[c] + 1 = 1
      BY <1>2
    <3>2. <<c, asked[c] + 1>> \in open'
      BY <1>4
    <3> QED
      BY <3>1, <3>2
  <2> QED
    BY <1>5, <2>1, <2>2, <2>3, <2>4 DEF PathAhead
<1>9. \A d \in Client \ {c} : Leaves(d)
  BY <1>1, <1>4, <1>7 DEF Leaves
<1>10. \A x \in net' : x.client \in Client /\ (IF x.client = c THEN x = k ELSE x \in net)
  BY <1>3, <1>4, <1>5
<1>11. entryFlows' \subseteq TwoHopClient /\ exitFlows' \subseteq TwoHopClient
  BY <1>4 DEF Undisturbed
<1> QED
  <2>1. up' = up
    BY <1>4
  <2> QED
    BY <1>2, <1>8, <1>9, <1>10, <1>11, <2>1, SessionMoves

\* A TUN packet is sealed for a session the exit has already answered: no frame
\* of it that the exit still has to answer is under way.
LEMMA TunReturnRuns ==
  ASSUME PathInv, Undisturbed, NEW c \in Client, TunReturn(c)
  PROVE  Undisturbed'
<1>1. ~ExitFresh(c) /\ asked[c] # 0
  BY DEF TunReturn, ExitFresh, Undisturbed
<1>2. /\ sent' = Received(sent, c, "exitEntry")
      /\ UNCHANGED <<up, asked, open, net, rcvd, direction, contexts, handled, activeExit,
                     entryFlows, exitFlows>>
  BY DEF TunReturn, clientVars, entryVars, exitVars
<1>3. /\ sent \in Counter
      /\ {"clientEntry", "entryExit", "exitEntry", "entryClient"} \subseteq Link
  BY DEF PathInv, TypeInv, Link
<1>4. /\ \A d \in Client \ {c}, l \in Link : sent'[d][l] = sent[d][l]
      /\ sent'[c]["entryClient"] = sent[c]["entryClient"]
  <2>1. sent' = Received(sent, c, "exitEntry")
    BY <1>2
  <2>2. {"exitEntry", "entryClient"} \subseteq Link /\ sent \in Counter
    BY <1>3
  <2>3. \A d \in Client \ {c}, l \in Link : sent'[d][l] = sent[d][l]
    BY <2>1, <2>2, SentMoves
  <2>4. \A l \in Link : l # "exitEntry" => sent'[c][l] = sent[c][l]
    BY <2>1, <2>2, SentMoves
  <2> QED
    BY <2>2, <2>3, <2>4
<1>5. \A d \in Client \ {c} : Leaves(d)
  BY <1>2, <1>4 DEF Leaves
<1>6. \A x \in net : x.client \in Client
  BY MessageFields DEF PathInv
<1>7. entryFlows' \subseteq TwoHopClient /\ exitFlows' \subseteq TwoHopClient
  BY <1>2 DEF Undisturbed
<1>8. CASE \E k \in net : k.client = c
  <2> PICK k \in net : k.client = c
    BY <1>8
  <2>1. PathAhead(k) /\ \A x \in net : x.client = c => x = k
    BY DEF Undisturbed
  <2>2. k.kind \notin {"protocol", "data", "direct", "forward"}
    BY <1>1, <2>1 DEF PathAhead
  <2>3. ReturnFresh(c) => ReturnFresh(c)'
    BY <1>2, <1>4 DEF ReturnFresh
  <2>4. PathAhead(k)'
    BY <1>2, <2>1, <2>2, <2>3 DEF PathAhead
  <2>5. \A x \in net' : x.client \in Client /\ (IF x.client = c THEN x = k ELSE x \in net)
    BY <1>2, <1>6, <2>1
  <2> QED
    BY <1>1, <1>2, <1>5, <1>7, <2>4, <2>5, SessionMoves
<1>9. CASE \A k \in net : k.client # c
  <2>1. \A x \in net' : x.client \in Client /\ (IF x.client = c THEN x = c ELSE x \in net)
    BY <1>2, <1>6, <1>9
  <2>2. ~(c \in net' /\ c.client = c)
    BY <1>2, <1>9
  <2> QED
    BY <1>1, <1>2, <1>5, <1>7, <2>1, <2>2, SessionMoves
<1> QED
  BY <1>8, <1>9

LEMMA KeepInvInit == Init => KeepInv
BY DEF Init, KeepInv, Undisturbed, EntryFresh, ExitFresh, ReturnFresh, Link

\* A request that leaves every session with one at most finds them so.
LEMMA OnceBefore ==
  ASSUME asked \in [Client -> Nat], NEW c \in Client, NEW kind, ClientRequest(c, kind), OneRequestEach'
  PROVE  OneRequestEach /\ asked'[c] <= 1
<1>1. disturbed' = disturbed /\ asked' = [asked EXCEPT ![c] = @ + 1]
  BY DEF ClientRequest
<1>2. ~disturbed' /\ \A d \in Client : asked'[d] <= 1
  BY DEF OneRequestEach
<1>3. \A d \in Client : asked[d] \in Nat /\ asked'[d] \in Nat /\ asked[d] <= asked'[d]
  BY <1>1
<1>4. \A d \in Client : asked[d] <= 1
  BY <1>2, <1>3
<1> QED
  BY <1>1, <1>2, <1>4 DEF OneRequestEach

LEMMA KeepInvStep ==
  ASSUME FlowsSuffice, PathInv, KeepInv, [Next]_vars
  PROVE  KeepInv'
<1> SUFFICES ASSUME OneRequestEach' PROVE Undisturbed'
  BY DEF KeepInv
<1> USE RouteAssumption
<1>0. asked \in [Client -> Nat]
  BY DEF PathInv, TypeInv
<1>1. CASE \E c \in Client, kind \in {"protocol", "data", "direct"} : ClientRequest(c, kind)
  <2> PICK c \in Client, kind \in {"protocol", "data", "direct"} : ClientRequest(c, kind)
    BY <1>1
  <2>1. OneRequestEach /\ asked'[c] <= 1
    BY <1>0, OnceBefore
  <2> QED
    BY <2>1, ClientRequestRuns DEF KeepInv
<1>2. CASE \E c \in TwoHopClient : TunReturn(c)
  <2> PICK c \in TwoHopClient : TunReturn(c)
    BY <1>2
  <2>1. OneRequestEach /\ c \in Client
    BY DEF TunReturn, clientVars, OneRequestEach, TwoHopClient
  <2> QED
    BY <2>1, TunReturnRuns DEF KeepInv
<1>3. CASE \E m \in net : \/ EntryForward(m.client, m) \/ ExitForward(m.client, m)
                         \/ EntryReturn(m.client, m) \/ ClientReceive(m.client, m)
                         \/ Acknowledge(m.client, m)
  <2>1. asked' = asked /\ disturbed' = disturbed
    BY <1>3 DEF EntryForward, ExitForward, EntryReturn, ClientReceive, Acknowledge, Dies, clientVars
  <2>2. Undisturbed
    BY <2>1 DEF OneRequestEach, KeepInv
  <2> QED
    BY <1>3, <2>2, EntryForwardRuns, ExitForwardRuns, EntryReturnRuns, ClientReceiveRuns,
       AcknowledgeRuns
<1>4. CASE \/ \E m \in net : ExchangeFails(m.client, m) \/ Lose(m)
           \/ \E c \in OneHopClient : OneHopForward(c)
           \/ \E r \in open : ClientGivesUp(r)
  BY <1>4 DEF ExchangeFails, Lose, OneHopForward, ClientGivesUp, OneRequestEach
<1>5. CASE UNCHANGED vars
  BY <1>5 DEF vars, clientVars, entryVars, exitVars, KeepInv, OneRequestEach, Undisturbed,
     PathAhead, EntryFresh, ExitFresh, ReturnFresh
<1> QED
  BY <1>1, <1>2, <1>3, <1>4, <1>5 DEF Next, TwoHopClient

\* However many sessions share the two relays and however their messages
\* interleave: while every session has sent one request and nothing was lost or
\* has failed, no handler of either relay returns an error that ends its loop,
\* as long as maximum_active_flows leaves room for every two-hop session
\* (the forwarding arms of main, relay/src/main.rs).
THEOREM UndisturbedRelaysRun ==
  ASSUME FlowsSuffice
  PROVE  Spec => []RelaysKeepRunning
<1>1. KeepInv => RelaysKeepRunning
  BY DEF KeepInv, Undisturbed, RelaysKeepRunning
<1>2. PathInv /\ KeepInv /\ [Next]_vars => KeepInv'
  BY KeepInvStep
<1> QED
  BY <1>1, <1>2, KeepInvInit, PathInvHolds, PTL DEF Spec

-----------------------------------------------------------------------------
(* Requests under way.  Each undisturbed session has its answer or a message *)
(* that whoever receives it next will take.                                  *)

\* The answer is still to come, and both relay and client wait for it.
Waiting(m) ==
  /\ rcvd[m.client]["entryClient"] = 0 /\ Len(answers[m.client]) = 0
  /\ m.kind \in {"forward", "forwardResponse"} => <<m.client, 1>> \in pending
  /\ m.kind = "response" => <<m.client, 1>> \in open /\ m.seq = 0

Carried ==
  /\ \A m \in net : Waiting(m)
  /\ \A c \in Client : asked[c] = 0 => rcvd[c]["entryClient"] = 0 /\ Len(answers[c]) = 0
  /\ \A c \in Client : asked[c] = 1 => Len(answers[c]) = 1 \/ \E m \in net : m.client = c

CarryInv == OneRequestEach => Carried

\* A step that takes nothing from session d that its message needs.
Spares(d) ==
  /\ asked'[d] = asked[d] /\ rcvd'[d]["entryClient"] = rcvd[d]["entryClient"]
  /\ answers'[d] = answers[d]
  /\ <<d, 1>> \in pending => <<d, 1>> \in pending'
  /\ <<d, 1>> \in open => <<d, 1>> \in open'

\* The messages of other sessions stay, and of session c there is at most k.
NetHas(c, k) ==
  /\ \A x \in net' : x.client \in Client /\ (IF x.client = c THEN x = k ELSE x \in net)
  /\ \A x \in net : x.client # c => x \in net'

\* A step of session c that ends with message k of it under way, or the answer.
CarriesOn(c, k) ==
  /\ c \in Client /\ asked'[c] # 0
  /\ \A d \in Client \ {c} : Spares(d)
  /\ NetHas(c, k)
  /\ \/ k \in net' /\ k.client = c /\ Waiting(k)'
     \/ k \notin net' /\ Len(answers'[c]) = 1

LEMMA SessionCarries ==
  ASSUME Carried, NEW c, NEW k, CarriesOn(c, k)
  PROVE  Carried'
<1> USE DEF CarriesOn, NetHas
<1>1. ASSUME NEW x \in net' PROVE Waiting(x)'
  <2>1. CASE x.client = c
    BY <2>1
  <2>2. CASE x.client # c
    <3>1. Waiting(x) /\ Spares(x.client)
      BY <2>2 DEF Carried
    <3> QED
      BY <3>1 DEF Waiting, Spares
  <2> QED
    BY <2>1, <2>2
<1>2. ASSUME NEW d \in Client, asked'[d] = 0
      PROVE  rcvd'[d]["entryClient"] = 0 /\ Len(answers'[d]) = 0
  BY <1>2 DEF Spares, Carried
<1>3. ASSUME NEW d \in Client, asked'[d] = 1
      PROVE  Len(answers'[d]) = 1 \/ \E m \in net' : m.client = d
  BY <1>3 DEF Spares, Carried
<1> QED
  BY <1>1, <1>2, <1>3 DEF Carried

\* One frame is taken by a relay, or by the client of another session.
LEMMA RcvdSpares ==
  ASSUME TypeInv, NEW c \in Client, NEW l \in Link, rcvd' = Received(rcvd, c, l)
  PROVE  /\ \A d \in Client \ {c} : rcvd'[d]["entryClient"] = rcvd[d]["entryClient"]
         /\ l # "entryClient" => rcvd'[c]["entryClient"] = rcvd[c]["entryClient"]
<1>1. "entryClient" \in Link /\ rcvd \in Counter
  BY DEF Link, TypeInv
<1> QED
  BY <1>1, RcvdMoves

LEMMA EntryForwardCarries ==
  ASSUME FlowsSuffice, PathInv, Undisturbed, Carried, NEW m \in net, NEW c, c = m.client,
         EntryForward(c, m)
  PROVE  Carried'
<1>1. /\ c \in Client /\ asked[c] # 0 /\ m.req = 1 /\ Waiting(m)
      /\ \A x \in net : x.client \in Client /\ (x.client = c => x = m)
      /\ TypeInv /\ "clientEntry" \in Link
  BY UnderWay DEF Carried, PathInv
<1>2. EntryTakes(c, m)
  BY EntryTakesIt
<1> PICK k : k = Msg("forward", c, m.req, m.n, sent[c]["entryExit"])
  OBVIOUS
<1>3. /\ rcvd' = Received(rcvd, c, "clientEntry") /\ net' = (net \ {m}) \cup {k}
      /\ pending' = pending \cup {<<c, 1>>} /\ UNCHANGED <<asked, open, answers>>
  BY <1>1, <1>2 DEF EntryForward, clientVars
<1>4. k.kind = "forward" /\ k.client = c
  BY DEF Msg
<1>5. /\ \A d \in Client \ {c} : rcvd'[d]["entryClient"] = rcvd[d]["entryClient"]
      /\ rcvd'[c]["entryClient"] = rcvd[c]["entryClient"]
  BY <1>1, <1>3, RcvdSpares
<1>6. \A d \in Client \ {c} : Spares(d)
  BY <1>3, <1>5 DEF Spares
<1>7. Waiting(k)'
  BY <1>1, <1>3, <1>4, <1>5 DEF Waiting
<1>8. c \in Client /\ asked'[c] # 0 /\ k \in net' /\ NetHas(c, k)
  BY <1>1, <1>3, <1>4 DEF NetHas
<1>9. CarriesOn(c, k)
  BY <1>4, <1>6, <1>7, <1>8 DEF CarriesOn
<1> QED
  BY <1>9, SessionCarries

LEMMA ExitForwardCarries ==
  ASSUME FlowsSuffice, PathInv, Undisturbed, Carried, NEW m \in net, NEW c, c = m.client,
         ExitForward(c, m)
  PROVE  Carried'
<1>1. /\ c \in Client /\ asked[c] # 0 /\ Waiting(m)
      /\ \A x \in net : x.client \in Client /\ (x.client = c => x = m)
      /\ TypeInv /\ "entryExit" \in Link
  BY UnderWay DEF Carried, PathInv
<1>2. ExitTakes(c, m)
  BY ExitTakesIt
<1> PICK k : k = Msg("forwardResponse", c, m.req, m.n, sent[c]["exitEntry"])
  OBVIOUS
<1>3. /\ rcvd' = Received(rcvd, c, "entryExit") /\ net' = (net \ {m}) \cup {k}
      /\ UNCHANGED <<asked, open, answers, pending>> /\ m.kind = "forward"
  BY <1>2 DEF ExitForward, clientVars, entryVars
<1>4. k.kind = "forwardResponse" /\ k.client = c
  BY DEF Msg
<1>5. /\ \A d \in Client \ {c} : rcvd'[d]["entryClient"] = rcvd[d]["entryClient"]
      /\ rcvd'[c]["entryClient"] = rcvd[c]["entryClient"]
  BY <1>1, <1>3, RcvdSpares
<1>6. \A d \in Client \ {c} : Spares(d)
  BY <1>3, <1>5 DEF Spares
<1>7. Waiting(k)'
  BY <1>1, <1>3, <1>4, <1>5 DEF Waiting
<1>8. c \in Client /\ asked'[c] # 0 /\ k \in net' /\ NetHas(c, k)
  BY <1>1, <1>3, <1>4 DEF NetHas
<1>9. CarriesOn(c, k)
  BY <1>4, <1>6, <1>7, <1>8 DEF CarriesOn
<1> QED
  BY <1>9, SessionCarries

LEMMA EntryReturnCarries ==
  ASSUME PathInv, Undisturbed, Carried, NEW m \in net, NEW c, c = m.client, EntryReturn(c, m)
  PROVE  Carried'
<1>1. /\ c \in Client /\ asked[c] # 0 /\ m.req = 1 /\ Waiting(m)
      /\ \A x \in net : x.client \in Client /\ (x.client = c => x = m)
      /\ TypeInv /\ "exitEntry" \in Link
  BY UnderWay DEF Carried, PathInv
<1>2. EntryReturns(c, m) /\ sent[c]["entryClient"] = 0 /\ <<c, 1>> \in open
  BY EntryReturnsIt DEF ReturnFresh
<1> PICK k : k = Msg("response", c, m.req, m.n, sent[c]["entryClient"])
  OBVIOUS
<1>3. /\ rcvd' = Received(rcvd, c, "exitEntry") /\ net' = (net \ {m}) \cup {k}
      /\ pending' = pending \ {<<c, 1>>} /\ UNCHANGED <<asked, open, answers>>
  BY <1>1, <1>2 DEF EntryReturn, clientVars
<1>4. k.kind = "response" /\ k.client = c /\ k.seq = 0
  BY <1>2 DEF Msg
<1>5. /\ \A d \in Client \ {c} : rcvd'[d]["entryClient"] = rcvd[d]["entryClient"]
      /\ rcvd'[c]["entryClient"] = rcvd[c]["entryClient"]
  BY <1>1, <1>3, RcvdSpares
<1>6. \A d \in Client \ {c} : Spares(d)
  BY <1>3, <1>5 DEF Spares
<1>7. Waiting(k)'
  BY <1>1, <1>2, <1>3, <1>4, <1>5 DEF Waiting
<1>8. c \in Client /\ asked'[c] # 0 /\ k \in net' /\ NetHas(c, k)
  BY <1>1, <1>3, <1>4 DEF NetHas
<1>9. CarriesOn(c, k)
  BY <1>4, <1>6, <1>7, <1>8 DEF CarriesOn
<1> QED
  BY <1>9, SessionCarries

LEMMA AcknowledgeCarries ==
  ASSUME PathInv, Undisturbed, Carried, NEW m \in net, NEW c, c = m.client, Acknowledge(c, m)
  PROVE  Carried'
<1>1. /\ c \in Client /\ asked[c] # 0 /\ Waiting(m)
      /\ \A x \in net : x.client \in Client /\ (x.client = c => x = m)
      /\ TypeInv /\ "clientEntry" \in Link
  BY UnderWay DEF Carried, PathInv
<1>2. /\ InSequence(c, "clientEntry", m) /\ CanSend(c, "entryClient") /\ <<c, m.req>> \in open
      /\ sent[c]["entryClient"] = 0 /\ <<c, 1>> \in open
  BY AcknowledgesIt DEF ReturnFresh
<1> PICK k : k = Msg("response", c, m.req, m.n, sent[c]["entryClient"])
  OBVIOUS
<1>3. /\ rcvd' = Received(rcvd, c, "clientEntry") /\ net' = (net \ {m}) \cup {k}
      /\ UNCHANGED <<asked, open, answers, pending>>
  BY <1>2 DEF Acknowledge, clientVars, entryVars
<1>4. k.kind = "response" /\ k.client = c /\ k.seq = 0
  BY <1>2 DEF Msg
<1>5. /\ \A d \in Client \ {c} : rcvd'[d]["entryClient"] = rcvd[d]["entryClient"]
      /\ rcvd'[c]["entryClient"] = rcvd[c]["entryClient"]
  BY <1>1, <1>3, RcvdSpares
<1>6. \A d \in Client \ {c} : Spares(d)
  BY <1>3, <1>5 DEF Spares
<1>7. Waiting(k)'
  BY <1>1, <1>2, <1>3, <1>4, <1>5 DEF Waiting
<1>8. c \in Client /\ asked'[c] # 0 /\ k \in net' /\ NetHas(c, k)
  BY <1>1, <1>3, <1>4 DEF NetHas
<1>9. CarriesOn(c, k)
  BY <1>4, <1>6, <1>7, <1>8 DEF CarriesOn
<1> QED
  BY <1>9, SessionCarries

\* The client takes the answer: it is the frame it expects.
LEMMA ClientReceiveCarries ==
  ASSUME PathInv, Undisturbed, Carried, NEW m \in net, NEW c, c = m.client, ClientReceive(c, m)
  PROVE  Carried'
<1>1. /\ c \in Client /\ asked[c] # 0 /\ m.req = 1 /\ m.n = 1 /\ Waiting(m)
      /\ \A x \in net : x.client \in Client /\ (x.client = c => x = m)
      /\ TypeInv /\ "entryClient" \in Link
  BY UnderWay DEF Carried, PathInv
<1>2. InSequence(c, "entryClient", m)
  BY <1>1 DEF ClientReceive, Waiting, InSequence
<1>3. /\ rcvd' = Received(rcvd, c, "entryClient") /\ net' = net \ {m}
      /\ open' = open \ {<<c, 1>>} /\ UNCHANGED <<asked, pending>>
      /\ answers' = [answers EXCEPT ![c] = Append(@, <<1, 1>>)]
  BY <1>1, <1>2 DEF ClientReceive, entryVars
<1>4. \A d \in Client \ {c} : rcvd'[d]["entryClient"] = rcvd[d]["entryClient"]
  BY <1>1, <1>3, RcvdSpares
<1>5. answers \in [Client -> Seq(Nat \X Nat)]
  BY <1>1 DEF TypeInv
<1>6. \A d \in Client \ {c} : answers'[d] = answers[d]
  BY <1>1, <1>3, <1>5
<1>7. Len(answers'[c]) = 1
  <2>1. answers'[c] = Append(answers[c], <<1, 1>>) /\ answers[c] \in Seq(Nat \X Nat)
    BY <1>1, <1>3, <1>5
  <2>2. Len(answers'[c]) = Len(answers[c]) + 1
    BY <2>1, AppendedAnswer
  <2> QED
    BY <1>1, <2>2 DEF Waiting
<1>8. \A d \in Client \ {c} : Spares(d)
  BY <1>3, <1>4, <1>6 DEF Spares
<1>9. c \in Client /\ asked'[c] # 0 /\ m \notin net' /\ NetHas(c, m)
  BY <1>1, <1>3 DEF NetHas
<1>10. CarriesOn(c, m)
  BY <1>7, <1>8, <1>9 DEF CarriesOn
<1> QED
  BY <1>10, SessionCarries

LEMMA ClientRequestCarries ==
  ASSUME PathInv, Undisturbed, Carried, NEW c \in Client,
         NEW kind \in {"protocol", "data", "direct"}, ClientRequest(c, kind), asked'[c] <= 1
  PROVE  Carried'
<1>1. /\ asked[c] = 0 /\ asked'[c] = 1
      /\ \A d \in Client \ {c} : asked'[d] = asked[d]
  BY DEF ClientRequest, PathInv, TypeInv
<1>2. /\ \A x \in net : x.client \in Client /\ x.client # c
      /\ rcvd[c]["entryClient"] = 0 /\ Len(answers[c]) = 0
  BY <1>1, MessageFields DEF Undisturbed, Carried, PathInv
<1> PICK k : k = Msg(kind, c, asked[c] + 1, asked[c] + 1, sent[c]["clientEntry"])
  OBVIOUS
<1>3. /\ net' = net \cup {k} /\ open \subseteq open' /\ UNCHANGED <<rcvd, answers, pending>>
  BY DEF ClientRequest, entryVars
<1>4. k.kind = kind /\ k.client = c
  BY DEF Msg
<1>5. \A d \in Client \ {c} : Spares(d)
  BY <1>1, <1>3 DEF Spares
<1>6. Waiting(k)'
  BY <1>2, <1>3, <1>4 DEF Waiting
<1>7. c \in Client /\ asked'[c] # 0 /\ k \in net' /\ NetHas(c, k)
  BY <1>1, <1>2, <1>3, <1>4 DEF NetHas
<1>8. CarriesOn(c, k)
  BY <1>4, <1>5, <1>6, <1>7 DEF CarriesOn
<1> QED
  BY <1>8, SessionCarries

LEMMA CarryInvStep ==
  ASSUME FlowsSuffice, PathInv, KeepInv, CarryInv, [Next]_vars
  PROVE  CarryInv'
<1> SUFFICES ASSUME OneRequestEach' PROVE Carried'
  BY DEF CarryInv
<1> USE RouteAssumption
<1>0. asked \in [Client -> Nat]
  BY DEF PathInv, TypeInv
<1>1. CASE \E c \in Client, kind \in {"protocol", "data", "direct"} : ClientRequest(c, kind)
  <2> PICK c \in Client, kind \in {"protocol", "data", "direct"} : ClientRequest(c, kind)
    BY <1>1
  <2>1. OneRequestEach /\ asked'[c] <= 1
    BY <1>0, OnceBefore
  <2> QED
    BY <2>1, ClientRequestCarries DEF KeepInv, CarryInv
<1>2. CASE \E m \in net : \/ EntryForward(m.client, m) \/ ExitForward(m.client, m)
                         \/ EntryReturn(m.client, m) \/ ClientReceive(m.client, m)
                         \/ Acknowledge(m.client, m)
  <2>1. asked' = asked /\ disturbed' = disturbed
    BY <1>2 DEF EntryForward, ExitForward, EntryReturn, ClientReceive, Acknowledge, Dies, clientVars
  <2>2. Undisturbed /\ Carried
    BY <2>1 DEF OneRequestEach, KeepInv, CarryInv
  <2> QED
    BY <1>2, <2>2, EntryForwardCarries, ExitForwardCarries, EntryReturnCarries,
       ClientReceiveCarries, AcknowledgeCarries
<1>3. CASE \/ \E m \in net : ExchangeFails(m.client, m) \/ Lose(m)
           \/ \E c \in OneHopClient : OneHopForward(c)
           \/ \E r \in open : ClientGivesUp(r)
  BY <1>3 DEF ExchangeFails, Lose, OneHopForward, ClientGivesUp, OneRequestEach
<1>4. CASE (\E c \in TwoHopClient : TunReturn(c)) \/ UNCHANGED vars
  <2>1. UNCHANGED <<asked, open, answers, net, rcvd, pending, disturbed>>
    BY <1>4 DEF TunReturn, vars, clientVars, entryVars
  <2>2. Carried
    BY <2>1 DEF CarryInv, OneRequestEach
  <2> QED
    BY <2>1, <2>2 DEF Carried, Waiting
<1> QED
  BY <1>1, <1>2, <1>3, <1>4 DEF Next, TwoHopClient

\* A request that has not been answered is under way, both relays run, and
\* whoever receives the message next finds its channels, its context and the
\* waiting client as they must be to take it.
RequestsUnderWay ==
  OneRequestEach =>
    \A c \in Client : asked[c] = 1 =>
      \/ Len(answers[c]) = 1
      \/ up = Relay /\ \E m \in net : m.client = c /\ PathAhead(m) /\ Waiting(m)

\* With one request per session and nothing lost or failed, no request is ever
\* stuck, however the sessions interleave: the safety half of
\* RequestsAreAnswered (the forwarding arms of main, relay/src/main.rs).
THEOREM RequestsProceed ==
  ASSUME FlowsSuffice
  PROVE  Spec => []RequestsUnderWay
<1>1. Init => CarryInv
  BY DEF Init, CarryInv, Carried, Link
<1>2. KeepInv /\ CarryInv => RequestsUnderWay
  BY DEF KeepInv, CarryInv, Undisturbed, Carried, RequestsUnderWay
<1>3. PathInv /\ KeepInv /\ [Next]_vars => KeepInv'
  BY KeepInvStep
<1>4. PathInv /\ KeepInv /\ CarryInv /\ [Next]_vars => CarryInv'
  BY CarryInvStep
<1> QED
  BY <1>1, <1>2, <1>3, <1>4, KeepInvInit, PathInvHolds, PTL DEF Spec
=============================================================================
