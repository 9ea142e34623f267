----------------------- MODULE EncryptedChannelProofs -----------------------
(***************************************************************************)
(* Proofs, for every set of messages, queue length, counter width and      *)
(* carrier, of the invariants of EncryptedChannel.  The inductive          *)
(* invariant is TypeOK /\ CountersAgree.                                   *)
(***************************************************************************)
EXTENDS EncryptedChannel, TLAPS

\* The other endpoint is an endpoint, differs, and is symmetric.
LEMMA PeerFacts ==
  \A e \in Endpoint : Peer(e) \in Endpoint /\ Peer(e) # e /\ Peer(Peer(e)) = e
BY DEF Endpoint, Peer

\* Appending to a sequence leaves the old elements where they were.
LEMMA AppendFacts ==
  ASSUME NEW S, NEW s \in Seq(S), NEW x \in S
  PROVE  /\ Append(s, x) \in Seq(S)
         /\ Len(s) \in Nat
         /\ Len(Append(s, x)) = Len(s) + 1
         /\ \A i \in 1..Len(s) : Append(s, x)[i] = s[i]
         /\ Append(s, x)[Len(s) + 1] = x
OBVIOUS

\* send builds a frame.
LEMMA SealedFrameType ==
  ASSUME TypeOK, NEW e \in Endpoint, NEW m \in Message
  PROVE  /\ sendNonce[e] \in Nat /\ sendSeq[e] \in Nat
         /\ SealedFrame(e, m) \in Frame
BY BoundAssumption DEF TypeOK, SealedFrame, Frame

\* A counter below its limit may be incremented.
LEMMA CounterAdvances ==
  ASSUME NEW e \in Endpoint, NEW f \in [Endpoint -> 0..CounterMax], f[e] < CounterMax
  PROVE  [f EXCEPT ![e] = @ + 1] \in [Endpoint -> 0..CounterMax]
<1>1. f[e] + 1 \in 0..CounterMax
  BY BoundAssumption
<1> QED
  BY <1>1

\* Every action of either end keeps the fields in their types.
LEMMA TypeStep == TypeOK /\ [Next]_vars => TypeOK'
<1> SUFFICES ASSUME TypeOK, [Next]_vars PROVE TypeOK'
  OBVIOUS
<1> USE MessageAssumption, BoundAssumption
<1>1. ASSUME NEW e \in Endpoint, NEW m \in Message
      PROVE SealedFrame(e, m) \in Frame
  BY SealedFrameType
<1>2. ASSUME NEW e \in Endpoint, NEW m \in Message, Send(e, m) PROVE TypeOK'
  <2>1. /\ sendNonce' \in [Endpoint -> 0..CounterMax]
        /\ sendSeq' \in [Endpoint -> 0..CounterMax]
    <3>1. /\ sendNonce' = [sendNonce EXCEPT ![e] = @ + 1] /\ sendNonce[e] < CounterMax
          /\ sendSeq' = [sendSeq EXCEPT ![e] = @ + 1] /\ sendSeq[e] < CounterMax
      BY <1>2 DEF Send, Encrypt, CanSequence, CanEncrypt
    <3> QED
      BY <3>1, CounterAdvances DEF TypeOK
  <2>2. sealed' \in [Endpoint -> Seq(Frame)]
    BY <1>1, <1>2 DEF TypeOK, Send, Encrypt
  <2>3. pending' \in [Endpoint -> Seq(Frame)]
    BY <1>1, <1>2 DEF TypeOK, Send
  <2>4. sent' \in [Endpoint -> Seq(Frame)]
    BY <1>1, <1>2 DEF TypeOK, Send
  <2> QED
    BY <1>1, <1>2, <2>1, <2>2, <2>3, <2>4, SMTT(30) DEF TypeOK, Send
<1>3. ASSUME NEW e \in Endpoint, NEW m \in Message, SendRefused(e, m)
      PROVE TypeOK'
  <2>1. sendNonce' = [sendNonce EXCEPT ![e] = @ + 1] /\ sendNonce[e] < CounterMax
    BY <1>3 DEF SendRefused, Encrypt, CanEncrypt
  <2>2. sendNonce' \in [Endpoint -> 0..CounterMax]
    BY <2>1, CounterAdvances DEF TypeOK
  <2>3. sealed' \in [Endpoint -> Seq(Frame)]
    BY <1>1, <1>3 DEF TypeOK, SendRefused, Encrypt
  <2> QED
    BY <1>3, <2>2, <2>3 DEF TypeOK, SendRefused, channelVars
<1>4. ASSUME NEW e \in Endpoint, SendUnsealed(e) PROVE TypeOK'
  <2>1. sendSeq' = [sendSeq EXCEPT ![e] = @ + 1] /\ sendSeq[e] < CounterMax
    BY <1>4 DEF SendUnsealed, CanSequence
  <2>2. sendSeq' \in [Endpoint -> 0..CounterMax]
    BY <2>1, CounterAdvances DEF TypeOK
  <2> QED
    BY <1>4, <2>2 DEF TypeOK, SendUnsealed, sessionVars, history
<1>5. ASSUME NEW e \in Endpoint, TakePending(e) PROVE TypeOK'
  <2>1. pending[e] \in Seq(Frame) /\ pending[e] # <<>> /\ pending' = [pending EXCEPT ![e] = Tail(@)]
    BY <1>5 DEF TypeOK, TakePending
  <2>2. Tail(pending[e]) \in Seq(Frame)
    BY <2>1
  <2>3. pending' \in [Endpoint -> Seq(Frame)]
    BY <2>1, <2>2 DEF TypeOK
  <2> QED
    BY <1>5, <2>3 DEF TypeOK, TakePending, sessionVars, history
<1>6. ASSUME NEW e \in Endpoint, NEW f \in wire, Receive(e, f) PROVE TypeOK'
  <2>1. f \in Frame
    BY DEF TypeOK
  <2>2. f.msg \in Message /\ f.nonce \in Int
    BY <2>1 DEF Frame
  <2>3. delivered' \in [Endpoint -> Seq(Message)]
    BY <1>6, <2>2 DEF TypeOK, Receive
  <2> QED
    BY <1>6, <2>2, <2>3, SMTT(30) DEF TypeOK, Receive
<1>7. ASSUME NEW e \in Endpoint, CloseChannel(e) PROVE TypeOK'
  BY <1>7 DEF TypeOK, CloseChannel, history
<1>8. ASSUME NEW e \in Endpoint, MarkRemoteClosed(e) PROVE TypeOK'
  BY <1>8 DEF TypeOK, MarkRemoteClosed, sessionVars, history
<1>9. ASSUME NEW f \in wire, Lose(f) PROVE TypeOK'
  BY <1>9 DEF TypeOK, Lose, channelVars, sessionVars, history
<1>10. CASE UNCHANGED vars
  BY <1>10 DEF TypeOK, vars, channelVars, sessionVars, history
<1> QED
  BY <1>2, <1>3, <1>4, <1>5, <1>6, <1>7, <1>8, <1>9, <1>10 DEF Next

\* The type invariant of both channel ends (session.rs, channel.rs).
THEOREM TypeCorrect == Spec => []TypeOK
<1>1. Init => TypeOK
  BY BoundAssumption DEF Init, TypeOK, None, Frame
<1> QED
  BY <1>1, TypeStep, PTL DEF Spec

-----------------------------------------------------------------------------
\* A successful send extends the log of sent frames by the frame it returns.
LEMMA SendKeeps ==
  ASSUME TypeOK, CountersAgree, NEW e \in Endpoint, NEW m \in Message, Send(e, m)
  PROVE  CountersAgree'
<1>0. PICK F \in Frame : F = SealedFrame(e, m)
  BY SealedFrameType
<1>1. /\ Len(sent[e]) = sendSeq[e] /\ Len(sent[e]) \in Nat
      /\ sendNonce[e] \in Nat
      /\ F.key = e /\ F.seq = sendSeq[e] /\ F.nonce = sendNonce[e] /\ F.msg = m
  <2>1. Len(sent[e]) = sendSeq[e]
    BY DEF Send, Encrypt, CountersAgree, SentInv
  <2> QED
    BY <1>0, <2>1 DEF SealedFrame, TypeOK
<1>2. /\ sent' = [sent EXCEPT ![e] = Append(@, F)]
      /\ sealed' = [sealed EXCEPT ![e] = Append(@, F)]
      /\ wire' = wire \cup {F}
      /\ sendSeq' = [sendSeq EXCEPT ![e] = @ + 1]
      /\ sendNonce' = [sendNonce EXCEPT ![e] = @ + 1]
  BY <1>0 DEF Send, Encrypt
<1>3. /\ Len(sent'[e]) = Len(sent[e]) + 1 /\ sent'[e][Len(sent[e]) + 1] = F
      /\ \A i \in 1..Len(sent[e]) : sent'[e][i] = sent[e][i]
      /\ \A x \in Endpoint : x # e => sent'[x] = sent[x]
  <2>1. sent[e] \in Seq(Frame) /\ sent'[e] = Append(sent[e], F)
    BY <1>2 DEF TypeOK
  <2>2. \A x \in Endpoint : x # e => sent'[x] = sent[x]
    BY <1>2 DEF TypeOK
  <2> QED
    BY <1>1, <2>1, <2>2, AppendFacts
<1>4. /\ Len(sealed'[e]) = Len(sealed[e]) + 1 /\ sealed'[e][Len(sealed[e]) + 1] = F
      /\ Len(sealed[e]) \in Nat
      /\ \A i \in 1..Len(sealed[e]) : sealed'[e][i] = sealed[e][i]
      /\ \A x \in Endpoint : x # e => sealed'[x] = sealed[x]
  <2>1. sealed[e] \in Seq(Frame) /\ sealed'[e] = Append(sealed[e], F)
    BY <1>2 DEF TypeOK
  <2>2. \A x \in Endpoint : x # e => sealed'[x] = sealed[x]
    BY <1>2 DEF TypeOK
  <2> QED
    BY <1>1, <2>1, <2>2, AppendFacts
<1>5. SealedInv'
  <2>1. /\ sendNonce'[e] = sendNonce[e] + 1
        /\ \A x \in Endpoint : x # e => sendNonce'[x] = sendNonce[x]
    BY <1>2 DEF TypeOK
  <2>2. ASSUME NEW x \in Endpoint, x # e PROVE SealedInv!(x)'
    BY <1>4, <2>1, <2>2 DEF CountersAgree, SealedInv
  <2>3. Len(sealed[e]) = sendNonce[e]
    BY DEF CountersAgree, SealedInv
  <2>4. ASSUME NEW i \in 1..Len(sealed'[e]) PROVE sealed'[e][i].nonce = i - 1
    <3>1. CASE i = Len(sealed[e]) + 1
      BY <1>1, <1>4, <2>3, <3>1
    <3>2. CASE i \in 1..Len(sealed[e])
      BY <1>4, <3>2 DEF CountersAgree, SealedInv
    <3> QED
      BY <3>1, <3>2, <1>4
  <2> QED
    BY <1>1, <1>4, <2>1, <2>2, <2>3, <2>4 DEF SealedInv
<1>6. SentInv'
  <2>1. /\ sendNonce'[e] = sendNonce[e] + 1 /\ sendSeq'[e] = sendSeq[e] + 1
        /\ \A x \in Endpoint : x # e => /\ sendNonce'[x] = sendNonce[x]
                                       /\ sendSeq'[x] = sendSeq[x]
    BY <1>2 DEF TypeOK
  <2>2. /\ session' = session
        /\ \A x \in Endpoint : x # e => state'[x] = state[x]
        /\ state[e] = "Established" /\ session[e] = "Established"
        /\ state'[e] = IF m = Close THEN "Closing" ELSE "Established"
    BY DEF TypeOK, Send, CanSequence, Encrypt, CanEncrypt
  <2>3. ASSUME NEW x \in Endpoint, x # e PROVE SentInv!(x)'
    <3>1. /\ sent'[x] = sent[x] /\ sendNonce'[x] = sendNonce[x]
          /\ sendSeq'[x] = sendSeq[x] /\ state'[x] = state[x]
          /\ session'[x] = session[x]
      BY <1>3, <2>1, <2>2, <2>3
    <3>2. SentInv!(x)
      BY DEF CountersAgree, SentInv
    <3> QED
      BY <3>1, <3>2 DEF CanSequence, CanEncrypt
  <2>4. SentInv!(e)'
    <3> DEFINE n == Len(sent[e])
    <3>1. n \in Nat /\ Len(sent'[e]) = n + 1 /\ sendSeq'[e] = n + 1
      BY <1>1, <1>3, <2>1
    <3>2. ASSUME NEW i \in 1..n
          PROVE /\ sent'[e][i] = sent[e][i]
                /\ sent[e][i].key = e /\ sent[e][i].seq = i - 1
                /\ sent[e][i].nonce < sendNonce[e]
                /\ sent[e][i].nonce \in Nat
                /\ sent[e][i].msg # Close
                /\ \A j \in 1..n : i < j => sent[e][i].nonce < sent[e][j].nonce
      <4>1. sent[e][i] \in Frame
        BY DEF TypeOK
      <4> QED
        BY <1>3, <2>2, <4>1 DEF CountersAgree, SentInv, Frame
    <3>3. /\ sent'[e][n + 1].key = e /\ sent'[e][n + 1].seq = n
          /\ sent'[e][n + 1].nonce = sendNonce[e] /\ sent'[e][n + 1].msg = m
      BY <1>1, <1>3
    <3> HIDE DEF n
    <3>4. ASSUME NEW i \in 1..(n + 1)
          PROVE /\ sent'[e][i].key = e
                /\ sent'[e][i].seq = i - 1
                /\ sent'[e][i].nonce < sendNonce'[e]
                /\ \A j \in 1..(n + 1) : i < j => sent'[e][i].nonce < sent'[e][j].nonce
                /\ sent'[e][i].msg = Close => i = n + 1 /\ state'[e] # "Established"
      <4>1. CASE i = n + 1
        BY <1>1, <2>1, <2>2, <3>1, <3>3, <4>1
      <4>2. CASE i \in 1..n
        <5>1. ASSUME NEW j \in 1..(n + 1), i < j
              PROVE sent'[e][i].nonce < sent'[e][j].nonce
          <6>1. CASE j = n + 1
            BY <3>2, <3>3, <4>2, <6>1
          <6>2. CASE j \in 1..n
            BY <3>2, <4>2, <5>1, <6>2
          <6> QED
            BY <3>1, <6>1, <6>2
        <5>2. sent'[e][i].key = e /\ sent'[e][i].seq = i - 1 /\ sent'[e][i].msg # Close
          BY <3>2, <4>2
        <5>3. sent'[e][i].nonce < sendNonce'[e]
          <6>1. /\ sent'[e][i].nonce < sendNonce[e]
                /\ sent'[e][i].nonce \in Nat
            BY <3>2, <4>2, Zenon
          <6>2. sendNonce[e] \in Nat /\ sendNonce'[e] = sendNonce[e] + 1
            BY <1>1, <2>1
          <6> QED
            BY <6>1, <6>2
        <5> QED
          BY <5>1, <5>2, <5>3
      <4> QED
        BY <3>1, <4>1, <4>2
    <3>5. 1..Len(sent'[e]) = 1..(n + 1)
      BY <3>1
    <3>6. /\ state'[e] = "Established" => session'[e] = "Established"
          /\ Len(sent'[e]) <= sendSeq'[e]
          /\ Len(sent'[e]) = sendSeq'[e]
      BY <2>2, <3>1
    <3>7. \A i \in 1..Len(sent'[e]) :
            /\ sent'[e][i].key = e
            /\ sent'[e][i].seq = i - 1
            /\ sent'[e][i].nonce < sendNonce'[e]
            /\ \A j \in 1..Len(sent'[e]) : i < j => sent'[e][i].nonce < sent'[e][j].nonce
            /\ sent'[e][i].msg = Close => i = Len(sent'[e]) /\ state'[e] # "Established"
      BY <3>1, <3>4, <3>5, Zenon
    <3> QED
      BY <3>6, <3>7, Zenon
  <2> QED
    BY <2>3, <2>4 DEF SentInv
<1>7. WireInv'
  <2>1. ASSUME NEW f \in wire PROVE WireInv!(f)'
    <3>1. f.key \in Endpoint /\ f.seq \in Nat
      BY DEF TypeOK, Frame
    <3>2. f.seq < Len(sent[f.key]) /\ f = sent[f.key][f.seq + 1]
      BY DEF CountersAgree, WireInv
    <3>3. CASE f.key = e
      <4>1. f.seq + 1 \in 1..Len(sent[e])
        BY <1>1, <3>1, <3>2, <3>3
      <4>2. f.seq < Len(sent'[e]) /\ f = sent'[e][f.seq + 1]
        BY <1>1, <1>3, <3>1, <3>2, <3>3, <4>1
      <4> QED
        BY <3>3, <4>2
    <3>4. CASE f.key # e
      BY <1>3, <3>1, <3>2, <3>4
    <3> QED
      BY <3>3, <3>4
  <2>2. WireInv!(F)'
    BY <1>1, <1>3
  <2> QED
    BY <1>2, <2>1, <2>2 DEF WireInv
<1>8. ASSUME NEW x \in Endpoint
      PROVE /\ Len(delivered[x]) \in Nat
            /\ Len(delivered[x]) <= Len(sent[Peer(x)])
            /\ Len(sent[Peer(x)]) \in Nat /\ Len(sent'[Peer(x)]) \in Nat
            /\ Len(sent[Peer(x)]) <= Len(sent'[Peer(x)])
            /\ \A i \in 1..Len(delivered[x]) :
                 sent'[Peer(x)][i] = sent[Peer(x)][i]
  <2>1. /\ Peer(x) \in Endpoint /\ Len(delivered[x]) \in Nat
        /\ Len(sent[Peer(x)]) \in Nat
    BY PeerFacts, SMTT(30) DEF TypeOK
  <2>2. Len(delivered[x]) <= Len(sent[Peer(x)])
    BY DEF CountersAgree, InOrderDelivery
  <2>3. CASE Peer(x) = e
    BY <1>1, <1>3, <2>1, <2>2, <2>3
  <2>4. CASE Peer(x) # e
    BY <1>3, <2>1, <2>2, <2>4
  <2> QED
    BY <2>3, <2>4
<1>9. InOrderDelivery'
  <2>1. delivered' = delivered
    BY DEF Send
  <2> QED
    BY <1>8, <2>1 DEF CountersAgree, InOrderDelivery
<1>10. ReceivedInv'
  <2>1. delivered' = delivered /\ recvSeq' = recvSeq /\ lastNonce' = lastNonce
    BY DEF Send
  <2> QED
    BY <1>8, <2>1 DEF CountersAgree, ReceivedInv
<1> QED
  BY <1>5, <1>6, <1>7, <1>9, <1>10 DEF CountersAgree

\* A refused send consumes a nonce and leaves no frame behind.
LEMMA SendRefusedKeeps ==
  ASSUME TypeOK, CountersAgree, NEW e \in Endpoint, NEW m \in Message,
         SendRefused(e, m)
  PROVE  CountersAgree'
<1>0. PICK F \in Frame : F = SealedFrame(e, m)
  BY SealedFrameType
<1>1. /\ F.nonce = sendNonce[e] /\ sendNonce[e] \in Nat
      /\ sendNonce'[e] = sendNonce[e] + 1 /\ sealed'[e] = Append(sealed[e], F)
      /\ sealed[e] \in Seq(Frame)
      /\ \A x \in Endpoint : x # e => /\ sendNonce'[x] = sendNonce[x]
                                     /\ sealed'[x] = sealed[x]
  BY <1>0, SealedFrameType DEF SendRefused, Encrypt, TypeOK, SealedFrame
<1>2. /\ state' = state /\ sendSeq' = sendSeq /\ recvSeq' = recvSeq
      /\ session' = session /\ lastNonce' = lastNonce /\ wire' = wire
      /\ sent' = sent /\ delivered' = delivered
  BY DEF SendRefused, channelVars
<1>3. SealedInv'
  <2>1. Len(sealed[e]) = sendNonce[e]
    BY DEF CountersAgree, SealedInv
  <2>2. /\ Len(sealed'[e]) = sendNonce'[e]
        /\ sealed'[e][Len(sealed[e]) + 1] = F
        /\ \A i \in 1..Len(sealed[e]) : sealed'[e][i] = sealed[e][i]
    BY <1>1, <2>1, AppendFacts
  <2>3. ASSUME NEW i \in 1..Len(sealed'[e]) PROVE sealed'[e][i].nonce = i - 1
    <3>1. CASE i = Len(sealed[e]) + 1
      BY <1>1, <2>1, <2>2, <3>1
    <3>2. CASE i \in 1..Len(sealed[e])
      BY <2>2, <3>2 DEF CountersAgree, SealedInv
    <3> QED
      BY <1>1, <2>1, <2>2, <3>1, <3>2
  <2>4. ASSUME NEW x \in Endpoint, x # e PROVE SealedInv!(x)'
    BY <1>1, <2>4 DEF CountersAgree, SealedInv
  <2> QED
    BY <2>2, <2>3, <2>4 DEF SealedInv
<1>4. SentInv'
  <2>1. ASSUME NEW x \in Endpoint, x # e PROVE SentInv!(x)'
    <3>1. SentInv!(x) /\ sendNonce'[x] = sendNonce[x]
      BY <1>1, <2>1 DEF CountersAgree, SentInv
    <3> QED
      BY <1>2, <3>1 DEF CanSequence, CanEncrypt
  <2>2. SentInv!(e)'
    <3>1. SentInv!(e)
      BY DEF CountersAgree, SentInv
    <3>2. Len(sent[e]) = sendSeq[e]
      BY <3>1 DEF SendRefused, Encrypt
    <3>3. ASSUME NEW i \in 1..Len(sent[e]) PROVE sent[e][i].nonce < sendNonce'[e]
      <4>1. sent[e][i] \in Frame
        BY DEF TypeOK
      <4>2. sent[e][i].nonce \in Nat
        BY <4>1 DEF Frame
      <4>3. sent[e][i].nonce < sendNonce[e]
        BY DEF CountersAgree, SentInv
      <4> QED
        BY <1>1, <4>2, <4>3
    <3> QED
      BY <1>2, <3>1, <3>2, <3>3
  <2> QED
    BY <2>1, <2>2 DEF SentInv
<1> QED
  BY <1>2, <1>3, <1>4 DEF CountersAgree, WireInv, InOrderDelivery, ReceivedInv

\* A frame that receive accepts is the next one the peer sent.
LEMMA ReceiveKeeps ==
  ASSUME TypeOK, CountersAgree, NEW e \in Endpoint, NEW f \in wire, Receive(e, f)
  PROVE  CountersAgree'
<1>1. /\ f \in Frame /\ f.key = Peer(e) /\ f.seq = recvSeq[e] /\ recvSeq[e] \in Nat
      /\ recvSeq[e] = Len(delivered[e]) /\ Peer(e) \in Endpoint
      /\ recvSeq[e] < Len(sent[Peer(e)]) /\ f = sent[Peer(e)][recvSeq[e] + 1]
      /\ Len(sent[Peer(e)]) \in Nat
  <2>1. f \in Frame /\ recvSeq[e] \in Nat
    BY BoundAssumption DEF TypeOK
  <2>2. f.key = Peer(e) /\ f.seq = recvSeq[e]
    BY DEF Receive, Decrypts, ReceiveKey, InSequence
  <2>3. f.seq < Len(sent[f.key]) /\ f = sent[f.key][f.seq + 1]
    BY DEF CountersAgree, WireInv
  <2>4. recvSeq[e] = Len(delivered[e]) /\ Peer(e) \in Endpoint
    BY PeerFacts DEF CountersAgree, ReceivedInv
  <2>5. Len(sent[Peer(e)]) \in Nat
    BY <2>4 DEF TypeOK
  <2> QED
    BY <2>1, <2>2, <2>3, <2>4, <2>5
<1>2. /\ sealed' = sealed /\ sendNonce' = sendNonce /\ sent' = sent /\ wire' = wire
      /\ session' = session /\ sendSeq' = sendSeq
      /\ state[e] = "Established" /\ state'[e] \in {"Established", "Closing"}
      /\ \A x \in Endpoint : x # e => state'[x] = state[x]
  BY DEF Receive, TypeOK
<1>3. /\ recvSeq'[e] = recvSeq[e] + 1 /\ lastNonce'[e] = f.nonce
      /\ delivered'[e] = Append(delivered[e], f.msg)
      /\ delivered[e] \in Seq(Message) /\ f.msg \in Message
      /\ \A x \in Endpoint : x # e => /\ recvSeq'[x] = recvSeq[x]
                                     /\ lastNonce'[x] = lastNonce[x]
                                     /\ delivered'[x] = delivered[x]
  BY <1>1 DEF Receive, TypeOK, Frame
<1>4. /\ Len(delivered'[e]) = recvSeq[e] + 1
      /\ delivered'[e][recvSeq[e] + 1] = f.msg
      /\ \A i \in 1..recvSeq[e] : delivered'[e][i] = delivered[e][i]
  BY <1>1, <1>3, AppendFacts
<1>5. SealedInv' /\ WireInv'
  BY <1>2 DEF CountersAgree, SealedInv, WireInv
<1>6. SentInv'
  <2> SUFFICES ASSUME NEW x \in Endpoint PROVE SentInv!(x)'
    BY DEF SentInv
  <2>1. SentInv!(x)
    BY DEF CountersAgree, SentInv
  <2>2. /\ state'[x] = "Established" => state[x] = "Established"
        /\ state[x] # "Established" => state'[x] # "Established"
    BY <1>2
  <2> QED
    BY <1>2, <2>1, <2>2 DEF CanSequence, CanEncrypt
<1>7. InOrderDelivery'
  <2>1. ASSUME NEW x \in Endpoint, x # e PROVE InOrderDelivery!(x)'
    BY <1>2, <1>3, <2>1 DEF CountersAgree, InOrderDelivery
  <2>2. ASSUME NEW i \in 1..(recvSeq[e] + 1)
        PROVE delivered'[e][i] = sent[Peer(e)][i].msg
    <3>1. CASE i = recvSeq[e] + 1
      BY <1>1, <1>4, <3>1
    <3>2. CASE i \in 1..recvSeq[e]
      BY <1>1, <1>4, <3>2 DEF CountersAgree, InOrderDelivery
    <3> QED
      BY <1>1, <3>1, <3>2
  <2>3. InOrderDelivery!(e)'
    BY <1>1, <1>2, <1>4, <2>2
  <2> QED
    BY <2>1, <2>3 DEF InOrderDelivery
<1>8. ReceivedInv'
  <2>1. ASSUME NEW x \in Endpoint, x # e PROVE ReceivedInv!(x)'
    BY <1>2, <1>3, <2>1 DEF CountersAgree, ReceivedInv
  <2>2. ReceivedInv!(e)'
    BY <1>1, <1>2, <1>3, <1>4
  <2> QED
    BY <2>1, <2>2 DEF ReceivedInv
<1> QED
  BY <1>5, <1>6, <1>7, <1>8 DEF CountersAgree

\* The remaining actions leave every log alone; closing only moves the states
\* forward, and a lost frame only shrinks the wire.
LEMMA OtherStepsKeep ==
  ASSUME TypeOK, CountersAgree,
         \/ \E e \in Endpoint : \/ SendUnsealed(e) \/ TakePending(e)
                               \/ CloseChannel(e) \/ MarkRemoteClosed(e)
         \/ \E f \in wire : Lose(f)
         \/ UNCHANGED vars
  PROVE  CountersAgree'
<1>1. /\ recvSeq' = recvSeq /\ sendNonce' = sendNonce /\ lastNonce' = lastNonce
      /\ sealed' = sealed /\ sent' = sent /\ delivered' = delivered
      /\ wire' \subseteq wire
  BY DEF SendUnsealed, TakePending, CloseChannel, MarkRemoteClosed, Lose,
         vars, channelVars, sessionVars, history
<1>2. SealedInv' /\ WireInv' /\ InOrderDelivery' /\ ReceivedInv'
  BY <1>1 DEF CountersAgree, SealedInv, WireInv, InOrderDelivery, ReceivedInv
<1>3. SentInv'
  <2> SUFFICES ASSUME NEW x \in Endpoint PROVE SentInv!(x)'
    BY DEF SentInv
  <2>0. SentInv!(x) /\ Len(sent[x]) \in Nat /\ sendSeq[x] \in Nat
    <3>1. SentInv!(x)
      BY Zenon DEF CountersAgree, SentInv
    <3>2. Len(sent[x]) \in Nat /\ sendSeq[x] \in Nat
      BY BoundAssumption DEF TypeOK
    <3> QED
      BY <3>1, <3>2, Zenon
  <2>1. ASSUME NEW e \in Endpoint, SendUnsealed(e) PROVE SentInv!(x)'
    <3>1. state' = state /\ session' = session
      BY <2>1 DEF SendUnsealed, sessionVars
    <3>2. CASE x = e
      <4>1. sendSeq'[e] = sendSeq[e] + 1 /\ ~CanEncrypt(e)
        BY <2>1 DEF SendUnsealed, TypeOK
      <4>2. ~CanEncrypt(e)'
        BY <1>1, <3>1, <4>1 DEF CanEncrypt
      <4> QED
        BY <1>1, <2>0, <3>1, <3>2, <4>1, <4>2
    <3>3. CASE x # e
      <4>1. sendSeq'[x] = sendSeq[x]
        BY <2>1, <3>3 DEF SendUnsealed, TypeOK
      <4> QED
        BY <1>1, <2>0, <3>1, <4>1 DEF CanSequence, CanEncrypt
    <3> QED
      BY <3>2, <3>3
  <2>2. ASSUME sendSeq' = sendSeq,
               state'[x] = "Established" =>
                 state[x] = "Established" /\ session'[x] = session[x]
        PROVE SentInv!(x)'
    BY <1>1, <2>0, <2>2 DEF CanSequence, CanEncrypt
  <2>3. ASSUME NEW e \in Endpoint, TakePending(e) PROVE SentInv!(x)'
    BY <2>2, <2>3 DEF TakePending, sessionVars
  <2>4. ASSUME NEW e \in Endpoint, CloseChannel(e) PROVE SentInv!(x)'
    <3>1. state'[x] = "Established" =>
             state[x] = "Established" /\ session'[x] = session[x]
      BY <2>4 DEF CloseChannel, TypeOK
    <3> QED
      BY <2>2, <2>4, <3>1 DEF CloseChannel
  <2>5. ASSUME NEW e \in Endpoint, MarkRemoteClosed(e) PROVE SentInv!(x)'
    <3>1. state'[x] = "Established" =>
             state[x] = "Established" /\ session'[x] = session[x]
      BY <2>5 DEF MarkRemoteClosed, sessionVars, TypeOK
    <3> QED
      BY <2>2, <2>5, <3>1 DEF MarkRemoteClosed
  <2>6. ASSUME NEW f \in wire, Lose(f) PROVE SentInv!(x)'
    BY <2>2, <2>6 DEF Lose, channelVars, sessionVars
  <2>7. CASE UNCHANGED vars
    BY <2>2, <2>7 DEF vars, channelVars, sessionVars
  <2> QED
    BY <2>1, <2>3, <2>4, <2>5, <2>6, <2>7
<1> QED
  BY <1>2, <1>3 DEF CountersAgree

\* A frame on the wire is the one its sequence number names, nonces grow with
\* sequence numbers, and the receiver's counters stand at the last frame it
\* took, whatever sends were refused and whatever the carrier did.
THEOREM CountersAlwaysAgree == Spec => []CountersAgree
<1>1. Init => CountersAgree
  BY DEF Init, CountersAgree, SealedInv, SentInv, WireInv, InOrderDelivery,
         ReceivedInv, None, Endpoint, Peer
<1>2. TypeOK /\ CountersAgree /\ [Next]_vars => CountersAgree'
  <2> SUFFICES ASSUME TypeOK, CountersAgree, [Next]_vars PROVE CountersAgree'
    OBVIOUS
  <2> QED
    BY SendKeeps, SendRefusedKeeps, ReceiveKeeps, OtherStepsKeep
    DEF Next
<1> QED
  BY <1>1, <1>2, TypeCorrect, PTL DEF Spec

\* No nonce of a send key is used for two encryptions (session.rs encrypt),
\* although refused sends give their sequence number back.
THEOREM NoncesAreUnique == Spec => []NonceNeverReused
<1>1. TypeOK /\ CountersAgree => NonceNeverReused
  <2> SUFFICES ASSUME TypeOK, CountersAgree, NEW e \in Endpoint,
                      NEW i \in 1..Len(sealed[e]), NEW j \in 1..Len(sealed[e]),
                      sealed[e][i].nonce = sealed[e][j].nonce
               PROVE  i = j
    BY DEF NonceNeverReused
  <2>1. Len(sealed[e]) \in Nat
    BY DEF TypeOK
  <2>2. sealed[e][i].nonce = i - 1 /\ sealed[e][j].nonce = j - 1
    BY DEF CountersAgree, SealedInv
  <2>3. i \in Int /\ j \in Int
    BY <2>1
  <2>4. i - 1 = j - 1
    BY <2>2
  <2> QED
    BY <2>3, <2>4
<1> QED
  BY <1>1, TypeCorrect, CountersAlwaysAgree, PTL

\* Each side is handed, in order and once each, the messages the other side's
\* send accepted (channel.rs receive).
THEOREM DeliveryInOrder == Spec => []InOrderDelivery
<1>1. CountersAgree => InOrderDelivery
  BY DEF CountersAgree
<1> QED
  BY <1>1, CountersAlwaysAgree, PTL

\* The nonce check of decrypt never refuses the frame that is next in sequence.
THEOREM NextFrameAlwaysDecrypts == Spec => []NextFrameDecrypts
<1>1. TypeOK /\ CountersAgree => NextFrameDecrypts
  <2> SUFFICES ASSUME TypeOK, CountersAgree, NEW e \in Endpoint, NEW f \in wire,
                      f.key = Peer(e), f.seq = recvSeq[e]
               PROVE  f.nonce > lastNonce[e]
    BY DEF NextFrameDecrypts, InSequence
  <2>1. /\ f \in Frame /\ recvSeq[e] \in Nat /\ Peer(e) \in Endpoint
        /\ Len(sent[Peer(e)]) \in Nat
    BY BoundAssumption, PeerFacts DEF TypeOK
  <2>2. f.nonce \in Nat
    BY <2>1 DEF Frame
  <2>3. recvSeq[e] < Len(sent[Peer(e)]) /\ f = sent[Peer(e)][recvSeq[e] + 1]
    BY DEF CountersAgree, WireInv
  <2>4. lastNonce[e] = IF recvSeq[e] = 0 THEN -1 ELSE sent[Peer(e)][recvSeq[e]].nonce
    BY DEF CountersAgree, ReceivedInv, None
  <2>5. CASE recvSeq[e] = 0
    BY <2>2, <2>4, <2>5
  <2>6. CASE recvSeq[e] # 0
    <3>1. recvSeq[e] \in 1..Len(sent[Peer(e)]) /\ recvSeq[e] + 1 \in 1..Len(sent[Peer(e)])
      BY <2>1, <2>3, <2>6
    <3>2. sent[Peer(e)][recvSeq[e]].nonce < sent[Peer(e)][recvSeq[e] + 1].nonce
      <4>1. \A i, j \in 1..Len(sent[Peer(e)]) :
              i < j => sent[Peer(e)][i].nonce < sent[Peer(e)][j].nonce
        BY <2>1, Zenon DEF CountersAgree, SentInv
      <4>2. recvSeq[e] < recvSeq[e] + 1
        BY <2>1
      <4> QED
        BY <3>1, <4>1, <4>2, SMTT(30)
    <3>3. sent[Peer(e)][recvSeq[e]] \in Frame
      BY <2>1, <3>1, SMTT(30) DEF TypeOK
    <3>4. sent[Peer(e)][recvSeq[e]].nonce \in Nat
      BY <3>3 DEF Frame
    <3> QED
      BY <2>2, <2>3, <2>4, <2>6, <3>2, <3>4
  <2> QED
    BY <2>5, <2>6
<1> QED
  BY <1>1, TypeCorrect, CountersAlwaysAgree, PTL

\* A receiver that has been handed Close has been handed everything.
THEOREM CloseArrivesLast == Spec => []CloseIsLast
<1>1. TypeOK /\ CountersAgree => CloseIsLast
  <2> SUFFICES ASSUME TypeOK, CountersAgree, NEW e \in Endpoint,
                      NEW i \in 1..Len(delivered[e]), delivered[e][i] = Close
               PROVE  Len(delivered[e]) = Len(sent[Peer(e)])
    BY DEF CloseIsLast
  <2>1. /\ Peer(e) \in Endpoint /\ Len(delivered[e]) \in Nat
        /\ Len(sent[Peer(e)]) \in Nat
    BY PeerFacts DEF TypeOK
  <2>2. /\ Len(delivered[e]) <= Len(sent[Peer(e)])
        /\ sent[Peer(e)][i].msg = Close
    BY DEF CountersAgree, InOrderDelivery
  <2>3. i \in 1..Len(sent[Peer(e)])
    BY <2>1, <2>2
  <2>4. i = Len(sent[Peer(e)])
    BY <2>1, <2>2, <2>3 DEF CountersAgree, SentInv
  <2> QED
    BY <2>1, <2>2, <2>4
<1> QED
  BY <1>1, TypeCorrect, CountersAlwaysAgree, PTL

-----------------------------------------------------------------------------
(* The pair of channels implements the FIFO channel. *)

\* Appending a frame to a log appends its message to the log's messages.
LEMMA MessagesAppend ==
  ASSUME NEW s \in Seq(Frame), NEW f \in Frame
  PROVE  Messages(Append(s, f)) = Append(Messages(s), f.msg)
<1>1. Messages(s) \in Seq(Message)
  <2>1. Len(s) \in Nat
    OBVIOUS
  <2>2. ASSUME NEW i \in 1..Len(s) PROVE s[i].msg \in Message
    <3>1. s[i] \in Frame
      OBVIOUS
    <3> QED
      BY <3>1 DEF Frame
  <2> QED
    BY <2>1, <2>2 DEF Messages
<1>2. f.msg \in Message
  BY DEF Frame
<1>3. Len(Messages(s)) = Len(s)
  BY DEF Messages
<1>4. DOMAIN Messages(Append(s, f)) = DOMAIN Append(Messages(s), f.msg)
  BY <1>1, <1>2, <1>3 DEF Messages
<1>5. ASSUME NEW i \in 1..(Len(s) + 1)
      PROVE Messages(Append(s, f))[i] = Append(Messages(s), f.msg)[i]
  BY <1>1, <1>2, <1>3 DEF Messages
<1> QED
  BY <1>1, <1>2, <1>3, <1>4, <1>5 DEF Messages

\* What each kind of step is to the FIFO channel: a Send, a Receive, a Stop,
\* or nothing (channel.rs send, receive, close and mark_remote_closed).
LEMMA FifoStep ==
  TypeOK /\ CountersAgree /\ [Next]_vars => [Fifo!Next]_(Fifo!fifoVars)
<1> SUFFICES ASSUME TypeOK, CountersAgree, [Next]_vars
             PROVE  [Fifo!Next]_(Fifo!fifoVars)
  OBVIOUS
<1> DEFINE acc == [x \in Endpoint |-> Messages(sent[x])]
           opn == [x \in Endpoint |-> state[x] = "Established"]
<1>0. Fifo!Endpoint = Endpoint /\ \A x : Fifo!Peer(x) = Peer(x)
  BY DEF Fifo!Endpoint, Endpoint, Fifo!Peer, Peer
<1>1. ASSUME NEW e \in Endpoint, NEW m \in Message, Send(e, m)
      PROVE Fifo!Send(e, m)
  <2>1. PICK F \in Frame : F = SealedFrame(e, m)
    BY SealedFrameType
  <2>2. F.msg = m /\ sent' = [sent EXCEPT ![e] = Append(@, F)]
    BY <1>1, <2>1 DEF Send, SealedFrame
  <2>3. sent[e] \in Seq(Frame) /\ sent'[e] = Append(sent[e], F)
    BY <2>2 DEF TypeOK
  <2>4. Messages(sent'[e]) = Append(Messages(sent[e]), m)
    BY <2>2, <2>3, MessagesAppend
  <2>5. acc' = [acc EXCEPT ![e] = Append(@, m)]
    <3>1. \A x \in Endpoint : x # e => sent'[x] = sent[x]
      BY <2>2 DEF TypeOK
    <3> QED
      BY <2>4, <3>1
  <2>6. opn[e] /\ delivered' = delivered
    BY <1>1 DEF Send, CanSequence
  <2>7. opn' \in {opn, [opn EXCEPT ![e] = FALSE]}
    <3>1. CASE m = Close
      <4>1. state' = [state EXCEPT ![e] = "Closing"]
        BY <1>1, <3>1 DEF Send
      <4> QED
        BY <4>1 DEF TypeOK
    <3>2. CASE m # Close
      BY <1>1, <3>2 DEF Send
    <3> QED
      BY <3>1, <3>2
  <2> QED
    BY <2>5, <2>6, <2>7 DEF Fifo!Send
<1>2. ASSUME NEW e \in Endpoint, NEW f \in wire, Receive(e, f)
      PROVE Fifo!Receive(e)
  <2>1. /\ f \in Frame /\ recvSeq[e] = Len(delivered[e]) /\ recvSeq[e] \in Nat
        /\ Peer(e) \in Endpoint /\ Len(sent[Peer(e)]) \in Nat
    <3>1. Peer(e) \in Endpoint
      BY PeerFacts
    <3>2. f \in Frame /\ recvSeq[e] \in 0..CounterMax /\ sent[Peer(e)] \in Seq(Frame)
      BY <3>1 DEF TypeOK
    <3>3. recvSeq[e] = Len(delivered[e])
      BY DEF CountersAgree, ReceivedInv
    <3> QED
      BY <3>1, <3>2, <3>3, BoundAssumption
  <2>2. /\ recvSeq[e] < Len(sent[Peer(e)])
        /\ f = sent[Peer(e)][recvSeq[e] + 1]
    BY <1>2 DEF CountersAgree, WireInv, Receive, Decrypts, ReceiveKey, InSequence
  <2>3. /\ Len(Messages(sent[Peer(e)])) = Len(sent[Peer(e)])
        /\ Messages(sent[Peer(e)])[recvSeq[e] + 1] = f.msg
    BY <2>1, <2>2 DEF Messages
  <2>4. acc' = acc /\ opn[e]
    BY <1>2 DEF Receive
  <2>5. delivered' = [delivered EXCEPT ![e] = Append(@, f.msg)]
    BY <1>2 DEF Receive
  <2>6. opn' \in {opn, [opn EXCEPT ![e] = FALSE]}
    <3>1. CASE f.msg = Close
      <4>1. state' = [state EXCEPT ![e] = "Closing"]
        BY <1>2, <3>1 DEF Receive
      <4> QED
        BY <4>1 DEF TypeOK
    <3>2. CASE f.msg # Close
      BY <1>2, <3>2 DEF Receive
    <3> QED
      BY <3>1, <3>2
  <2>7. /\ acc[Peer(e)] = Messages(sent[Peer(e)])
    BY <2>1
  <2> QED
    BY <1>0, <2>1, <2>2, <2>3, <2>4, <2>5, <2>6, <2>7 DEF Fifo!Receive
<1>3. ASSUME NEW e \in Endpoint, CloseChannel(e) \/ MarkRemoteClosed(e)
      PROVE Fifo!Stop(e)
  <2>1. state' = [state EXCEPT ![e] = "Closed"] /\ sent' = sent /\ delivered' = delivered
    BY <1>3 DEF CloseChannel, MarkRemoteClosed, history
  <2>2. opn' = [opn EXCEPT ![e] = FALSE]
    BY <2>1 DEF TypeOK
  <2> QED
    BY <2>1, <2>2 DEF Fifo!Stop
<1>4. ASSUME \/ \E e \in Endpoint : \/ \E m \in Message : SendRefused(e, m)
                                  \/ SendUnsealed(e) \/ TakePending(e)
             \/ \E f \in wire : Lose(f)
             \/ UNCHANGED vars
      PROVE UNCHANGED Fifo!fifoVars
  BY <1>4 DEF SendRefused, SendUnsealed, TakePending, Lose, vars, channelVars,
              sessionVars, history, Fifo!fifoVars
<1> QED
  BY <1>0, <1>1, <1>2, <1>3, <1>4 DEF Next, Fifo!Next

\* The two ends of a session, over any carrier, are a FIFO channel.
THEOREM ChannelImplementsFifo == Spec => ImplementsFifo
<1>1. Init => Fifo!Init
  <2> SUFFICES ASSUME Init PROVE Fifo!Init
    OBVIOUS
  <2>1. Fifo!Endpoint = Endpoint
    BY DEF Fifo!Endpoint, Endpoint
  <2>2. [e \in Endpoint |-> Messages(sent[e])] = [e \in Endpoint |-> <<>>]
    <3>1. ASSUME NEW e \in Endpoint PROVE Messages(sent[e]) = <<>>
      BY DEF Init, Messages
    <3> QED
      BY <3>1
  <2>3. [e \in Endpoint |-> state[e] = "Established"] = [e \in Endpoint |-> TRUE]
    BY DEF Init
  <2> QED
    BY <2>1, <2>2, <2>3 DEF Init, Fifo!Init
<1> QED
  BY <1>1, FifoStep, TypeCorrect, CountersAlwaysAgree, PTL
  DEF Spec, ImplementsFifo, Fifo!Spec

-----------------------------------------------------------------------------
\* While no frame is lost, a receiver that is behind has a frame to take: the one
\* that is next in sequence is there, and neither of the two counter checks nor
\* the session refuses it.
ReceiverIsReady ==
  \A e \in Endpoint :
    NothingLost /\ state[e] = "Established" /\ Len(delivered[e]) < Len(sent[Peer(e)]) =>
      \E f \in wire : InSequence(e, f) /\ Decrypts(e, f) /\ recvSeq[e] < CounterMax

\* However many sends were refused or failed, receive never waits for a frame the
\* peer will not send: the safety half of EventuallyDelivered (channel.rs receive).
THEOREM ReceiverNeverStuck == Spec => []ReceiverIsReady
<1>1. TypeOK /\ CountersAgree /\ NextFrameDecrypts => ReceiverIsReady
  <2> SUFFICES ASSUME TypeOK, CountersAgree, NextFrameDecrypts, NEW e \in Endpoint,
                      NothingLost, state[e] = "Established",
                      Len(delivered[e]) < Len(sent[Peer(e)])
               PROVE  \E f \in wire : InSequence(e, f) /\ Decrypts(e, f) /\ recvSeq[e] < CounterMax
    BY DEF ReceiverIsReady
  <2> DEFINE n == recvSeq[e]
             f == sent[Peer(e)][n + 1]
  <2>1. /\ n \in Nat /\ n = Len(delivered[e]) /\ Peer(e) \in Endpoint
        /\ Len(sent[Peer(e)]) \in Nat
    BY BoundAssumption, PeerFacts DEF TypeOK, CountersAgree, ReceivedInv
  <2>2. n + 1 \in 1 .. Len(sent[Peer(e)])
    BY <2>1
  <2> HIDE DEF n
  <2>3. f \in wire
    BY <2>1, <2>2 DEF NothingLost
  <2>4. f.key = Peer(e) /\ f.seq = n
    <3>1. f.key = Peer(e) /\ f.seq = (n + 1) - 1
      BY <2>1, <2>2 DEF CountersAgree, SentInv
    <3> QED
      BY <2>1, <3>1
  <2>5. session[e] = "Established"
    BY DEF CountersAgree, SentInv
  <2>6. n < CounterMax
    <3>1. Len(sent[Peer(e)]) <= sendSeq[Peer(e)]
      BY <2>1 DEF CountersAgree, SentInv
    <3>2. sendSeq[Peer(e)] \in 0 .. CounterMax
      BY <2>1 DEF TypeOK
    <3> QED
      BY <2>1, <2>2, <3>1, <3>2, BoundAssumption
  <2> HIDE DEF f
  <2>7. InSequence(e, f)
    BY <2>4 DEF InSequence, n
  <2>8. Decrypts(e, f)
    BY <2>3, <2>4, <2>5, <2>7 DEF NextFrameDecrypts, Decrypts, ReceiveKey
  <2> QED
    BY <2>3, <2>6, <2>7, <2>8 DEF n
<1> QED
  BY <1>1, TypeCorrect, CountersAlwaysAgree, NextFrameAlwaysDecrypts, PTL

\* pending_outbound keeps the newest accepted frames in their order, and no more
\* than maximum_pending_messages of them.
QueueHoldsNewest ==
  \A e \in Endpoint :
    /\ Len(pending[e]) <= MaxPending /\ Len(pending[e]) <= Len(sent[e])
    /\ \A i \in 1 .. Len(pending[e]) : pending[e][i] = sent[e][Len(sent[e]) - Len(pending[e]) + i]

LEMMA SendQueues ==
  ASSUME TypeOK, QueueHoldsNewest, NEW e \in Endpoint, NEW m \in Message, Send(e, m)
  PROVE  QueueHoldsNewest'
<1> PICK F : F = SealedFrame(e, m)
  OBVIOUS
<1> DEFINE p == pending[e]
           s == sent[e]
<1>1. F \in Frame /\ p \in Seq(Frame) /\ s \in Seq(Frame)
  BY SealedFrameType DEF TypeOK
<1>2. /\ pending' = [pending EXCEPT ![e] = Append(p, F)]
      /\ sent' = [sent EXCEPT ![e] = Append(s, F)] /\ Len(p) < MaxPending
  BY DEF Send, HasRoom
<1>3. pending'[e] = Append(p, F) /\ sent'[e] = Append(s, F)
  BY <1>2 DEF TypeOK
<1>4. \A d \in Endpoint : d # e => pending'[d] = pending[d] /\ sent'[d] = sent[d]
  BY <1>2 DEF TypeOK
<1>5. /\ Len(p) <= Len(s)
      /\ \A i \in 1 .. Len(p) : p[i] = s[Len(s) - Len(p) + i]
  BY DEF QueueHoldsNewest
<1> HIDE DEF p, s
<1>6. /\ Len(p) \in Nat /\ Len(s) \in Nat
      /\ Len(pending'[e]) = Len(p) + 1 /\ Len(sent'[e]) = Len(s) + 1
      /\ \A i \in 1 .. Len(p) : pending'[e][i] = p[i]
      /\ \A i \in 1 .. Len(s) : sent'[e][i] = s[i]
      /\ pending'[e][Len(p) + 1] = F /\ sent'[e][Len(s) + 1] = F
  BY <1>1, <1>3, AppendFacts
<1>7. Len(pending'[e]) <= MaxPending /\ Len(pending'[e]) <= Len(sent'[e])
  BY <1>2, <1>5, <1>6, BoundAssumption
<1>8. ASSUME NEW i \in 1 .. Len(pending'[e])
      PROVE  pending'[e][i] = sent'[e][Len(sent'[e]) - Len(pending'[e]) + i]
  <2>1. Len(sent'[e]) - Len(pending'[e]) + i = Len(s) - Len(p) + i /\ i \in 1 .. Len(p) + 1
    BY <1>6
  <2>2. CASE i \in 1 .. Len(p)
    <3>1. Len(s) - Len(p) + i \in 1 .. Len(s)
      BY <1>5, <1>6, <2>2
    <3> QED
      BY <1>5, <1>6, <2>1, <2>2, <3>1
  <2>3. CASE i = Len(p) + 1
    <3>1. Len(s) - Len(p) + i = Len(s) + 1
      BY <1>6, <2>3
    <3> QED
      BY <1>6, <2>1, <2>3, <3>1
  <2> QED
    BY <1>6, <2>1, <2>2, <2>3
<1>9. ASSUME NEW d \in Endpoint
      PROVE  /\ Len(pending'[d]) <= MaxPending /\ Len(pending'[d]) <= Len(sent'[d])
             /\ \A i \in 1 .. Len(pending'[d]) :
                  pending'[d][i] = sent'[d][Len(sent'[d]) - Len(pending'[d]) + i]
  <2>1. CASE d = e
    BY <1>7, <1>8, <2>1
  <2>2. CASE d # e
    <3>1. pending'[d] = pending[d] /\ sent'[d] = sent[d]
      BY <1>4, <2>2
    <3>2. /\ Len(pending[d]) <= MaxPending /\ Len(pending[d]) <= Len(sent[d])
          /\ \A i \in 1 .. Len(pending[d]) : pending[d][i] = sent[d][Len(sent[d]) - Len(pending[d]) + i]
      BY DEF QueueHoldsNewest
    <3> QED
      BY <3>1, <3>2, Zenon
  <2> QED
    BY <2>1, <2>2
<1> QED
  BY <1>9 DEF QueueHoldsNewest

LEMMA TakeKeepsQueue ==
  ASSUME TypeOK, QueueHoldsNewest, NEW e \in Endpoint, TakePending(e)
  PROVE  QueueHoldsNewest'
<1> DEFINE p == pending[e]
           s == sent[e]
<1>1. p \in Seq(Frame) /\ s \in Seq(Frame) /\ p # <<>> /\ sent' = sent
  BY DEF TypeOK, TakePending, history
<1>2. pending' = [pending EXCEPT ![e] = Tail(p)]
  BY DEF TakePending
<1>3. pending'[e] = Tail(p) /\ \A d \in Endpoint : d # e => pending'[d] = pending[d]
  BY <1>2 DEF TypeOK
<1>4. /\ Len(p) <= MaxPending /\ Len(p) <= Len(s)
      /\ \A i \in 1 .. Len(p) : p[i] = s[Len(s) - Len(p) + i]
  BY DEF QueueHoldsNewest
<1> HIDE DEF p
<1>5. /\ Len(p) \in Nat \ {0} /\ Len(s) \in Nat /\ Len(Tail(p)) = Len(p) - 1
      /\ \A i \in 1 .. Len(p) - 1 : Tail(p)[i] = p[i + 1]
  BY <1>1
<1>6. Len(pending'[e]) <= MaxPending /\ Len(pending'[e]) <= Len(s)
  BY <1>3, <1>4, <1>5, BoundAssumption
<1>7. ASSUME NEW i \in 1 .. Len(pending'[e])
      PROVE  pending'[e][i] = s[Len(s) - Len(pending'[e]) + i]
  <2>1. /\ i \in 1 .. Len(p) - 1 /\ i + 1 \in 1 .. Len(p)
        /\ Len(s) - Len(pending'[e]) + i = Len(s) - Len(p) + (i + 1)
    <3>1. Len(pending'[e]) = Len(p) - 1 /\ Len(p) \in Nat /\ Len(s) \in Nat
      BY <1>3, <1>5
    <3> HIDE DEF s
    <3> QED
      BY <3>1
  <2>2. pending'[e][i] = p[i + 1]
    BY <1>3, <1>5, <2>1
  <2>3. p[i + 1] = s[Len(s) - Len(p) + (i + 1)]
    <3> HIDE DEF s
    <3> QED
      BY <1>4, <2>1
  <2>4. Len(s) - Len(pending'[e]) + i = Len(s) - Len(p) + (i + 1)
    BY <2>1
  <2> HIDE DEF s
  <2> QED
    BY <2>2, <2>3, <2>4, Zenon
<1>8. ASSUME NEW d \in Endpoint
      PROVE  /\ Len(pending'[d]) <= MaxPending /\ Len(pending'[d]) <= Len(sent'[d])
             /\ \A i \in 1 .. Len(pending'[d]) :
                  pending'[d][i] = sent'[d][Len(sent'[d]) - Len(pending'[d]) + i]
  <2>1. CASE d = e
    BY <1>1, <1>6, <1>7, <2>1
  <2>2. CASE d # e
    <3>1. pending'[d] = pending[d] /\ sent'[d] = sent[d]
      BY <1>1, <1>3, <2>2
    <3>2. /\ Len(pending[d]) <= MaxPending /\ Len(pending[d]) <= Len(sent[d])
          /\ \A i \in 1 .. Len(pending[d]) : pending[d][i] = sent[d][Len(sent[d]) - Len(pending[d]) + i]
      BY DEF QueueHoldsNewest
    <3> QED
      BY <3>1, <3>2, Zenon
  <2> QED
    BY <2>1, <2>2
<1> QED
  BY <1>8 DEF QueueHoldsNewest

\* Whoever drains the queue is given the frames of a channel in the order of
\* their sequence numbers, and a full queue refuses instead of growing or
\* dropping (channel.rs send, take_pending).
THEOREM QueueIsInOrder == Spec => []QueueHoldsNewest
<1>1. Init => QueueHoldsNewest
  BY BoundAssumption DEF Init, QueueHoldsNewest
<1>2. TypeOK /\ QueueHoldsNewest /\ [Next]_vars => QueueHoldsNewest'
  <2> SUFFICES ASSUME TypeOK, QueueHoldsNewest, [Next]_vars PROVE QueueHoldsNewest'
    OBVIOUS
  <2>1. ASSUME UNCHANGED <<pending, sent>> PROVE QueueHoldsNewest'
    BY <2>1 DEF QueueHoldsNewest
  <2>2. CASE \/ \E e \in Endpoint : \/ \E m \in Message : SendRefused(e, m)
                                  \/ SendUnsealed(e) \/ CloseChannel(e) \/ MarkRemoteClosed(e)
                                  \/ \E f \in wire : Receive(e, f)
             \/ \E f \in wire : Lose(f)
             \/ UNCHANGED vars
    BY <2>1, <2>2 DEF SendRefused, SendUnsealed, CloseChannel, MarkRemoteClosed, Receive, Lose,
                      vars, channelVars, history
  <2> QED
    BY <2>2, SendQueues, TakeKeepsQueue DEF Next
<1> QED
  BY <1>1, <1>2, TypeCorrect, PTL DEF Spec
=============================================================================
