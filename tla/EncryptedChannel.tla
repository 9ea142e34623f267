-------------------------- MODULE EncryptedChannel --------------------------
(***************************************************************************)
(* The two ends of one secure session: SecureSession (session.rs) under    *)
(* EncryptedChannel (channel.rs), over a carrier that may lose, duplicate  *)
(* and reorder frames.                                                     *)
(*                                                                         *)
(* Two counters travel with a frame.  The session's nonce is consumed by   *)
(* every encryption, including those whose frame is then refused           *)
(* (FrameTooLarge, Backpressure); the channel's sequence number is rolled  *)
(* back on those refusals.  The receiver checks both.                      *)
(***************************************************************************)
EXTENDS Integers, Sequences

CONSTANTS
  Message,      \* channel messages an application may send
  Close,        \* the ChannelMessage::Close among them
  Large,        \* messages whose frame exceeds maximum_frame_size
  MaxPending,   \* maximum_pending_messages
  CounterMax    \* u64::MAX, the last value of both counters

Endpoint == {"initiator", "responder"}

ASSUME MessageAssumption == Close \in Message /\ Large \subseteq Message \ {Close}
ASSUME BoundAssumption == MaxPending \in Nat \ {0} /\ CounterMax \in Nat

VARIABLES
  state,      \* ChannelState of each endpoint
  session,    \* SessionState of each endpoint
  sendSeq,    \* send_sequence
  recvSeq,    \* receive_sequence
  sendNonce,  \* SecureSession::send_nonce
  lastNonce,  \* SecureSession::last_received_nonce, None is -1
  pending,    \* pending_outbound
  wire,       \* frames the carrier may still deliver, any number of times
  sealed,     \* history: every encryption made at an endpoint
  sent,       \* history: the frames send returned
  delivered   \* history: the messages receive returned

channelVars == <<state, sendSeq, recvSeq, pending>>
sessionVars == <<session, sendNonce, lastNonce>>
history == <<sealed, sent, delivered>>
vars == <<channelVars, sessionVars, wire, history>>

Peer(e) == IF e = "initiator" THEN "responder" ELSE "initiator"

\* derive_session splits the key material by role: what one side seals with
\* its send_key only the other side's receive_key opens.  A key is named by
\* the endpoint that sends with it.
ReceiveKey(e) == Peer(e)

None == -1

\* header (sequence number) and ciphertext (nonce, message) under a send key
Frame == [key : Endpoint, seq : Nat, nonce : Nat, msg : Message]

Init ==
  /\ state = [e \in Endpoint |-> "Established"]
  /\ session = [e \in Endpoint |-> "Established"]
  /\ sendSeq = [e \in Endpoint |-> 0]
  /\ recvSeq = [e \in Endpoint |-> 0]
  /\ sendNonce = [e \in Endpoint |-> 0]
  /\ lastNonce = [e \in Endpoint |-> None]
  /\ pending = [e \in Endpoint |-> <<>>]
  /\ wire = {}
  /\ sealed = [e \in Endpoint |-> <<>>]
  /\ sent = [e \in Endpoint |-> <<>>]
  /\ delivered = [e \in Endpoint |-> <<>>]

-----------------------------------------------------------------------------
(* send *)

\* Variant: the counter is incremented without checked_add.
CanSequenceUnchecked(e) == state[e] = "Established" /\ sendSeq[e] <= CounterMax

\* What every path of send shares up to the encryption: the channel is open,
\* and send_sequence can be incremented.
CanSequence(e) == state[e] = "Established" /\ sendSeq[e] < CounterMax

\* Variant: the nonce is taken from the channel's sequence number.
SealedFrameBySequence(e, m) ==
  [key |-> e, seq |-> sendSeq[e], nonce |-> sendSeq[e], msg |-> m]

\* The frame send builds before it knows whether it will be refused.
SealedFrame(e, m) ==
  [key |-> e, seq |-> sendSeq[e], nonce |-> sendNonce[e], msg |-> m]

CanEncrypt(e) == session[e] = "Established" /\ sendNonce[e] < CounterMax

\* SecureSession::encrypt: the nonce is consumed whatever becomes of the frame.
Encrypt(e, m) ==
  /\ CanEncrypt(e)
  /\ sendNonce' = [sendNonce EXCEPT ![e] = @ + 1]
  /\ sealed' = [sealed EXCEPT ![e] = Append(@, SealedFrame(e, m))]

\* No Backpressure.
HasRoom(e) == Len(pending[e]) < MaxPending

\* Variant: Close does not end sending.
SendCloseStaysOpen(e, m) ==
  /\ CanSequence(e)
  /\ Encrypt(e, m)
  /\ m \notin Large
  /\ HasRoom(e)
  /\ sendSeq' = [sendSeq EXCEPT ![e] = @ + 1]
  /\ pending' = [pending EXCEPT ![e] = Append(@, SealedFrame(e, m))]
  /\ sent' = [sent EXCEPT ![e] = Append(@, SealedFrame(e, m))]
  /\ wire' = wire \cup {SealedFrame(e, m)}
  /\ UNCHANGED <<state, recvSeq, session, lastNonce, delivered>>

Send(e, m) ==
  /\ CanSequence(e)
  /\ Encrypt(e, m)
  /\ m \notin Large
  /\ HasRoom(e)
  /\ sendSeq' = [sendSeq EXCEPT ![e] = @ + 1]
  /\ pending' = [pending EXCEPT ![e] = Append(@, SealedFrame(e, m))]
  /\ state' = IF m = Close THEN [state EXCEPT ![e] = "Closing"] ELSE state
  /\ sent' = [sent EXCEPT ![e] = Append(@, SealedFrame(e, m))]
  /\ wire' = wire \cup {SealedFrame(e, m)}
  /\ UNCHANGED <<recvSeq, session, lastNonce, delivered>>

\* FrameTooLarge or Backpressure: send_sequence is restored, the nonce is not.
SendRefused(e, m) ==
  /\ CanSequence(e)
  /\ Encrypt(e, m)
  /\ m \in Large \/ ~HasRoom(e)
  /\ UNCHANGED <<channelVars, session, lastNonce, wire, sent, delivered>>

\* encrypt fails (nonces exhausted, session closed): "?" leaves send with
\* send_sequence already incremented.
SendUnsealed(e) ==
  /\ CanSequence(e)
  /\ ~CanEncrypt(e)
  /\ sendSeq' = [sendSeq EXCEPT ![e] = @ + 1]
  /\ UNCHANGED <<state, recvSeq, pending, sessionVars, wire, history>>

TakePending(e) ==
  /\ pending[e] # <<>>
  /\ pending' = [pending EXCEPT ![e] = Tail(@)]
  /\ UNCHANGED <<state, sendSeq, recvSeq, sessionVars, wire, history>>

-----------------------------------------------------------------------------
(* receive: every refusal returns before anything is assigned *)

\* Variants: gaps are accepted; the first expected number is one.
InSequenceOrLater(e, f) == f.seq >= recvSeq[e]

InSequenceFromOne(e, f) == f.seq = recvSeq[e] + 1

InSequence(e, f) == f.seq = recvSeq[e]

\* SecureSession::decrypt accepts: right key, nonce above the last one.
Decrypts(e, f) ==
  /\ session[e] = "Established"
  /\ f.key = ReceiveKey(e)
  /\ f.nonce > lastNonce[e]

\* Variants: decrypt runs before the sequence check; a closed channel receives.
ReceiveDecryptFirst(e, f) ==
  /\ f \in wire
  /\ state[e] = "Established"
  /\ Decrypts(e, f)
  /\ recvSeq[e] < CounterMax
  /\ lastNonce' = [lastNonce EXCEPT ![e] = f.nonce]
  /\ IF InSequence(e, f)
       THEN /\ recvSeq' = [recvSeq EXCEPT ![e] = @ + 1]
            /\ delivered' = [delivered EXCEPT ![e] = Append(@, f.msg)]
       ELSE UNCHANGED <<recvSeq, delivered>>
  /\ UNCHANGED <<state, sendSeq, pending, session, sendNonce, wire, sealed, sent>>

ReceiveWhenClosed(e, f) ==
  /\ f \in wire
  /\ InSequence(e, f)
  /\ Decrypts(e, f)
  /\ lastNonce' = [lastNonce EXCEPT ![e] = f.nonce]
  /\ recvSeq' = [recvSeq EXCEPT ![e] = @ + 1]
  /\ delivered' = [delivered EXCEPT ![e] = Append(@, f.msg)]
  /\ UNCHANGED <<state, sendSeq, pending, session, sendNonce, wire, sealed, sent>>

Receive(e, f) ==
  /\ f \in wire
  /\ state[e] = "Established"
  /\ InSequence(e, f)
  /\ Decrypts(e, f)
  /\ recvSeq[e] < CounterMax
  /\ lastNonce' = [lastNonce EXCEPT ![e] = f.nonce]
  /\ recvSeq' = [recvSeq EXCEPT ![e] = @ + 1]
  /\ state' = IF f.msg = Close THEN [state EXCEPT ![e] = "Closing"] ELSE state
  /\ delivered' = [delivered EXCEPT ![e] = Append(@, f.msg)]
  /\ UNCHANGED <<sendSeq, pending, session, sendNonce, wire, sealed, sent>>

-----------------------------------------------------------------------------
(* closing, and the carrier *)

\* close(): the channel is Closed before session.close() is tried.
CloseChannel(e) ==
  /\ state[e] \in {"Established", "Closing"}
  /\ state' = [state EXCEPT ![e] = "Closed"]
  /\ session' = [session EXCEPT ![e] = "Closed"]
  /\ UNCHANGED <<sendSeq, recvSeq, pending, sendNonce, lastNonce, wire, history>>

MarkRemoteClosed(e) ==
  /\ state' = [state EXCEPT ![e] = "Closed"]
  /\ UNCHANGED <<sendSeq, recvSeq, pending, sessionVars, wire, history>>

\* Each frame travels in a request or response of its own; one that fails is
\* dropped by translate_event and never sent again.
Lose(f) ==
  /\ wire' = wire \ {f}
  /\ UNCHANGED <<channelVars, sessionVars, history>>

Next ==
  \/ \E e \in Endpoint :
       \/ \E m \in Message : Send(e, m) \/ SendRefused(e, m)
       \/ SendUnsealed(e)
       \/ TakePending(e)
       \/ \E f \in wire : Receive(e, f)
       \/ CloseChannel(e)
       \/ MarkRemoteClosed(e)
  \/ \E f \in wire : Lose(f)

Spec == Init /\ [][Next]_vars

\* A carrier that keeps a frame delivers it: the swarm is polled for ever and
\* receive is called on every frame that arrives.
Fairness ==
  \A e \in Endpoint : WF_vars(\E f \in wire : Receive(e, f))

FairSpec == Spec /\ Fairness

-----------------------------------------------------------------------------
(* Properties *)

\* Type invariant: the values the fields of both endpoints range over.
TypeOK ==
  /\ state \in [Endpoint -> {"Established", "Closing", "Closed"}]
  /\ session \in [Endpoint -> {"Established", "Closed"}]
  /\ sendSeq \in [Endpoint -> 0..CounterMax]
  /\ recvSeq \in [Endpoint -> 0..CounterMax]
  /\ sendNonce \in [Endpoint -> 0..CounterMax]
  /\ lastNonce \in [Endpoint -> Int]
  /\ pending \in [Endpoint -> Seq(Frame)]
  /\ wire \subseteq Frame
  /\ sealed \in [Endpoint -> Seq(Frame)]
  /\ sent \in [Endpoint -> Seq(Frame)]
  /\ delivered \in [Endpoint -> Seq(Message)]

\* No key ever encrypts twice under one nonce, although send reuses the
\* sequence number of every frame it refused after encrypting it
\* (channel.rs send, session.rs encrypt).
NonceNeverReused ==
  \A e \in Endpoint : \A i, j \in 1..Len(sealed[e]) :
     sealed[e][i].nonce = sealed[e][j].nonce => i = j

\* What receive hands over is, in order and without repetition, what the
\* peer's send accepted, whatever the carrier does (channel.rs receive).
InOrderDelivery ==
  \A e \in Endpoint :
     /\ Len(delivered[e]) <= Len(sent[Peer(e)])
     /\ \A i \in 1..Len(delivered[e]) : delivered[e][i] = sent[Peer(e)][i].msg

\* The two counters never disagree: a frame of the peer that is next in
\* sequence is never refused by the session's nonce check, however many
\* nonces were burned by refused sends (decrypt at session.rs:476).
NextFrameDecrypts ==
  \A e \in Endpoint : \A f \in wire :
     (f.key = Peer(e) /\ InSequence(e, f)) => f.nonce > lastNonce[e]

\* A receiver that has seen Close has seen everything: no message of the peer
\* is behind it (send and receive leave Established with Close).
CloseIsLast ==
  \A e \in Endpoint :
     (\E i \in 1..Len(delivered[e]) : delivered[e][i] = Close)
        => Len(delivered[e]) = Len(sent[Peer(e)])

\* The inductive strengthening behind the invariants above.
SealedInv ==
  \A e \in Endpoint :
     /\ Len(sealed[e]) = sendNonce[e]
     /\ \A i \in 1..Len(sealed[e]) : sealed[e][i].nonce = i - 1

SentInv ==
  \A e \in Endpoint :
     /\ state[e] = "Established" => session[e] = "Established"
     /\ Len(sent[e]) <= sendSeq[e]
     /\ CanSequence(e) /\ CanEncrypt(e) => Len(sent[e]) = sendSeq[e]
     /\ \A i \in 1..Len(sent[e]) :
          /\ sent[e][i].key = e
          /\ sent[e][i].seq = i - 1
          /\ sent[e][i].nonce < sendNonce[e]
          /\ \A j \in 1..Len(sent[e]) : i < j => sent[e][i].nonce < sent[e][j].nonce
          /\ sent[e][i].msg = Close => i = Len(sent[e]) /\ state[e] # "Established"

WireInv ==
  \A f \in wire : f.seq < Len(sent[f.key]) /\ f = sent[f.key][f.seq + 1]

ReceivedInv ==
  \A e \in Endpoint :
     /\ recvSeq[e] = Len(delivered[e])
     /\ lastNonce[e] = IF recvSeq[e] = 0 THEN None
                       ELSE sent[Peer(e)][recvSeq[e]].nonce

\* A frame on the wire is the frame its sequence number names, its nonce
\* grows with that number, and the receiver's two counters stand at the last
\* frame it took (send, encrypt, receive and decrypt together).
CountersAgree ==
  SealedInv /\ SentInv /\ WireInv /\ InOrderDelivery /\ ReceivedInv

\* The messages of a log of frames.
Messages(s) == [i \in 1..Len(s) |-> s[i].msg]

\* The pair implements the FIFO channel of module FifoChannel.
Fifo == INSTANCE FifoChannel WITH
  accepted <- [e \in Endpoint |-> Messages(sent[e])],
  received <- delivered,
  open <- [e \in Endpoint |-> state[e] = "Established"]

\* send and receive, seen through sent and delivered, are the sends and
\* receives of a FIFO channel (channel.rs over session.rs).
ImplementsFifo == Fifo!Spec

\* The carrier still has every frame that was sent.
NothingLost == \A e \in Endpoint : \A i \in 1..Len(sent[e]) : sent[e][i] \in wire

\* Over a carrier that loses no frame, however it reorders them, what one
\* side's send accepted the other side receives, unless it stops receiving
\* first (channel.rs receive).
EventuallyDelivered ==
  []NothingLost =>
    \A e \in Endpoint : \A n \in 1..CounterMax :
       (Len(sent[Peer(e)]) >= n)
          ~> (Len(delivered[e]) >= n \/ state[e] # "Established")
=============================================================================
