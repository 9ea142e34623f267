---------------------------- MODULE FifoChannel ----------------------------
(***************************************************************************)
(* What an established pair of encrypted channels promises its users,      *)
(* independent of keys, nonces, sequence numbers and of the carrier: in    *)
(* each direction the messages handed to the application are, in order,    *)
(* the messages the other side's send accepted, each at most once; and an  *)
(* endpoint that has stopped neither sends nor receives again.             *)
(***************************************************************************)
EXTENDS Naturals, Sequences

CONSTANT Message      \* the messages an application can send

VARIABLES
  accepted,   \* accepted[e]: messages whose send at e succeeded, in order
  received,   \* received[e]: messages handed to the application at e
  open        \* open[e]: e has neither closed nor seen a close

fifoVars == <<accepted, received, open>>

Endpoint == {"initiator", "responder"}

Peer(e) == IF e = "initiator" THEN "responder" ELSE "initiator"

Init ==
  /\ accepted = [e \in Endpoint |-> <<>>]
  /\ received = [e \in Endpoint |-> <<>>]
  /\ open = [e \in Endpoint |-> TRUE]

\* e sends m; sending may be the last thing e does (a close message).
Send(e, m) ==
  /\ open[e]
  /\ accepted' = [accepted EXCEPT ![e] = Append(@, m)]
  /\ open' \in {open, [open EXCEPT ![e] = FALSE]}
  /\ UNCHANGED received

\* e is handed the next message of its peer; it may stop on it.
Receive(e) ==
  /\ open[e]
  /\ Len(received[e]) < Len(accepted[Peer(e)])
  /\ received' = [received EXCEPT
       ![e] = Append(@, accepted[Peer(e)][Len(received[e]) + 1])]
  /\ open' \in {open, [open EXCEPT ![e] = FALSE]}
  /\ UNCHANGED accepted

Stop(e) ==
  /\ open' = [open EXCEPT ![e] = FALSE]
  /\ UNCHANGED <<accepted, received>>

Next ==
  \E e \in Endpoint :
     \/ \E m \in Message : Send(e, m)
     \/ Receive(e)
     \/ Stop(e)

Spec == Init /\ [][Next]_fifoVars
=============================================================================
