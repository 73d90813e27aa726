------------------------------ MODULE UdpStream ------------------------------
(***************************************************************************)
(* What one interconnect connection promises its two users, the executor   *)
(* of the sending slice (SendTupleChunk, SendEOS) and the executor of the  *)
(* receiving slice (RecvTupleFrom, SendStopMessage): an in-order stream of *)
(* packets that ends, that the receiver may cut short, and whose sender    *)
(* returns from SendEOS only when the other side has taken charge of       *)
(* everything or wants no more.                                            *)
(*                                                                         *)
(* `accepted' counts the packets the receiving side holds responsibility   *)
(* for; the executor gets them in order.  A stop discards those it did not *)
(* take.                                                                   *)
(***************************************************************************)
EXTENDS Naturals, Sequences

VARIABLES sent, ended, accepted, delivered, stopped, sender

vars == <<sent, ended, accepted, delivered, stopped, sender>>

Init ==
    /\ sent = 0
    /\ ended = FALSE
    /\ accepted = 0
    /\ delivered = << >>
    /\ stopped = FALSE
    /\ sender = "open"

(* The sender gives the connection one more packet, possibly its last. *)
Put ==
    /\ sender = "open"
    /\ ~ended
    /\ sent' = sent + 1
    /\ ended' \in BOOLEAN
    /\ UNCHANGED <<accepted, delivered, stopped, sender>>

Accept ==
    /\ ~stopped
    /\ accepted' \in (accepted + 1) .. sent
    /\ UNCHANGED <<sent, ended, delivered, stopped, sender>>

Deliver ==
    /\ ~stopped
    /\ Len(delivered) < accepted
    /\ delivered' = Append(delivered, Len(delivered) + 1)
    /\ UNCHANGED <<sent, ended, accepted, stopped, sender>>

Stop ==
    /\ ~stopped
    /\ stopped' = TRUE
    /\ accepted' = Len(delivered)
    /\ UNCHANGED <<sent, ended, delivered, sender>>

(* The sender is through: everything it sent, its last packet included,    *)
(* was accepted.                                                           *)
Finish ==
    /\ sender = "open"
    /\ ended
    /\ accepted = sent
    /\ sender' = "finished"
    /\ UNCHANGED <<sent, ended, accepted, delivered, stopped>>

(* The sender is through because the receiver stopped; it may have closed  *)
(* its stream with a packet nobody waits for.                              *)
FinishStopped ==
    /\ sender = "open"
    /\ stopped
    /\ sender' = "finished"
    /\ \/ UNCHANGED <<sent, ended>>
       \/ ~ended /\ sent' = sent + 1 /\ ended' = TRUE
    /\ UNCHANGED <<accepted, delivered, stopped>>

Fail ==
    /\ sender = "open"
    /\ sender' = "failed"
    /\ UNCHANGED <<sent, ended, accepted, delivered, stopped>>

Next ==
    Put \/ Accept \/ Deliver \/ Stop \/ Finish \/ FinishStopped \/ Fail

Spec == Init /\ [][Next]_vars
=============================================================================
