-------------------------- MODULE HeartbeatChannel --------------------------
(***************************************************************************)
(* What sending a heartbeat promises, whatever the driver polls and the    *)
(* chip does on its own: the sketch hands over one heartbeat at a time and *)
(* gets one answer for it.  A heartbeat may be accepted, once, until it is *)
(* answered; up to Capacity accepted ones are under way, and each of them  *)
(* is delivered once, in any order.  The answer is true when it is given:  *)
(* delivered, refused, or accepted with the outcome unknown.               *)
(***************************************************************************)
EXTENDS Naturals, FiniteSets, Sequences

CONSTANT Capacity   (* a number of heartbeats, at least one                *)

VARIABLES sent,     (* the number of the heartbeat handed over last        *)
          answers,  (* answers[n]: the answer for heartbeat n              *)
          underWay, (* the heartbeats accepted and not delivered           *)
          heard     (* the heartbeats delivered, in the order of delivery  *)

vars == <<sent, answers, underWay, heard>>

Delivered == {heard[i] : i \in DOMAIN heard}

(* The heartbeat handed over last has no answer yet.                       *)
Open == Len(answers) < sent

Init == /\ sent = 0
        /\ answers = <<>>
        /\ underWay = {}
        /\ heard = <<>>

HandOver == /\ ~Open
            /\ sent' = sent + 1
            /\ UNCHANGED <<answers, underWay, heard>>

Accept == /\ Open
          /\ sent \notin underWay \cup Delivered
          /\ Cardinality(underWay) < Capacity
          /\ underWay' = underWay \cup {sent}
          /\ UNCHANGED <<sent, answers, heard>>

Deliver(n) == /\ n \in underWay
              /\ underWay' = underWay \ {n}
              /\ heard' = Append(heard, n)
              /\ UNCHANGED <<sent, answers>>

Answer(code) == /\ Open
                /\ answers' = Append(answers, code)
                /\ UNCHANGED <<sent, underWay, heard>>

Truthful == \/ sent \in Delivered /\ Answer("CAN_OK")
            \/ sent \in underWay \cup Delivered /\ Answer("CAN_SENDMSGTIMEOUT")
            \/ sent \notin underWay \cup Delivered /\ Answer("CAN_GETTXBFTIMEOUT")

Next == HandOver \/ Accept \/ Truthful \/ \E n \in underWay : Deliver(n)

Spec == Init /\ [][Next]_vars
=============================================================================
