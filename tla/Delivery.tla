------------------------------ MODULE Delivery ------------------------------
(***************************************************************************)
(* What CATP promises between senders and collector, with no clock, window *)
(* or key in it: a message may be lost, but it is handed over at most      *)
(* once, as it was sent, for as long as the receiver remembers its sender; *)
(* and no two messages of a sender go by the same position.                *)
(***************************************************************************)
CONSTANT Senders

VARIABLES
    sent,       \* the messages sent, [sender, epoch, offset, kind]
    delivered   \* those handed over and remembered, a function of the occasions

Position(m) == <<m.sender, m.epoch, m.offset>>

Delivered == {delivered[n] : n \in DOMAIN delivered}

Init == sent = {} /\ DOMAIN delivered = {}

Send(m) ==
    /\ \A other \in sent : Position(other) # Position(m)
    /\ sent' = sent \cup {m}
    /\ UNCHANGED delivered

\* On the occasion n.
Deliver(n, m) ==
    /\ m \in sent \ Delivered
    /\ n \notin DOMAIN delivered
    /\ delivered' = [i \in DOMAIN delivered \cup {n} |->
                        IF i = n THEN m ELSE delivered[i]]
    /\ UNCHANGED sent

\* The receiver forgets what it had of the senders S.
Forget(S) ==
    /\ delivered' = [n \in {n \in DOMAIN delivered : delivered[n].sender \notin S} |->
                        delivered[n]]
    /\ UNCHANGED sent

Next ==
    \/ \E m \in sent' \ sent : Send(m)
    \/ \E n \in DOMAIN delivered', m \in sent : Deliver(n, m)
    \/ \E S \in SUBSET Senders : Forget(S)

Spec == Init /\ [][Next]_<<sent, delivered>>
=============================================================================
