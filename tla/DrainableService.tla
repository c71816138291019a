-------------------------- MODULE DrainableService --------------------------
(***************************************************************************)
(* What a gracefully stopped service promises its callers, whatever        *)
(* channels, brokers and polling it is made of: work is accepted only      *)
(* while the service is up, and it goes down only once the accepted work   *)
(* has ended.                                                              *)
(***************************************************************************)
CONSTANT Work

VARIABLES state, inflight

vars == <<state, inflight>>

Init == state = "down" /\ inflight = {}

Open == /\ state = "down"
        /\ state' = "up"
        /\ UNCHANGED inflight

Accept(w) == /\ state = "up"
             /\ inflight' = inflight \cup {w}
             /\ UNCHANGED state

Finish(w) == /\ inflight' = inflight \ {w}
             /\ UNCHANGED state

StopAccepting == /\ state = "up"
                 /\ state' = "draining"
                 /\ UNCHANGED inflight

Close == /\ state \in {"up", "draining"}
         /\ inflight = {}
         /\ state' = "down"
         /\ UNCHANGED inflight

Next == \/ Open \/ StopAccepting \/ Close
        \/ \E w \in Work : Accept(w) \/ Finish(w)

Spec == Init /\ [][Next]_vars
=============================================================================
