------------------------ MODULE AtLeastOnceDelivery ------------------------
(***************************************************************************)
(* What the transactional outbox promises (ADR-AIEOS-025): an event that a *)
(* business transaction recorded is reported PUBLISHED only once the       *)
(* expected JetStream stream holds it, an event that is not published may  *)
(* only be given up by quarantine, and neither outcome is ever revised.    *)
(* How often the stream holds an event is left open.  Claims, leases,      *)
(* retries, lost replies and crashes are absent: they are how              *)
(* OutboxDispatch keeps the promise.                                       *)
(***************************************************************************)
CONSTANTS Msgs          \* the events

VARIABLES outcome,      \* outcome[m]: what the outbox says of event m
          stored        \* the events the expected stream holds

Outcomes == {"absent", "pending", "published", "quarantined"}

Init == /\ outcome = [m \in Msgs |-> "absent"]
        /\ stored = {}

\* A business transaction commits, and its event with it.
Record(m) == /\ outcome[m] = "absent"
             /\ outcome' = [outcome EXCEPT ![m] = "pending"]
             /\ UNCHANGED stored

\* The stream takes the event, whatever the outbox knows of it by then.
Store(m) == /\ outcome[m] # "absent"
            /\ m \notin stored
            /\ stored' = stored \cup {m}
            /\ UNCHANGED outcome

Publish(m) == /\ outcome[m] = "pending"
              /\ m \in stored
              /\ outcome' = [outcome EXCEPT ![m] = "published"]
              /\ UNCHANGED stored

Quarantine(m) == /\ outcome[m] = "pending"
                 /\ outcome' = [outcome EXCEPT ![m] = "quarantined"]
                 /\ UNCHANGED stored

Next == \E m \in Msgs : Record(m) \/ Store(m) \/ Publish(m) \/ Quarantine(m)

Spec == Init /\ [][Next]_<<outcome, stored>>
============================================================================
