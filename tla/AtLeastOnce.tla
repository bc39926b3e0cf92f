----------------------------- MODULE AtLeastOnce -----------------------------
(***************************************************************************)
(* What the outbox promises the writers of its events: an event is handed  *)
(* to its consumer before it counts as delivered, and once it counts as    *)
(* delivered it stays so.  A consumer may see an event more than once.     *)
(***************************************************************************)
CONSTANT Events

VARIABLES
  posted,     \* events whose transaction has committed
  accepted,   \* events the consumer has seen, once or more
  delivered   \* events marked DELIVERED

Init == posted = {} /\ accepted = {} /\ delivered = {}

Post(e) == posted' = posted \cup {e} /\ UNCHANGED <<accepted, delivered>>

Accept(e) ==
  /\ e \in posted
  /\ accepted' = accepted \cup {e}
  /\ UNCHANGED <<posted, delivered>>

Acknowledge(e) ==
  /\ e \in accepted
  /\ delivered' = delivered \cup {e}
  /\ UNCHANGED <<posted, accepted>>

Next == \E e \in Events : Post(e) \/ Accept(e) \/ Acknowledge(e)

Spec == Init /\ [][Next]_<<posted, accepted, delivered>>
=============================================================================
