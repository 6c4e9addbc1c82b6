------------------------------ MODULE MCEvents ------------------------------
(* Events for TLC: one node, four handlers of one topic.  The third and the   *)
(* fourth share an array, where append works in place; the factory of the     *)
(* second refuses the event.  pubsub may deliver the event twice, and once a  *)
(* message that is no eventMsg.                                               *)
EXTENDS Events

CONSTANTS n1, t1, e1, f1

OneNode == [h \in Handler |-> n1]
OneTopic == [h \in Handler |-> t1]
OneEventTopic == [e \in Event |-> t1]
Refused == {<<e1, 2>>}
Twice == [e \in Event |-> IF e = e1 THEN 2 ELSE 1]
=============================================================================
