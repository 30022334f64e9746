--------------------------- MODULE EventDelivery ---------------------------
(***************************************************************************)
(* What the outbox promises its users: every handler of an appended event  *)
(* takes effect before the event is processed, or was abandoned by a crash *)
(* of the worker or a failing Redis call; a handler that is a single write *)
(* takes effect at most once; and a processed event is left alone.         *)
(***************************************************************************)
EXTENDS Integers

CONSTANTS
    Events,         \* ids of outbox_events rows
    HandlerNames,
    HandlersOf,     \* the handlers registered for each event
    SingleWrite     \* handlers whose effect is one write: all of it or nothing

VARIABLES
    appended, processed,    \* events
    effects,                \* how often each handler of an event took effect
    abandoned               \* <<event, handler>> that will not be tried again

deliveryVars == <<appended, processed, effects, abandoned>>

DeliveryInit ==
    /\ appended = {}
    /\ processed = {}
    /\ effects = [e \in Events |-> [h \in HandlerNames |-> 0]]
    /\ abandoned = {}

AppendEvent(e) ==
    /\ appended' = appended \cup {e}
    /\ UNCHANGED <<processed, effects, abandoned>>

Handle(e, h) ==
    /\ e \in appended \ processed
    /\ h \in SingleWrite => effects[e][h] = 0
    /\ effects' = [effects EXCEPT ![e][h] = @ + 1]
    /\ abandoned' \in {abandoned, abandoned \cup {<<e, h>>}}
    /\ UNCHANGED <<appended, processed>>

\* Any number of handlers of unprocessed events are given up.
Abandon ==
    /\ abandoned \subseteq abandoned'
    /\ abandoned' \subseteq abandoned \cup ((appended \ processed) \X HandlerNames)
    /\ UNCHANGED <<appended, processed, effects>>

Finish(e) ==
    /\ e \in appended
    /\ \A h \in HandlersOf[e] : effects[e][h] > 0 \/ <<e, h>> \in abandoned
    /\ processed' = processed \cup {e}
    /\ UNCHANGED <<appended, effects, abandoned>>

DeliveryNext ==
    \/ \E e \in Events :
        \/ AppendEvent(e)
        \/ Finish(e)
        \/ \E h \in HandlersOf[e] : Handle(e, h)
    \/ Abandon

DeliverySpec == DeliveryInit /\ [][DeliveryNext]_deliveryVars
=============================================================================
