----------------------------- MODULE BudgetAlerts -----------------------------
(***************************************************************************)
(* BudgetAlertService: after every commitment the utilisation of a budget  *)
(* is compared with the configured thresholds, and a row of                *)
(* budget_alert_dispatches, unique per budget and threshold, decides who   *)
(* announces a crossing.  Commitment events are handled in parallel.       *)
(***************************************************************************)
EXTENDS Naturals, FiniteSets

CONSTANTS Checks,         \* commitment events whose check may be in flight at once
          Thresholds,     \* getThresholdPercents
          MaxUtilization, \* utilisation is counted in steps between the thresholds
          MaxAlertFaults  \* bound: writes that fail and workers that stop

(* Thresholds can be taken in ascending order. *)
ASSUME ThresholdsAssumption ==
  \A S \in SUBSET Thresholds : S # {} => \E t \in S : \A u \in S : t <= u
ASSUME AlertBoundsAssumption == MaxUtilization \in Nat /\ MaxAlertFaults \in Nat

VARIABLES utilization,    \* committed amount against the limit
          dispatched,     \* thresholds with a row
          check,          \* per event: what it read, and the thresholds it has left
          announced,      \* per threshold: times it was published
          settled,        \* history: thresholds covered by a check that ran to its end
          alertFaults
alertVars == <<utilization, dispatched, check, announced, settled, alertFaults>>

Waiting == [pc |-> "new", left |-> {}, crossed |-> {}]
InitAlerts ==
  /\ utilization = 0 /\ dispatched = {} /\ settled = {} /\ alertFaults = 0
  /\ check = [c \in Checks |-> Waiting]
  /\ announced = [t \in Thresholds |-> 0]

(* Expenses are committed and released; each commitment starts a check. *)
Commit(u) ==
  /\ u # utilization /\ utilization' = u
  /\ UNCHANGED <<dispatched, check, announced, settled, alertFaults>>

BeginCheck(c) ==
  LET crossed == {t \in Thresholds : t <= utilization} IN
  /\ check[c].pc = "new"
  /\ check' = [check EXCEPT ![c] = [pc |-> "find", left |-> crossed, crossed |-> crossed]]
  /\ UNCHANGED <<utilization, dispatched, announced, settled, alertFaults>>

(* The thresholds are taken in ascending order. *)
Turn(c) == CHOOSE t \in check[c].left : \A u \in check[c].left : t <= u
Done(c) == check[c].left \ {Turn(c)}

FindDispatch(c) ==
  /\ check[c].pc = "find" /\ check[c].left # {}
  /\ check' = IF Turn(c) \in dispatched THEN [check EXCEPT ![c].left = Done(c)]
                                        ELSE [check EXCEPT ![c].pc = "save"]
  /\ UNCHANGED <<utilization, dispatched, announced, settled, alertFaults>>

(* The unique row decides between two checks that found none. *)
InsertAcceptsAny(t) == TRUE
InsertAccepts(t) == t \notin dispatched

SaveDispatch(c) ==
  /\ check[c].pc = "save"
  /\ IF InsertAccepts(Turn(c))
       THEN /\ dispatched' = dispatched \cup {Turn(c)}
            /\ check' = [check EXCEPT ![c].pc = "publish"]
       ELSE /\ check' = [check EXCEPT ![c].pc = "failed"]   \* the other thresholds wait for the next check
            /\ UNCHANGED dispatched
  /\ UNCHANGED <<utilization, announced, settled, alertFaults>>

(* One event per recipient, none of them awaited. *)
AfterPublishStops(c) == {}
AfterPublish(c) == Done(c)
Publish(c) ==
  /\ check[c].pc = "publish"
  /\ \/ announced' = [announced EXCEPT ![Turn(c)] = @ + 1] /\ UNCHANGED alertFaults
     \/ alertFaults < MaxAlertFaults /\ alertFaults' = alertFaults + 1 /\ UNCHANGED announced
  /\ check' = [check EXCEPT ![c].pc = "find", ![c].left = AfterPublish(c)]
  /\ UNCHANGED <<utilization, dispatched, settled>>

EndCheck(c) ==
  /\ check[c].pc = "find" /\ check[c].left = {}
  /\ settled' = settled \cup check[c].crossed
  /\ check' = [check EXCEPT ![c] = [Waiting EXCEPT !.pc = "ended"]]
  /\ UNCHANGED <<utilization, dispatched, announced, alertFaults>>

CheckDies(c) ==
  /\ check[c].pc \in {"find", "save", "publish"} /\ alertFaults < MaxAlertFaults
  /\ alertFaults' = alertFaults + 1
  /\ check' = [check EXCEPT ![c].pc = "failed"]
  /\ UNCHANGED <<utilization, dispatched, announced, settled>>

StepAlerts ==
  \/ \E u \in 0..MaxUtilization : Commit(u)
  \/ \E c \in Checks : \/ BeginCheck(c) \/ FindDispatch(c) \/ SaveDispatch(c)
                       \/ Publish(c) \/ EndCheck(c) \/ CheckDies(c)

AlertSpec == InitAlerts /\ [][StepAlerts]_alertVars

(* A threshold of a budget is announced at most once, however many commitments
   cross it at the same time. *)
AnnouncedOnce == \A t \in Thresholds : announced[t] <= 1

(* A check that runs to its end leaves no crossed threshold unannounced, the ones
   it skipped included: another check is announcing them, or a failure lost them. *)
CrossedIsAnnounced ==
  \A t \in settled :
    \/ announced[t] = 1
    \/ \E c \in Checks : check[c].pc = "publish" /\ Turn(c) = t
    \/ alertFaults > 0
=============================================================================
