----------------------------- MODULE RateLimiter -----------------------------
(***************************************************************************)
(* The sliding window of RateLimitGuard.  A request passes the window of   *)
(* its address, then the one of its endpoint if that has one.  The instant *)
(* is read in the process and the script runs in Redis later, so another   *)
(* request, of a later instant, may be evaluated first.  A key is a sorted *)
(* set of instants, deleted when its time to live ends.                    *)
(***************************************************************************)
EXTENDS Integers, FiniteSets

CONSTANTS Clients,          \* requests of one client that may be under way
          RateWindow,       \* length of the window
          RateLimits,       \* [Keys -> Nat]
          FailClosed,       \* [Keys -> BOOLEAN]
          MaxRateInstant    \* bound on the clock

VARIABLES rateClock,
          entries,          \* key -> instants in its sorted set
          expiry,           \* key -> instant its set is deleted
          asking,           \* client -> [key, at]: the request being limited
          admissions        \* [key, at]: requests let through within their instant
rateVars == <<rateClock, entries, expiry, asking, admissions>>

Keys == {"global", "endpoint"}
Instants == 0..MaxRateInstant

ASSUME RateParametersAssumption ==
  /\ RateWindow \in Nat /\ MaxRateInstant \in Nat
  /\ RateLimits \in [Keys -> Nat] /\ FailClosed \in [Keys -> BOOLEAN]

Nobody == [key |-> "none", at |-> 0]

InitLimiter ==
  /\ rateClock = 0
  /\ entries = [k \in Keys |-> {}]
  /\ expiry = [k \in Keys |-> 0]
  /\ asking = [c \in Clients |-> Nobody]
  /\ admissions = {}

(* Date.now() before the script is sent. *)
AskGlobal(c) ==
  /\ asking[c] = Nobody
  /\ asking' = [asking EXCEPT ![c] = [key |-> "global", at |-> rateClock]]
  /\ UNCHANGED <<rateClock, entries, expiry, admissions>>

(* Past one window: the endpoint's next, or the handler. *)
Proceed(c, key) ==
  IF key = "global"
  THEN \E next \in {Nobody, [key |-> "endpoint", at |-> rateClock]} :
         asking' = [asking EXCEPT ![c] = next]
  ELSE asking' = [asking EXCEPT ![c] = Nobody]

Admit(key, at) ==
  admissions' = IF at = rateClock THEN admissions \cup {[key |-> key, at |-> at]} ELSE admissions

BelowOrAtLimit(count, key) == count <= RateLimits[key]
BelowLimit(count, key) == count < RateLimits[key]

Stored(key) == IF expiry[key] <= rateClock THEN {} ELSE entries[key]
InWindow(key, at) == {i \in Stored(key) : i > at - RateWindow}

(* sliding-window.lua, which Redis runs alone; an instant already in the set is
   not added a second time. *)
EvaluateWindow(c) ==
  LET key == asking[c].key
      at == asking[c].at
      kept == InWindow(key, at)
  IN /\ key # "none"
     /\ IF BelowLimit(Cardinality(kept), key)
        THEN /\ entries' = [entries EXCEPT ![key] = kept \cup {at}]
             /\ expiry' = [expiry EXCEPT ![key] = rateClock + RateWindow]
             /\ Admit(key, at) /\ Proceed(c, key)
        ELSE /\ entries' = [entries EXCEPT ![key] = kept]
             /\ asking' = [asking EXCEPT ![c] = Nobody]
             /\ UNCHANGED <<expiry, admissions>>
     /\ UNCHANGED rateClock

PassesOnFailure(key) == TRUE
PassesWithoutRedis(key) == ~FailClosed[key]

(* Redis does not answer. *)
WindowUnavailable(c) ==
  LET key == asking[c].key
  IN /\ key # "none"
     /\ IF PassesWithoutRedis(key)
        THEN (IF FailClosed[key] THEN Admit(key, asking[c].at) ELSE UNCHANGED admissions)
             /\ Proceed(c, key)
        ELSE asking' = [asking EXCEPT ![c] = Nobody] /\ UNCHANGED admissions
     /\ UNCHANGED <<rateClock, entries, expiry>>

RateTick ==
  /\ rateClock < MaxRateInstant /\ rateClock' = rateClock + 1
  /\ UNCHANGED <<entries, expiry, asking, admissions>>

StepLimiter ==
  \/ RateTick
  \/ \E c \in Clients : AskGlobal(c) \/ EvaluateWindow(c) \/ WindowUnavailable(c)

LimiterSpec == InitLimiter /\ [][StepLimiter]_rateVars

(* Whatever order the scripts of overlapping requests run in, and although an
   admission renews the life of the whole set, no window of any key admits
   requests at more instants than its limit, those that Redis evaluates within
   their own instant; for a key that fails closed this counts the requests let
   through while Redis is away too. *)
WindowIsLimited ==
  \A key \in Keys, end \in Instants :
    Cardinality({a \in admissions : a.key = key /\ end - RateWindow < a.at /\ a.at <= end})
      <= RateLimits[key]
=============================================================================
