------------------------- MODULE IdempotentRequests -------------------------
(***************************************************************************)
(* The idempotency interceptor, for one user, route, Idempotency-Key and   *)
(* body: any number of deliveries of the same request, the record and the  *)
(* lock they share in Redis, and the handler behind them.                  *)
(*                                                                         *)
(* A Redis command is one step, and so is the transaction of the handler.  *)
(* The 24 hours a record lives are longer than any behaviour modelled; the *)
(* 120 seconds of the lock may pass between any two steps.                 *)
(*                                                                         *)
(* The handler is one that refuses to run a second time: submit, reject,   *)
(* reimburse, and approve at the last stage, which check the status of the *)
(* expense on the locked row.                                              *)
(***************************************************************************)
EXTENDS Integers

CONSTANTS
    Requests,   \* deliveries of the request, the retries of the client included
    MaxPolls,   \* attempts of waitForRecord
    MaxFaults,  \* bound: calls that fail
    MaxCrashes  \* bound: crashes of an API process

ASSUME RequestParametersAssumption ==
    MaxPolls \in Nat \ {0} /\ MaxFaults \in Nat /\ MaxCrashes \in Nat

VARIABLES
    record,     \* a completed answer is stored
    lock,       \* the lock key exists
    done,       \* the handler's effect, a change of status, has happened
    pc, polls,  \* where each request is, and how often it has polled
    answer,     \* what the client was, or is about to be, told
    late,       \* requests sent after the client was told of a success
    expired,    \* the lock key has expired at least once
    faults, crashes

redisVars == <<record, lock, expired>>
boundVars == <<faults, crashes>>
requestVars == <<redisVars, done, pc, polls, answer, late, boundVars>>

Answers == {"none", "success", "replay", "refused", "in_progress", "error", "lost"}
Places == {"new", "sent", "missed", "waiting", "running", "saving", "releasing", "answered"}
InFlight == Places \ {"new", "answered"}

RequestTypeOK ==
    /\ record \in BOOLEAN /\ lock \in BOOLEAN /\ done \in BOOLEAN /\ expired \in BOOLEAN
    /\ pc \in [Requests -> Places]
    /\ polls \in [Requests -> 0..(MaxPolls - 1)]
    /\ answer \in [Requests -> Answers]
    /\ late \subseteq Requests
    /\ faults \in 0..MaxFaults
    /\ crashes \in 0..MaxCrashes

RequestInit ==
    /\ record = FALSE /\ lock = FALSE /\ done = FALSE /\ expired = FALSE
    /\ pc = [r \in Requests |-> "new"]
    /\ polls = [r \in Requests |-> 0]
    /\ answer = [r \in Requests |-> "none"]
    /\ late = {}
    /\ faults = 0 /\ crashes = 0

Goto(r, place) == pc' = [pc EXCEPT ![r] = place]

Answer(r, a) == Goto(r, "answered") /\ answer' = [answer EXCEPT ![r] = a]

Fault ==
    /\ faults < MaxFaults
    /\ faults' = faults + 1
    /\ UNCHANGED crashes

-----------------------------------------------------------------------------
ToldOfSuccess ==
    \E r \in Requests : pc[r] = "answered" /\ answer[r] \in {"success", "replay"}

\* The client sends the request, for the first time or again.
Send(r) ==
    /\ pc[r] = "new"
    /\ Goto(r, "sent")
    /\ late' = IF ToldOfSuccess THEN late \cup {r} ELSE late
    /\ UNCHANGED <<redisVars, done, polls, answer, boundVars>>

\* get
LookUp(r) ==
    /\ pc[r] = "sent"
    /\ IF record THEN Answer(r, "replay") ELSE Goto(r, "missed") /\ UNCHANGED answer
    /\ UNCHANGED <<redisVars, done, polls, late, boundVars>>

\* The answer of SET NX is not looked at.
LockFreeIgnored(r) == TRUE

LockFree(r) == ~lock

\* A request that finds the lock taken tries again until it is free.
AfterBusyLockSpinning == "missed"

AfterBusyLock == "waiting"

\* acquireLock; the record is not looked up again.
AcquireLock(r) ==
    /\ pc[r] = "missed"
    /\ Goto(r, IF LockFree(r) THEN "running" ELSE AfterBusyLock)
    /\ lock' = TRUE
    /\ UNCHANGED <<record, expired, done, polls, answer, late, boundVars>>

\* One attempt too many.
PollsLeftOffByOne(r) == polls[r] < MaxPolls

PollsLeft(r) == polls[r] + 1 < MaxPolls

\* One round of waitForRecord.
Poll(r) ==
    /\ pc[r] = "waiting"
    /\ \/ record /\ Answer(r, "replay") /\ UNCHANGED polls
       \/ /\ ~record /\ PollsLeft(r)
          /\ polls' = [polls EXCEPT ![r] = @ + 1]
          /\ UNCHANGED <<pc, answer>>
       \/ ~record /\ ~PollsLeft(r) /\ Answer(r, "in_progress") /\ UNCHANGED polls
    /\ UNCHANGED <<redisVars, done, late, boundVars>>

\* A call fails before the lock is taken, or its answer is lost: the lock may
\* have been taken all the same, and a client that sends the SET again is told
\* that it is taken.
EarlyCallFails(r) ==
    /\ pc[r] \in {"sent", "missed", "waiting"}
    /\ Fault
    /\ \/ Answer(r, "error") /\ UNCHANGED lock
       \/ pc[r] = "missed" /\ ~lock /\ lock' = TRUE /\ Answer(r, "error")
       \/ pc[r] = "missed" /\ ~lock /\ lock' = TRUE /\ Goto(r, "waiting") /\ UNCHANGED answer
    /\ UNCHANGED <<record, expired, done, polls, late>>

-----------------------------------------------------------------------------
(* The handler, save and releaseLock.                                      *)

\* What happens when the handler or save throws.
ReleaseWith(r, a) ==
    /\ Goto(r, "releasing")
    /\ answer' = [answer EXCEPT ![r] = a]

\* The status of the row is not looked at again under the lock.
StatusRefusesNever == FALSE

\* A changed status refuses the handler.
StatusRefuses == done

\* The transaction of the handler: the status is checked on the locked row.
RunHandler(r) ==
    /\ pc[r] = "running"
    /\ IF StatusRefuses
       THEN ReleaseWith(r, "refused") /\ UNCHANGED done
       ELSE done' = TRUE /\ Goto(r, "saving") /\ UNCHANGED answer
    /\ UNCHANGED <<redisVars, polls, late, boundVars>>

\* The transaction fails, or its COMMIT is done but not confirmed.
HandlerFails(r) ==
    /\ pc[r] = "running"
    /\ Fault
    /\ ReleaseWith(r, "error")
    /\ UNCHANGED done \/ done' = TRUE
    /\ UNCHANGED <<redisVars, polls, late>>

Save(r) ==
    /\ pc[r] = "saving"
    /\ record' = TRUE
    /\ ReleaseWith(r, "success")
    /\ UNCHANGED <<lock, expired, done, polls, late, boundVars>>

\* A failing save is swallowed.
AnswerWithoutRecordSwallowed == "success"

\* A failing save fails the request, though the handler has run.
AnswerWithoutRecord == "error"

SaveFails(r) ==
    /\ pc[r] = "saving"
    /\ Fault
    /\ ReleaseWith(r, AnswerWithoutRecord)
    /\ UNCHANGED record \/ record' = TRUE
    /\ UNCHANGED <<lock, expired, done, polls, late>>

\* finally: the lock key is deleted, whoever holds it by now.
ReleaseLock(r) ==
    /\ pc[r] = "releasing"
    /\ lock' = FALSE
    /\ Goto(r, "answered")
    /\ UNCHANGED <<record, expired, done, polls, answer, late, boundVars>>

ReleaseFails(r) ==
    /\ pc[r] = "releasing"
    /\ Fault
    /\ UNCHANGED lock \/ lock' = FALSE
    /\ Answer(r, "error")
    /\ UNCHANGED <<record, expired, done, polls, late>>

-----------------------------------------------------------------------------
ExpireLock ==
    /\ lock
    /\ lock' = FALSE
    /\ expired' = TRUE
    /\ UNCHANGED <<record, done, pc, polls, answer, late, boundVars>>

\* An API process dies with any of the requests in flight.
Crash ==
    /\ crashes < MaxCrashes
    /\ crashes' = crashes + 1
    /\ \E R \in SUBSET {r \in Requests : pc[r] \in InFlight} :
        /\ pc' = [r \in Requests |-> IF r \in R THEN "answered" ELSE pc[r]]
        /\ answer' = [r \in Requests |-> IF r \in R THEN "lost" ELSE answer[r]]
    /\ UNCHANGED <<redisVars, done, polls, late, faults>>

Intercept(r) ==
    \/ LookUp(r) \/ AcquireLock(r) \/ Poll(r) \/ EarlyCallFails(r)
    \/ RunHandler(r) \/ HandlerFails(r) \/ Save(r) \/ SaveFails(r)
    \/ ReleaseLock(r) \/ ReleaseFails(r)

RequestNext ==
    \/ \E r \in Requests : Send(r) \/ Intercept(r)
    \/ ExpireLock
    \/ Crash

RequestSpec == RequestInit /\ [][RequestNext]_requestVars

\* The event loop runs every request that is in flight.
FairRequestSpec == RequestSpec /\ \A r \in Requests : WF_requestVars(Intercept(r))

-----------------------------------------------------------------------------
\* While no lock has expired, the handler never runs for two deliveries of the
\* request at once, in spite of failing calls, crashes and a lock that is
\* deleted by whoever finishes.
NoOverlap ==
    \A r, s \in Requests :
        pc[r] \in {"running", "saving"} /\ pc[s] \in {"running", "saving"} /\ r # s
            => expired

\* A request the client repeats after it was told of a success never reaches the
\* handler: it is answered from the record, even when locks expired, other
\* deliveries ran the handler again or a process died in between.
RetryIsReplayed ==
    \A r \in late :
        /\ pc[r] \notin {"running", "saving"}
        /\ answer[r] \notin {"success", "refused"}

\* What the client sees of a delivery.
Seen(place, told) ==
    CASE place = "new" -> "unsent" [] place = "answered" -> told [] OTHER -> "open"

Outcome == [r \in Requests |-> Seen(pc[r], answer[r])]

Register == INSTANCE WriteOnce WITH outcome <- Outcome

\* To its clients the interceptor is a register that is written once: the change of
\* status happens at one moment, through one delivery; at most one of them is told
\* that it made it; and what was told of a success holds for whoever asks later.
IsWrittenOnce == Register!RegisterSpec

\* Every request that is sent is answered: nobody waits for a holder of the lock
\* that failed or died.
EveryRequestIsAnswered ==
    \A r \in Requests : pc[r] = "sent" ~> pc[r] = "answered"
=============================================================================
