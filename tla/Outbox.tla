------------------------------- MODULE Outbox -------------------------------
(***************************************************************************)
(* The transactional outbox: rows appended by the business transactions, a *)
(* relay that claims them in batches and enqueues one BullMQ job each, the *)
(* domain-event worker that runs the handlers of a job under a Redis key   *)
(* per handler, and the reconciliation of rows that got stuck.             *)
(*                                                                         *)
(* A database statement, a Redis command and a queue command is one step;  *)
(* what relays and workers remember between two of them is state.  Time is *)
(* left out: five minutes may pass between any two steps, so a dispatched  *)
(* row may become reclaimable at any moment.                               *)
(***************************************************************************)
EXTENDS Integers, FiniteSets

CONSTANTS
    Events,         \* ids of outbox_events rows, natural numbers
    HandlerNames, HandlersOf, SingleWrite,  \* as in EventDelivery
    Relays,         \* relay jobs that may run at once, one for each worker process
    BatchLimit,     \* claimPendingBatch(limit)
    MaxAttempts,    \* DOMAIN_EVENT_MAX_ATTEMPTS
    MaxFaults,      \* bound: calls that fail
    MaxCrashes      \* bound: crashes of a worker process

ASSUME OutboxParametersAssumption ==
    /\ Events \subseteq Nat
    /\ HandlersOf \in [Events -> SUBSET HandlerNames]
    /\ SingleWrite \subseteq HandlerNames
    /\ BatchLimit \in Nat \ {0}
    /\ MaxAttempts \in Nat \ {0}
    /\ MaxFaults \in Nat
    /\ MaxCrashes \in Nat

VARIABLES
    appended, dispatched, processed,    \* outbox_events and its timestamps
    batch,      \* claimed rows a relay has still to enqueue
    step,       \* where the relay is with the first of them
    job,        \* state of the job domain-event-{id}
    attempts,   \* job.attemptsMade
    stalled,    \* jobs that have stalled once
    notices,    \* exhausted jobs whose onFailed has not run yet
    run,        \* runOnce of each handler in the active execution of a job
    keys,       \* domain-handler:{type}:{name}:{id} keys in Redis
    effects,    \* how often each handler took effect
    abandoned,  \* handlers whose key a crash or a failing Redis call left behind
    faults, crashes

rowVars == <<appended, dispatched, processed>>
relayVars == <<batch, step>>
jobVars == <<job, attempts, stalled, notices>>
handlerVars == <<run, keys, effects, abandoned>>
faultVars == <<faults, crashes>>
outboxVars == <<rowVars, relayVars, jobVars, handlerVars, faultVars>>

JobStates == {"none", "waiting", "active", "completed", "failed"}
RunStates == {"idle", "running", "ok", "failed"}
Steps == {"inspect", "remove", "add"}
NotRun == [h \in HandlerNames |-> "idle"]

OutboxTypeOK ==
    /\ appended \subseteq Events
    /\ dispatched \subseteq appended
    /\ processed \subseteq appended
    /\ batch \in [Relays -> SUBSET appended]
    /\ step \in [Relays -> Steps]
    /\ job \in [Events -> JobStates]
    /\ attempts \in [Events -> 0..MaxAttempts]
    /\ stalled \subseteq Events
    /\ notices \subseteq Events
    /\ run \in [Events -> [HandlerNames -> RunStates]]
    /\ keys \subseteq Events \X HandlerNames
    /\ effects \in [Events -> [HandlerNames -> Nat]]
    /\ abandoned \subseteq Events \X HandlerNames
    /\ faults \in 0..MaxFaults
    /\ crashes \in 0..MaxCrashes

OutboxInit ==
    /\ appended = {} /\ dispatched = {} /\ processed = {}
    /\ batch = [r \in Relays |-> {}]
    /\ step = [r \in Relays |-> "inspect"]
    /\ job = [e \in Events |-> "none"]
    /\ attempts = [e \in Events |-> 0]
    /\ stalled = {}
    /\ notices = {}
    /\ run = [e \in Events |-> NotRun]
    /\ keys = {}
    /\ effects = [e \in Events |-> [h \in HandlerNames |-> 0]]
    /\ abandoned = {}
    /\ faults = 0 /\ crashes = 0

\* A call fails; the model lets MaxFaults of them do so.
Fault ==
    /\ faults < MaxFaults
    /\ faults' = faults + 1
    /\ UNCHANGED crashes

-----------------------------------------------------------------------------
(* The rows.                                                               *)

\* The transaction that appended the row commits.
Append(e) ==
    /\ e \notin appended
    /\ appended' = appended \cup {e}
    /\ UNCHANGED <<dispatched, processed, relayVars, jobVars, handlerVars, faultVars>>

\* A relay that sees rows whose transaction has not committed.
PendingUncommitted == Events \ (dispatched \cup processed)

Pending == appended \ (dispatched \cup processed)

\* ORDER BY id LIMIT
FirstOf(S) == {e \in S : Cardinality({d \in S : d <= e}) <= BatchLimit}

\* claimPendingBatch, one transaction with FOR UPDATE SKIP LOCKED.
ClaimPendingBatch(r) ==
    /\ batch[r] = {}
    /\ Pending # {}
    /\ batch' = [batch EXCEPT ![r] = FirstOf(Pending)]
    /\ dispatched' = dispatched \cup FirstOf(Pending)
    /\ UNCHANGED <<appended, processed, step, jobVars, handlerVars, faultVars>>

\* No dispatched row is ever taken back.
StuckNever(e) == FALSE

Stuck(e) == e \in dispatched \ processed

\* reclaimStuckDispatched, for one of the rows it updates.
ReclaimStuckDispatched(e) ==
    /\ Stuck(e)
    /\ dispatched' = dispatched \ {e}
    /\ UNCHANGED <<appended, processed, relayVars, jobVars, handlerVars, faultVars>>

-----------------------------------------------------------------------------
(* The relay: enqueueDomainEvent for each claimed row, in order of ids.    *)

InFlight == {"waiting", "active"}
Finished == {"completed", "failed"}

IsHead(r, e) == e \in batch[r] /\ \A d \in batch[r] : e <= d

NextOfBatch(r, e) ==
    /\ batch' = [batch EXCEPT ![r] = @ \ {e}]
    /\ step' = [step EXCEPT ![r] = "inspect"]

\* getJob and getState.
InspectJob(r, e) ==
    /\ IsHead(r, e) /\ step[r] = "inspect"
    /\ \/ job[e] \in InFlight /\ NextOfBatch(r, e)
       \/ /\ job[e] \notin InFlight
          /\ step' = [step EXCEPT ![r] = IF job[e] = "none" THEN "add" ELSE "remove"]
          /\ UNCHANGED batch
    /\ UNCHANGED <<rowVars, jobVars, handlerVars, faultVars>>

\* existing.remove(), whatever became of the job since it was inspected; the
\* removal of an active job is refused.
RemoveJob(r, e) ==
    /\ IsHead(r, e) /\ step[r] = "remove"
    /\ job[e] # "active"
    /\ job' = [job EXCEPT ![e] = "none"]
    /\ step' = [step EXCEPT ![r] = "add"]
    /\ UNCHANGED <<rowVars, batch, attempts, stalled, notices, handlerVars, faultVars>>

\* domainEventQueue.add; an id the queue knows is left as it is.
AddJob(r, e) ==
    /\ IsHead(r, e) /\ step[r] = "add"
    /\ IF job[e] = "none"
       THEN /\ job' = [job EXCEPT ![e] = "waiting"]
            /\ attempts' = [attempts EXCEPT ![e] = 0]
            /\ stalled' = stalled \ {e}
       ELSE UNCHANGED <<job, attempts, stalled>>
    /\ NextOfBatch(r, e)
    /\ UNCHANGED <<rowVars, notices, handlerVars, faultVars>>

\* A call of enqueueDomainEvent throws: the row is cleared and the relay job
\* ends, leaving the rest of its batch marked as dispatched.
EnqueueFails(r, e) ==
    /\ IsHead(r, e)
    /\ \/ step[r] = "remove" /\ job[e] = "active" /\ UNCHANGED faultVars
       \/ Fault
    /\ dispatched' = dispatched \ {e}
    /\ batch' = [batch EXCEPT ![r] = {}]
    /\ step' = [step EXCEPT ![r] = "inspect"]
    /\ UNCHANGED <<appended, processed, jobVars, handlerVars>>

-----------------------------------------------------------------------------
(* The worker: dispatch, then markProcessed.                               *)

StartJob(e) ==
    /\ job[e] = "waiting"
    /\ job' = [job EXCEPT ![e] = "active"]
    /\ run' = [run EXCEPT ![e] = NotRun]
    /\ UNCHANGED <<rowVars, relayVars, attempts, stalled, notices, keys, effects,
                   abandoned, faultVars>>

\* The answer of SET NX is ignored.
KeyTakenIgnored(e, h) == FALSE

\* setIfNotExists finds the key.
KeyTaken(e, h) == <<e, h>> \in keys

\* runOnce takes the key of the handler, or skips the handler.
BeginHandler(e, h) ==
    /\ job[e] = "active" /\ run[e][h] = "idle"
    /\ run' = [run EXCEPT ![e][h] = IF KeyTaken(e, h) THEN "ok" ELSE "running"]
    /\ keys' = keys \cup {<<e, h>>}
    /\ UNCHANGED <<rowVars, relayVars, jobVars, effects, abandoned, faultVars>>

HandlerSucceeds(e, h) ==
    /\ job[e] = "active" /\ run[e][h] = "running"
    /\ run' = [run EXCEPT ![e][h] = "ok"]
    /\ effects' = [effects EXCEPT ![e][h] = @ + 1]
    /\ UNCHANGED <<rowVars, relayVars, jobVars, keys, abandoned, faultVars>>

\* The SET of runOnce fails.  It may have taken the key all the same; the client
\* that sends it again after a lost reply is then told that the key is taken.
TakingKeyFails(e, h) ==
    /\ job[e] = "active" /\ run[e][h] = "idle"
    /\ Fault
    /\ \/ /\ run' = [run EXCEPT ![e][h] = "failed"]
          /\ UNCHANGED <<keys, abandoned>>
       \/ /\ ~KeyTaken(e, h)
          /\ \E outcome \in {"failed", "ok"} : run' = [run EXCEPT ![e][h] = outcome]
          /\ keys' = keys \cup {<<e, h>>}
          /\ abandoned' = abandoned \cup {<<e, h>>}
    /\ UNCHANGED <<rowVars, relayVars, jobVars, effects>>

\* The handler throws and runOnce deletes its key, or fails to.  Unless the
\* handler is a single write, some of its effect may have happened.
HandlerFails(e, h) ==
    /\ job[e] = "active" /\ run[e][h] = "running"
    /\ Fault
    /\ run' = [run EXCEPT ![e][h] = "failed"]
    /\ \/ keys' = keys \ {<<e, h>>} /\ UNCHANGED abandoned
       \/ abandoned' = abandoned \cup {<<e, h>>} /\ UNCHANGED keys
    /\ \/ UNCHANGED effects
       \/ /\ h \notin SingleWrite
          /\ effects' = [effects EXCEPT ![e][h] = @ + 1]
    /\ UNCHANGED <<rowVars, relayVars, jobVars>>

AllSucceeded(e) == \A h \in HandlersOf[e] : run[e][h] = "ok"

\* Promise.allSettled, and a handler was rejected.
SomeRejected(e) ==
    /\ \A h \in HandlersOf[e] : run[e][h] \in {"ok", "failed"}
    /\ \E h \in HandlersOf[e] : run[e][h] = "failed"

MarkProcessed(e) ==
    /\ job[e] = "active" /\ AllSucceeded(e)
    /\ e \notin processed
    /\ processed' = processed \cup {e}
    /\ UNCHANGED <<appended, dispatched, relayVars, jobVars, handlerVars, faultVars>>

CompleteJob(e) ==
    /\ job[e] = "active" /\ AllSucceeded(e)
    /\ e \in processed
    /\ job' = [job EXCEPT ![e] = "completed"]
    /\ UNCHANGED <<rowVars, relayVars, attempts, stalled, notices, handlerVars, faultVars>>

Exhausted(e) == attempts[e] + 1 >= MaxAttempts

\* dispatch or markProcessed throws: the job waits for its next attempt, or has
\* used its last one.
FailJob(e) ==
    /\ job[e] = "active"
    /\ \/ SomeRejected(e) /\ UNCHANGED faultVars
       \/ AllSucceeded(e) /\ Fault
    /\ attempts' = [attempts EXCEPT ![e] = @ + 1]
    /\ job' = [job EXCEPT ![e] = IF Exhausted(e) THEN "failed" ELSE "waiting"]
    /\ notices' = IF Exhausted(e) THEN notices \cup {e} ELSE notices
    /\ UNCHANGED <<rowVars, relayVars, stalled, handlerVars>>

\* onFailed of an exhausted job.
OnFailed(e) ==
    /\ e \in notices
    /\ notices' = notices \ {e}
    /\ dispatched' = dispatched \ {e}
    /\ UNCHANGED <<appended, processed, relayVars, job, attempts, stalled,
                   handlerVars, faultVars>>

\* removeOnComplete and removeOnFail: the queue forgets old jobs.
ForgetJob(e) ==
    /\ job[e] \in Finished
    /\ job' = [job EXCEPT ![e] = "none"]
    /\ UNCHANGED <<rowVars, relayVars, attempts, stalled, notices, handlerVars, faultVars>>

-----------------------------------------------------------------------------
(* A worker process dies, with any of the relay jobs, domain-event jobs    *)
(* and onFailed callbacks that were running in it.  BullMQ gives a job     *)
(* that stalled back to the queue once, and fails it the second time.      *)
Crash ==
    /\ crashes < MaxCrashes
    /\ crashes' = crashes + 1
    /\ \E R \in SUBSET Relays, J \in SUBSET {e \in Events : job[e] = "active"},
          N \in SUBSET notices :
        /\ batch' = [r \in Relays |-> IF r \in R THEN {} ELSE batch[r]]
        /\ step' = [r \in Relays |-> IF r \in R THEN "inspect" ELSE step[r]]
        /\ notices' = notices \ N
        /\ job' = [e \in Events |->
               IF e \notin J THEN job[e] ELSE IF e \in stalled THEN "failed" ELSE "waiting"]
        /\ stalled' = stalled \cup J
        /\ abandoned' = abandoned \cup
               {x \in J \X HandlerNames : run[x[1]][x[2]] = "running"}
    /\ UNCHANGED <<rowVars, attempts, run, keys, effects, faults>>

-----------------------------------------------------------------------------
Relay(r) ==
    \/ ClaimPendingBatch(r)
    \/ \E e \in Events : InspectJob(r, e) \/ RemoveJob(r, e) \/ AddJob(r, e) \/ EnqueueFails(r, e)

Run(e) ==
    \/ StartJob(e) \/ MarkProcessed(e) \/ CompleteJob(e) \/ FailJob(e)
    \/ \E h \in HandlersOf[e] :
        \/ BeginHandler(e, h) \/ TakingKeyFails(e, h)
        \/ HandlerSucceeds(e, h) \/ HandlerFails(e, h)

OutboxNext ==
    \/ \E e \in Events : Append(e) \/ ReclaimStuckDispatched(e) \/ Run(e) \/ OnFailed(e) \/ ForgetJob(e)
    \/ \E r \in Relays : Relay(r)
    \/ Crash

OutboxSpec == OutboxInit /\ [][OutboxNext]_outboxVars

\* The poll job runs every two seconds and the reconcile job every minute, the
\* queue hands waiting jobs to a live worker, and handlers return.
OutboxFairness ==
    /\ \A r \in Relays : WF_outboxVars(Relay(r))
    /\ \A e \in Events :
        /\ WF_outboxVars(Run(e))
        /\ WF_outboxVars(ReclaimStuckDispatched(e))

FairOutboxSpec == OutboxSpec /\ OutboxFairness

-----------------------------------------------------------------------------
\* The outbox delivers what EventDelivery promises through failing calls,
\* retries, racing relays, re-created jobs and crashes: no event is processed
\* with a handler that neither took effect nor was abandoned, and a single-write
\* handler never takes effect twice.
Delivery == INSTANCE EventDelivery

ImplementsDelivery == Delivery!DeliverySpec

\* An appended event is processed in the end, whatever fails on the way: rows
\* dropped by a relay or a crash are reclaimed and exhausted jobs re-created.
EveryEventIsProcessed ==
    \A e \in Events : e \in appended ~> e \in processed
=============================================================================
