---------------------------- MODULE OutboxProofs ----------------------------
(***************************************************************************)
(* The outbox implements its delivery promise, for any number of events,   *)
(* handlers, relays, failing calls and crashes.                            *)
(***************************************************************************)
EXTENDS Outbox, TLAPS

\* A key of Redis stands for an effect, for a handler that was abandoned, or for
\* a handler that is running now.
KeysAreAccounted ==
    \A e \in Events, h \in HandlerNames :
        <<e, h>> \in keys =>
            \/ effects[e][h] > 0
            \/ <<e, h>> \in abandoned
            \/ job[e] = "active" /\ run[e][h] = "running"

\* A handler that is running, or has run, in an active job holds its key; while
\* it runs, a single write has not happened.
RunsHoldKeys ==
    \A e \in Events, h \in HandlerNames :
        job[e] = "active" /\ run[e][h] \in {"running", "ok"} => <<e, h>> \in keys

SingleWritesHoldKeys ==
    \A e \in Events, h \in SingleWrite :
        effects[e][h] > 0 =>
            /\ <<e, h>> \in keys
            /\ ~(job[e] = "active" /\ run[e][h] = "running")

\* Nothing runs for a processed event any more, and all its keys are taken.
ProcessedIsQuiet ==
    \A e \in processed : \A h \in HandlersOf[e] :
        /\ <<e, h>> \in keys
        /\ ~(job[e] = "active" /\ run[e][h] = "running")

\* Handlers that are not registered for an event never run.
OnlyRegisteredRun ==
    \A e \in Events : \A h \in HandlerNames \ HandlersOf[e] :
        job[e] = "active" => run[e][h] = "idle"

JobsAreOfAppended ==
    \A e \in Events : job[e] # "none" => e \in appended

\* A job that is still to run has an attempt left.
AttemptsLeft ==
    \A e \in Events : job[e] \in InFlight => attempts[e] < MaxAttempts

KeyInv ==
    /\ OnlyRegisteredRun
    /\ RunsHoldKeys
    /\ KeysAreAccounted
    /\ SingleWritesHoldKeys
    /\ ProcessedIsQuiet

OutboxInv ==
    /\ OutboxTypeOK
    /\ JobsAreOfAppended
    /\ AttemptsLeft
    /\ KeyInv

-----------------------------------------------------------------------------
(* Type correctness.                                                       *)

\* An empty outbox is well typed.
LEMMA OutboxInitType == OutboxInit => OutboxTypeOK
  BY OutboxParametersAssumption DEF OutboxInit, OutboxTypeOK, Steps, JobStates, RunStates, NotRun

\* Queue and relay: each action keeps the rows, batches and jobs well formed.
LEMMA RelayType ==
    ASSUME OutboxTypeOK, JobsAreOfAppended, AttemptsLeft, NEW r \in Relays, Relay(r)
    PROVE  OutboxTypeOK' /\ JobsAreOfAppended' /\ AttemptsLeft'
<1> DEFINE Goal == OutboxTypeOK' /\ JobsAreOfAppended' /\ AttemptsLeft'
<1> USE OutboxParametersAssumption DEF JobsAreOfAppended, AttemptsLeft, InFlight
<1>1. CASE ClaimPendingBatch(r)
  <2>1. FirstOf(Pending) \subseteq appended
    BY DEF FirstOf, Pending
  <2>2. QED
    BY <1>1, <2>1 DEF ClaimPendingBatch, OutboxTypeOK, jobVars, handlerVars, faultVars
<1>2. ASSUME NEW e \in Events, InspectJob(r, e)
      PROVE  Goal
  BY <1>2 DEF InspectJob, NextOfBatch, OutboxTypeOK, Steps, rowVars, jobVars, handlerVars, faultVars
<1>3. ASSUME NEW e \in Events, RemoveJob(r, e)
      PROVE  Goal
  BY <1>3 DEF RemoveJob, OutboxTypeOK, Steps, JobStates, rowVars, handlerVars, faultVars
<1>4. ASSUME NEW e \in Events, AddJob(r, e)
      PROVE  Goal
  <2>1. e \in appended
    BY <1>4 DEF AddJob, IsHead, OutboxTypeOK
  <2>2. /\ job' \in [Events -> JobStates]
        /\ stalled' \subseteq Events
    BY <1>4 DEF AddJob, OutboxTypeOK, JobStates
  <2>3. attempts' \in [Events -> 0..MaxAttempts]
    <3>1. 0 \in 0..MaxAttempts
      OBVIOUS
    <3>2. attempts' = attempts \/ attempts' = [attempts EXCEPT ![e] = 0]
      BY <1>4 DEF AddJob
    <3>3. QED
      BY <3>1, <3>2 DEF OutboxTypeOK
  <2>4. /\ batch' \in [Relays -> SUBSET appended]
        /\ step' \in [Relays -> Steps]
    BY <1>4 DEF AddJob, NextOfBatch, OutboxTypeOK, Steps
  <2>5. UNCHANGED <<rowVars, notices, handlerVars, faultVars>>
    BY <1>4 DEF AddJob
  <2>6. OutboxTypeOK'
    BY <2>2, <2>3, <2>4, <2>5 DEF OutboxTypeOK, rowVars, handlerVars, faultVars
  <2>7. JobsAreOfAppended' /\ AttemptsLeft'
    BY <1>4, <2>1, <2>5 DEF AddJob, OutboxTypeOK, rowVars
  <2>8. QED
    BY <2>6, <2>7
<1>5. ASSUME NEW e \in Events, EnqueueFails(r, e)
      PROVE  Goal
  BY <1>5 DEF EnqueueFails, Fault, OutboxTypeOK, Steps, jobVars, handlerVars, faultVars
<1>6. QED
  BY <1>1, <1>2, <1>3, <1>4, <1>5 DEF Relay

\* The worker: each step of a job keeps rows, jobs and attempts well formed.
LEMMA RunType ==
    ASSUME OutboxTypeOK, JobsAreOfAppended, AttemptsLeft, NEW e \in Events, Run(e)
    PROVE  OutboxTypeOK' /\ JobsAreOfAppended' /\ AttemptsLeft'
<1> DEFINE Goal == OutboxTypeOK' /\ JobsAreOfAppended' /\ AttemptsLeft'
<1> USE OutboxParametersAssumption DEF JobsAreOfAppended, AttemptsLeft, InFlight
<1>1. CASE StartJob(e)
  BY <1>1 DEF StartJob, OutboxTypeOK, NotRun, RunStates, JobStates, rowVars, relayVars, faultVars
<1>2. CASE MarkProcessed(e)
  BY <1>2 DEF MarkProcessed, OutboxTypeOK, relayVars, jobVars, handlerVars, faultVars
<1>3. CASE CompleteJob(e)
  BY <1>3 DEF CompleteJob, OutboxTypeOK, JobStates, rowVars, relayVars, handlerVars, faultVars
<1>4. CASE FailJob(e)
  <2>1. attempts[e] \in 0..MaxAttempts /\ attempts[e] < MaxAttempts
    BY <1>4 DEF FailJob, OutboxTypeOK
  <2>2. attempts[e] + 1 \in 0..MaxAttempts
    BY <2>1
  <2>3. /\ attempts' \in [Events -> 0..MaxAttempts]
        /\ job' \in [Events -> JobStates]
        /\ notices' \subseteq Events
        /\ faults' \in 0..MaxFaults /\ crashes' \in 0..MaxCrashes
    BY <1>4, <2>2 DEF FailJob, Fault, OutboxTypeOK, JobStates, faultVars
  <2>4. OutboxTypeOK'
    BY <1>4, <2>3 DEF FailJob, OutboxTypeOK, rowVars, relayVars, handlerVars
  <2>5. JobsAreOfAppended'
    BY <1>4 DEF FailJob, OutboxTypeOK, rowVars
  <2>6. AttemptsLeft'
    BY <1>4, <2>1 DEF FailJob, Exhausted, OutboxTypeOK
  <2>7. QED
    BY <2>4, <2>5, <2>6
<1>5. ASSUME NEW h \in HandlersOf[e], BeginHandler(e, h)
      PROVE  Goal
  <2>1. h \in HandlerNames
    OBVIOUS
  <2>2. QED
    BY <1>5, <2>1 DEF BeginHandler, OutboxTypeOK, RunStates, rowVars, relayVars, jobVars, faultVars
<1>6. ASSUME NEW h \in HandlersOf[e], HandlerSucceeds(e, h)
      PROVE  Goal
  <2>1. h \in HandlerNames
    OBVIOUS
  <2>2. QED
    BY <1>6, <2>1 DEF HandlerSucceeds, OutboxTypeOK, RunStates, rowVars, relayVars, jobVars, faultVars
<1>7. ASSUME NEW h \in HandlersOf[e], HandlerFails(e, h)
      PROVE  Goal
  <2>1. h \in HandlerNames
    OBVIOUS
  <2>2. QED
    BY <1>7, <2>1 DEF HandlerFails, Fault, OutboxTypeOK, RunStates, rowVars, relayVars, jobVars
<1>8. ASSUME NEW h \in HandlersOf[e], TakingKeyFails(e, h)
      PROVE  Goal
  <2>1. h \in HandlerNames
    OBVIOUS
  <2>2. QED
    BY <1>8, <2>1 DEF TakingKeyFails, Fault, OutboxTypeOK, RunStates, rowVars, relayVars, jobVars
<1>9. QED
  BY <1>1, <1>2, <1>3, <1>4, <1>5, <1>6, <1>7, <1>8 DEF Run

\* A crash of a worker process keeps rows, jobs and attempts well formed.
LEMMA CrashType ==
    ASSUME OutboxTypeOK, JobsAreOfAppended, AttemptsLeft, Crash
    PROVE  OutboxTypeOK' /\ JobsAreOfAppended' /\ AttemptsLeft'
<1>1. PICK R \in SUBSET Relays, J \in SUBSET {e \in Events : job[e] = "active"},
           N \in SUBSET notices :
        /\ batch' = [r \in Relays |-> IF r \in R THEN {} ELSE batch[r]]
        /\ step' = [r \in Relays |-> IF r \in R THEN "inspect" ELSE step[r]]
        /\ notices' = notices \ N
        /\ job' = [e \in Events |->
               IF e \notin J THEN job[e] ELSE IF e \in stalled THEN "failed" ELSE "waiting"]
        /\ stalled' = stalled \cup J
        /\ abandoned' = abandoned \cup
               {x \in J \X HandlerNames : run[x[1]][x[2]] = "running"}
  BY DEF Crash
<1>2. UNCHANGED <<rowVars, attempts, run, keys, effects, faults>>
  BY DEF Crash
<1>3. crashes' \in 0..MaxCrashes
  BY OutboxParametersAssumption DEF Crash, OutboxTypeOK
<1>4. abandoned' \subseteq Events \X HandlerNames
  BY <1>1 DEF OutboxTypeOK
<1>5. OutboxTypeOK'
  BY <1>1, <1>2, <1>3, <1>4 DEF OutboxTypeOK, Steps, JobStates, rowVars
<1>6. JobsAreOfAppended'
  BY <1>1, <1>2 DEF JobsAreOfAppended, OutboxTypeOK, rowVars
<1>7. AttemptsLeft'
  BY <1>1, <1>2 DEF AttemptsLeft, InFlight, OutboxTypeOK
<1>8. QED
  BY <1>5, <1>6, <1>7

\* Every step of the outbox keeps rows, jobs and attempts well formed.
LEMMA NextType ==
    ASSUME OutboxTypeOK, JobsAreOfAppended, AttemptsLeft, [OutboxNext]_outboxVars
    PROVE  OutboxTypeOK' /\ JobsAreOfAppended' /\ AttemptsLeft'
<1> DEFINE Goal == OutboxTypeOK' /\ JobsAreOfAppended' /\ AttemptsLeft'
<1> USE DEF JobsAreOfAppended, AttemptsLeft, InFlight
<1>1. ASSUME NEW e \in Events, Append(e)
      PROVE  Goal
  BY <1>1 DEF Append, OutboxTypeOK, relayVars, jobVars, handlerVars, faultVars
<1>2. ASSUME NEW e \in Events, ReclaimStuckDispatched(e)
      PROVE  Goal
  BY <1>2 DEF ReclaimStuckDispatched, OutboxTypeOK, relayVars, jobVars, handlerVars, faultVars
<1>3. ASSUME NEW e \in Events, OnFailed(e)
      PROVE  Goal
  BY <1>3 DEF OnFailed, OutboxTypeOK, relayVars, handlerVars, faultVars
<1>4. ASSUME NEW e \in Events, ForgetJob(e)
      PROVE  Goal
  BY <1>4 DEF ForgetJob, OutboxTypeOK, JobStates, rowVars, relayVars, handlerVars, faultVars
<1>5. CASE UNCHANGED outboxVars
  BY <1>5 DEF OutboxTypeOK, outboxVars, rowVars, relayVars, jobVars, handlerVars, faultVars
<1>6. QED
  BY <1>1, <1>2, <1>3, <1>4, <1>5, RelayType, RunType, CrashType DEF OutboxNext

-----------------------------------------------------------------------------
(* Keys and effects.                                                       *)

\* A step that changes no handler and lets no job become active keeps the keys
\* in order, provided no running handler is in a job that stops.
LEMMA QuietStepKeepsKeys ==
    ASSUME OutboxTypeOK, KeyInv, UNCHANGED <<processed, handlerVars>>,
           \A e \in Events : job'[e] = "active" => job[e] = "active",
           \A e \in Events, h \in HandlerNames :
               job[e] = "active" /\ run[e][h] = "running" => job'[e] = "active"
    PROVE  KeyInv'
<1>1. OnlyRegisteredRun' /\ RunsHoldKeys'
  BY DEF KeyInv, OnlyRegisteredRun, RunsHoldKeys, handlerVars
<1>2. KeysAreAccounted'
  BY DEF KeyInv, KeysAreAccounted, handlerVars
<1>3. SingleWritesHoldKeys'
  BY OutboxParametersAssumption DEF KeyInv, SingleWritesHoldKeys, handlerVars
<1>4. ProcessedIsQuiet'
  BY OutboxParametersAssumption DEF KeyInv, ProcessedIsQuiet, OutboxTypeOK, handlerVars
<1>5. QED
  BY <1>1, <1>2, <1>3, <1>4 DEF KeyInv

\* A relay only creates and removes jobs in which nothing runs, so the handlers
\* keep their keys.
LEMMA RelayKeepsKeys ==
    ASSUME OutboxTypeOK, KeyInv, NEW r \in Relays, Relay(r)
    PROVE  KeyInv'
<1>1. UNCHANGED <<processed, handlerVars>>
  BY DEF Relay, ClaimPendingBatch, InspectJob, RemoveJob, AddJob, EnqueueFails, rowVars
<1>2. \/ UNCHANGED job
      \/ \E e \in Events : job[e] # "active" /\ \E s \in {"none", "waiting"} :
              job' = [job EXCEPT ![e] = s]
  BY DEF Relay, ClaimPendingBatch, InspectJob, RemoveJob, AddJob, EnqueueFails, jobVars
<1>3. \A e \in Events : job'[e] = "active" <=> job[e] = "active"
  BY <1>2 DEF OutboxTypeOK
<1>4. QED
  BY <1>1, <1>3, QuietStepKeepsKeys

\* In a job that ends, no handler is running.
LEMMA EndedJobHasNoRunning ==
    ASSUME KeyInv, NEW e \in Events, job[e] = "active",
           AllSucceeded(e) \/ SomeRejected(e)
    PROVE  \A h \in HandlerNames : run[e][h] # "running"
  BY DEF KeyInv, OnlyRegisteredRun, AllSucceeded, SomeRejected

\* A step of one handler leaves a processed event quiet: it keeps the keys and does
\* not start that handler.
LEMMA QuietStays ==
    ASSUME OutboxTypeOK, KeyInv, NEW e \in Events, NEW h \in HandlersOf[e],
           UNCHANGED <<processed, job>>,
           keys \ {<<e, h>>} \subseteq keys', e \in processed => keys \subseteq keys',
           e \in processed => run'[e][h] # "running",
           \A d \in Events, g \in HandlerNames : d # e \/ g # h => run'[d][g] = run[d][g]
    PROVE  ProcessedIsQuiet'
<1> SUFFICES ASSUME NEW d \in processed, NEW g \in HandlersOf[d]
             PROVE  <<d, g>> \in keys' /\ ~(job[d] = "active" /\ run'[d][g] = "running")
  BY DEF ProcessedIsQuiet
<1>1. d \in Events /\ g \in HandlerNames
  BY OutboxParametersAssumption DEF OutboxTypeOK
<1>2. <<d, g>> \in keys /\ ~(job[d] = "active" /\ run[d][g] = "running")
  BY DEF KeyInv, ProcessedIsQuiet
<1>3. CASE d = e /\ g = h
  BY <1>2, <1>3
<1>4. CASE d # e \/ g # h
  BY <1>1, <1>2, <1>4
<1> QED
  BY <1>3, <1>4

\* runOnce keeps keys and effects in step: each step of a job preserves KeyInv.
LEMMA RunKeepsKeys ==
    ASSUME OutboxTypeOK, KeyInv, NEW e \in Events, Run(e)
    PROVE  KeyInv'
<1> USE OutboxParametersAssumption
<1>1. CASE StartJob(e)
  <2>1. /\ job' = [job EXCEPT ![e] = "active"]
        /\ run' = [run EXCEPT ![e] = [h \in HandlerNames |-> "idle"]]
        /\ job[e] = "waiting"
        /\ UNCHANGED <<processed, keys, effects, abandoned>>
    BY <1>1 DEF StartJob, NotRun, rowVars
  <2>2. OnlyRegisteredRun' /\ RunsHoldKeys'
    BY <2>1 DEF KeyInv, OnlyRegisteredRun, RunsHoldKeys, OutboxTypeOK
  <2>3. KeysAreAccounted'
    BY <2>1 DEF KeyInv, KeysAreAccounted, OutboxTypeOK
  <2>4. SingleWritesHoldKeys' /\ ProcessedIsQuiet'
    BY <2>1 DEF KeyInv, SingleWritesHoldKeys, ProcessedIsQuiet, OutboxTypeOK
  <2>5. QED
    BY <2>2, <2>3, <2>4 DEF KeyInv
<1>2. CASE MarkProcessed(e)
  <2>1. /\ processed' = processed \cup {e}
        /\ UNCHANGED <<job, run, keys, effects, abandoned>>
        /\ job[e] = "active" /\ AllSucceeded(e)
    BY <1>2 DEF MarkProcessed, jobVars, handlerVars
  <2>2. OnlyRegisteredRun' /\ RunsHoldKeys' /\ KeysAreAccounted' /\ SingleWritesHoldKeys'
    BY <2>1 DEF KeyInv, OnlyRegisteredRun, RunsHoldKeys, KeysAreAccounted, SingleWritesHoldKeys
  <2>3. \A h \in HandlersOf[e] : <<e, h>> \in keys /\ run[e][h] # "running"
    BY <2>1 DEF KeyInv, RunsHoldKeys, AllSucceeded
  <2>4. ProcessedIsQuiet'
    BY <2>1, <2>3 DEF KeyInv, ProcessedIsQuiet
  <2>5. QED
    BY <2>2, <2>4 DEF KeyInv
<1>3. CASE CompleteJob(e)
  <2>1. job' = [job EXCEPT ![e] = "completed"] /\ UNCHANGED <<processed, handlerVars>>
    BY <1>3 DEF CompleteJob, rowVars
  <2>2. \A h \in HandlerNames : run[e][h] # "running"
    BY <1>3, EndedJobHasNoRunning DEF CompleteJob
  <2>3. QED
    BY <2>1, <2>2, QuietStepKeepsKeys DEF OutboxTypeOK
<1>4. CASE FailJob(e)
  <2>1. PICK s \in {"failed", "waiting"} :
            job' = [job EXCEPT ![e] = s] /\ UNCHANGED <<processed, handlerVars>>
    BY <1>4 DEF FailJob, rowVars
  <2>2. \A h \in HandlerNames : run[e][h] # "running"
    BY <1>4, EndedJobHasNoRunning DEF FailJob
  <2>3. QED
    BY <2>1, <2>2, QuietStepKeepsKeys DEF OutboxTypeOK
<1>5. ASSUME NEW h \in HandlersOf[e], BeginHandler(e, h)
      PROVE  KeyInv'
  <2>1. /\ h \in HandlerNames
        /\ job[e] = "active" /\ run[e][h] = "idle"
        /\ keys' = keys \cup {<<e, h>>}
        /\ run' = [run EXCEPT ![e][h] = IF <<e, h>> \in keys THEN "ok" ELSE "running"]
        /\ UNCHANGED <<processed, job, effects, abandoned>>
    BY <1>5 DEF BeginHandler, KeyTaken, rowVars, jobVars
  <2>2. OnlyRegisteredRun'
    BY <2>1 DEF KeyInv, OnlyRegisteredRun, OutboxTypeOK
  <2>3. RunsHoldKeys'
    BY <2>1 DEF KeyInv, RunsHoldKeys, OutboxTypeOK
  <2>4. KeysAreAccounted'
    BY <2>1 DEF KeyInv, KeysAreAccounted, OutboxTypeOK
  <2>5. SingleWritesHoldKeys'
    BY <2>1 DEF KeyInv, SingleWritesHoldKeys, OutboxTypeOK
  <2>6. ProcessedIsQuiet'
    <3>1. e \in processed => <<e, h>> \in keys
      BY DEF KeyInv, ProcessedIsQuiet
    <3>2. \A d \in Events, g \in HandlerNames : d # e \/ g # h => run'[d][g] = run[d][g]
      BY <2>1 DEF OutboxTypeOK
    <3>3. run'[e][h] = IF <<e, h>> \in keys THEN "ok" ELSE "running"
      BY <2>1 DEF OutboxTypeOK
    <3> QED
      BY <2>1, <3>1, <3>2, <3>3, QuietStays
  <2>7. QED
    BY <2>2, <2>3, <2>4, <2>5, <2>6 DEF KeyInv
<1>6. ASSUME NEW h \in HandlersOf[e], HandlerSucceeds(e, h)
      PROVE  KeyInv'
  <2>1. /\ h \in HandlerNames
        /\ job[e] = "active" /\ run[e][h] = "running"
        /\ run' = [run EXCEPT ![e][h] = "ok"]
        /\ effects' = [effects EXCEPT ![e][h] = @ + 1]
        /\ UNCHANGED <<processed, job, keys, abandoned>>
    BY <1>6 DEF HandlerSucceeds, rowVars, jobVars
  <2>2. OnlyRegisteredRun' /\ RunsHoldKeys'
    BY <2>1 DEF KeyInv, OnlyRegisteredRun, RunsHoldKeys, OutboxTypeOK
  <2>3. KeysAreAccounted'
    BY <2>1 DEF KeyInv, KeysAreAccounted, OutboxTypeOK
  <2>4. <<e, h>> \in keys
    BY <2>1 DEF KeyInv, RunsHoldKeys
  <2>5. SingleWritesHoldKeys'
    BY <2>1, <2>4 DEF KeyInv, SingleWritesHoldKeys, OutboxTypeOK
  <2>6. ProcessedIsQuiet'
    <3>1. e \notin processed
      BY <2>1 DEF KeyInv, ProcessedIsQuiet
    <3>2. \A d \in Events, g \in HandlerNames : d # e \/ g # h => run'[d][g] = run[d][g]
      BY <2>1 DEF OutboxTypeOK
    <3> QED
      BY <2>1, <3>1, <3>2, QuietStays
  <2>7. QED
    BY <2>2, <2>3, <2>5, <2>6 DEF KeyInv
<1>7. ASSUME NEW h \in HandlersOf[e], HandlerFails(e, h)
      PROVE  KeyInv'
  <2>1. /\ h \in HandlerNames
        /\ job[e] = "active" /\ run[e][h] = "running"
        /\ run' = [run EXCEPT ![e][h] = "failed"]
        /\ UNCHANGED <<processed, job>>
    BY <1>7 DEF HandlerFails, rowVars, jobVars
  <2>8. \/ keys' = keys \ {<<e, h>>} /\ UNCHANGED abandoned
        \/ abandoned' = abandoned \cup {<<e, h>>} /\ UNCHANGED keys
    BY <1>7 DEF HandlerFails
  <2>2. \/ UNCHANGED effects
        \/ h \notin SingleWrite /\ effects' = [effects EXCEPT ![e][h] = @ + 1]
    BY <1>7 DEF HandlerFails
  <2>3. OnlyRegisteredRun' /\ RunsHoldKeys'
    BY <2>1, <2>8 DEF KeyInv, OnlyRegisteredRun, RunsHoldKeys, OutboxTypeOK
  <2>4. KeysAreAccounted'
    BY <2>1, <2>2, <2>8 DEF KeyInv, KeysAreAccounted, OutboxTypeOK
  <2>5. SingleWritesHoldKeys'
    BY <2>1, <2>2, <2>8 DEF KeyInv, SingleWritesHoldKeys, OutboxTypeOK
  <2>6. ProcessedIsQuiet'
    <3>1. e \notin processed
      BY <2>1 DEF KeyInv, ProcessedIsQuiet
    <3>2. \A d \in Events, g \in HandlerNames : d # e \/ g # h => run'[d][g] = run[d][g]
      BY <2>1 DEF OutboxTypeOK
    <3>3. keys \ {<<e, h>>} \subseteq keys'
      BY <2>8
    <3> QED
      BY <2>1, <3>1, <3>2, <3>3, QuietStays
  <2>7. QED
    BY <2>3, <2>4, <2>5, <2>6 DEF KeyInv
<1>8. ASSUME NEW h \in HandlersOf[e], TakingKeyFails(e, h)
      PROVE  KeyInv'
  <2>1. /\ h \in HandlerNames
        /\ job[e] = "active" /\ run[e][h] = "idle"
        /\ UNCHANGED <<processed, job, effects>>
    BY <1>8 DEF TakingKeyFails, rowVars, jobVars
  <2>2. PICK outcome \in {"failed", "ok"} :
            /\ run' = [run EXCEPT ![e][h] = outcome]
            /\ \/ outcome = "failed" /\ UNCHANGED <<keys, abandoned>>
               \/ keys' = keys \cup {<<e, h>>} /\ abandoned' = abandoned \cup {<<e, h>>}
    BY <1>8 DEF TakingKeyFails
  <2>3. OnlyRegisteredRun' /\ RunsHoldKeys'
    BY <2>1, <2>2 DEF KeyInv, OnlyRegisteredRun, RunsHoldKeys, OutboxTypeOK
  <2>4. KeysAreAccounted'
    BY <2>1, <2>2 DEF KeyInv, KeysAreAccounted, OutboxTypeOK
  <2>5. SingleWritesHoldKeys'
    BY <2>1, <2>2 DEF KeyInv, SingleWritesHoldKeys, OutboxTypeOK
  <2>6. ProcessedIsQuiet'
    <3>1. keys \subseteq keys'
      BY <2>2
    <3>2. \A d \in Events, g \in HandlerNames : d # e \/ g # h => run'[d][g] = run[d][g]
      BY <2>1, <2>2 DEF OutboxTypeOK
    <3>3. run'[e][h] # "running"
      BY <2>1, <2>2 DEF OutboxTypeOK
    <3> QED
      BY <2>1, <3>1, <3>2, <3>3, QuietStays
  <2>7. QED
    BY <2>3, <2>4, <2>5, <2>6 DEF KeyInv
<1>9. QED
  BY <1>1, <1>2, <1>3, <1>4, <1>5, <1>6, <1>7, <1>8 DEF Run

\* A crash moves what was running to `abandoned', which keeps the keys accounted.
LEMMA CrashKeepsKeys ==
    ASSUME OutboxTypeOK, KeyInv, Crash
    PROVE  KeyInv'
<1>1. PICK J \in SUBSET {e \in Events : job[e] = "active"} :
        /\ job' = [e \in Events |->
               IF e \notin J THEN job[e] ELSE IF e \in stalled THEN "failed" ELSE "waiting"]
        /\ abandoned' = abandoned \cup
               {x \in J \X HandlerNames : run[x[1]][x[2]] = "running"}
  BY DEF Crash
<1>2. UNCHANGED <<processed, run, keys, effects>>
  BY DEF Crash, rowVars
<1>3. OnlyRegisteredRun' /\ RunsHoldKeys'
  BY <1>1, <1>2 DEF KeyInv, OnlyRegisteredRun, RunsHoldKeys
<1>4. KeysAreAccounted'
  <2> SUFFICES ASSUME NEW e \in Events, NEW h \in HandlerNames, <<e, h>> \in keys'
               PROVE  \/ effects'[e][h] > 0
                      \/ <<e, h>> \in abandoned'
                      \/ job'[e] = "active" /\ run'[e][h] = "running"
    BY DEF KeysAreAccounted
  <2>1. CASE e \in J /\ run[e][h] = "running"
    BY <1>1, <2>1
  <2>2. CASE ~(e \in J /\ run[e][h] = "running")
    BY <1>1, <1>2, <2>2 DEF KeyInv, KeysAreAccounted
  <2>3. QED
    BY <2>1, <2>2
<1>5. SingleWritesHoldKeys' /\ ProcessedIsQuiet'
  BY <1>1, <1>2, OutboxParametersAssumption
     DEF KeyInv, SingleWritesHoldKeys, ProcessedIsQuiet, OutboxTypeOK
<1>6. QED
  BY <1>3, <1>4, <1>5 DEF KeyInv

\* Every step of the outbox preserves KeyInv.
LEMMA NextKeepsKeys ==
    ASSUME OutboxTypeOK, KeyInv, [OutboxNext]_outboxVars
    PROVE  KeyInv'
<1>1. ASSUME NEW e \in Events, Append(e) \/ ReclaimStuckDispatched(e) \/ OnFailed(e)
      PROVE  KeyInv'
  <2>1. UNCHANGED <<processed, job, handlerVars>>
    BY <1>1 DEF Append, ReclaimStuckDispatched, OnFailed, jobVars
  <2>2. QED
    BY <2>1, QuietStepKeepsKeys
<1>2. ASSUME NEW e \in Events, ForgetJob(e)
      PROVE  KeyInv'
  <2>1. job[e] \in Finished /\ job' = [job EXCEPT ![e] = "none"]
        /\ UNCHANGED <<processed, handlerVars>>
    BY <1>2 DEF ForgetJob, rowVars
  <2>2. QED
    BY <2>1, QuietStepKeepsKeys DEF Finished, OutboxTypeOK
<1>3. CASE UNCHANGED outboxVars
  BY <1>3, QuietStepKeepsKeys DEF outboxVars, rowVars, jobVars
<1>4. QED
  BY <1>1, <1>2, <1>3, RelayKeepsKeys, RunKeepsKeys, CrashKeepsKeys DEF OutboxNext

\* The invariant holds of the empty outbox.
LEMMA OutboxInitInv == OutboxInit => OutboxInv
<1> SUFFICES ASSUME OutboxInit PROVE OutboxInv
  OBVIOUS
<1>1. JobsAreOfAppended /\ AttemptsLeft
  BY DEF OutboxInit, JobsAreOfAppended, AttemptsLeft, InFlight
<1>2. KeyInv
  BY OutboxParametersAssumption
     DEF OutboxInit, KeyInv, OnlyRegisteredRun, RunsHoldKeys, KeysAreAccounted,
         SingleWritesHoldKeys, ProcessedIsQuiet
<1>3. QED
  BY <1>1, <1>2, OutboxInitType DEF OutboxInv

\* The invariant is inductive.
LEMMA OutboxNextInv == OutboxInv /\ [OutboxNext]_outboxVars => OutboxInv'
  BY NextType, NextKeepsKeys DEF OutboxInv

\* Rows, batches and jobs of every reachable state are well formed; a job never
\* makes more attempts than it was given.
THEOREM OutboxInvariance == OutboxSpec => []OutboxInv
  BY OutboxInitInv, OutboxNextInv, PTL DEF OutboxSpec

\* The type invariant by itself.
THEOREM OutboxTypeCorrectness == OutboxSpec => []OutboxTypeOK
<1>1. OutboxInv => OutboxTypeOK
  BY DEF OutboxInv
<1>2. QED
  BY <1>1, OutboxInvariance, PTL

-----------------------------------------------------------------------------
(* Refinement: each step of the outbox is a step of EventDelivery or none. *)

\* A handler that returns takes effect on an event that is not processed yet; if
\* it is a single write, for the first time.
LEMMA SuccessIsHandled ==
    ASSUME OutboxInv, NEW e \in Events, NEW h \in HandlersOf[e], HandlerSucceeds(e, h)
    PROVE  Delivery!Handle(e, h)
<1>1. h \in HandlerNames
  BY OutboxParametersAssumption
<1>2. job[e] = "active" /\ run[e][h] = "running"
  BY DEF HandlerSucceeds
<1>3. e \in appended \ processed
  BY <1>2 DEF OutboxInv, KeyInv, JobsAreOfAppended, ProcessedIsQuiet
<1>4. h \in SingleWrite => effects[e][h] = 0
  <2>1. effects[e][h] \in Nat
    BY <1>1 DEF OutboxInv, OutboxTypeOK
  <2>2. h \in SingleWrite => ~(effects[e][h] > 0)
    BY <1>2 DEF OutboxInv, KeyInv, SingleWritesHoldKeys
  <2>3. QED
    BY <2>1, <2>2
<1>5. QED
  BY <1>3, <1>4 DEF HandlerSucceeds, Delivery!Handle, rowVars

\* A handler that throws took part of its effect, was abandoned, or did nothing.
LEMMA FailureIsHandledOrNothing ==
    ASSUME OutboxInv, NEW e \in Events, NEW h \in HandlersOf[e], HandlerFails(e, h)
    PROVE  \/ Delivery!Handle(e, h)
           \/ Delivery!Abandon
           \/ UNCHANGED Delivery!deliveryVars
<1>1. job[e] = "active" /\ run[e][h] = "running"
  BY DEF HandlerFails
<1>2. e \in appended \ processed
  BY <1>1 DEF OutboxInv, KeyInv, JobsAreOfAppended, ProcessedIsQuiet
<1>3. <<e, h>> \in (appended \ processed) \X HandlerNames
  BY <1>2, OutboxParametersAssumption
<1>4. abandoned' \in {abandoned, abandoned \cup {<<e, h>>}}
  BY DEF HandlerFails
<1>5. CASE UNCHANGED effects
  BY <1>3, <1>4, <1>5 DEF HandlerFails, Delivery!Abandon, Delivery!deliveryVars, rowVars
<1>6. CASE h \notin SingleWrite /\ effects' = [effects EXCEPT ![e][h] = @ + 1]
  BY <1>2, <1>4, <1>6 DEF HandlerFails, Delivery!Handle, rowVars
<1>7. QED
  BY <1>5, <1>6 DEF HandlerFails

\* A failing SET abandons the handler or does nothing that users can see.
LEMMA FailedTakingIsAbandonment ==
    ASSUME OutboxInv, NEW e \in Events, NEW h \in HandlersOf[e], TakingKeyFails(e, h)
    PROVE  Delivery!Abandon \/ UNCHANGED Delivery!deliveryVars
<1>1. CASE UNCHANGED abandoned
  BY <1>1 DEF TakingKeyFails, Delivery!deliveryVars, rowVars
<1>2. CASE <<e, h>> \notin keys /\ abandoned' = abandoned \cup {<<e, h>>}
  <2>1. e \in appended
    BY DEF TakingKeyFails, OutboxInv, JobsAreOfAppended
  <2>2. e \notin processed
    BY <1>2 DEF OutboxInv, KeyInv, ProcessedIsQuiet
  <2>3. <<e, h>> \in (appended \ processed) \X HandlerNames
    BY <2>1, <2>2, OutboxParametersAssumption
  <2>4. QED
    BY <1>2, <2>3 DEF TakingKeyFails, Delivery!Abandon, rowVars
<1>3. QED
  BY <1>1, <1>2 DEF TakingKeyFails, KeyTaken

\* markProcessed finds every handler with an effect or abandoned.
LEMMA ProcessedIsFinished ==
    ASSUME OutboxInv, NEW e \in Events, MarkProcessed(e)
    PROVE  Delivery!Finish(e)
<1>1. e \in appended
  BY DEF MarkProcessed, OutboxInv, JobsAreOfAppended
<1>2. ASSUME NEW h \in HandlersOf[e]
      PROVE  effects[e][h] > 0 \/ <<e, h>> \in abandoned
  <2>1. h \in HandlerNames /\ job[e] = "active" /\ run[e][h] = "ok"
    BY OutboxParametersAssumption DEF MarkProcessed, AllSucceeded
  <2>2. <<e, h>> \in keys
    BY <2>1 DEF OutboxInv, KeyInv, RunsHoldKeys
  <2>3. QED
    BY <2>1, <2>2 DEF OutboxInv, KeyInv, KeysAreAccounted
<1>3. QED
  BY <1>1, <1>2 DEF MarkProcessed, Delivery!Finish, handlerVars

\* A crash abandons handlers of events that are not processed.
LEMMA CrashIsAbandonment ==
    ASSUME OutboxInv, Crash
    PROVE  Delivery!Abandon
<1>1. PICK J \in SUBSET {e \in Events : job[e] = "active"} :
        abandoned' = abandoned \cup {x \in J \X HandlerNames : run[x[1]][x[2]] = "running"}
  BY DEF Crash
<1>2. ASSUME NEW x \in J \X HandlerNames, run[x[1]][x[2]] = "running"
      PROVE  x \in (appended \ processed) \X HandlerNames
  <2>1. x[1] \in Events /\ job[x[1]] = "active" /\ x[2] \in HandlerNames /\ x = <<x[1], x[2]>>
    OBVIOUS
  <2>2. x[1] \in appended
    BY <2>1 DEF OutboxInv, JobsAreOfAppended
  <2>3. x[2] \in HandlersOf[x[1]]
    BY <1>2, <2>1 DEF OutboxInv, KeyInv, OnlyRegisteredRun
  <2>4. x[1] \notin processed
    BY <1>2, <2>1, <2>3 DEF OutboxInv, KeyInv, ProcessedIsQuiet
  <2>5. QED
    BY <2>1, <2>2, <2>4
<1>3. abandoned' \subseteq abandoned \cup ((appended \ processed) \X HandlerNames)
  BY <1>1, <1>2
<1>4. QED
  BY <1>1, <1>3 DEF Crash, Delivery!Abandon, rowVars

\* Every step of the outbox is a step of EventDelivery or changes nothing it sees.
LEMMA StepRefines ==
    ASSUME OutboxInv, [OutboxNext]_outboxVars
    PROVE  [Delivery!DeliveryNext]_(Delivery!deliveryVars)
<1> USE DEF Delivery!deliveryVars
<1>1. ASSUME NEW e \in Events, Append(e)
      PROVE  Delivery!AppendEvent(e)
  BY <1>1 DEF Append, Delivery!AppendEvent, handlerVars
<1>2. ASSUME NEW e \in Events, ReclaimStuckDispatched(e) \/ OnFailed(e) \/ ForgetJob(e)
      PROVE  UNCHANGED Delivery!deliveryVars
  BY <1>2 DEF ReclaimStuckDispatched, OnFailed, ForgetJob, handlerVars, rowVars
<1>3. ASSUME NEW r \in Relays, Relay(r)
      PROVE  UNCHANGED Delivery!deliveryVars
  BY <1>3 DEF Relay, ClaimPendingBatch, InspectJob, RemoveJob, AddJob, EnqueueFails,
              handlerVars, rowVars
<1>4. ASSUME NEW e \in Events, StartJob(e) \/ CompleteJob(e) \/ FailJob(e)
      PROVE  UNCHANGED Delivery!deliveryVars
  BY <1>4 DEF StartJob, CompleteJob, FailJob, handlerVars, rowVars
<1>5. ASSUME NEW e \in Events, NEW h \in HandlersOf[e], BeginHandler(e, h)
      PROVE  UNCHANGED Delivery!deliveryVars
  BY <1>5 DEF BeginHandler, rowVars
<1>6. ASSUME NEW e \in Events, Run(e)
      PROVE  Delivery!DeliveryNext \/ UNCHANGED Delivery!deliveryVars
  BY <1>4, <1>5, <1>6, SuccessIsHandled, FailureIsHandledOrNothing,
     FailedTakingIsAbandonment, ProcessedIsFinished
     DEF Run, Delivery!DeliveryNext
<1>7. CASE UNCHANGED outboxVars
  BY <1>7 DEF outboxVars, rowVars, handlerVars
<1>8. CASE OutboxNext
  BY <1>1, <1>2, <1>3, <1>6, <1>8, CrashIsAbandonment DEF OutboxNext, Delivery!DeliveryNext
<1>9. QED
  BY <1>7, <1>8

\* The outbox implements the delivery promise: no event is processed with a
\* handler that neither took effect nor was abandoned by a crash or a failing
\* Redis call, and a single-write handler takes effect at most once.
THEOREM OutboxImplementsDelivery == OutboxSpec => ImplementsDelivery
<1>1. OutboxInit => Delivery!DeliveryInit
  BY DEF OutboxInit, Delivery!DeliveryInit
<1>2. OutboxInv /\ [OutboxNext]_outboxVars => [Delivery!DeliveryNext]_(Delivery!deliveryVars)
  BY StepRefines
<1>3. QED
  BY <1>1, <1>2, OutboxInvariance, PTL DEF OutboxSpec, ImplementsDelivery, Delivery!DeliverySpec
=============================================================================
