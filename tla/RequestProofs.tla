--------------------------- MODULE RequestProofs ---------------------------
(***************************************************************************)
(* What stands between a request and the expense keeps its promises: the   *)
(* idempotency interceptor for any number of deliveries, polls, failing    *)
(* calls and crashes, the rate limiter for any limits and clients, and the *)
(* policy engine for any policies, claims and lifetime of its memory.      *)
(***************************************************************************)
EXTENDS IdempotentRequests, RateLimiter, PolicyEngine, SumTheorems

Holding == {"running", "saving", "releasing"}

\* Until a lock expires, whoever is past acquireLock holds it, alone.
HoldersHaveLock ==
    ~expired => \A r \in Requests : pc[r] \in Holding => lock

HolderIsAlone ==
    ~expired => \A r, s \in Requests : pc[r] \in Holding /\ pc[s] \in Holding => r = s

\* Nobody is told of a success that is not on record.
SuccessIsRecorded ==
    \A r \in Requests :
        pc[r] \in {"releasing", "answered"} /\ answer[r] \in {"success", "replay"} => record

\* A late request finds the record at once.
LateOnesFindRecord ==
    \A r \in late :
        /\ record
        /\ pc[r] \in {"sent", "answered"}
        /\ answer[r] \in {"none", "replay", "error", "lost"}

NewOnesAreUntold == \A r \in Requests : pc[r] = "new" => answer[r] = "none" /\ r \notin late

RequestInv ==
    /\ RequestTypeOK
    /\ HoldersHaveLock
    /\ HolderIsAlone
    /\ SuccessIsRecorded
    /\ LateOnesFindRecord
    /\ NewOnesAreUntold

-----------------------------------------------------------------------------
\* No request has been sent.
LEMMA RequestInvInitially == RequestInit => RequestInv
<1> SUFFICES ASSUME RequestInit PROVE RequestInv
  OBVIOUS
<1>1. 0 \in 0..(MaxPolls - 1) /\ 0 \in 0..MaxFaults /\ 0 \in 0..MaxCrashes
  BY RequestParametersAssumption
<1>2. FALSE \in BOOLEAN
  OBVIOUS
<1>3. RequestTypeOK
  BY <1>1, <1>2 DEF RequestInit, RequestTypeOK, Places, Answers
<1>4. HoldersHaveLock /\ HolderIsAlone
  BY DEF RequestInit, HoldersHaveLock, HolderIsAlone, Holding
<1>5. SuccessIsRecorded /\ LateOnesFindRecord /\ NewOnesAreUntold
  BY DEF RequestInit, SuccessIsRecorded, LateOnesFindRecord, NewOnesAreUntold
<1>6. QED
  BY <1>3, <1>4, <1>5 DEF RequestInv

\* A failing call keeps its bound.
LEMMA FaultKeepsBounds ==
    ASSUME RequestTypeOK, Fault PROVE faults' \in 0..MaxFaults /\ crashes' \in 0..MaxCrashes
  BY RequestParametersAssumption DEF RequestTypeOK, Fault

\* Types are kept by every step.
LEMMA RequestTypesKept ==
    ASSUME RequestTypeOK, [RequestNext]_requestVars PROVE RequestTypeOK'
<1> USE RequestParametersAssumption
    DEF RequestTypeOK, Places, Answers, Goto, Answer, ReleaseWith, redisVars, boundVars
<1>1. ASSUME NEW r \in Requests, Send(r) PROVE RequestTypeOK'
  BY <1>1 DEF Send
<1>2. ASSUME NEW r \in Requests, LookUp(r) PROVE RequestTypeOK'
  BY <1>2 DEF LookUp
<1>3. ASSUME NEW r \in Requests, AcquireLock(r) PROVE RequestTypeOK'
  BY <1>3 DEF AcquireLock, AfterBusyLock
<1>4. ASSUME NEW r \in Requests, Poll(r) PROVE RequestTypeOK'
  BY <1>4 DEF Poll, PollsLeft
<1>5. ASSUME NEW r \in Requests, EarlyCallFails(r) PROVE RequestTypeOK'
  <2>1. faults' \in 0..MaxFaults /\ crashes' \in 0..MaxCrashes
    BY <1>5, FaultKeepsBounds DEF EarlyCallFails
  <2>2. QED
    BY <1>5, <2>1 DEF EarlyCallFails
<1>6. ASSUME NEW r \in Requests, RunHandler(r) PROVE RequestTypeOK'
  BY <1>6 DEF RunHandler
<1>7. ASSUME NEW r \in Requests, HandlerFails(r) PROVE RequestTypeOK'
  <2>1. faults' \in 0..MaxFaults /\ crashes' \in 0..MaxCrashes
    BY <1>7, FaultKeepsBounds DEF HandlerFails
  <2>2. QED
    BY <1>7, <2>1 DEF HandlerFails
<1>8. ASSUME NEW r \in Requests, Save(r) PROVE RequestTypeOK'
  BY <1>8 DEF Save
<1>9. ASSUME NEW r \in Requests, SaveFails(r) PROVE RequestTypeOK'
  <2>1. faults' \in 0..MaxFaults /\ crashes' \in 0..MaxCrashes
    BY <1>9, FaultKeepsBounds DEF SaveFails
  <2>2. QED
    BY <1>9, <2>1 DEF SaveFails, AnswerWithoutRecord
<1>10. ASSUME NEW r \in Requests, ReleaseLock(r) PROVE RequestTypeOK'
  BY <1>10 DEF ReleaseLock
<1>11. ASSUME NEW r \in Requests, ReleaseFails(r) PROVE RequestTypeOK'
  <2>1. faults' \in 0..MaxFaults /\ crashes' \in 0..MaxCrashes
    BY <1>11, FaultKeepsBounds DEF ReleaseFails
  <2>2. QED
    BY <1>11, <2>1 DEF ReleaseFails
<1>12. CASE ExpireLock
  BY <1>12 DEF ExpireLock
<1>13. CASE Crash
  BY <1>13 DEF Crash
<1>14. CASE UNCHANGED requestVars
  BY <1>14 DEF requestVars
<1>15. QED
  BY <1>1, <1>2, <1>3, <1>4, <1>5, <1>6, <1>7, <1>8, <1>9, <1>10, <1>11, <1>12, <1>13, <1>14
  DEF RequestNext, Intercept

\* So are the facts about the lock: it is taken only when it is free, and before
\* it expires only its holder deletes it.
LEMMA LockKept ==
    ASSUME RequestTypeOK, HoldersHaveLock, HolderIsAlone, [RequestNext]_requestVars
    PROVE  HoldersHaveLock' /\ HolderIsAlone'
<1> USE DEF RequestTypeOK, Holding, HoldersHaveLock, HolderIsAlone, Goto, Answer, ReleaseWith,
            Fault, redisVars, boundVars
<1>1. ASSUME NEW r \in Requests, Send(r) PROVE HoldersHaveLock' /\ HolderIsAlone'
  BY <1>1 DEF Send
<1>2. ASSUME NEW r \in Requests, LookUp(r) PROVE HoldersHaveLock' /\ HolderIsAlone'
  BY <1>2 DEF LookUp
<1>3. ASSUME NEW r \in Requests, AcquireLock(r) PROVE HoldersHaveLock' /\ HolderIsAlone'
  BY <1>3 DEF AcquireLock, AfterBusyLock, LockFree
<1>4. ASSUME NEW r \in Requests, Poll(r) PROVE HoldersHaveLock' /\ HolderIsAlone'
  BY <1>4 DEF Poll
<1>5. ASSUME NEW r \in Requests, EarlyCallFails(r) PROVE HoldersHaveLock' /\ HolderIsAlone'
  BY <1>5 DEF EarlyCallFails
<1>6. ASSUME NEW r \in Requests, RunHandler(r) PROVE HoldersHaveLock' /\ HolderIsAlone'
  BY <1>6 DEF RunHandler
<1>7. ASSUME NEW r \in Requests, HandlerFails(r) PROVE HoldersHaveLock' /\ HolderIsAlone'
  BY <1>7 DEF HandlerFails
<1>8. ASSUME NEW r \in Requests, Save(r) PROVE HoldersHaveLock' /\ HolderIsAlone'
  BY <1>8 DEF Save
<1>9. ASSUME NEW r \in Requests, SaveFails(r) PROVE HoldersHaveLock' /\ HolderIsAlone'
  BY <1>9 DEF SaveFails
<1>10. ASSUME NEW r \in Requests, ReleaseLock(r) PROVE HoldersHaveLock' /\ HolderIsAlone'
  BY <1>10 DEF ReleaseLock
<1>11. ASSUME NEW r \in Requests, ReleaseFails(r) PROVE HoldersHaveLock' /\ HolderIsAlone'
  BY <1>11 DEF ReleaseFails
<1>12. CASE ExpireLock
  BY <1>12 DEF ExpireLock
<1>13. CASE Crash
  BY <1>13 DEF Crash
<1>14. CASE UNCHANGED requestVars
  BY <1>14 DEF requestVars
<1>15. QED
  BY <1>1, <1>2, <1>3, <1>4, <1>5, <1>6, <1>7, <1>8, <1>9, <1>10, <1>11, <1>12, <1>13, <1>14
  DEF RequestNext, Intercept

AnswersInv == SuccessIsRecorded /\ LateOnesFindRecord /\ NewOnesAreUntold

\* And the facts about answers: the record is written before a success is told,
\* and stays.
LEMMA AnswersKept ==
    ASSUME RequestTypeOK, AnswersInv, [RequestNext]_requestVars
    PROVE  AnswersInv'
<1> USE DEF RequestTypeOK, AnswersInv, SuccessIsRecorded, LateOnesFindRecord, NewOnesAreUntold,
            Goto, Answer, ReleaseWith, Fault, redisVars, boundVars
<1>1. ASSUME NEW r \in Requests, Send(r) PROVE AnswersInv'
  BY <1>1 DEF Send, ToldOfSuccess
<1>2. ASSUME NEW r \in Requests, LookUp(r) PROVE AnswersInv'
  BY <1>2 DEF LookUp
<1>3. ASSUME NEW r \in Requests, AcquireLock(r) PROVE AnswersInv'
  BY <1>3 DEF AcquireLock, AfterBusyLock
<1>4. ASSUME NEW r \in Requests, Poll(r) PROVE AnswersInv'
  BY <1>4 DEF Poll
<1>5. ASSUME NEW r \in Requests, EarlyCallFails(r) PROVE AnswersInv'
  BY <1>5 DEF EarlyCallFails
<1>6. ASSUME NEW r \in Requests, RunHandler(r) PROVE AnswersInv'
  BY <1>6 DEF RunHandler
<1>7. ASSUME NEW r \in Requests, HandlerFails(r) PROVE AnswersInv'
  BY <1>7 DEF HandlerFails
<1>8. ASSUME NEW r \in Requests, Save(r) PROVE AnswersInv'
  BY <1>8 DEF Save
<1>9. ASSUME NEW r \in Requests, SaveFails(r) PROVE AnswersInv'
  BY <1>9 DEF SaveFails, AnswerWithoutRecord
<1>10. ASSUME NEW r \in Requests, ReleaseLock(r) PROVE AnswersInv'
  BY <1>10 DEF ReleaseLock
<1>11. ASSUME NEW r \in Requests, ReleaseFails(r) PROVE AnswersInv'
  BY <1>11 DEF ReleaseFails
<1>12. CASE ExpireLock
  BY <1>12 DEF ExpireLock
<1>13. CASE Crash
  BY <1>13 DEF Crash, InFlight
<1>14. CASE UNCHANGED requestVars
  BY <1>14 DEF requestVars
<1>15. QED
  BY <1>1, <1>2, <1>3, <1>4, <1>5, <1>6, <1>7, <1>8, <1>9, <1>10, <1>11, <1>12, <1>13, <1>14
  DEF RequestNext, Intercept

-----------------------------------------------------------------------------
\* The inductive invariant of the interceptor: types, the holder of the lock and
\* the record behind every success.
THEOREM RequestInvariance == RequestSpec => []RequestInv
<1>1. RequestInv /\ [RequestNext]_requestVars => RequestInv'
  BY RequestTypesKept, LockKept, AnswersKept DEF RequestInv, AnswersInv
<1>2. QED
  BY <1>1, RequestInvInitially, PTL DEF RequestSpec

\* The interceptor's state stays in its types; no request polls more often than
\* waitForRecord allows.
THEOREM RequestTypeCorrectness == RequestSpec => []RequestTypeOK
  BY RequestInvariance, PTL DEF RequestInv

\* While no lock has expired, handlers of the same request do not overlap.
THEOREM HandlersDoNotOverlap == RequestSpec => []NoOverlap
<1>1. RequestInv => NoOverlap
  BY DEF RequestInv, HolderIsAlone, Holding, NoOverlap, RequestTypeOK
<1>2. QED
  BY <1>1, RequestInvariance, PTL

\* A request repeated after a success was told is answered from the record.
THEOREM RetriesAreReplayed == RequestSpec => []RetryIsReplayed
<1>1. RequestInv => RetryIsReplayed
  BY DEF RequestInv, LateOnesFindRecord, RetryIsReplayed
<1>2. QED
  BY <1>1, RequestInvariance, PTL

-----------------------------------------------------------------------------
(* A register that is written once.                                        *)

\* The delivery whose handler made the change and is not known to have failed.
Wrote(r) ==
    \/ pc[r] = "saving"
    \/ pc[r] \in {"releasing", "answered"} /\ answer[r] = "success"

OnlyOneWrote == \A r, s \in Requests : Wrote(r) /\ Wrote(s) => r = s

\* What is recorded, saved or refused has a change behind it.
WritesAreDone ==
    /\ record => done
    /\ \A r \in Requests :
          /\ pc[r] = "saving" => done
          /\ pc[r] = "releasing" => answer[r] \in {"success", "refused", "error"}
          /\ pc[r] \in {"releasing", "answered"} /\ answer[r] \in {"success", "refused"} => done

OnceInv == OnlyOneWrote /\ WritesAreDone

\* Only a handler that changes something makes a writer, and there is none then.
LEMMA OnceKept ==
    ASSUME RequestTypeOK, SuccessIsRecorded, OnceInv, [RequestNext]_requestVars
    PROVE  OnceInv'
<1> USE DEF RequestTypeOK, OnceInv, OnlyOneWrote, WritesAreDone, Wrote,
            Goto, Answer, ReleaseWith, Fault, redisVars, boundVars
<1>1. ASSUME NEW r \in Requests, Send(r) PROVE OnceInv'
  BY <1>1 DEF Send
<1>2. ASSUME NEW r \in Requests, LookUp(r) PROVE OnceInv'
  BY <1>2 DEF LookUp
<1>3. ASSUME NEW r \in Requests, AcquireLock(r) PROVE OnceInv'
  BY <1>3 DEF AcquireLock, AfterBusyLock
<1>4. ASSUME NEW r \in Requests, Poll(r) PROVE OnceInv'
  BY <1>4 DEF Poll
<1>5. ASSUME NEW r \in Requests, EarlyCallFails(r) PROVE OnceInv'
  BY <1>5 DEF EarlyCallFails
<1>6. ASSUME NEW r \in Requests, RunHandler(r) PROVE OnceInv'
  BY <1>6 DEF RunHandler, StatusRefuses
<1>7. ASSUME NEW r \in Requests, HandlerFails(r) PROVE OnceInv'
  BY <1>7 DEF HandlerFails
<1>8. ASSUME NEW r \in Requests, Save(r) PROVE OnceInv'
  BY <1>8 DEF Save
<1>9. ASSUME NEW r \in Requests, SaveFails(r) PROVE OnceInv'
  BY <1>9 DEF SaveFails, AnswerWithoutRecord
<1>10. ASSUME NEW r \in Requests, ReleaseLock(r) PROVE OnceInv'
  BY <1>10 DEF ReleaseLock
<1>11. ASSUME NEW r \in Requests, ReleaseFails(r) PROVE OnceInv'
  BY <1>11 DEF ReleaseFails
<1>12. CASE ExpireLock
  BY <1>12 DEF ExpireLock
<1>13. CASE Crash
  BY <1>13 DEF Crash, InFlight
<1>14. CASE UNCHANGED requestVars
  BY <1>14 DEF requestVars
<1>15. QED
  BY <1>1, <1>2, <1>3, <1>4, <1>5, <1>6, <1>7, <1>8, <1>9, <1>10, <1>11, <1>12, <1>13, <1>14
  DEF RequestNext, Intercept

\* A delivery that goes from one place to another inside the interceptor shows nothing.
LEMMA InsideIsUnseen ==
    ASSUME RequestTypeOK, NEW r \in Requests, pc[r] \in InFlight,
           NEW place \in InFlight, Goto(r, place),
           \A s \in Requests \ {r} : answer'[s] = answer[s]
    PROVE  Outcome' = Outcome
<1>1. \A s \in Requests : Seen(pc'[s], answer'[s]) = Seen(pc[s], answer[s])
  BY DEF RequestTypeOK, Goto, Seen, InFlight
<1> QED
  BY <1>1 DEF Outcome

\* An answer shows at once.
LEMMA AnswerIsSeen ==
    ASSUME RequestTypeOK, NEW r \in Requests, pc[r] \in InFlight, NEW a,
           Goto(r, "answered"), answer' = [answer EXCEPT ![r] = a]
    PROVE  Outcome[r] = "open" /\ Outcome' = [Outcome EXCEPT ![r] = a]
<1>1. /\ pc'[r] = "answered" /\ answer'[r] = a
      /\ \A s \in Requests \ {r} : pc'[s] = pc[s] /\ answer'[s] = answer[s]
  BY DEF RequestTypeOK, Goto
<1>2. /\ Seen(pc'[r], answer'[r]) = a
      /\ \A s \in Requests \ {r} : Seen(pc'[s], answer'[s]) = Seen(pc[s], answer[s])
  BY <1>1 DEF Seen
<1>3. Seen(pc[r], answer[r]) = "open"
  BY DEF Seen, InFlight
<1> QED
  BY <1>2, <1>3 DEF Outcome

\* Every step is a step of the register or is not seen.
LEMMA RequestStepIsRegisterStep ==
    ASSUME RequestInv, OnceInv, [RequestNext]_requestVars
    PROVE  [Register!RegisterNext]_(Register!writeOnceVars)
<1> USE DEF Fault, boundVars, redisVars
<1>0. RequestTypeOK
  BY DEF RequestInv
<1>1. ASSUME UNCHANGED <<done, late>>, Outcome' = Outcome
      PROVE  [Register!RegisterNext]_(Register!writeOnceVars)
  BY <1>1 DEF Register!writeOnceVars
<1>2. ASSUME NEW r \in Requests, pc[r] \in InFlight, NEW a, Goto(r, "answered"),
             answer' = [answer EXCEPT ![r] = a], UNCHANGED <<done, late>>,
             a \in Register!Outcomes, Register!MayBeTold(r, a)
      PROVE  [Register!RegisterNext]_(Register!writeOnceVars)
  <2>1. Outcome[r] = "open" /\ Outcome' = [Outcome EXCEPT ![r] = a]
    BY <1>0, <1>2, AnswerIsSeen
  <2>2. Register!Tell(r, a)
    BY <1>2, <2>1 DEF Register!Tell
  <2> QED
    BY <1>2, <2>2 DEF Register!RegisterNext
<1>3. ASSUME NEW r \in Requests, pc[r] \in InFlight, NEW place \in InFlight, Goto(r, place),
             \A s \in Requests \ {r} : answer'[s] = answer[s], UNCHANGED <<done, late>>
      PROVE  [Register!RegisterNext]_(Register!writeOnceVars)
  BY <1>0, <1>1, <1>3, InsideIsUnseen
<1>4. ASSUME NEW r \in Requests, Register!MayBeTold(r, "error"), pc[r] \in InFlight,
             Answer(r, "error"), UNCHANGED <<done, late>>
      PROVE  [Register!RegisterNext]_(Register!writeOnceVars)
  BY <1>2, <1>4 DEF Answer, Register!Outcomes, Register!Failures
<1>5. \A r \in Requests : Register!MayBeTold(r, "error")
  BY DEF Register!MayBeTold, Register!Successes, Register!Failures
<1>6. record => \A r \in Requests : Register!MayBeTold(r, "replay")
  BY DEF Register!MayBeTold, OnceInv, WritesAreDone
<1>7. ASSUME NEW r \in Requests, Send(r)
      PROVE  [Register!RegisterNext]_(Register!writeOnceVars)
  <2>1. /\ Outcome[r] = "unsent" /\ Outcome' = [Outcome EXCEPT ![r] = "open"]
        /\ UNCHANGED done
    BY <1>0, <1>7 DEF Send, Goto, Outcome, Seen, RequestTypeOK
  <2>2. ToldOfSuccess <=> Register!SuccessWasTold
    BY <1>0 DEF ToldOfSuccess, Register!SuccessWasTold, Register!Successes, Outcome, Seen,
                RequestTypeOK, Answers
  <2>3. Register!Ask(r)
    BY <1>7, <2>1, <2>2 DEF Send, Register!Ask
  <2> QED
    BY <2>3 DEF Register!RegisterNext
<1>8. ASSUME NEW r \in Requests, LookUp(r)
      PROVE  [Register!RegisterNext]_(Register!writeOnceVars)
  <2>1. pc[r] \in InFlight /\ "missed" \in InFlight /\ UNCHANGED <<done, late>>
    BY <1>8 DEF LookUp, InFlight, Places
  <2>2. CASE record
    BY <1>2, <1>6, <1>8, <2>1, <2>2 DEF LookUp, Answer, Register!Outcomes, Register!Successes
  <2>3. CASE ~record
    BY <1>3, <1>8, <2>1, <2>3 DEF LookUp
  <2> QED
    BY <2>2, <2>3
<1>9. ASSUME NEW r \in Requests, AcquireLock(r)
      PROVE  [Register!RegisterNext]_(Register!writeOnceVars)
  <2>1. PICK place \in {"running", "waiting"} : Goto(r, place)
    BY <1>9 DEF AcquireLock, AfterBusyLock
  <2>2. /\ pc[r] \in InFlight /\ place \in InFlight
        /\ UNCHANGED <<answer, done, late>>
    BY <1>9 DEF AcquireLock, InFlight, Places
  <2> QED
    BY <1>3, <2>1, <2>2
<1>10. ASSUME NEW r \in Requests, Poll(r)
       PROVE  [Register!RegisterNext]_(Register!writeOnceVars)
  <2>1. pc[r] = "waiting" /\ pc[r] \in InFlight /\ UNCHANGED <<done, late>>
    BY <1>10 DEF Poll, InFlight, Places
  <2>2. CASE record /\ Answer(r, "replay")
    BY <1>2, <1>6, <2>1, <2>2 DEF Answer, Register!Outcomes, Register!Successes
  <2>3. CASE UNCHANGED <<pc, answer>>
    BY <1>1, <2>1, <2>3 DEF Outcome
  <2>4. CASE Answer(r, "in_progress")
    <3>1. r \notin late
      BY <2>1 DEF RequestInv, LateOnesFindRecord
    <3>2. Register!MayBeTold(r, "in_progress")
      BY <3>1 DEF Register!MayBeTold, Register!Successes
    <3> QED
      BY <1>2, <2>1, <2>4, <3>2 DEF Answer, Register!Outcomes
  <2> QED
    BY <1>10, <2>2, <2>3, <2>4 DEF Poll
<1>11. ASSUME NEW r \in Requests, EarlyCallFails(r)
       PROVE  [Register!RegisterNext]_(Register!writeOnceVars)
  <2>1. pc[r] \in InFlight /\ "waiting" \in InFlight /\ UNCHANGED <<done, late>>
    BY <1>11 DEF EarlyCallFails, InFlight, Places
  <2>2. Answer(r, "error") \/ (Goto(r, "waiting") /\ UNCHANGED answer)
    BY <1>11 DEF EarlyCallFails
  <2>3. CASE Answer(r, "error")
    BY <1>4, <1>5, <2>1, <2>3
  <2>4. CASE Goto(r, "waiting") /\ UNCHANGED answer
    BY <1>3, <2>1, <2>4
  <2> QED
    BY <2>2, <2>3, <2>4
<1>12. ASSUME NEW r \in Requests, RunHandler(r) \/ HandlerFails(r)
       PROVE  [Register!RegisterNext]_(Register!writeOnceVars)
  <2>1. PICK place \in {"saving", "releasing"} : Goto(r, place)
    BY <1>12 DEF RunHandler, HandlerFails, ReleaseWith
  <2>2. /\ pc[r] = "running" /\ pc[r] \in InFlight /\ place \in InFlight /\ UNCHANGED late
        /\ \A s \in Requests \ {r} : answer'[s] = answer[s]
        /\ done' = done \/ (~done /\ done' = TRUE)
    BY <1>0, <1>12 DEF RunHandler, HandlerFails, ReleaseWith, StatusRefuses, InFlight, Places,
                       RequestTypeOK
  <2>3. Outcome' = Outcome
    BY <1>0, <2>1, <2>2, InsideIsUnseen
  <2>4. CASE done' = done
    BY <1>1, <2>2, <2>3, <2>4
  <2>5. CASE ~done /\ done' = TRUE
    <3>1. Outcome[r] = "open" /\ r \notin late
      BY <2>2 DEF Outcome, Seen, RequestInv, LateOnesFindRecord
    <3>2. Register!WriteBy(r)
      BY <2>2, <2>3, <2>5, <3>1 DEF Register!WriteBy
    <3> QED
      BY <3>2 DEF Register!RegisterNext
  <2> QED
    BY <2>2, <2>4, <2>5
<1>13. ASSUME NEW r \in Requests, Save(r) \/ SaveFails(r)
       PROVE  [Register!RegisterNext]_(Register!writeOnceVars)
  <2>1. /\ pc[r] \in InFlight /\ "releasing" \in InFlight /\ Goto(r, "releasing")
        /\ \A s \in Requests \ {r} : answer'[s] = answer[s]
        /\ UNCHANGED <<done, late>>
    BY <1>0, <1>13 DEF Save, SaveFails, ReleaseWith, InFlight, Places, RequestTypeOK
  <2> QED
    BY <1>3, <2>1
<1>14. ASSUME NEW r \in Requests, ReleaseLock(r)
       PROVE  [Register!RegisterNext]_(Register!writeOnceVars)
  <2>1. /\ pc[r] = "releasing" /\ pc[r] \in InFlight /\ UNCHANGED <<done, late>>
        /\ Goto(r, "answered") /\ answer' = answer
    BY <1>14 DEF ReleaseLock, InFlight, Places
  <2>2. answer' = [answer EXCEPT ![r] = answer[r]]
    BY <1>0, <2>1 DEF RequestTypeOK
  <2>3. answer[r] \in {"success", "refused", "error"} /\ (answer[r] # "error" => done)
    BY <2>1 DEF OnceInv, WritesAreDone
  <2>4. r \notin late
    BY <2>1 DEF RequestInv, LateOnesFindRecord
  <2>5. ASSUME answer[r] = "success", NEW s \in Requests PROVE Outcome[s] # "success"
    <3>1. SUFFICES ASSUME Outcome[s] = "success" PROVE FALSE
      OBVIOUS
    <3>2. pc[s] = "answered" /\ answer[s] = "success"
      BY <3>1 DEF Outcome, Seen
    <3>3. Wrote(r) /\ Wrote(s)
      BY <2>1, <2>5, <3>2 DEF Wrote
    <3> QED
      BY <2>1, <3>2, <3>3 DEF OnceInv, OnlyOneWrote
  <2>6. Register!MayBeTold(r, answer[r])
    BY <2>3, <2>4, <2>5 DEF Register!MayBeTold, Register!Successes
  <2>7. answer[r] \in Register!Outcomes
    BY <2>3 DEF Register!Outcomes, Register!Successes, Register!Failures
  <2> QED
    BY <1>2, <2>1, <2>2, <2>6, <2>7
<1>15. ASSUME NEW r \in Requests, ReleaseFails(r)
       PROVE  [Register!RegisterNext]_(Register!writeOnceVars)
  <2>1. pc[r] \in InFlight /\ Answer(r, "error") /\ UNCHANGED <<done, late>>
    BY <1>15 DEF ReleaseFails, InFlight, Places
  <2> QED
    BY <1>4, <1>5, <2>1
<1>16. CASE ExpireLock \/ UNCHANGED requestVars
  BY <1>1, <1>16 DEF ExpireLock, requestVars, Outcome
<1>17. CASE Crash
  <2>1. PICK R \in SUBSET {r \in Requests : pc[r] \in InFlight} :
           /\ pc' = [r \in Requests |-> IF r \in R THEN "answered" ELSE pc[r]]
           /\ answer' = [r \in Requests |-> IF r \in R THEN "lost" ELSE answer[r]]
           /\ UNCHANGED <<done, late>>
    BY <1>17 DEF Crash
  <2>2. \A r \in Requests :
           Seen(pc'[r], answer'[r]) = IF r \in R THEN "lost" ELSE Seen(pc[r], answer[r])
    BY <2>1 DEF Seen
  <2>3. Outcome' = [r \in Requests |-> IF r \in R THEN "lost" ELSE Outcome[r]]
    BY <2>2 DEF Outcome
  <2>4. R \in SUBSET {r \in Requests : Outcome[r] = "open"}
    BY DEF Outcome, Seen, InFlight
  <2>5. Register!Lose
    BY <2>1, <2>3, <2>4 DEF Register!Lose
  <2> QED
    BY <2>5 DEF Register!RegisterNext
<1> QED
  BY <1>7, <1>8, <1>9, <1>10, <1>11, <1>12, <1>13, <1>14, <1>15, <1>16, <1>17
  DEF RequestNext, Intercept

\* The clients of the interceptor see a register that is written once, for any number
\* of deliveries, polls, failing calls and crashes, and although locks expire, are
\* deleted by whoever finishes, and the handler is run again (idempotency.interceptor.ts).
THEOREM RequestsWriteOnce == RequestSpec => IsWrittenOnce
<1>1. RequestInit => OnceInv /\ Register!RegisterInit
  BY DEF RequestInit, OnceInv, OnlyOneWrote, Wrote, WritesAreDone, Register!RegisterInit,
         Outcome, Seen
<1>2. RequestInv /\ OnceInv /\ [RequestNext]_requestVars => OnceInv'
  BY OnceKept DEF RequestInv
<1>3. RequestInv /\ OnceInv /\ [RequestNext]_requestVars =>
        [Register!RegisterNext]_(Register!writeOnceVars)
  BY RequestStepIsRegisterStep
<1> QED
  BY <1>1, <1>2, <1>3, RequestInvariance, PTL DEF RequestSpec, IsWrittenOnce, Register!RegisterSpec

(***************************************************************************)
(* The sliding window limits what it lets through, for any window, limits  *)
(* and number of requests under way.                                       *)
(***************************************************************************)

\* No request carries an instant that is still to come, and none was admitted at one.
RateTypeOK ==
  /\ rateClock \in Instants
  /\ entries \in [Keys -> SUBSET Instants]
  /\ expiry \in [Keys -> Nat]
  /\ asking \in [Clients -> {Nobody} \cup [key : Keys, at : 0..rateClock]]
  /\ admissions \subseteq [key : Keys, at : 0..rateClock]

\* What was admitted within the window that ends now is still in the sorted set,
\* and the set lives on until it has left the window.
RecentAreStored ==
  \A a \in admissions :
    /\ expiry[a.key] >= a.at + RateWindow
    /\ a.at > rateClock - RateWindow => a.at \in entries[a.key]

RateInv == RateTypeOK /\ RecentAreStored /\ WindowIsLimited

Window(key, end) == {a \in admissions : a.key = key /\ end - RateWindow < a.at /\ a.at <= end}

(* Admissions of one key at different instants are as many as their instants. *)
LEMMA CountedByInstant ==
  ASSUME NEW key \in Keys, NEW S \in SUBSET [key : Keys, at : Nat], \A a \in S : a.key = key,
         NEW T, IsFiniteSet(T), \A a \in S : a.at \in T
  PROVE  IsFiniteSet(S) /\ Cardinality(S) <= Cardinality(T)
<1> DEFINE f == [a \in S |-> a.at]
<1>1. f \in [S -> T]
  OBVIOUS
<1>2. ASSUME NEW a \in S, NEW b \in S, f[a] = f[b] PROVE a = b
  <2>1. a.at = b.at /\ a.key = b.key
    BY <1>2
  <2> QED
    BY <2>1
<1>3. f \in Injection(S, T)
  BY <1>1, <1>2 DEF Injection, IsInjective
<1> QED
  BY <1>3, FS_Injection, Zenon

\* A window holds finitely many instants.
LEMMA FiniteInstants == ASSUME NEW S \in SUBSET Instants PROVE IsFiniteSet(S) /\ Cardinality(S) \in Nat
<1>1. IsFiniteSet(Instants)
  BY RateParametersAssumption, FS_Interval DEF Instants
<1> QED
  BY <1>1, FS_Subset, FS_CardinalityType

\* Nothing has been admitted.
LEMMA LimiterInit == InitLimiter => RateInv
<1> SUFFICES ASSUME InitLimiter PROVE RateInv
  OBVIOUS
<1> USE RateParametersAssumption DEF InitLimiter
<1>1. RateTypeOK
  BY DEF RateTypeOK, Instants
<1>2. RecentAreStored
  BY DEF RecentAreStored
<1>3. WindowIsLimited
  <2>1. ASSUME NEW key \in Keys, NEW end \in Instants
        PROVE  Cardinality({a \in admissions : a.key = key /\ end - RateWindow < a.at /\ a.at <= end})
                 <= RateLimits[key]
    <3>1. {a \in admissions : a.key = key /\ end - RateWindow < a.at /\ a.at <= end} = {}
      OBVIOUS
    <3> QED
      BY <3>1, FS_EmptySet
  <2> QED
    BY <2>1 DEF WindowIsLimited
<1> QED
  BY <1>1, <1>2, <1>3 DEF RateInv

(* One evaluation of the script: what it keeps holds every instant admitted
   within the window that ends now. *)
LEMMA KeptHoldsWindow ==
  ASSUME RateInv, NEW key \in Keys, NEW at \in 0..rateClock, NEW a \in admissions,
         a.key = key, a.at > rateClock - RateWindow
  PROVE  a.at \in InWindow(key, at)
<1>1. a.at \in Nat /\ rateClock \in Nat /\ RateWindow \in Nat /\ expiry[key] \in Nat
  BY RateParametersAssumption DEF RateInv, RateTypeOK, Instants
<1>2. expiry[key] >= a.at + RateWindow /\ a.at \in entries[key]
  BY DEF RateInv, RecentAreStored
<1>3. expiry[key] > rateClock
  BY <1>1, <1>2
<1>4. a.at \in Stored(key)
  BY <1>1, <1>2, <1>3 DEF Stored
<1>5. a.at > at - RateWindow
  BY <1>1
<1> QED
  BY <1>4, <1>5 DEF InWindow

(* An admission at this instant is within the limit of each window it falls in. *)
LEMMA AdmissionKeepsLimit ==
  ASSUME RateInv, NEW key \in Keys, BelowLimit(Cardinality(InWindow(key, rateClock)), key),
         admissions' = admissions \cup {[key |-> key, at |-> rateClock]}
  PROVE  WindowIsLimited'
<1> USE RateParametersAssumption
<1>1. rateClock \in Nat /\ RateWindow \in Nat /\ RateLimits \in [Keys -> Nat] /\ Instants \subseteq Nat
      /\ rateClock \in Instants
  BY DEF RateInv, RateTypeOK, Instants
<1>2. SUFFICES ASSUME NEW k \in Keys, NEW end \in Instants
               PROVE  Cardinality(Window(k, end)') <= RateLimits[k]
  BY DEF WindowIsLimited, Window
<1>3. CASE ~(k = key /\ end - RateWindow < rateClock /\ rateClock <= end)
  <2>1. Window(k, end)' = Window(k, end)
    BY <1>3 DEF Window
  <2> QED
    BY <2>1 DEF RateInv, WindowIsLimited, Window
<1>4. CASE k = key /\ end - RateWindow < rateClock /\ rateClock <= end
  <2> DEFINE kept == InWindow(key, rateClock)
  <2>1. kept \in SUBSET Instants
    BY DEF InWindow, Stored, RateInv, RateTypeOK
  <2>2. IsFiniteSet(kept) /\ Cardinality(kept) \in Nat
    BY <2>1, FiniteInstants
  <2>3. IsFiniteSet(kept \cup {rateClock}) /\ Cardinality(kept \cup {rateClock}) <= Cardinality(kept) + 1
    <3>1. IsFiniteSet(kept \cup {rateClock})
          /\ Cardinality(kept \cup {rateClock}) =
               IF rateClock \in kept THEN Cardinality(kept) ELSE Cardinality(kept) + 1
      BY <2>2, FS_AddElement, Zenon
    <3> HIDE DEF kept
    <3> QED
      BY <2>2, <3>1
  <2>4. Window(k, end)' \in SUBSET [key : Keys, at : Nat]
    BY <1>1 DEF Window, RateInv, RateTypeOK
  <2>5. ASSUME NEW a \in Window(k, end)' PROVE a.key = key /\ a.at \in kept \cup {rateClock}
    <3>1. a.key = key /\ a.at \in Nat /\ end \in Nat /\ a.at > end - RateWindow
      BY <1>1, <1>4, <2>4, <2>5 DEF Window
    <3>2. CASE a \in admissions
      <4>1. a.at > rateClock - RateWindow
        BY <1>1, <1>4, <3>1
      <4> QED
        BY <1>1, <3>1, <3>2, <4>1, KeptHoldsWindow
    <3>3. CASE a = [key |-> key, at |-> rateClock]
      BY <3>3
    <3> QED
      BY <2>5, <3>2, <3>3 DEF Window
  <2>6. IsFiniteSet(Window(k, end)')
        /\ Cardinality(Window(k, end)') <= Cardinality(kept \cup {rateClock})
    BY <2>3, <2>4, <2>5, CountedByInstant
  <2>7. Cardinality(Window(k, end)') \in Nat /\ Cardinality(kept \cup {rateClock}) \in Nat
    BY <2>3, <2>6, FS_CardinalityType
  <2>8. Cardinality(kept) < RateLimits[key]
    BY DEF BelowLimit
  <2> QED
    BY <1>1, <1>4, <2>2, <2>3, <2>6, <2>7, <2>8
<1> QED
  BY <1>3, <1>4

(* The script, run for a request of this or of an earlier instant. *)
LEMMA EvaluationStep ==
  ASSUME RateInv, NEW c \in Clients, EvaluateWindow(c)
  PROVE  RateInv'
<1> DEFINE key == asking[c].key
           at == asking[c].at
           kept == InWindow(key, at)
<1> USE RateParametersAssumption
<1>1. key \in Keys /\ at \in 0..rateClock /\ rateClock \in Instants /\ rateClock \in Nat
      /\ RateWindow \in Nat
  BY DEF EvaluateWindow, RateInv, RateTypeOK, Nobody, Instants
<1>2. kept \in SUBSET Instants
  BY <1>1 DEF InWindow, Stored, RateInv, RateTypeOK
<1>3. rateClock' = rateClock /\ asking' \in [Clients -> {Nobody} \cup [key : Keys, at : 0..rateClock]]
  <2>1. \E r \in {Nobody, [key |-> "endpoint", at |-> rateClock]} : asking' = [asking EXCEPT ![c] = r]
    BY DEF EvaluateWindow, Proceed
  <2>2. {Nobody, [key |-> "endpoint", at |-> rateClock]} \subseteq {Nobody} \cup [key : Keys, at : 0..rateClock]
    BY <1>1 DEF Keys
  <2>3. asking \in [Clients -> {Nobody} \cup [key : Keys, at : 0..rateClock]]
    BY DEF RateInv, RateTypeOK, EvaluateWindow, Proceed
  <2> QED
    BY <2>1, <2>2, <2>3 DEF EvaluateWindow
<1>4. CASE BelowLimit(Cardinality(kept), key)
  <2>1. entries' = [entries EXCEPT ![key] = kept \cup {at}]
        /\ expiry' = [expiry EXCEPT ![key] = rateClock + RateWindow] /\ Admit(key, at)
    BY <1>4 DEF EvaluateWindow
  <2>2. RateTypeOK'
    <3>1. at \in Instants
      BY <1>1 DEF Instants
    <3>2. admissions' \subseteq [key : Keys, at : 0..rateClock]
      BY <1>1, <2>1 DEF Admit, RateInv, RateTypeOK
    <3> QED
      BY <1>1, <1>2, <1>3, <2>1, <3>1, <3>2 DEF RateInv, RateTypeOK
  <2>3. RecentAreStored'
    <3> SUFFICES ASSUME NEW a \in admissions'
                 PROVE  /\ expiry'[a.key] >= a.at + RateWindow
                        /\ a.at > rateClock - RateWindow => a.at \in entries'[a.key]
      BY <1>3 DEF RecentAreStored
    <3>1. a.key \in Keys /\ a.at \in 0..rateClock
      BY <1>3, <2>2 DEF RateTypeOK
    <3>2. CASE a.key # key
      <4>1. a \in admissions
        BY <2>1, <3>2 DEF Admit
      <4> QED
        BY <2>1, <3>1, <3>2, <4>1 DEF RateInv, RateTypeOK, RecentAreStored
    <3>3. CASE a.key = key
      <4>1. expiry'[key] = rateClock + RateWindow /\ entries'[key] = kept \cup {at}
        BY <1>1, <2>1 DEF RateInv, RateTypeOK
      <4>2. a \in admissions \/ a.at = at
        BY <2>1 DEF Admit
      <4> QED
        BY <1>1, <3>1, <3>3, <4>1, <4>2, KeptHoldsWindow
    <3> QED
      BY <3>2, <3>3
  <2>4. WindowIsLimited'
    BY <1>1, <1>4, <2>1, AdmissionKeepsLimit DEF Admit, RateInv, WindowIsLimited
  <2> QED
    BY <2>2, <2>3, <2>4 DEF RateInv
<1>5. CASE ~BelowLimit(Cardinality(kept), key)
  <2>1. entries' = [entries EXCEPT ![key] = kept] /\ UNCHANGED <<expiry, admissions>>
    BY <1>5 DEF EvaluateWindow
  <2>2. RateTypeOK'
    BY <1>1, <1>2, <1>3, <2>1 DEF RateInv, RateTypeOK
  <2>3. RecentAreStored'
    BY <1>1, <1>3, <2>1, KeptHoldsWindow DEF RateInv, RateTypeOK, RecentAreStored
  <2>4. WindowIsLimited'
    BY <2>1 DEF RateInv, WindowIsLimited
  <2> QED
    BY <2>2, <2>3, <2>4 DEF RateInv
<1> QED
  BY <1>4, <1>5

(* A request that is let through because Redis does not answer is counted only
   where that must not happen. *)
LEMMA OtherLimiterSteps ==
  ASSUME RateInv, NEW c \in Clients, AskGlobal(c) \/ WindowUnavailable(c)
  PROVE  RateInv'
<1> USE RateParametersAssumption
<1>1. rateClock' = rateClock /\ UNCHANGED <<entries, expiry, admissions>>
  BY DEF AskGlobal, WindowUnavailable, PassesWithoutRedis, Admit
<1>2. \E r \in {Nobody} \cup [key : Keys, at : {rateClock}] : asking' = [asking EXCEPT ![c] = r]
  BY DEF AskGlobal, WindowUnavailable, Proceed, Keys
<1>3. rateClock \in 0..rateClock
  BY DEF RateInv, RateTypeOK, Instants
<1>4. RateTypeOK'
  BY <1>1, <1>2, <1>3 DEF RateInv, RateTypeOK
<1> QED
  BY <1>1, <1>4 DEF RateInv, RecentAreStored, WindowIsLimited

\* Every request let through stays within its window.
LEMMA LimiterStep == ASSUME RateInv, [StepLimiter]_rateVars PROVE RateInv'
<1>1. CASE RateTick
  <2>1. rateClock' = rateClock + 1 /\ rateClock \in Nat /\ RateWindow \in Nat /\ rateClock' \in Instants
        /\ UNCHANGED <<entries, expiry, asking, admissions>>
    BY <1>1, RateParametersAssumption DEF RateTick, RateInv, RateTypeOK, Instants
  <2>2. 0..rateClock \subseteq 0..rateClock'
    BY <2>1
  <2>3. RateTypeOK'
    BY <2>1, <2>2 DEF RateInv, RateTypeOK
  <2>4. RecentAreStored'
    BY <2>1 DEF RateInv, RateTypeOK, RecentAreStored
  <2> QED
    BY <2>1, <2>3, <2>4 DEF RateInv, WindowIsLimited
<1>2. CASE UNCHANGED rateVars
  BY <1>2 DEF rateVars, RateInv, RateTypeOK, RecentAreStored, WindowIsLimited
<1> QED
  BY <1>1, <1>2, EvaluationStep, OtherLimiterSteps DEF StepLimiter

(* No window of a key lets through requests at more instants than its limit,
   whatever order the scripts of overlapping requests run in (RateLimitGuard). *)
THEOREM TheWindowIsLimited == LimiterSpec => []WindowIsLimited
<1>1. RateInv => WindowIsLimited
  BY DEF RateInv
<1> QED
  BY LimiterInit, LimiterStep, <1>1, PTL DEF LimiterSpec

-----------------------------------------------------------------------------
(***************************************************************************)
(* The policies that an expense has passed when it is submitted.           *)
(***************************************************************************)
PolicySpec == InitPolicies /\ [][StepPolicies]_policyVars

ClaimRows == [status : {"DRAFT", "SUBMITTED", "APPROVED", "REJECTED"}, amount : Nat,
              category : ClaimCategories, submittedAt : Int, attachmentCount : AttachmentCounts]
Contexts == [id : Claims \cup {"none"}, amount : Nat, category : ClaimCategories \cup {"none"},
             submittedAt : Int, attachmentCount : AttachmentCounts \cup {0}]
Submissions == [step : {"none", "loading", "read", "loaded", "tested"}, context : Contexts,
                policies : SUBSET PolicyChoices, disturbed : BOOLEAN]

PolicyTypeOK ==
    /\ claimRows \in [Claims -> ClaimRows]
    /\ policyRows \in SUBSET PolicyChoices
    /\ policyMemory \in [policies : SUBSET PolicyChoices, cachedAt : Int]
    /\ submissions \in [Claims -> Submissions]
    /\ policyClock \in Nat
    /\ inForceSince \in [PolicyChoices -> Int]
    /\ covered \in [Claims -> SUBSET PolicyChoices]

Begun(c) == submissions[c].context.submittedAt
LongInForce(p, begun) == inForceSince[p] + CacheTtl <= begun

\* What is remembered or read is not from later than now.
NothingFromTheFuture ==
    /\ policyMemory.cachedAt <= policyClock
    /\ \A p \in PolicyChoices : -CacheTtl <= inForceSince[p] /\ inForceSince[p] <= policyClock
    /\ \A c \in Claims : submissions[c].step # "none" => Begun(c) <= policyClock

\* The memory misses no active policy that was activated before it was asked for.
MemoryIsComplete ==
    \A p \in policyRows : inForceSince[p] < policyMemory.cachedAt => p \in policyMemory.policies

\* A submission misses none either, of those that were in force for long enough.
LoadedAreComplete ==
    \A c \in Claims, p \in policyRows :
        /\ submissions[c].step = "read" /\ inForceSince[p] < Begun(c)
           => p \in submissions[c].policies
        /\ submissions[c].step = "loaded" /\ LongInForce(p, Begun(c))
           => p \in submissions[c].policies

\* Undisturbed, it still speaks of the draft as it is.
ContextIsCurrent ==
    \A c \in Claims :
        submissions[c].step \in {"loading", "read", "loaded"} /\ ~submissions[c].disturbed =>
            /\ claimRows[c].status = "DRAFT"
            /\ submissions[c].context.id = c
            /\ submissions[c].context.amount = claimRows[c].amount
            /\ submissions[c].context.category = claimRows[c].category

\* Of given rows: those that count, those of a month and category, and what some of
\* them add up to.
CountingIn(rows) == {c \in Claims : rows[c].status \in ActiveExpenseStatuses}
MonthIn(rows, m, category) ==
    {c \in CountingIn(rows) : MonthOf(rows[c].submittedAt) = m /\ rows[c].category = category}
TotalIn(rows, S) == SumOf([c \in Claims |-> rows[c].amount], S)

\* What policy p asks of submitting claim c at the instant begun, beside the claims
\* that count already.
IsBlocking(p, ruleType) == p.ruleType = ruleType /\ p.severity = "BLOCK"
DuplicateWindow(p) == p.config.windowDays * InstantsPerDay
LeavesRoom(rows, p, c, begun) ==
    rows[c].category = p.config.category =>
        TotalIn(rows, MonthIn(rows, MonthOf(begun), p.config.category) \ {c}) + rows[c].amount
            <= p.config.capKobo
HasNoEqual(rows, p, c, begun) ==
    \A d \in CountingIn(rows) \ {c} :
        rows[d].amount = rows[c].amount /\ rows[d].category = rows[c].category
            => rows[d].submittedAt < begun - DuplicateWindow(p)
Permits(rows, p, c, begun) ==
    /\ IsBlocking(p, "CATEGORY_MONTHLY_CAP") => LeavesRoom(rows, p, c, begun)
    /\ IsBlocking(p, "DUPLICATE_DETECTION") => HasNoEqual(rows, p, c, begun)

TestedArePermitted ==
    \A c \in Claims : submissions[c].step = "tested" /\ ~submissions[c].disturbed =>
        \A p \in policyRows : LongInForce(p, Begun(c)) => Permits(claimRows, p, c, Begun(c))

\* The claims that a cap covers stay below it, whatever the others of the month are.
Months == {MonthOf(t) : t \in 0..MaxPolicyInstant}
CoveredOf(rows, passed, p, m) == {c \in MonthIn(rows, m, p.config.category) : p \in passed[c]}
CapsHold(rows, passed) ==
    \A p \in PolicyChoices : IsBlocking(p, "CATEGORY_MONTHLY_CAP") =>
        \A m \in Months : TotalIn(rows, CoveredOf(rows, passed, p, m)) <= p.config.capKobo

PolicyInv ==
    /\ PolicyTypeOK /\ NothingFromTheFuture
    /\ MemoryIsComplete /\ LoadedAreComplete /\ ContextIsCurrent
    /\ TestedArePermitted /\ CapsHold(claimRows, covered) /\ DuplicatesAreBlocked

-----------------------------------------------------------------------------
\* The library's sums over rows are sums of a function of their names.
LEMMA AmountsAreSum == ASSUME NEW S PROVE AmountsOf(S) = SumOf([e \in S |-> e.amount], S)
<1> DEFINE f == [e \in S |-> e.amount]
           Term(g, s) == (CHOOSE x \in s : TRUE).amount + g[s \ {CHOOSE x \in s : TRUE}]
           Step(g, s) == IF s = {} THEN 0 ELSE Term(g, s)
<1>1. \A s : s \in SUBSET S /\ s # {} =>
         (CHOOSE x \in s : TRUE).amount = f[CHOOSE x \in s : TRUE]
  OBVIOUS
<1>2. \A g : [s \in SUBSET S |-> Step(g, s)] = [s \in SUBSET S |-> Partial(f, g, s)]
  BY <1>1 DEF Partial, Pick
<1>3. Sums(f, S) = CHOOSE g : g = [s \in SUBSET S |-> Step(g, s)]
  BY <1>2 DEF Sums
<1>4. AmountsOf(S) = (CHOOSE g : g = [s \in SUBSET S |-> Step(g, s)])[S]
  BY DEF AmountsOf, MapThenSumSet, MapThenFoldSet
<1> QED
  BY <1>3, <1>4, SumIsSums

\* The same of the claims themselves.
LEMMA TotalIsSum ==
  ASSUME NEW S \in SUBSET Claims PROVE TotalOf(S) = TotalIn(claimRows, S)
<1> DEFINE f == [c \in Claims |-> claimRows[c].amount]
           Term(g, s) == claimRows[CHOOSE x \in s : TRUE].amount + g[s \ {CHOOSE x \in s : TRUE}]
           Step(g, s) == IF s = {} THEN 0 ELSE Term(g, s)
<1>1. \A s : s \in SUBSET S /\ s # {} =>
         claimRows[CHOOSE x \in s : TRUE].amount = f[CHOOSE x \in s : TRUE]
  OBVIOUS
<1>2. \A g : [s \in SUBSET S |-> Step(g, s)] = [s \in SUBSET S |-> Partial(f, g, s)]
  BY <1>1 DEF Partial, Pick
<1>3. Sums(f, S) = CHOOSE g : g = [s \in SUBSET S |-> Step(g, s)]
  BY <1>2 DEF Sums
<1>4. TotalOf(S) = (CHOOSE g : g = [s \in SUBSET S |-> Step(g, s)])[S]
  BY DEF TotalOf, MapThenSumSet, MapThenFoldSet
<1> QED
  BY <1>3, <1>4, SumIsSums DEF TotalIn

\* Fewer claims, with their amounts as they were, do not add up to more.
LEMMA TotalShrinks ==
  ASSUME NEW S \in SUBSET Claims, NEW T \in SUBSET S, NEW rows, NEW later,
         \A c \in Claims : rows[c].amount \in Nat, \A c \in T : later[c].amount = rows[c].amount
  PROVE  TotalIn(later, T) <= TotalIn(rows, S)
<1> DEFINE f == [c \in Claims |-> rows[c].amount]
           g == [c \in Claims |-> later[c].amount]
<1>1. IsFiniteSet(S) /\ IsFiniteSet(T)
  BY FS_Subset, PolicyParametersAssumption
<1>2. (\A c \in S : f[c] \in Nat) /\ \A c \in T : g[c] = f[c]
  OBVIOUS
<1> HIDE DEF f, g
<1>3. SumOf(g, T) = SumOf(f, T)
  BY <1>1, <1>2, SumCongruence
<1>4. SumOf(f, T) <= SumOf(f, S)
  BY <1>1, <1>2, SumOfSubset
<1> QED
  BY <1>3, <1>4 DEF TotalIn, f, g

\* One claim more adds its amount.
LEMMA TotalGrows ==
  ASSUME NEW S \in SUBSET Claims, NEW c \in Claims \ S, NEW rows,
         \A d \in Claims : rows[d].amount \in Nat
  PROVE  TotalIn(rows, S \cup {c}) = TotalIn(rows, S) + rows[c].amount
<1> DEFINE f == [d \in Claims |-> rows[d].amount]
<1>1. IsFiniteSet(S) /\ (\A d \in S \cup {c} : f[d] \in Int) /\ f[c] = rows[c].amount
  BY FS_Subset, PolicyParametersAssumption
<1> HIDE DEF f
<1>2. SumOf(f, S \cup {c}) = SumOf(f, S) + f[c]
  BY <1>1, SumAdd
<1> QED
  BY <1>1, <1>2 DEF TotalIn, f

\* Amounts that are natural numbers add up to one.
LEMMA TotalType ==
  ASSUME NEW S \in SUBSET Claims, NEW rows, \A d \in Claims : rows[d].amount \in Nat
  PROVE  TotalIn(rows, S) \in Nat
<1> DEFINE f == [d \in Claims |-> rows[d].amount]
<1>1. IsFiniteSet(S) /\ \A d \in S : f[d] \in Nat
  BY FS_Subset, PolicyParametersAssumption
<1> HIDE DEF f
<1>2. SumOf(f, S) \in Nat
  BY <1>1, SumType
<1> QED
  BY <1>2 DEF TotalIn, f

-----------------------------------------------------------------------------
\* A blocking cap that an expense passes leaves room for it (legacyToConditional,
\* evaluatePolicy, isViolated).
LEMMA CapLeavesRoom ==
  ASSUME NEW p, IsBlocking(p, "CATEGORY_MONTHLY_CAP"), p.config.capKobo \in Int,
         NEW context, NEW history, context.category = p.config.category,
         MonthlyCategorySpend(context, history, p.config.category) \in Int,
         ~EvaluatePolicy(p, context, history)
  PROVE  MonthlyCategorySpend(context, history, p.config.category) <= p.config.capKobo
<1> DEFINE One == Condition("category", "eq", p.config.category)
           Two == ConditionOn("monthly_category_spend", "gt", p.config.capKobo, p.config.category)
<1>1. AsConditional(p) = [match |-> "all", conditions |-> {One, Two}]
  BY DEF AsConditional, IsBlocking
<1>2. ~IsViolated(AsConditional(p), context, history)
  BY DEF EvaluatePolicy, IsBlocking
<1>3. ~ConditionHolds(One, context, history) \/ ~ConditionHolds(Two, context, history)
  <2> HIDE DEF One, Two
  <2> QED
    BY <1>1, <1>2 DEF IsViolated
<1>4. ConditionHolds(One, context, history)
  BY DEF Condition, ConditionHolds, ConditionAppliesToExpense, FieldValue, Compare
<1>5. ~(MonthlyCategorySpend(context, history, p.config.category) > p.config.capKobo)
  <2>1. /\ Two.field = "monthly_category_spend" /\ Two.operator = "gt"
        /\ Two.value = p.config.capKobo /\ Two.params[1] = p.config.category
    BY DEF ConditionOn
  <2> HIDE DEF Two
  <2>2. ConditionAppliesToExpense(Two, context)
    BY <2>1 DEF ConditionAppliesToExpense
  <2>3. FieldValue(Two, context, history)
          = MonthlyCategorySpend(context, history, p.config.category)
    BY <2>1 DEF FieldValue
  <2> QED
    BY <1>3, <1>4, <2>1, <2>2, <2>3 DEF ConditionHolds, Compare
<1> QED
  BY <1>5

\* A blocking duplicate rule that an expense passes has found no equal one.
LEMMA DuplicateIsSeen ==
  ASSUME NEW p, IsBlocking(p, "DUPLICATE_DETECTION"), NEW context, NEW history,
         ~EvaluatePolicy(p, context, history)
  PROVE  ~HasDuplicateExpense(context, history, p.config.windowDays)
<1> DEFINE One == ConditionOn("has_duplicate_expense", "eq", TRUE, p.config.windowDays)
<1>1. AsConditional(p) = [match |-> "all", conditions |-> {One}]
  BY DEF AsConditional, IsBlocking
<1>2. ~IsViolated(AsConditional(p), context, history)
  BY DEF EvaluatePolicy, IsBlocking
<1>3. ~ConditionHolds(One, context, history)
  <2> HIDE DEF One
  <2> QED
    BY <1>1, <1>2 DEF IsViolated
<1>4. /\ One.field = "has_duplicate_expense" /\ One.operator = "eq"
      /\ One.value = TRUE /\ One.params[1] = p.config.windowDays
  BY DEF ConditionOn
<1> HIDE DEF One
<1>5. ConditionAppliesToExpense(One, context)
  BY <1>4 DEF ConditionAppliesToExpense
<1>6. FieldValue(One, context, history) = HasDuplicateExpense(context, history, p.config.windowDays)
  BY <1>4 DEF FieldValue
<1> QED
  BY <1>3, <1>4, <1>5, <1>6 DEF ConditionHolds, Compare

\* Adding up the rows of the history that the query selects is adding up the claims.
LEMMA SpendIsTotal ==
  ASSUME PolicyTypeOK, NEW c \in Claims, NEW k, submissions[c].context.id = c
  PROVE  MonthlyCategorySpendWithoutClaim(submissions[c].context, History, k)
           = TotalIn(claimRows, MonthIn(claimRows, MonthOf(Begun(c)), k) \ {c})
<1> DEFINE T == MonthIn(claimRows, MonthOf(Begun(c)), k) \ {c}
           h == [d \in Claims |->
                   [id |-> d, status |-> claimRows[d].status, amount |-> claimRows[d].amount,
                    category |-> claimRows[d].category, submittedAt |-> claimRows[d].submittedAt]]
           R == {h[d] : d \in T}
           f == [e \in R |-> e.amount]
           g == [d \in Claims |-> claimRows[d].amount]
<1>1. \A d \in Claims : /\ h[d].id = d /\ h[d].status = claimRows[d].status
                        /\ h[d].amount = claimRows[d].amount
                        /\ h[d].category = claimRows[d].category
                        /\ h[d].submittedAt = claimRows[d].submittedAt
  OBVIOUS
<1>2. History = {h[d] : d \in Claims}
  BY DEF History
<1>3. T = {d \in Claims : /\ d # c /\ claimRows[d].category = k
                          /\ claimRows[d].status \in ActiveExpenseStatuses
                          /\ MonthOf(claimRows[d].submittedAt) = MonthOf(Begun(c))}
  BY DEF MonthIn, CountingIn
<1>4. \A d \in Claims : g[d] \in Nat /\ g[d] = h[d].amount
  BY <1>1 DEF PolicyTypeOK, ClaimRows
<1> HIDE DEF h, g, T
<1>5. {e \in History : /\ e.id # submissions[c].context.id /\ e.category = k
                       /\ e.status \in ActiveExpenseStatuses
                       /\ MonthOf(e.submittedAt) = MonthOf(submissions[c].context.submittedAt)} = R
  <2>1. Begun(c) = submissions[c].context.submittedAt
    BY DEF Begun
  <2> QED
    BY <1>1, <1>2, <1>3, <2>1
<1>6. MonthlyCategorySpendWithoutClaim(submissions[c].context, History, k) = SumOf(f, R)
  BY <1>5, AmountsAreSum DEF MonthlyCategorySpendWithoutClaim
<1>7. SumOf(f, R) = SumOf(g, T)
  <2>1. IsFiniteSet(T) /\ T \subseteq Claims
    BY <1>3, FS_Subset, PolicyParametersAssumption
  <2>2. \A x, y \in T : h[x] = h[y] => x = y
    BY <1>1, <2>1
  <2>3. \A x \in T : g[x] = f[h[x]] /\ g[x] \in Int
    BY <1>4, <2>1
  <2> HIDE DEF f
  <2> QED
    BY <2>1, <2>2, <2>3, SumImage
<1> QED
  BY <1>6, <1>7 DEF TotalIn, T, g

\* Whatever policy an expense passes permits its submission, as long as its context
\* is the claim as it is (assertCompliant).
LEMMA CompliantIsPermitted ==
  ASSUME PolicyTypeOK, NEW c \in Claims, NEW p \in PolicyChoices,
         submissions[c].context.id = c,
         submissions[c].context.amount = claimRows[c].amount,
         submissions[c].context.category = claimRows[c].category,
         p.severity = "BLOCK" => ~EvaluatePolicy(p, submissions[c].context, History)
  PROVE  Permits(claimRows, p, c, Begun(c))
<1> DEFINE context == submissions[c].context
           k == p.config.category
           room == TotalIn(claimRows, MonthIn(claimRows, MonthOf(Begun(c)), k) \ {c})
<1>1. ASSUME IsBlocking(p, "CATEGORY_MONTHLY_CAP"), claimRows[c].category = k
      PROVE  room + claimRows[c].amount <= p.config.capKobo
  <2>1. MonthlyCategorySpend(context, History, k) = room + claimRows[c].amount
    BY <1>1, SpendIsTotal DEF MonthlyCategorySpend
  <2>2. room \in Nat /\ claimRows[c].amount \in Nat
    <3>1. \A d \in Claims : claimRows[d].amount \in Nat
      BY DEF PolicyTypeOK, ClaimRows
    <3>2. MonthIn(claimRows, MonthOf(Begun(c)), k) \ {c} \in SUBSET Claims
      BY DEF MonthIn, CountingIn
    <3> QED
      BY <3>1, <3>2, TotalType
  <2>3. p.config.capKobo \in Int
    BY <1>1, PolicyParametersAssumption DEF IsBlocking
  <2>4. MonthlyCategorySpend(context, History, k) \in Int
    BY <2>1, <2>2
  <2>5. context.category = k /\ ~EvaluatePolicy(p, context, History)
    BY <1>1 DEF IsBlocking
  <2> HIDE DEF room, context
  <2>6. MonthlyCategorySpend(context, History, k) <= p.config.capKobo
    BY <1>1, <2>3, <2>4, <2>5, CapLeavesRoom
  <2> QED
    BY <2>1, <2>6
<1>2. ASSUME IsBlocking(p, "DUPLICATE_DETECTION"), NEW d \in CountingIn(claimRows) \ {c},
             claimRows[d].amount = claimRows[c].amount,
             claimRows[d].category = claimRows[c].category
      PROVE  claimRows[d].submittedAt < Begun(c) - DuplicateWindow(p)
  <2>1. ~HasDuplicateExpense(context, History, p.config.windowDays)
    BY <1>2, DuplicateIsSeen DEF IsBlocking
  <2> DEFINE e == [id |-> d, status |-> claimRows[d].status, amount |-> claimRows[d].amount,
                   category |-> claimRows[d].category, submittedAt |-> claimRows[d].submittedAt]
  <2>2. e \in History /\ d \in Claims
    BY DEF History, CountingIn
  <2>3. /\ e.id # context.id /\ e.amount = context.amount /\ e.category = context.category
        /\ e.status \notin {"DRAFT", "REJECTED"} /\ e.submittedAt = claimRows[d].submittedAt
    BY <1>2 DEF CountingIn, ActiveExpenseStatuses
  <2> HIDE DEF e
  <2>4. ~(claimRows[d].submittedAt >= Begun(c) - DuplicateWindow(p))
    BY <2>1, <2>2, <2>3 DEF HasDuplicateExpense, Begun, DuplicateWindow
  <2>5. claimRows[d].submittedAt \in Int /\ Begun(c) \in Int
    BY <2>2 DEF PolicyTypeOK, ClaimRows, Submissions, Contexts, Begun
  <2>6. DuplicateWindow(p) \in Int
    <3>1. p.config.windowDays \in Int /\ InstantsPerDay \in Int
      BY <1>2, PolicyParametersAssumption, CalendarAssumption DEF IsBlocking
    <3> QED
      BY <3>1 DEF DuplicateWindow
  <2> QED
    BY <2>4, <2>5, <2>6
<1> QED
  BY <1>1, <1>2 DEF Permits, LeavesRoom, HasNoEqual

-----------------------------------------------------------------------------
\* Before anything is submitted nothing counts.
LEMMA PolicyInvInitially == InitPolicies => PolicyInv
<1> SUFFICES ASSUME InitPolicies PROVE PolicyInv
  OBVIOUS
<1>1. CacheTtl \in Nat \ {0} /\ ClaimAmounts \subseteq Nat
  BY PolicyParametersAssumption
<1>2. claimRows \in [Claims -> ClaimRows] /\ \A c \in Claims : claimRows[c].status = "DRAFT"
  <2>1. \A a \in ClaimAmounts, k \in ClaimCategories, n \in AttachmentCounts :
           Claim(a, k, n) \in ClaimRows /\ Claim(a, k, n).status = "DRAFT"
    BY <1>1 DEF Claim, ClaimRows
  <2> QED
    BY <2>1 DEF InitPolicies
<1>3. NoSubmission \in Submissions /\ NoSubmission.step = "none"
  BY DEF NoSubmission, NoContext, Submissions, Contexts
<1>4. policyMemory = NoMemory /\ NoMemory.policies = {} /\ NoMemory.cachedAt = -CacheTtl
  BY DEF InitPolicies, NoMemory
<1>5. PolicyTypeOK
  <2>1. NoMemory \in [policies : SUBSET PolicyChoices, cachedAt : Int]
    BY <1>1 DEF NoMemory
  <2> QED
    BY <1>1, <1>2, <1>3, <1>4, <2>1 DEF InitPolicies, PolicyTypeOK
<1>6. \A p \in PolicyChoices : inForceSince[p] = -CacheTtl
  BY DEF InitPolicies
<1>7. \A c \in Claims : submissions[c].step = "none"
  BY <1>3 DEF InitPolicies
<1>8. NothingFromTheFuture
  BY <1>1, <1>4, <1>6, <1>7 DEF InitPolicies, NothingFromTheFuture
<1>9. MemoryIsComplete
  BY <1>1, <1>4, <1>6 DEF InitPolicies, MemoryIsComplete
<1>10. LoadedAreComplete /\ ContextIsCurrent /\ TestedArePermitted
  BY <1>7 DEF LoadedAreComplete, ContextIsCurrent, TestedArePermitted
<1>11. CountingIn(claimRows) = {} /\ Counting = {}
  BY <1>2 DEF CountingIn, Counting, ActiveExpenseStatuses
<1>12. CapsHold(claimRows, covered)
  <2> SUFFICES ASSUME NEW p \in PolicyChoices, IsBlocking(p, "CATEGORY_MONTHLY_CAP"), NEW m \in Months
               PROVE  TotalIn(claimRows, CoveredOf(claimRows, covered, p, m)) <= p.config.capKobo
    BY DEF CapsHold
  <2>1. CoveredOf(claimRows, covered, p, m) = {}
    BY <1>11 DEF CoveredOf, MonthIn
  <2>2. TotalIn(claimRows, {}) = 0
    BY SumEmpty DEF TotalIn
  <2>3. p.config.capKobo \in Nat
    BY PolicyParametersAssumption DEF IsBlocking
  <2> QED
    BY <2>1, <2>2, <2>3
<1>13. DuplicatesAreBlocked
  BY <1>11 DEF DuplicatesAreBlocked
<1> QED
  BY <1>5, <1>8, <1>9, <1>10, <1>12, <1>13 DEF PolicyInv

\* A change of a claim leaves no submission both tested and undisturbed.
LEMMA Disturbs ==
  ASSUME NEW S \in [Claims -> Submissions], NEW c \in Claims
  PROVE  /\ DisturbedBy(S, c) \in [Claims -> Submissions]
         /\ \A d \in Claims :
              /\ DisturbedBy(S, c)[d].step = S[d].step
              /\ DisturbedBy(S, c)[d].context = S[d].context
              /\ DisturbedBy(S, c)[d].policies = S[d].policies
              /\ ~DisturbedBy(S, c)[d].disturbed =>
                   /\ S[d].step # "tested" /\ ~S[d].disturbed
                   /\ d = c => S[d].step = "none"
<1> SUFFICES ASSUME NEW d \in Claims
             PROVE  /\ DisturbedBy(S, c)[d] \in Submissions
                    /\ DisturbedBy(S, c)[d].step = S[d].step
                    /\ DisturbedBy(S, c)[d].context = S[d].context
                    /\ DisturbedBy(S, c)[d].policies = S[d].policies
                    /\ ~DisturbedBy(S, c)[d].disturbed =>
                         /\ S[d].step # "tested" /\ ~S[d].disturbed
                         /\ d = c => S[d].step = "none"
  BY DEF DisturbedBy
<1>1. S[d] \in Submissions
  OBVIOUS
<1>2. CASE S[d].step = "tested" \/ (d = c /\ S[d].step # "none")
  <2>1. DisturbedBy(S, c)[d] = [S[d] EXCEPT !.disturbed = TRUE]
    BY <1>2 DEF DisturbedBy
  <2> QED
    BY <1>1, <2>1 DEF Submissions
<1>3. CASE ~(S[d].step = "tested" \/ (d = c /\ S[d].step # "none"))
  <2>1. DisturbedBy(S, c)[d] = S[d]
    BY <1>3 DEF DisturbedBy
  <2> QED
    BY <1>1, <1>3, <2>1
<1> QED
  BY <1>2, <1>3

\* What the invariant says of policies and memory outlasts any step that keeps them
\* and starts no submission.
LEMMA PoliciesRest ==
  ASSUME PolicyInv, UNCHANGED <<policyRows, policyMemory, policyClock, inForceSince>>,
         \A d \in Claims :
            \/ submissions'[d].step = "none"
            \/ /\ submissions'[d].step = submissions[d].step
               /\ submissions'[d].context = submissions[d].context
               /\ submissions'[d].policies = submissions[d].policies
  PROVE  NothingFromTheFuture' /\ MemoryIsComplete' /\ LoadedAreComplete'
<1>1. NothingFromTheFuture'
  BY DEF PolicyInv, NothingFromTheFuture, Begun
<1>2. MemoryIsComplete'
  BY DEF PolicyInv, MemoryIsComplete
<1>3. LoadedAreComplete'
  BY DEF PolicyInv, LoadedAreComplete, LongInForce, Begun
<1> QED
  BY <1>1, <1>2, <1>3

\* What it says of the claims submitted outlasts any step that keeps the claims.
LEMMA ClaimsRest ==
  ASSUME PolicyInv, UNCHANGED <<claimRows, covered>>
  PROVE  CapsHold(claimRows, covered)' /\ DuplicatesAreBlocked'
<1>1. CapsHold(claimRows, covered)'
  BY DEF PolicyInv
<1>2. DuplicatesAreBlocked'
  BY DEF PolicyInv, DuplicatesAreBlocked, Counting, InstantsApart
<1> QED
  BY <1>1, <1>2

\* A step that counts no claim more, and changes none that counts, keeps the caps and
\* the windows.
LEMMA FewerCount ==
  ASSUME PolicyInv, claimRows' \in [Claims -> ClaimRows], covered' = covered,
         \A d \in Claims : claimRows'[d].status \in ActiveExpenseStatuses =>
            /\ claimRows[d].status \in ActiveExpenseStatuses
            /\ claimRows'[d].amount = claimRows[d].amount
            /\ claimRows'[d].category = claimRows[d].category
            /\ claimRows'[d].submittedAt = claimRows[d].submittedAt
  PROVE  CapsHold(claimRows, covered)' /\ DuplicatesAreBlocked'
<1>1. ASSUME NEW p \in PolicyChoices, IsBlocking(p, "CATEGORY_MONTHLY_CAP"), NEW m \in Months
      PROVE  TotalIn(claimRows', CoveredOf(claimRows', covered', p, m)) <= p.config.capKobo
  <2> DEFINE S == CoveredOf(claimRows, covered, p, m)
             T == CoveredOf(claimRows', covered', p, m)
  <2>1. TotalIn(claimRows, S) <= p.config.capKobo
    BY <1>1 DEF PolicyInv, CapsHold
  <2>2. S \in SUBSET Claims /\ T \in SUBSET S
    BY DEF CoveredOf, MonthIn, CountingIn
  <2>3. \A d \in T : claimRows'[d].amount = claimRows[d].amount
    BY DEF CoveredOf, MonthIn, CountingIn
  <2>4. /\ \A d \in Claims : claimRows[d].amount \in Nat
        /\ \A d \in Claims : claimRows'[d].amount \in Nat
    BY DEF PolicyInv, PolicyTypeOK, ClaimRows
  <2>5. p.config.capKobo \in Int
    BY <1>1, PolicyParametersAssumption DEF IsBlocking
  <2> HIDE DEF S, T
  <2>6. TotalIn(claimRows', T) <= TotalIn(claimRows, S)
    BY <2>2, <2>3, <2>4, TotalShrinks
  <2>7. TotalIn(claimRows', T) \in Int /\ TotalIn(claimRows, S) \in Int
    BY <2>2, <2>4, TotalType
  <2>8. TotalIn(claimRows', T) <= p.config.capKobo
    BY <2>1, <2>5, <2>6, <2>7
  <2> QED
    BY <2>8 DEF T
<1>2. CapsHold(claimRows, covered)'
  BY <1>1 DEF CapsHold
<1>3. DuplicatesAreBlocked'
  BY DEF PolicyInv, DuplicatesAreBlocked, Counting, InstantsApart
<1> QED
  BY <1>2, <1>3

-----------------------------------------------------------------------------
\* A change of claim c that makes it count no more than before keeps the invariant.
LEMMA ClaimChanges ==
  ASSUME PolicyInv, NEW c \in Claims, claimRows' \in [Claims -> ClaimRows],
         \A d \in Claims \ {c} : claimRows'[d] = claimRows[d],
         claimRows'[c].status \in ActiveExpenseStatuses =>
            /\ claimRows[c].status \in ActiveExpenseStatuses
            /\ claimRows'[c].amount = claimRows[c].amount
            /\ claimRows'[c].category = claimRows[c].category
            /\ claimRows'[c].submittedAt = claimRows[c].submittedAt,
         submissions' = DisturbedBy(submissions, c),
         UNCHANGED <<policyRows, policyMemory, policyClock, inForceSince, covered>>
  PROVE  PolicyInv'
<1>1. submissions \in [Claims -> Submissions]
  BY DEF PolicyInv, PolicyTypeOK
<1>2. /\ submissions' \in [Claims -> Submissions]
      /\ \A d \in Claims :
           /\ submissions'[d].step = submissions[d].step
           /\ submissions'[d].context = submissions[d].context
           /\ submissions'[d].policies = submissions[d].policies
           /\ ~submissions'[d].disturbed =>
                /\ submissions[d].step # "tested" /\ ~submissions[d].disturbed
                /\ d = c => submissions[d].step = "none"
  BY <1>1, Disturbs
<1>3. PolicyTypeOK'
  BY <1>2 DEF PolicyInv, PolicyTypeOK
<1>4. NothingFromTheFuture' /\ MemoryIsComplete' /\ LoadedAreComplete'
  BY <1>2, PoliciesRest
<1>5. ContextIsCurrent'
  BY <1>2 DEF PolicyInv, ContextIsCurrent
<1>6. TestedArePermitted'
  BY <1>2 DEF TestedArePermitted
<1>7. CapsHold(claimRows, covered)' /\ DuplicatesAreBlocked'
  <2>1. \A d \in Claims : claimRows'[d].status \in ActiveExpenseStatuses =>
            /\ claimRows[d].status \in ActiveExpenseStatuses
            /\ claimRows'[d].amount = claimRows[d].amount
            /\ claimRows'[d].category = claimRows[d].category
            /\ claimRows'[d].submittedAt = claimRows[d].submittedAt
    OBVIOUS
  <2> QED
    BY <2>1, FewerCount
<1> QED
  BY <1>3, <1>4, <1>5, <1>6, <1>7 DEF PolicyInv

\* A draft does not count before or after its edit.
LEMMA EditClaimStep == ASSUME PolicyInv, NEW c \in Claims, EditClaim(c) PROVE PolicyInv'
<1>1. PICK a \in ClaimAmounts, k \in ClaimCategories, n \in AttachmentCounts :
         /\ claimRows[c].status = "DRAFT"
         /\ claimRows' = [claimRows EXCEPT ![c].amount = a, ![c].category = k,
                                           ![c].attachmentCount = n]
  BY DEF EditClaim
<1>2. claimRows \in [Claims -> ClaimRows] /\ a \in Nat
  BY PolicyParametersAssumption DEF PolicyInv, PolicyTypeOK
<1>3. \A d \in Claims \ {c} : claimRows'[d] = claimRows[d]
  BY <1>1, <1>2
<1>4. claimRows'[c] = [claimRows[c] EXCEPT !.amount = a, !.category = k, !.attachmentCount = n]
  BY <1>1, <1>2
<1>5. claimRows[c] \in ClaimRows
  BY <1>2
<1>6. claimRows'[c] \in ClaimRows /\ claimRows'[c].status = "DRAFT"
  BY <1>1, <1>2, <1>4, <1>5 DEF ClaimRows
<1>7. claimRows' \in [Claims -> ClaimRows]
  <2>1. claimRows' = [d \in Claims |-> claimRows'[d]]
    BY <1>1, <1>2
  <2> QED
    BY <1>2, <1>3, <1>6, <2>1
<1>8. "DRAFT" \notin ActiveExpenseStatuses
  BY DEF ActiveExpenseStatuses
<1> QED
  BY <1>3, <1>6, <1>7, <1>8, ClaimChanges DEF EditClaim

\* A decision takes a claim out of the count or leaves it there.
LEMMA DecideClaimStep == ASSUME PolicyInv, NEW c \in Claims, DecideClaim(c) PROVE PolicyInv'
<1>1. PICK status \in {"APPROVED", "REJECTED"} :
         /\ claimRows[c].status = "SUBMITTED"
         /\ claimRows' = [claimRows EXCEPT ![c].status = status]
  BY DEF DecideClaim
<1>2. claimRows \in [Claims -> ClaimRows]
  BY DEF PolicyInv, PolicyTypeOK
<1>3. \A d \in Claims \ {c} : claimRows'[d] = claimRows[d]
  BY <1>1, <1>2
<1>4. claimRows'[c] = [claimRows[c] EXCEPT !.status = status]
  BY <1>1, <1>2
<1>5. claimRows[c] \in ClaimRows
  BY <1>2
<1>6. /\ claimRows'[c] \in ClaimRows
      /\ claimRows'[c].amount = claimRows[c].amount
      /\ claimRows'[c].category = claimRows[c].category
      /\ claimRows'[c].submittedAt = claimRows[c].submittedAt
  BY <1>4, <1>5 DEF ClaimRows
<1>7. claimRows' \in [Claims -> ClaimRows]
  <2>1. claimRows' = [d \in Claims |-> claimRows'[d]]
    BY <1>1, <1>2
  <2> QED
    BY <1>2, <1>3, <1>6, <2>1
<1>8. claimRows[c].status \in ActiveExpenseStatuses
  BY <1>1 DEF ActiveExpenseStatuses
<1> QED
  BY <1>3, <1>6, <1>7, <1>8, ClaimChanges DEF DecideClaim

-----------------------------------------------------------------------------
\* Only a policy that was activated just now is new, and nothing under way has been
\* so for the lifetime of a memory since.
LEMMA ChangePoliciesStep ==
  ASSUME PolicyInv, NEW here \in BOOLEAN, ChangePolicies(here) PROVE PolicyInv'
<1>1. PICK rows \in SUBSET PolicyChoices :
         /\ policyRows' = rows
         /\ inForceSince' = [p \in PolicyChoices |->
                               IF p \in rows \ policyRows THEN policyClock ELSE inForceSince[p]]
         /\ UNCHANGED <<claimRows, policyMemory, submissions, policyClock, covered>>
  BY DEF ChangePolicies
<1>2. /\ CacheTtl \in Nat \ {0} /\ policyClock \in Nat /\ policyMemory.cachedAt \in Int
      /\ \A p \in PolicyChoices : inForceSince[p] \in Int
      /\ \A c \in Claims : Begun(c) \in Int
  BY PolicyParametersAssumption
  DEF PolicyInv, PolicyTypeOK, Submissions, Contexts, Begun
<1>3. NothingFromTheFuture
  BY DEF PolicyInv
<1>4. PolicyTypeOK'
  BY <1>1, <1>2 DEF PolicyInv, PolicyTypeOK
<1>5. \A p \in policyRows' : \/ inForceSince'[p] = policyClock
                             \/ p \in policyRows /\ inForceSince'[p] = inForceSince[p]
  BY <1>1
<1>6. \A c \in Claims : Begun(c)' = Begun(c)
  BY <1>1 DEF Begun
<1>7. policyRows' \subseteq PolicyChoices /\ policyRows \subseteq PolicyChoices
  BY <1>1 DEF PolicyInv, PolicyTypeOK
<1>8. NothingFromTheFuture'
  <2>1. \A p \in PolicyChoices : inForceSince'[p] = policyClock \/ inForceSince'[p] = inForceSince[p]
    BY <1>1
  <2>2. \A p \in PolicyChoices : -CacheTtl <= inForceSince'[p] /\ inForceSince'[p] <= policyClock
    BY <1>2, <1>3, <2>1 DEF NothingFromTheFuture
  <2> QED
    BY <1>1, <1>3, <1>6, <2>2 DEF NothingFromTheFuture
<1>9. MemoryIsComplete'
  <2> SUFFICES ASSUME NEW p \in policyRows', inForceSince'[p] < policyMemory.cachedAt
               PROVE  p \in policyMemory.policies
    BY <1>1 DEF MemoryIsComplete
  <2>1. p \in policyRows /\ inForceSince'[p] = inForceSince[p]
    BY <1>2, <1>3, <1>5 DEF NothingFromTheFuture
  <2> QED
    BY <2>1 DEF PolicyInv, MemoryIsComplete
<1>10. LoadedAreComplete'
  <2> SUFFICES ASSUME NEW c \in Claims, NEW p \in policyRows',
                      \/ submissions[c].step = "read" /\ inForceSince'[p] < Begun(c)
                      \/ submissions[c].step = "loaded" /\ inForceSince'[p] + CacheTtl <= Begun(c)
               PROVE  p \in submissions[c].policies
    BY <1>1, <1>6 DEF LoadedAreComplete, LongInForce
  <2>1. submissions[c].step # "none" /\ Begun(c) <= policyClock
    BY <1>3 DEF NothingFromTheFuture
  <2>2. p \in policyRows /\ inForceSince'[p] = inForceSince[p]
    BY <1>2, <1>5, <2>1
  <2> QED
    BY <2>2 DEF PolicyInv, LoadedAreComplete, LongInForce
<1>11. ContextIsCurrent'
  BY <1>1 DEF PolicyInv, ContextIsCurrent
<1>12. TestedArePermitted'
  <2> SUFFICES ASSUME NEW c \in Claims, submissions[c].step = "tested", ~submissions[c].disturbed,
                      NEW p \in policyRows', inForceSince'[p] + CacheTtl <= Begun(c)
               PROVE  Permits(claimRows, p, c, Begun(c))
    BY <1>1, <1>6 DEF TestedArePermitted, LongInForce
  <2>1. submissions[c].step # "none" /\ Begun(c) <= policyClock
    BY <1>3 DEF NothingFromTheFuture
  <2>2. p \in policyRows /\ inForceSince'[p] = inForceSince[p]
    BY <1>2, <1>5, <2>1
  <2> QED
    BY <2>2 DEF PolicyInv, TestedArePermitted, LongInForce
<1> QED
  BY <1>1, <1>4, <1>8, <1>9, <1>10, <1>11, <1>12, ClaimsRest DEF PolicyInv

\* A process that forgets the policies remembers none from before the start.
LEMMA InvalidateStep ==
  ASSUME PolicyInv, InvalidateActivePoliciesCache PROVE PolicyInv'
<1>1. /\ policyMemory' = NoMemory /\ NoMemory.policies = {} /\ NoMemory.cachedAt = -CacheTtl
      /\ UNCHANGED <<claimRows, policyRows, submissions, policyClock, inForceSince, covered>>
  BY DEF InvalidateActivePoliciesCache, NoMemory
<1>2. CacheTtl \in Nat \ {0} /\ NoMemory \in [policies : SUBSET PolicyChoices, cachedAt : Int]
  BY PolicyParametersAssumption DEF NoMemory
<1>3. /\ PolicyTypeOK /\ NothingFromTheFuture /\ LoadedAreComplete
      /\ ContextIsCurrent /\ TestedArePermitted
  BY DEF PolicyInv
<1>4. PolicyTypeOK'
  BY <1>1, <1>2, <1>3 DEF PolicyTypeOK
<1>5. \A c \in Claims : Begun(c)' = Begun(c)
  BY <1>1 DEF Begun
<1>6. NothingFromTheFuture'
  <2>1. -CacheTtl <= policyClock
    BY <1>2, <1>3 DEF PolicyTypeOK
  <2> QED
    BY <1>1, <1>3, <1>5, <2>1 DEF NothingFromTheFuture
<1>7. MemoryIsComplete'
  <2> SUFFICES ASSUME NEW p \in policyRows, inForceSince[p] < -CacheTtl PROVE FALSE
    BY <1>1 DEF MemoryIsComplete
  <2>1. p \in PolicyChoices /\ inForceSince[p] \in Int
    BY <1>3 DEF PolicyTypeOK
  <2> QED
    BY <1>2, <1>3, <2>1 DEF NothingFromTheFuture
<1>8. LoadedAreComplete' /\ ContextIsCurrent' /\ TestedArePermitted'
  BY <1>1, <1>3, <1>5 DEF LoadedAreComplete, ContextIsCurrent, TestedArePermitted, LongInForce
<1> QED
  BY <1>1, <1>4, <1>6, <1>7, <1>8, ClaimsRest DEF PolicyInv

\* What was in force for long enough is found by the instant a submission began, not
\* by the clock.
LEMMA PolicyTickStep == ASSUME PolicyInv, PolicyTick PROVE PolicyInv'
<1>1. /\ policyClock' = policyClock + 1
      /\ UNCHANGED <<claimRows, policyRows, policyMemory, submissions, inForceSince, covered>>
  BY DEF PolicyTick
<1>2. /\ PolicyTypeOK /\ NothingFromTheFuture /\ MemoryIsComplete /\ LoadedAreComplete
      /\ ContextIsCurrent /\ TestedArePermitted
  BY DEF PolicyInv
<1>3. /\ policyClock \in Nat /\ policyMemory.cachedAt \in Int
      /\ \A p \in PolicyChoices : inForceSince[p] \in Int
      /\ \A c \in Claims : Begun(c) \in Int
  BY <1>2 DEF PolicyTypeOK, Submissions, Contexts, Begun
<1>4. PolicyTypeOK'
  BY <1>1, <1>2, <1>3 DEF PolicyTypeOK
<1>5. \A c \in Claims : Begun(c)' = Begun(c)
  BY <1>1 DEF Begun
<1>6. NothingFromTheFuture'
  BY <1>1, <1>2, <1>3, <1>5 DEF NothingFromTheFuture
<1>7. /\ MemoryIsComplete' /\ LoadedAreComplete'
      /\ ContextIsCurrent' /\ TestedArePermitted'
  BY <1>1, <1>2, <1>5
  DEF MemoryIsComplete, LoadedAreComplete, ContextIsCurrent, TestedArePermitted, LongInForce
<1> QED
  BY <1>1, <1>4, <1>6, <1>7, ClaimsRest DEF PolicyInv

-----------------------------------------------------------------------------
\* The steps of submission c itself leave the others as they are.
LEMMA CaptureStep == ASSUME PolicyInv, NEW c \in Claims, Capture(c) PROVE PolicyInv'
<1> DEFINE context == [id |-> c, amount |-> claimRows[c].amount, category |-> claimRows[c].category,
                       submittedAt |-> policyClock,
                       attachmentCount |-> claimRows[c].attachmentCount]
           new == [step     |-> IF MemoryIsFresh THEN "loaded" ELSE "loading",
                   context  |-> context,
                   policies |-> IF MemoryIsFresh THEN policyMemory.policies ELSE {},
                   disturbed |-> FALSE]
<1>1. /\ claimRows[c].status = "DRAFT"
      /\ submissions' = [submissions EXCEPT ![c] = new]
      /\ UNCHANGED <<claimRows, policyRows, policyMemory, policyClock, inForceSince, covered>>
  BY DEF Capture
<1>2. /\ PolicyTypeOK /\ NothingFromTheFuture /\ MemoryIsComplete /\ LoadedAreComplete
      /\ ContextIsCurrent /\ TestedArePermitted
  BY DEF PolicyInv
<1>3. new \in Submissions
  <2>1. claimRows[c] \in ClaimRows /\ policyClock \in Nat /\ policyMemory.policies \in SUBSET PolicyChoices
    BY <1>2 DEF PolicyTypeOK
  <2>2. context \in Contexts
    BY <2>1 DEF ClaimRows, Contexts
  <2> HIDE DEF context
  <2> QED
    BY <2>1, <2>2 DEF Submissions
<1>4. /\ new.step = (IF MemoryIsFresh THEN "loaded" ELSE "loading")
      /\ MemoryIsFresh => new.policies = policyMemory.policies
      /\ new.context.id = c /\ new.context.amount = claimRows[c].amount
      /\ new.context.category = claimRows[c].category /\ new.context.submittedAt = policyClock
  OBVIOUS
<1> HIDE DEF new
<1>5. \A d \in Claims : submissions'[d] = (IF d = c THEN new ELSE submissions[d])
  BY <1>1, <1>2 DEF PolicyTypeOK
<1>6. PolicyTypeOK'
  BY <1>1, <1>2, <1>3, <1>5 DEF PolicyTypeOK
<1>7. \A p \in policyRows : MemoryIsFresh /\ LongInForce(p, policyClock) => p \in policyMemory.policies
  <2>1. /\ CacheTtl \in Nat \ {0} /\ policyClock \in Int /\ policyMemory.cachedAt \in Int
        /\ \A p \in policyRows : inForceSince[p] \in Int
    BY <1>2, PolicyParametersAssumption DEF PolicyTypeOK
  <2> QED
    BY <1>2, <2>1 DEF MemoryIsFresh, LongInForce, MemoryIsComplete
<1>8. NothingFromTheFuture'
  <2>1. policyClock <= policyClock
    BY <1>2 DEF PolicyTypeOK
  <2> QED
    BY <1>1, <1>2, <1>4, <1>5, <2>1 DEF NothingFromTheFuture, Begun
<1>9. MemoryIsComplete'
  BY <1>1, <1>2 DEF MemoryIsComplete
<1>10. LoadedAreComplete'
  <2> SUFFICES ASSUME NEW d \in Claims, NEW p \in policyRows
               PROVE  /\ submissions'[d].step = "read" /\ inForceSince[p] < Begun(d)'
                         => p \in submissions'[d].policies
                      /\ submissions'[d].step = "loaded" /\ LongInForce(p, Begun(d)')
                         => p \in submissions'[d].policies
    BY <1>1 DEF LoadedAreComplete, LongInForce
  <2>1. CASE d = c
    BY <1>4, <1>5, <1>7, <2>1 DEF Begun
  <2>2. CASE d # c
    BY <1>2, <1>5, <2>2 DEF Begun, LoadedAreComplete
  <2> QED
    BY <2>1, <2>2
<1>11. ContextIsCurrent'
  BY <1>1, <1>2, <1>4, <1>5 DEF ContextIsCurrent
<1>12. TestedArePermitted'
  BY <1>1, <1>2, <1>4, <1>5 DEF TestedArePermitted, Begun, LongInForce
<1> QED
  BY <1>1, <1>6, <1>8, <1>9, <1>10, <1>11, <1>12, ClaimsRest DEF PolicyInv

\* The query finds every active policy.
LEMMA ReadPoliciesStep == ASSUME PolicyInv, NEW c \in Claims, ReadPolicies(c) PROVE PolicyInv'
<1>1. /\ submissions[c].step = "loading"
      /\ submissions' = [submissions EXCEPT ![c].step = "read", ![c].policies = policyRows]
      /\ UNCHANGED <<claimRows, policyRows, policyMemory, policyClock, inForceSince, covered>>
  BY DEF ReadPolicies
<1>2. /\ PolicyTypeOK /\ NothingFromTheFuture /\ MemoryIsComplete /\ LoadedAreComplete
      /\ ContextIsCurrent /\ TestedArePermitted
  BY DEF PolicyInv
<1>3. submissions'[c] = [submissions[c] EXCEPT !.step = "read", !.policies = policyRows]
  BY <1>1, <1>2 DEF PolicyTypeOK
<1>4. submissions[c] \in Submissions /\ policyRows \in SUBSET PolicyChoices
  BY <1>2 DEF PolicyTypeOK
<1>5. /\ submissions'[c] \in Submissions
      /\ submissions'[c].step = "read" /\ submissions'[c].policies = policyRows
      /\ submissions'[c].context = submissions[c].context
      /\ submissions'[c].disturbed = submissions[c].disturbed
  BY <1>3, <1>4 DEF Submissions
<1>6. \A d \in Claims \ {c} : submissions'[d] = submissions[d]
  BY <1>1, <1>2 DEF PolicyTypeOK
<1>7. submissions' \in [Claims -> Submissions]
  <2>1. submissions' = [d \in Claims |-> submissions'[d]]
    BY <1>1, <1>2 DEF PolicyTypeOK
  <2>2. \A d \in Claims : submissions'[d] \in Submissions
    BY <1>2, <1>5, <1>6 DEF PolicyTypeOK
  <2> QED
    BY <2>1, <2>2
<1>8. PolicyTypeOK'
  BY <1>1, <1>2, <1>7 DEF PolicyTypeOK
<1>9. \A d \in Claims : Begun(d)' = Begun(d)
  BY <1>5, <1>6 DEF Begun
<1>10. NothingFromTheFuture'
  BY <1>1, <1>2, <1>6, <1>9 DEF NothingFromTheFuture
<1>11. MemoryIsComplete'
  BY <1>1, <1>2 DEF MemoryIsComplete
<1>12. LoadedAreComplete'
  BY <1>1, <1>2, <1>5, <1>6, <1>9 DEF LoadedAreComplete, LongInForce
<1>13. ContextIsCurrent'
  <2>1. \A d \in Claims : /\ submissions'[d].context = submissions[d].context
                          /\ submissions'[d].disturbed = submissions[d].disturbed
                          /\ submissions'[d].step \in {"loading", "read", "loaded"}
                               => submissions[d].step \in {"loading", "read", "loaded"}
    BY <1>1, <1>5, <1>6
  <2>2. claimRows' = claimRows /\ ContextIsCurrent
    BY <1>1, <1>2
  <2> QED
    BY <2>1, <2>2 DEF ContextIsCurrent
<1>14. TestedArePermitted'
  BY <1>1, <1>2, <1>5, <1>6, <1>9 DEF TestedArePermitted, LongInForce
<1> QED
  BY <1>1, <1>8, <1>10, <1>11, <1>12, <1>13, <1>14, ClaimsRest DEF PolicyInv

\* A memory as old as the question misses only what was activated after it.
LEMMA FillMemoryStep == ASSUME PolicyInv, NEW c \in Claims, FillMemory(c) PROVE PolicyInv'
<1>1. /\ submissions[c].step = "read"
      /\ policyMemory' = [policies |-> submissions[c].policies, cachedAt |-> Begun(c)]
      /\ submissions' = [submissions EXCEPT ![c].step = "loaded"]
      /\ UNCHANGED <<claimRows, policyRows, policyClock, inForceSince, covered>>
  BY DEF FillMemory, CachedAt, Begun
<1>2. /\ PolicyTypeOK /\ NothingFromTheFuture /\ MemoryIsComplete /\ LoadedAreComplete
      /\ ContextIsCurrent /\ TestedArePermitted
  BY DEF PolicyInv
<1>3. submissions'[c] = [submissions[c] EXCEPT !.step = "loaded"]
  BY <1>1, <1>2 DEF PolicyTypeOK
<1>4. submissions[c] \in Submissions
  BY <1>2 DEF PolicyTypeOK
<1>5. /\ submissions'[c] \in Submissions
      /\ submissions'[c].step = "loaded" /\ submissions'[c].policies = submissions[c].policies
      /\ submissions'[c].context = submissions[c].context
      /\ submissions'[c].disturbed = submissions[c].disturbed
  BY <1>3, <1>4 DEF Submissions
<1>6. \A d \in Claims \ {c} : submissions'[d] = submissions[d]
  BY <1>1, <1>2 DEF PolicyTypeOK
<1>7. submissions' \in [Claims -> Submissions]
  <2>1. submissions' = [d \in Claims |-> submissions'[d]]
    BY <1>1, <1>2 DEF PolicyTypeOK
  <2>2. \A d \in Claims : submissions'[d] \in Submissions
    BY <1>2, <1>5, <1>6 DEF PolicyTypeOK
  <2> QED
    BY <2>1, <2>2
<1>8. /\ policyMemory' \in [policies : SUBSET PolicyChoices, cachedAt : Int]
      /\ policyMemory'.policies = submissions[c].policies /\ policyMemory'.cachedAt = Begun(c)
  <2>1. submissions[c].policies \in SUBSET PolicyChoices /\ Begun(c) \in Int
    BY <1>4 DEF Submissions, Contexts, Begun
  <2> QED
    BY <1>1, <2>1
<1>9. PolicyTypeOK'
  BY <1>1, <1>2, <1>7, <1>8 DEF PolicyTypeOK
<1>10. \A d \in Claims : Begun(d)' = Begun(d)
  BY <1>5, <1>6 DEF Begun
<1>11. NothingFromTheFuture'
  BY <1>1, <1>2, <1>6, <1>8, <1>10 DEF NothingFromTheFuture
<1>12. MemoryIsComplete'
  BY <1>1, <1>2, <1>8 DEF MemoryIsComplete, LoadedAreComplete
<1>13. LoadedAreComplete'
  <2>1. \A p \in policyRows : LongInForce(p, Begun(c)) => inForceSince[p] < Begun(c)
    <3>1. /\ CacheTtl \in Nat \ {0} /\ Begun(c) \in Int
          /\ \A p \in policyRows : inForceSince[p] \in Int
      BY <1>2, PolicyParametersAssumption DEF PolicyTypeOK, Submissions, Contexts, Begun
    <3> QED
      BY <3>1 DEF LongInForce
  <2> QED
    BY <1>1, <1>2, <1>5, <1>6, <1>10, <2>1 DEF LoadedAreComplete, LongInForce
<1>14. ContextIsCurrent'
  BY <1>1, <1>2, <1>5, <1>6 DEF ContextIsCurrent
<1>15. TestedArePermitted'
  BY <1>1, <1>2, <1>5, <1>6, <1>10 DEF TestedArePermitted, LongInForce
<1> QED
  BY <1>1, <1>9, <1>11, <1>12, <1>13, <1>14, <1>15, ClaimsRest DEF PolicyInv

\* The test of a submission covers every policy it has loaded.
LEMMA AssertCompliantStep == ASSUME PolicyInv, NEW c \in Claims, AssertCompliant(c) PROVE PolicyInv'
<1> DEFINE passed == [NoSubmission EXCEPT !.step = "tested",
                        !.disturbed = submissions[c].disturbed,
                        !.context.submittedAt = submissions[c].context.submittedAt]
<1>1. PICK justified \in BOOLEAN :
        /\ submissions[c].step = "loaded"
        /\ submissions' = [submissions EXCEPT ![c] =
             IF Compliant(submissions[c].policies, submissions[c].context, justified)
             THEN passed ELSE NoSubmission]
        /\ UNCHANGED <<claimRows, policyRows, policyMemory, policyClock, inForceSince, covered>>
  BY DEF AssertCompliant
<1>2. /\ PolicyTypeOK /\ NothingFromTheFuture /\ MemoryIsComplete /\ LoadedAreComplete
      /\ ContextIsCurrent /\ TestedArePermitted
  BY DEF PolicyInv
<1>3. submissions[c] \in Submissions /\ submissions[c].context.submittedAt \in Int
  BY <1>2 DEF PolicyTypeOK, Submissions, Contexts
<1>4. NoSubmission \in Submissions /\ NoSubmission.step = "none"
  BY DEF NoSubmission, NoContext, Submissions, Contexts
<1>5. /\ passed \in Submissions /\ passed.step = "tested"
      /\ passed.disturbed = submissions[c].disturbed /\ passed.context.submittedAt = Begun(c)
  BY <1>3, <1>4 DEF NoSubmission, NoContext, Submissions, Contexts, Begun
<1> HIDE DEF passed
<1>6. /\ submissions'[c] \in {passed, NoSubmission}
      /\ submissions'[c] = passed =>
           Compliant(submissions[c].policies, submissions[c].context, justified)
  <2>1. submissions'[c] = IF Compliant(submissions[c].policies, submissions[c].context, justified)
                          THEN passed ELSE NoSubmission
    BY <1>1, <1>2 DEF PolicyTypeOK
  <2>2. passed # NoSubmission
    BY <1>4, <1>5
  <2> QED
    BY <2>1, <2>2
<1>7. \A d \in Claims \ {c} : submissions'[d] = submissions[d]
  BY <1>1, <1>2 DEF PolicyTypeOK
<1>8. submissions' \in [Claims -> Submissions]
  <2>1. submissions' = [d \in Claims |-> submissions'[d]]
    BY <1>1, <1>2 DEF PolicyTypeOK
  <2>2. \A d \in Claims : submissions'[d] \in Submissions
    BY <1>2, <1>4, <1>5, <1>6, <1>7 DEF PolicyTypeOK
  <2> QED
    BY <2>1, <2>2
<1>9. PolicyTypeOK'
  BY <1>1, <1>2, <1>8 DEF PolicyTypeOK
<1>10. NothingFromTheFuture'
  BY <1>1, <1>2, <1>4, <1>5, <1>6, <1>7 DEF NothingFromTheFuture, Begun
<1>11. MemoryIsComplete'
  BY <1>1, <1>2 DEF MemoryIsComplete
<1>12. submissions'[c].step \notin {"loading", "read", "loaded"}
  BY <1>4, <1>5, <1>6
<1>13. LoadedAreComplete'
  BY <1>1, <1>2, <1>7, <1>12 DEF LoadedAreComplete, LongInForce, Begun
<1>14. ContextIsCurrent'
  BY <1>1, <1>2, <1>7, <1>12 DEF ContextIsCurrent
<1>15. TestedArePermitted'
  <2> SUFFICES ASSUME NEW d \in Claims, submissions'[d].step = "tested", ~submissions'[d].disturbed,
                      NEW p \in policyRows, inForceSince[p] + CacheTtl <= submissions'[d].context.submittedAt
               PROVE  Permits(claimRows, p, d, submissions'[d].context.submittedAt)
    BY <1>1 DEF TestedArePermitted, LongInForce, Begun
  <2>1. CASE d # c
    BY <1>2, <1>7, <2>1 DEF TestedArePermitted, LongInForce, Begun
  <2>2. CASE d = c
    <3>1. submissions'[c] = passed
      BY <1>4, <1>6, <2>2
    <3>2. /\ ~submissions[c].disturbed /\ inForceSince[p] + CacheTtl <= Begun(c)
          /\ submissions'[d].context.submittedAt = Begun(c)
      BY <1>5, <2>2, <3>1
    <3>3. p \in submissions[c].policies /\ p \in PolicyChoices
      BY <1>1, <1>2, <3>2 DEF LoadedAreComplete, LongInForce, PolicyTypeOK
    <3>4. p.severity = "BLOCK" => ~EvaluatePolicy(p, submissions[c].context, History)
      BY <1>6, <3>1, <3>3 DEF Compliant, Violations
    <3>5. /\ submissions[c].context.id = c
          /\ submissions[c].context.amount = claimRows[c].amount
          /\ submissions[c].context.category = claimRows[c].category
      BY <1>1, <1>2, <3>2 DEF ContextIsCurrent
    <3>6. Permits(claimRows, p, c, Begun(c))
      BY <1>2, <3>3, <3>4, <3>5, CompliantIsPermitted
    <3> QED
      BY <2>2, <3>2, <3>6
  <2> QED
    BY <2>1, <2>2
<1> QED
  BY <1>1, <1>9, <1>10, <1>11, <1>13, <1>14, <1>15, ClaimsRest DEF PolicyInv

\* The claim submitted counts from now on: it leaves below each cap that covers it
\* what counted already, and has no equal within a window that covers both.
LEMMA CommitClaimStep == ASSUME PolicyInv, NEW c \in Claims, CommitClaim(c) PROVE PolicyInv'
<1> DEFINE begun == Begun(c)
           passed == IF submissions[c].disturbed THEN {}
                     ELSE {p \in policyRows : inForceSince[p] + CacheTtl <= begun}
<1>1. /\ submissions[c].step = "tested" /\ claimRows[c].status = "DRAFT"
      /\ claimRows' = [claimRows EXCEPT ![c].status = "SUBMITTED", ![c].submittedAt = begun]
      /\ submissions' = [DisturbedBy(submissions, c) EXCEPT ![c] = NoSubmission]
      /\ covered' = [covered EXCEPT ![c] = passed]
      /\ UNCHANGED <<policyRows, policyMemory, policyClock, inForceSince>>
  BY DEF CommitClaim, Begun
<1>2. /\ PolicyTypeOK /\ NothingFromTheFuture /\ MemoryIsComplete /\ LoadedAreComplete
      /\ ContextIsCurrent /\ TestedArePermitted
  BY DEF PolicyInv
<1>3. claimRows \in [Claims -> ClaimRows] /\ submissions \in [Claims -> Submissions]
      /\ begun \in Int /\ passed \in SUBSET PolicyChoices /\ covered \in [Claims -> SUBSET PolicyChoices]
  BY <1>2 DEF PolicyTypeOK, Submissions, Contexts, Begun
<1>4. \A p \in passed : Permits(claimRows, p, c, begun)
  BY <1>1, <1>2 DEF TestedArePermitted, LongInForce
<1> HIDE DEF begun, passed
<1>5. NoSubmission \in Submissions /\ NoSubmission.step = "none"
  BY DEF NoSubmission, NoContext, Submissions, Contexts
<1>6. /\ DisturbedBy(submissions, c) \in [Claims -> Submissions]
      /\ \A d \in Claims :
           /\ DisturbedBy(submissions, c)[d].step = submissions[d].step
           /\ DisturbedBy(submissions, c)[d].context = submissions[d].context
           /\ DisturbedBy(submissions, c)[d].policies = submissions[d].policies
           /\ ~DisturbedBy(submissions, c)[d].disturbed =>
                /\ submissions[d].step # "tested" /\ ~submissions[d].disturbed
  BY <1>3, Disturbs
<1>7. /\ submissions' \in [Claims -> Submissions] /\ submissions'[c] = NoSubmission
      /\ \A d \in Claims \ {c} : submissions'[d] = DisturbedBy(submissions, c)[d]
  BY <1>1, <1>5, <1>6
<1>8. \A d \in Claims \ {c} : claimRows'[d] = claimRows[d] /\ covered'[d] = covered[d]
  BY <1>1, <1>3
<1>9. /\ claimRows'[c] \in ClaimRows
      /\ claimRows'[c].status = "SUBMITTED" /\ claimRows'[c].submittedAt = begun
      /\ claimRows'[c].amount = claimRows[c].amount
      /\ claimRows'[c].category = claimRows[c].category
  <2>1. claimRows'[c] = [claimRows[c] EXCEPT !.status = "SUBMITTED", !.submittedAt = begun]
    BY <1>1, <1>3
  <2>2. claimRows[c] \in ClaimRows
    BY <1>3
  <2> QED
    BY <1>3, <2>1, <2>2 DEF ClaimRows
<1>10. covered'[c] = passed /\ covered' \in [Claims -> SUBSET PolicyChoices]
  BY <1>1, <1>3
<1>11. claimRows' \in [Claims -> ClaimRows]
  <2>1. claimRows' = [d \in Claims |-> claimRows'[d]]
    BY <1>1, <1>3
  <2> QED
    BY <1>3, <1>8, <1>9, <2>1
<1>12. PolicyTypeOK'
  BY <1>1, <1>2, <1>7, <1>10, <1>11 DEF PolicyTypeOK
<1>13. NothingFromTheFuture' /\ MemoryIsComplete' /\ LoadedAreComplete'
  <2>1. \A d \in Claims :
            \/ submissions'[d].step = "none"
            \/ /\ submissions'[d].step = submissions[d].step
               /\ submissions'[d].context = submissions[d].context
               /\ submissions'[d].policies = submissions[d].policies
    BY <1>5, <1>6, <1>7
  <2> QED
    BY <1>1, <2>1, PoliciesRest
<1>14. ContextIsCurrent'
  BY <1>2, <1>5, <1>6, <1>7, <1>8 DEF ContextIsCurrent
<1>15. TestedArePermitted'
  BY <1>5, <1>6, <1>7 DEF TestedArePermitted
<1>16. c \notin CountingIn(claimRows) /\ CountingIn(claimRows') = CountingIn(claimRows) \cup {c}
  BY <1>1, <1>8, <1>9 DEF CountingIn, ActiveExpenseStatuses
<1>17. /\ \A d \in Claims : claimRows[d].amount \in Nat
       /\ \A d \in Claims : claimRows'[d].amount \in Nat
       /\ \A d \in Claims : claimRows'[d].amount = claimRows[d].amount
  BY <1>3, <1>8, <1>9, <1>11 DEF ClaimRows
<1>18. ASSUME NEW p \in PolicyChoices, IsBlocking(p, "CATEGORY_MONTHLY_CAP"), NEW m \in Months
       PROVE  TotalIn(claimRows', CoveredOf(claimRows', covered', p, m)) <= p.config.capKobo
  <2> DEFINE k == p.config.category
             S == CoveredOf(claimRows, covered, p, m)
             T == CoveredOf(claimRows', covered', p, m)
             Others == MonthIn(claimRows, m, k) \ {c}
  <2>1. p.config.capKobo \in Int
    BY <1>18, PolicyParametersAssumption DEF IsBlocking
  <2>2. CASE c \notin T
    <3>1. S \in SUBSET Claims /\ T \in SUBSET S
      BY <1>8, <1>16, <2>2 DEF CoveredOf, MonthIn, CountingIn
    <3>2. TotalIn(claimRows, S) <= p.config.capKobo
      BY <1>18 DEF PolicyInv, CapsHold
    <3> HIDE DEF S, T
    <3>3. TotalIn(claimRows', T) <= TotalIn(claimRows, S)
      BY <1>17, <3>1, TotalShrinks
    <3>4. TotalIn(claimRows', T) \in Int /\ TotalIn(claimRows, S) \in Int
      BY <1>17, <3>1, TotalType
    <3>5. TotalIn(claimRows', T) <= p.config.capKobo
      BY <2>1, <3>2, <3>3, <3>4
    <3> QED
      BY <3>5 DEF T
  <2>3. CASE c \in T
    <3>1. /\ p \in passed /\ claimRows[c].category = k /\ MonthOf(begun) = m
      BY <1>9, <1>10, <2>3 DEF CoveredOf, MonthIn
    <3>2. TotalIn(claimRows, Others) + claimRows[c].amount <= p.config.capKobo
      BY <1>4, <1>18, <3>1 DEF Permits, LeavesRoom
    <3>3. T \ {c} \in SUBSET Others /\ Others \in SUBSET Claims /\ c \notin T \ {c}
          /\ T \ {c} \in SUBSET Claims /\ T = (T \ {c}) \cup {c}
      BY <1>8, <1>16, <2>3 DEF CoveredOf, MonthIn, CountingIn
    <3> DEFINE R == T \ {c}
    <3>4. R \in SUBSET Others /\ R \in SUBSET Claims /\ c \in Claims \ R /\ T = R \cup {c}
      BY <3>3
    <3> HIDE DEF T, R, Others
    <3>5. TotalIn(claimRows', T) = TotalIn(claimRows', R) + claimRows'[c].amount
      BY <1>17, <3>4, TotalGrows
    <3>6. TotalIn(claimRows', R) <= TotalIn(claimRows, Others)
      BY <1>17, <3>3, <3>4, TotalShrinks
    <3>7. TotalIn(claimRows', R) \in Int /\ TotalIn(claimRows, Others) \in Int
          /\ claimRows[c].amount \in Int /\ claimRows'[c].amount = claimRows[c].amount
      BY <1>17, <3>3, <3>4, TotalType
    <3>8. TotalIn(claimRows', T) <= p.config.capKobo
      BY <2>1, <3>2, <3>5, <3>6, <3>7
    <3> QED
      BY <3>8 DEF T
  <2> QED
    BY <2>2, <2>3
<1>19. CapsHold(claimRows, covered)'
  BY <1>18 DEF CapsHold
<1>20. DuplicatesAreBlocked'
  <2> SUFFICES ASSUME NEW p \in PolicyChoices, IsBlocking(p, "DUPLICATE_DETECTION"),
                      NEW x \in CountingIn(claimRows'), NEW y \in CountingIn(claimRows'), x # y,
                      p \in covered'[x], p \in covered'[y],
                      claimRows'[x].amount = claimRows'[y].amount,
                      claimRows'[x].category = claimRows'[y].category
               PROVE  InstantsApart(x, y)' > DuplicateWindow(p)
    BY DEF DuplicatesAreBlocked, Counting, CountingIn, IsBlocking, DuplicateWindow
  <2>1. DuplicateWindow(p) \in Int
    <3>1. p.config.windowDays \in Int /\ InstantsPerDay \in Int
      BY PolicyParametersAssumption, CalendarAssumption DEF IsBlocking
    <3> QED
      BY <3>1 DEF DuplicateWindow
  <2>2. \A d \in Claims : claimRows'[d].submittedAt \in Int /\ claimRows[d].submittedAt \in Int
    BY <1>3, <1>11 DEF ClaimRows
  <2>3. x \in Claims /\ y \in Claims
    BY DEF CountingIn
  <2>4. CASE x # c /\ y # c
    <3>1. x \in CountingIn(claimRows) /\ y \in CountingIn(claimRows)
      BY <1>16, <2>4
    <3>2. InstantsApart(x, y) > DuplicateWindow(p)
      BY <1>8, <2>3, <2>4, <3>1
      DEF PolicyInv, DuplicatesAreBlocked, Counting, CountingIn, IsBlocking, DuplicateWindow
    <3>3. InstantsApart(x, y)' = InstantsApart(x, y)
      BY <1>8, <2>3, <2>4 DEF InstantsApart
    <3> QED
      BY <3>2, <3>3
  <2>5. CASE x = c
    <3>1. y \in CountingIn(claimRows) \ {c} /\ p \in passed
      BY <1>10, <1>16, <2>5
    <3>2. claimRows[y].submittedAt < begun - DuplicateWindow(p)
      BY <1>4, <1>8, <1>9, <2>3, <2>5, <3>1 DEF Permits, HasNoEqual
    <3>3. claimRows'[x].submittedAt = begun /\ claimRows'[y].submittedAt = claimRows[y].submittedAt
      BY <1>8, <1>9, <2>3, <2>5, <3>1
    <3> QED
      BY <1>3, <2>1, <2>2, <2>3, <3>2, <3>3 DEF InstantsApart
  <2>6. CASE y = c
    <3>1. x \in CountingIn(claimRows) \ {c} /\ p \in passed
      BY <1>10, <1>16, <2>6
    <3>2. claimRows[x].submittedAt < begun - DuplicateWindow(p)
      BY <1>4, <1>8, <1>9, <2>3, <2>6, <3>1 DEF Permits, HasNoEqual
    <3>3. claimRows'[y].submittedAt = begun /\ claimRows'[x].submittedAt = claimRows[x].submittedAt
      BY <1>8, <1>9, <2>3, <2>6, <3>1
    <3> QED
      BY <1>3, <2>1, <2>2, <2>3, <3>2, <3>3 DEF InstantsApart
  <2> QED
    BY <2>4, <2>5, <2>6
<1> QED
  BY <1>12, <1>13, <1>14, <1>15, <1>19, <1>20 DEF PolicyInv

-----------------------------------------------------------------------------
\* Every step of claims, submissions and administrators keeps the invariant.
LEMMA PolicyInvStays == PolicyInv /\ [StepPolicies]_policyVars => PolicyInv'
<1> SUFFICES ASSUME PolicyInv, [StepPolicies]_policyVars PROVE PolicyInv'
  OBVIOUS
<1>1. CASE UNCHANGED policyVars
  <2>1. UNCHANGED <<claimRows, policyRows, policyMemory, submissions, policyClock,
                    inForceSince, covered>>
    BY <1>1 DEF policyVars
  <2>2. PolicyTypeOK' /\ ContextIsCurrent' /\ TestedArePermitted'
    BY <2>1 DEF PolicyInv, PolicyTypeOK, ContextIsCurrent, TestedArePermitted, LongInForce, Begun
  <2>3. NothingFromTheFuture' /\ MemoryIsComplete' /\ LoadedAreComplete'
    BY <2>1, PoliciesRest
  <2> QED
    BY <2>1, <2>2, <2>3, ClaimsRest DEF PolicyInv
<1>2. ASSUME NEW c \in Claims,
             \/ EditClaim(c) \/ Capture(c) \/ ReadPolicies(c) \/ FillMemory(c)
             \/ AssertCompliant(c) \/ CommitClaim(c) \/ DecideClaim(c)
      PROVE  PolicyInv'
  BY <1>2, EditClaimStep, CaptureStep, ReadPoliciesStep, FillMemoryStep, AssertCompliantStep,
     CommitClaimStep, DecideClaimStep
<1>3. ASSUME NEW here \in BOOLEAN, ChangePolicies(here) PROVE PolicyInv'
  BY <1>3, ChangePoliciesStep
<1>4. CASE InvalidateActivePoliciesCache
  BY <1>4, InvalidateStep
<1>5. CASE PolicyTick
  BY <1>5, PolicyTickStep
<1> QED
  BY <1>1, <1>2, <1>3, <1>4, <1>5 DEF StepPolicies

\* The claims of a month that a cap covers are those it was asked about.
LEMMA PolicyInvImplies == PolicyInv => PoliciesAreKept
<1> SUFFICES ASSUME PolicyInv PROVE PoliciesAreKept
  OBVIOUS
<1>1. ASSUME NEW p \in PolicyChoices, IsBlocking(p, "CATEGORY_MONTHLY_CAP"), NEW m \in Months,
             \A c \in OfMonth(m, p.config.category) : p \in covered[c]
      PROVE  TotalOf(OfMonth(m, p.config.category)) <= p.config.capKobo
  <2>1. OfMonth(m, p.config.category) = CoveredOf(claimRows, covered, p, m)
    BY <1>1 DEF OfMonth, Counting, CoveredOf, MonthIn, CountingIn
  <2>2. OfMonth(m, p.config.category) \in SUBSET Claims
    BY DEF OfMonth, Counting
  <2>3. TotalIn(claimRows, CoveredOf(claimRows, covered, p, m)) <= p.config.capKobo
    BY <1>1 DEF PolicyInv, CapsHold
  <2> QED
    BY <2>1, <2>2, <2>3, TotalIsSum
<1>2. CapsAreKept
  BY <1>1 DEF CapsAreKept, IsBlocking, Months
<1> QED
  BY <1>2 DEF PolicyInv, PoliciesAreKept

\* PoliciesAreKept holds throughout, whatever the policies, the claims and the lifetime
\* of a memory are: a blocking cap bounds what was submitted under it, and no two equal
\* claims were within a blocking window (assertCompliant, loadActivePolicies, submit).
THEOREM PoliciesHold == PolicySpec => []PoliciesAreKept
<1>1. InitPolicies => PolicyInv
  BY PolicyInvInitially
<1>2. PolicyInv /\ [StepPolicies]_policyVars => PolicyInv'
  BY PolicyInvStays
<1>3. PolicyInv => PoliciesAreKept
  BY PolicyInvImplies
<1> QED
  BY <1>1, <1>2, <1>3, PTL DEF PolicySpec
=============================================================================
