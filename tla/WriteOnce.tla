----------------------------- MODULE WriteOnce -----------------------------
(***************************************************************************)
(* What a client may take the deliveries of one request with an            *)
(* Idempotency-Key for: writes of a register that is written once.  The    *)
(* write takes effect at one moment, while a delivery is open; at most one *)
(* delivery is told that it wrote; and whoever asks after a success was    *)
(* told is told the same, unless a call fails.                             *)
(***************************************************************************)
CONSTANT Requests

VARIABLES
    done,       \* the register is written
    outcome,    \* "unsent", "open", or what the client was told
    late        \* deliveries that were sent after a success was told

writeOnceVars == <<done, outcome, late>>

Successes == {"success", "replay"}
Failures == {"error", "lost"}
Outcomes == Successes \cup Failures \cup {"refused", "in_progress"}

RegisterInit ==
    /\ done = FALSE
    /\ outcome = [r \in Requests |-> "unsent"]
    /\ late = {}

SuccessWasTold == \E r \in Requests : outcome[r] \in Successes

Ask(r) ==
    /\ outcome[r] = "unsent"
    /\ outcome' = [outcome EXCEPT ![r] = "open"]
    /\ late' = IF SuccessWasTold THEN late \cup {r} ELSE late
    /\ UNCHANGED done

\* A failure may be told of a write that happened.
WriteBy(r) ==
    /\ outcome[r] = "open"
    /\ r \notin late
    /\ ~done
    /\ done' = TRUE
    /\ UNCHANGED <<outcome, late>>

MayBeTold(r, o) ==
    /\ o \in Successes \cup {"refused"} => done
    /\ o = "success" => \A s \in Requests : outcome[s] # "success"
    /\ r \in late => o \in {"replay"} \cup Failures

Tell(r, o) ==
    /\ outcome[r] = "open"
    /\ MayBeTold(r, o)
    /\ outcome' = [outcome EXCEPT ![r] = o]
    /\ UNCHANGED <<done, late>>

\* Any number of open deliveries are lost with the process that served them.
Lose ==
    /\ \E R \in SUBSET {r \in Requests : outcome[r] = "open"} :
          outcome' = [r \in Requests |-> IF r \in R THEN "lost" ELSE outcome[r]]
    /\ UNCHANGED <<done, late>>

RegisterNext ==
    \/ \E r \in Requests :
          Ask(r) \/ WriteBy(r) \/ \E o \in Outcomes : Tell(r, o)
    \/ Lose

RegisterSpec == RegisterInit /\ [][RegisterNext]_writeOnceVars
=============================================================================
