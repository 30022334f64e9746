----------------------------- MODULE PolicyEngine -----------------------------
(***************************************************************************)
(* Submissions of one user's claims tested against expense policies that   *)
(* administrators change beside them.  A process keeps the active policies *)
(* for CacheTtl instants; it forgets them when it changes a policy itself, *)
(* but not when another process does.  A submission captures its context,  *)
(* obtains the policies, queries the history and commits in four steps     *)
(* that anything may come between.                                         *)
(***************************************************************************)
EXTENDS PolicyRules

CONSTANTS
  Claims,             \* expenses of one user
  ClaimAmounts, ClaimCategories, AttachmentCounts,
  PolicyChoices,      \* policies that an administrator may have in force
  CacheTtl,           \* activePoliciesCacheTtlMs
  MaxPolicyInstant,   \* bound on the clock
  MaxPolicyChanges,   \* bound on changes by administrators
  MaxClaimEdits       \* bound on edits of drafts

(* Create and update of a policy want a cap and a window that are positive whole
   numbers (assertMoneyCondition, assertRequiredParam). *)
ASSUME PolicyParametersAssumption ==
  /\ IsFiniteSet(Claims) /\ ClaimAmounts \subseteq Nat
  /\ CacheTtl \in Nat \ {0}
  /\ \A p \in PolicyChoices :
       /\ p.ruleType = "CATEGORY_MONTHLY_CAP" => p.config.capKobo \in Nat
       /\ p.ruleType = "DUPLICATE_DETECTION" => p.config.windowDays \in Nat

VARIABLES
  claimRows,          \* the rows of the claims
  policyRows,         \* the active policies of the database
  policyMemory,       \* activePoliciesCache and activePoliciesCachedAt
  forgetting,         \* a change of this process saved, the cache not yet cleared
  submissions,        \* the submission in flight of each claim
  policyClock, policyChanges, claimEdits,
  inForceSince,       \* when each active policy was last activated
  covered             \* policies that had been in force long enough at the commit

policyVars == <<claimRows, policyRows, policyMemory, forgetting, submissions,
                policyClock, policyChanges, claimEdits, inForceSince, covered>>

NoMemory == [policies |-> {}, cachedAt |-> -CacheTtl]
NoContext == [id |-> "none", amount |-> 0, category |-> "none",
              submittedAt |-> 0, attachmentCount |-> 0]
NoSubmission == [step |-> "none", context |-> NoContext, policies |-> {}, disturbed |-> FALSE]
Claim(amount, category, attachments) ==
  [status |-> "DRAFT", amount |-> amount, category |-> category, submittedAt |-> 0,
   attachmentCount |-> attachments]

InitPolicies ==
  /\ claimRows \in [Claims -> {Claim(a, k, n) : a \in ClaimAmounts, k \in ClaimCategories,
                                            n \in AttachmentCounts}]
  /\ policyRows \in SUBSET PolicyChoices
  /\ policyMemory = NoMemory /\ forgetting = FALSE
  /\ submissions = [c \in Claims |-> NoSubmission]
  /\ policyClock = 0 /\ policyChanges = 0 /\ claimEdits = 0
  /\ inForceSince = [p \in PolicyChoices |-> -CacheTtl]
  /\ covered = [c \in Claims |-> {}]

-----------------------------------------------------------------------------
(* A change of claim c disturbs the submissions that have already queried the
   user's history, and its own from the moment that captured it. *)
DisturbedBy(S, c) ==
  [d \in Claims |-> IF S[d].step = "tested" \/ (d = c /\ S[d].step # "none")
                    THEN [S[d] EXCEPT !.disturbed = TRUE] ELSE S[d]]

(* update of a draft and of its attachments *)
EditClaim(c) ==
  \E a \in ClaimAmounts, k \in ClaimCategories, n \in AttachmentCounts :
    /\ claimRows[c].status = "DRAFT" /\ claimEdits < MaxClaimEdits
    /\ claimEdits' = claimEdits + 1
    /\ claimRows' = [claimRows EXCEPT ![c].amount = a, ![c].category = k,
                                      ![c].attachmentCount = n]
    /\ submissions' = DisturbedBy(submissions, c)
    /\ UNCHANGED <<policyRows, policyMemory, forgetting, policyClock, policyChanges,
                   inForceSince, covered>>

(* create, update and remove of a policy: saved, and then the process that
   saved it clears its cache.  "elsewhere" is an administrator whose request
   another process serves. *)
ChangePolicies(here) ==
  \E rows \in SUBSET PolicyChoices :
    /\ policyChanges < MaxPolicyChanges /\ ~forgetting
    /\ rows # policyRows
    /\ Cardinality(rows \ policyRows) <= 1 /\ Cardinality(policyRows \ rows) <= 1
    /\ policyRows' = rows
    /\ inForceSince' = [p \in PolicyChoices |->
                          IF p \in rows \ policyRows THEN policyClock ELSE inForceSince[p]]
    /\ forgetting' = here
    /\ policyChanges' = policyChanges + 1
    /\ UNCHANGED <<claimRows, policyMemory, submissions, policyClock, claimEdits, covered>>
InvalidateActivePoliciesCache ==
  /\ forgetting /\ forgetting' = FALSE
  /\ policyMemory' = NoMemory
  /\ UNCHANGED <<claimRows, policyRows, submissions, policyClock, policyChanges, claimEdits,
                 inForceSince, covered>>

-----------------------------------------------------------------------------
(* buildSubmitPolicyContext, and loadActivePolicies up to its await *)
MemoryIsFresh == policyClock - policyMemory.cachedAt < CacheTtl
Capture(c) ==
  LET context == [id |-> c, amount |-> claimRows[c].amount, category |-> claimRows[c].category,
                  submittedAt |-> policyClock,
                  attachmentCount |-> claimRows[c].attachmentCount]
  IN  /\ claimRows[c].status = "DRAFT" /\ submissions[c].step = "none"
      /\ submissions' = [submissions EXCEPT ![c] =
           [step     |-> IF MemoryIsFresh THEN "loaded" ELSE "loading",
            context  |-> context,
            policies |-> IF MemoryIsFresh THEN policyMemory.policies ELSE {},
            disturbed |-> FALSE]]
      /\ UNCHANGED <<claimRows, policyRows, policyMemory, forgetting, policyClock,
                     policyChanges, claimEdits, inForceSince, covered>>

(* the query of the active policies, and the assignment after its await:
   the memory dates from before the query *)
ReadPolicies(c) ==
  /\ submissions[c].step = "loading"
  /\ submissions' = [submissions EXCEPT ![c].step = "read", ![c].policies = policyRows]
  /\ UNCHANGED <<claimRows, policyRows, policyMemory, forgetting, policyClock,
                 policyChanges, claimEdits, inForceSince, covered>>
CachedAt(askedAt) == askedAt
FillMemory(c) ==
  /\ submissions[c].step = "read"
  /\ policyMemory' = [policies |-> submissions[c].policies,
                      cachedAt |-> CachedAt(submissions[c].context.submittedAt)]
  /\ submissions' = [submissions EXCEPT ![c].step = "loaded"]
  /\ UNCHANGED <<claimRows, policyRows, forgetting, policyClock, policyChanges, claimEdits,
                 inForceSince, covered>>

(* evaluate and assertCompliant: blocking violations end the submission,
   warnings want a justification each *)
History == {[id |-> c, status |-> claimRows[c].status, amount |-> claimRows[c].amount,
             category |-> claimRows[c].category, submittedAt |-> claimRows[c].submittedAt]
            : c \in Claims}
Compliant(policies, context, justified) ==
  /\ Violations(policies, "BLOCK", context, History) = {}
  /\ Violations(policies, "WARN", context, History) # {} => justified
AssertCompliant(c) ==
  \E justified \in BOOLEAN :
    /\ submissions[c].step = "loaded"
    /\ submissions' = [submissions EXCEPT ![c] =
         IF Compliant(submissions[c].policies, submissions[c].context, justified)
         THEN [NoSubmission EXCEPT !.step = "tested",
                 !.disturbed = submissions[c].disturbed,
                 !.context.submittedAt = submissions[c].context.submittedAt]
         ELSE NoSubmission]
    /\ UNCHANGED <<claimRows, policyRows, policyMemory, forgetting, policyClock,
                   policyChanges, claimEdits, inForceSince, covered>>

(* the transaction of submit: the row as it is under the lock, and the
   instant of the context.  SUBMITTED stands for every status that the
   approval chain may start with. *)
CommitClaim(c) ==
  LET begun == submissions[c].context.submittedAt
  IN  /\ submissions[c].step = "tested" /\ claimRows[c].status = "DRAFT"
      /\ claimRows' = [claimRows EXCEPT ![c].status = "SUBMITTED", ![c].submittedAt = begun]
      /\ submissions' = [DisturbedBy(submissions, c) EXCEPT ![c] = NoSubmission]
      /\ covered' = [covered EXCEPT ![c] =
           IF submissions[c].disturbed THEN {}
           ELSE {p \in policyRows : inForceSince[p] + CacheTtl <= begun}]
      /\ UNCHANGED <<policyRows, policyMemory, forgetting, policyClock, policyChanges, claimEdits,
                     inForceSince>>

(* the end of the approval chain *)
DecideClaim(c) ==
  \E status \in {"APPROVED", "REJECTED"} :
    /\ claimRows[c].status = "SUBMITTED"
    /\ claimRows' = [claimRows EXCEPT ![c].status = status]
    /\ submissions' = DisturbedBy(submissions, c)
    /\ UNCHANGED <<policyRows, policyMemory, forgetting, policyClock, policyChanges, claimEdits,
                   inForceSince, covered>>

PolicyTick ==
  /\ policyClock < MaxPolicyInstant
  /\ policyClock' = policyClock + 1
  /\ UNCHANGED <<claimRows, policyRows, policyMemory, forgetting, submissions,
                 policyChanges, claimEdits, inForceSince, covered>>

StepPolicies ==
  \/ \E c \in Claims : \/ EditClaim(c) \/ Capture(c) \/ ReadPolicies(c) \/ FillMemory(c)
                       \/ AssertCompliant(c) \/ CommitClaim(c) \/ DecideClaim(c)
  \/ \E here \in BOOLEAN : ChangePolicies(here)
  \/ InvalidateActivePoliciesCache
  \/ PolicyTick

-----------------------------------------------------------------------------
Counting == {c \in Claims : claimRows[c].status \in ActiveExpenseStatuses}
OfMonth(m, category) ==
  {c \in Counting : MonthOf(claimRows[c].submittedAt) = m /\ claimRows[c].category = category}
TotalOf(S) == MapThenSumSet(LAMBDA c : claimRows[c].amount, S)
InstantsApart(c, d) ==
  IF claimRows[c].submittedAt >= claimRows[d].submittedAt
  THEN claimRows[c].submittedAt - claimRows[d].submittedAt
  ELSE claimRows[d].submittedAt - claimRows[c].submittedAt

(* A blocking monthly cap bounds what a user has in a category in a month, and
   a blocking duplicate rule leaves no two equal claims within its window, as
   far as every claim involved was submitted when the policy had been in force
   for as long as a process may remember the policies, and nothing changed the
   user's claims between its test and its commit (loadActivePolicies,
   loadMonthlyCategorySpend, loadDuplicateExpense, submit). *)
CapsAreKept ==
  \A p \in PolicyChoices :
    p.ruleType = "CATEGORY_MONTHLY_CAP" /\ p.severity = "BLOCK" =>
      \A m \in {MonthOf(t) : t \in 0..MaxPolicyInstant} :
        LET S == OfMonth(m, p.config.category)
        IN  (\A c \in S : p \in covered[c]) => TotalOf(S) <= p.config.capKobo
DuplicatesAreBlocked ==
  \A p \in PolicyChoices :
    p.ruleType = "DUPLICATE_DETECTION" /\ p.severity = "BLOCK" =>
      \A c, d \in Counting :
        /\ c # d /\ p \in covered[c] \cap covered[d]
        /\ claimRows[c].amount = claimRows[d].amount
        /\ claimRows[c].category = claimRows[d].category
        => InstantsApart(c, d) > p.config.windowDays * InstantsPerDay
PoliciesAreKept == CapsAreKept /\ DuplicatesAreBlocked
=============================================================================
