----------------------------- MODULE PolicyRules -----------------------------
(***************************************************************************)
(* Expense policies as pure rules: what a policy asks of an expense that   *)
(* is about to be submitted.  A condition is [field, operator, value,      *)
(* params]; a policy is [id, severity, ruleType, config].  An expense of   *)
(* the user's history is [id, status, amount, category, submittedAt].      *)
(***************************************************************************)
EXTENDS Integers, FiniteSets, FiniteSetsExt

CONSTANTS
  InstantsPerDay,    \* bound: instants of a day
  DaysPerMonth       \* bound: days of a month

ASSUME CalendarAssumption == InstantsPerDay \in Nat \ {0} /\ DaysPerMonth \in Nat \ {0}

DayOf(instant) == instant \div InstantsPerDay
MonthOf(instant) == DayOf(instant) \div DaysPerMonth
WeekdayOf(instant) == DayOf(instant) % 7

(* The six resolvers of PolicyFieldResolverRegistry and their operators. *)
FieldOperators ==
  [amount                 |-> {"eq", "neq", "gt", "gte", "lt", "lte"},
   category               |-> {"eq", "neq", "in", "not_in"},
   attachment_count       |-> {"eq", "neq", "gt", "gte", "lt", "lte"},
   submitted_day_of_week  |-> {"eq", "in", "not_in"},
   monthly_category_spend |-> {"gt", "gte", "lt", "lte", "eq"},
   has_duplicate_expense  |-> {"eq"}]
SupportedFields == DOMAIN FieldOperators

Condition(field, operator, value) ==
  [field |-> field, operator |-> operator, value |-> value, params |-> <<>>]
ConditionOn(field, operator, value, param) ==
  [field |-> field, operator |-> operator, value |-> value, params |-> <<param>>]

(* legacyToConditional *)
AsConditional(policy) ==
  CASE policy.ruleType = "RECEIPT_REQUIRED" ->
         [match |-> "all",
          conditions |-> {Condition("amount", "gte", policy.config.minAmountKobo),
                          Condition("attachment_count", "eq", 0)}]
    [] policy.ruleType = "CATEGORY_MONTHLY_CAP" ->
         [match |-> "all",
          conditions |-> {Condition("category", "eq", policy.config.category),
                          ConditionOn("monthly_category_spend", "gt",
                                      policy.config.capKobo, policy.config.category)}]
    [] policy.ruleType = "WEEKEND_TRAVEL_JUSTIFICATION" ->
         [match |-> "all",
          conditions |-> {Condition("category", "in", policy.config.categories),
                          Condition("submitted_day_of_week", "in", {0, 6})}]
    [] policy.ruleType = "DUPLICATE_DETECTION" ->
         [match |-> "all",
          conditions |-> {ConditionOn("has_duplicate_expense", "eq", TRUE,
                                      policy.config.windowDays)}]
    [] OTHER -> policy.config

(* parseCondition and validateCondition: field and operator, and the values
   that the fields restrict. *)
ConditionIsValid(c) ==
  /\ c.field \in SupportedFields /\ c.operator \in FieldOperators[c.field]
  /\ c.field \in {"amount", "monthly_category_spend"} => c.value > 0
  /\ c.operator \in {"in", "not_in"} => c.value # {}
  /\ c.field \in {"monthly_category_spend", "has_duplicate_expense"} => c.params # <<>>
  /\ c.field = "has_duplicate_expense" => c.params[1] > 0
ConfigIsValid(config) ==
  /\ config.match \in {"all", "any"} /\ config.conditions # {}
  /\ \A c \in config.conditions : ConditionIsValid(c)

(* PolicyEvaluationCache: the two queries over the user's history. *)
ActiveExpenseStatuses == {"SUBMITTED", "UNDER_REVIEW", "APPROVED", "REIMBURSED"}
AmountsOf(S) == MapThenSumSet(LAMBDA e : e.amount, S)

MonthlyCategorySpendWithoutClaim(context, history, category) ==
  AmountsOf({e \in history : /\ e.id # context.id /\ e.category = category
                             /\ e.status \in ActiveExpenseStatuses
                             /\ MonthOf(e.submittedAt) = MonthOf(context.submittedAt)})
MonthlyCategorySpend(context, history, category) ==
  MonthlyCategorySpendWithoutClaim(context, history, category)
    + (IF context.category = category THEN context.amount ELSE 0)

HasDuplicateExpense(context, history, windowDays) ==
  \E e \in history :
    /\ e.id # context.id /\ e.amount = context.amount /\ e.category = context.category
    /\ e.status \notin {"DRAFT", "REJECTED"}
    /\ e.submittedAt >= context.submittedAt - windowDays * InstantsPerDay

(* resolve *)
FieldValue(c, context, history) ==
  CASE c.field = "amount" -> context.amount
    [] c.field = "category" -> context.category
    [] c.field = "attachment_count" -> context.attachmentCount
    [] c.field = "submitted_day_of_week" -> WeekdayOf(context.submittedAt)
    [] c.field = "monthly_category_spend" ->
         MonthlyCategorySpend(context, history, c.params[1])
    [] c.field = "has_duplicate_expense" ->
         HasDuplicateExpense(context, history, c.params[1])

(* compare *)
Compare(actual, operator, expected) ==
  CASE operator = "eq"     -> actual = expected
    [] operator = "neq"    -> actual # expected
    [] operator = "gt"     -> actual > expected
    [] operator = "gte"    -> actual >= expected
    [] operator = "lt"     -> actual < expected
    [] operator = "lte"    -> actual <= expected
    [] operator = "in"     -> actual \in expected
    [] operator = "not_in" -> actual \notin expected

ConditionAppliesToExpense(c, context) ==
  c.field = "monthly_category_spend" => c.params[1] = context.category
ConditionHolds(c, context, history) ==
  /\ ConditionAppliesToExpense(c, context)
  /\ Compare(FieldValue(c, context, history), c.operator, c.value)

IsViolated(config, context, history) ==
  IF config.match = "all"
    THEN \A c \in config.conditions : ConditionHolds(c, context, history)
    ELSE \E c \in config.conditions : ConditionHolds(c, context, history)

(* evaluatePolicy: a misconfigured policy blocks if it is meant to block. *)
EvaluatePolicy(policy, context, history) ==
  LET config == AsConditional(policy)
  IN  IF ConfigIsValid(config) THEN IsViolated(config, context, history)
      ELSE policy.severity = "BLOCK"

Violations(policies, severity, context, history) ==
  {p \in policies : p.severity = severity /\ EvaluatePolicy(p, context, history)}
=============================================================================
