------------------------------ MODULE Accounts ------------------------------
(***************************************************************************)
(* One user's account, its sessions and the cached authorisation context:  *)
(* AuthService, UserService, RoleService, JwtStrategy and                  *)
(* AuthContextCacheService.  PostgreSQL holds the account, Redis the       *)
(* refresh tokens, the one-time codes and the context; a request reads one *)
(* and writes the other in separate steps, so requests interleave between  *)
(* every two calls.  Tokens and codes are identities: hashing, signing and *)
(* mailing them is left out.  The user belongs to one department and may   *)
(* manage it.                                                              *)
(***************************************************************************)
EXTENDS Naturals, FiniteSets

CONSTANTS Handlers,       \* requests that may be in flight at once
          Tokens,         \* refresh tokens that can be issued
          Codes,          \* one-time codes that can be created
          Roles,          \* roles an account may be given
          MaxRequests     \* bound: requests started, requests that die and keys that expire

ASSUME RolesAssumption == Roles # {}

VARIABLES account,        \* the row of users, without names and e-mail
          grants,         \* version of the permissions of the user's role
          department,     \* the department: whether the user manages it, whether it is active
          live, grace,    \* refresh tokens with an auth:refresh key, and with a :grace key
          context,        \* the set holding the cached context, or the empty set
          codes, codeKey, \* per purpose: codes with a key, and the code the user key names
          ssoState, exchange,  \* pending sign-ins, and tokens cached for an SSO exchange
          handler,        \* what each request is doing
          due, batch,     \* per sweep: keys it must still be given, and keys it was given last
          proof,          \* history: password version a token goes back to
          overtaken,      \* history: tokens of a request a revocation overtook
          raced,          \* history: a race, or a write that forgets nothing, outdated the context
          crowded,        \* history: purposes two requests were about at once
          unfinished,     \* history: clean-ups whose request died
          started
accountVars == <<account, grants, department, live, grace, context, codes, codeKey, ssoState,
                 exchange, handler, due, batch, proof, overtaken, raced, crowded,
                 unfinished, started>>

Purposes == {"reset", "verify"}
Idle == [op |-> "none", pc |-> "idle"]

(* The departments the user manages, of the active ones. *)
findManagedDepartmentIds(d) == d.manager /\ d.active

(* What toAuthUser keeps for the guards and policies: all of it but departmentId,
   which none of them reads, and what never changes. *)
View(a, g, d) ==
  [active |-> a.active, deactivated |-> a.deactivated, verified |-> a.verified,
   role |-> a.role, grants |-> g, managed |-> findManagedDepartmentIds(d)]
CurrentView == View(account, grants, department)
Suspended(a) == ~a.active \/ a.deactivated
Fresh(S) == {x \in S : \A y \in S : x <= y}

InitAccounts ==
  /\ account = [active |-> TRUE, deactivated |-> FALSE, verified |-> FALSE,
                role |-> CHOOSE r \in Roles : TRUE, password |-> 0]
  /\ grants = 0 /\ department = [manager |-> FALSE, active |-> TRUE]
  /\ live = Fresh(Tokens) /\ proof = [t \in live |-> 0]
  /\ grace = {} /\ context = {} /\ exchange = {} /\ ssoState = {}
  /\ \E mailed \in {{}} \cup {{c} : c \in Codes} :
       codes = [k \in Purposes |-> IF k = "verify" THEN mailed ELSE {}] /\ codeKey = codes
  /\ handler = [h \in Handlers |-> Idle]
  /\ due = [h \in Handlers |-> {}] /\ batch = due
  /\ overtaken = {} /\ raced = FALSE /\ crowded = {} /\ unfinished = {}
  /\ started = 0

(* A sweep over the user's keys is under way: between its first and its last call. *)
SweepCalls == {"scan", "drop", "last"}
Sweeping == \E h \in Handlers : handler[h].pc \in SweepCalls

(* What follows the invalidation of the context, and the clean-ups a request owes. *)
AfterForget(op) ==
  CASE op \in {"password", "reset", "suspend"} -> "revoke"
    [] op \in {"verify", "callback"}           -> "issue"
    [] OTHER                                   -> "idle"
Owes(w) ==
  CASE w.pc = "forget"                     -> {"forget", AfterForget(w.op)}
    [] w.pc \in {"revoke"} \cup SweepCalls -> {"revoke"}
    [] OTHER                               -> {}

(* A request between its first and last call about the codes of a purpose. *)
OnCodes(h, k) == handler[h].op = k /\ handler[h].pc \in {"clear", "store", "name", "use"}

-----------------------------------------------------------------------------
(* Bookkeeping of a request: it starts idle, and moves from call to call. *)
Begins(h, w) ==
  /\ handler[h].pc = "idle" /\ started < MaxRequests
  /\ started' = started + 1
  /\ handler' = [handler EXCEPT ![h] = w]
  /\ UNCHANGED unfinished

Moves(h, pc) ==
  /\ handler' = [handler EXCEPT ![h] = IF pc = "idle" THEN Idle ELSE [@ EXCEPT !.pc = pc]]
  /\ UNCHANGED <<unfinished, started>>

(* What a request keeps between its calls: what it read, and the token or code it
   is about.  One that runs beside a sweep is late. *)
Work(op, pc) ==
  [op |-> op, pc |-> pc, saw |-> {}, about |-> {}, proof |-> 0, late |-> Sweeping]
SignIn(op, pc) == [Work(op, pc) EXCEPT !.proof = account.password]

SweepsSame == UNCHANGED <<due, batch>>
SessionsSame == UNCHANGED <<live, grace, exchange, ssoState, proof, overtaken>> /\ SweepsSame
CodesSame == UNCHANGED <<codes, codeKey, crowded>>
Crowds(h, k) == crowded' = IF \E g \in Handlers \ {h} : OnCodes(g, k) THEN crowded \cup {k} ELSE crowded
ContextSame == UNCHANGED <<context, raced>>
AccountSame == UNCHANGED <<account, grants, department>>

(* A transaction that moves the user out of the department holds the rows of both. *)
RowsAreFree == \A h \in Handlers : handler[h].pc \notin {"leave", "commit"}

-----------------------------------------------------------------------------
(* AuthService: sessions. *)
KeysOf(sessions, graces) == ({"live"} \X sessions) \cup ({"grace"} \X graces)

StartLogin(h) ==
  /\ ~Suspended(account)
  /\ Begins(h, SignIn("login", "issue"))
  /\ AccountSame /\ SessionsSame /\ CodesSame /\ ContextSame

(* issueTokens, then the rest of its caller: the code mailed to an unverified
   user by login, the exchange entry of an SSO callback. *)
IssueTokens(h) ==
  /\ handler[h].pc = "issue"
  /\ \E t \in Fresh(Tokens \ DOMAIN proof) :
       /\ live' = live \cup {t}
       /\ proof' = [u \in DOMAIN proof \cup {t} |-> IF u = t THEN handler[h].proof ELSE proof[u]]
       /\ overtaken' = IF handler[h].late THEN overtaken \cup {t} ELSE overtaken
       /\ exchange' = IF handler[h].op = "callback" THEN exchange \cup {t} ELSE exchange
  /\ Moves(h, IF handler[h].op = "login" /\ ~account.verified THEN "mail" ELSE "idle")
  /\ UNCHANGED <<grace, ssoState>> /\ SweepsSame /\ AccountSame /\ CodesSame /\ ContextSame

(* refresh: the token's key, or for thirty seconds its grace key. *)
StartRefresh(h, t) ==
  /\ t \in DOMAIN proof
  /\ Begins(h, [Work("refresh", IF t \in live THEN "rotate" ELSE "grace") EXCEPT
                  !.about = {t}, !.proof = proof[t], !.late = @ \/ t \in overtaken])
  /\ AccountSame /\ SessionsSame /\ CodesSame /\ ContextSame

CheckGrace(h) ==
  /\ handler[h].pc = "grace"
  /\ handler' = [handler EXCEPT ![h] =
                  IF handler[h].about \subseteq grace
                    THEN [@ EXCEPT !.pc = "active",
                                   !.late = handler[h].late \/ handler[h].about \subseteq overtaken]
                    ELSE Idle]
  /\ UNCHANGED <<unfinished, started>>
  /\ AccountSame /\ SessionsSame /\ CodesSame /\ ContextSame

RotateToken(h) ==
  /\ handler[h].pc = "rotate"
  /\ live' = live \ handler[h].about
  /\ Moves(h, "keep")
  /\ UNCHANGED <<grace, exchange, ssoState, proof, overtaken>>
  /\ SweepsSame /\ AccountSame /\ CodesSame /\ ContextSame

(* A key that is written anew is none a sweep under way must still be given. *)
KeepGrace(h) ==
  /\ handler[h].pc = "keep"
  /\ grace' = grace \cup handler[h].about
  /\ overtaken' = IF handler[h].late THEN overtaken \cup handler[h].about ELSE overtaken
  /\ due' = [g \in Handlers |-> due[g] \ KeysOf({}, handler[h].about \ grace)]
  /\ Moves(h, "active")
  /\ UNCHANGED <<live, exchange, ssoState, proof, batch>> /\ AccountSame /\ CodesSame /\ ContextSame

CheckActive(h) ==
  /\ handler[h].pc = "active"
  /\ Moves(h, IF account.active THEN "issue" ELSE "idle")
  /\ AccountSame /\ SessionsSame /\ CodesSame /\ ContextSame

Logout(t) ==
  /\ t \in live
  /\ live' = live \ {t}
  /\ UNCHANGED <<grace, exchange, ssoState, proof, overtaken, handler, unfinished, started>>
  /\ SweepsSame /\ AccountSame /\ CodesSame /\ ContextSame

(* Single sign-on: the state key of the redirect, the callback that resolves the
   user, and the exchange that replaces the callback's token. *)
BeginSso ==
  /\ started < MaxRequests /\ ssoState = {}
  /\ ssoState' = {"pending"}
  /\ UNCHANGED <<live, grace, exchange, proof, overtaken, handler, unfinished, started>>
  /\ SweepsSame /\ AccountSame /\ CodesSame /\ ContextSame

ResolveSsoUser ==
  IF Suspended(account) THEN Idle
  ELSE SignIn("callback", IF account.verified THEN "issue" ELSE "verified")

SsoCallback(h) ==
  /\ ssoState # {} /\ ssoState' = {}
  /\ Begins(h, ResolveSsoUser)
  /\ UNCHANGED <<live, grace, exchange, proof, overtaken>>
  /\ SweepsSame /\ AccountSame /\ CodesSame /\ ContextSame

SsoExchange(h, t) ==
  /\ t \in exchange /\ exchange' = exchange \ {t}
  /\ Begins(h, IF Suspended(account) THEN Idle ELSE [SignIn("exchange", "swap") EXCEPT !.about = {t}])
  /\ UNCHANGED <<live, grace, ssoState, proof, overtaken>>
  /\ SweepsSame /\ AccountSame /\ CodesSame /\ ContextSame

SwapToken(h) ==
  /\ handler[h].pc = "swap"
  /\ live' = live \ handler[h].about
  /\ Moves(h, "issue")
  /\ UNCHANGED <<grace, exchange, ssoState, proof, overtaken>>
  /\ SweepsSame /\ AccountSame /\ CodesSame /\ ContextSame

-----------------------------------------------------------------------------
(* One-time codes: the user key names the code to clear before a new one is set. *)
StartCode(h, k) ==
  /\ k = "verify" => ~account.verified
  /\ Begins(h, [Work(k, "clear") EXCEPT !.about = codeKey[k]])
  /\ Crowds(h, k)
  /\ UNCHANGED <<codes, codeKey>> /\ AccountSame /\ SessionsSame /\ ContextSame

MailCode(h) ==
  /\ handler[h].pc = "mail"
  /\ handler' = [handler EXCEPT ![h] = [@ EXCEPT !.op = "verify", !.pc = "clear",
                                                 !.about = codeKey["verify"]]]
  /\ Crowds(h, "verify")
  /\ UNCHANGED <<codes, codeKey, unfinished, started>>
  /\ AccountSame /\ SessionsSame /\ ContextSame

SupersededForgotten(h) == {}
Superseded(h) == handler[h].about

ClearCode(h) ==
  /\ handler[h].pc = "clear"
  /\ codes' = [codes EXCEPT ![handler[h].op] = @ \ Superseded(h)]
  /\ codeKey' = [codeKey EXCEPT ![handler[h].op] = {}]
  /\ Moves(h, "store")
  /\ UNCHANGED crowded /\ AccountSame /\ SessionsSame /\ ContextSame

StoreCode(h) ==
  /\ handler[h].pc = "store"
  /\ \E c \in Codes :
       /\ codes' = [codes EXCEPT ![handler[h].op] = @ \cup {c}]
       /\ handler' = [handler EXCEPT ![h] = [@ EXCEPT !.pc = "name", !.about = {c}]]
  /\ UNCHANGED <<codeKey, crowded, unfinished, started>>
  /\ AccountSame /\ SessionsSame /\ ContextSame

NameCode(h) ==
  /\ handler[h].pc = "name"
  /\ codeKey' = [codeKey EXCEPT ![handler[h].op] = handler[h].about]
  /\ Moves(h, "idle")
  /\ UNCHANGED <<codes, crowded>> /\ AccountSame /\ SessionsSame /\ ContextSame

(* A code is read first and deleted in a later call. *)
StartConfirm(h, k, c) ==
  /\ c \in codes[k]
  /\ Begins(h, [SignIn(k, "use") EXCEPT !.about = {c}, !.saw = {account.verified}])
  /\ Crowds(h, k)
  /\ UNCHANGED <<codes, codeKey>> /\ AccountSame /\ SessionsSame /\ ContextSame

(* confirmPasswordReset deletes the code it was given; confirmEmailVerification
   the code the user key names. *)
UseCode(h) ==
  LET k == handler[h].op IN
  /\ handler[h].pc = "use"
  /\ codes' = [codes EXCEPT ![k] = @ \ (IF k = "reset" THEN handler[h].about ELSE codeKey[k])]
  /\ codeKey' = [codeKey EXCEPT ![k] = {}]
  /\ Moves(h, IF k = "reset" THEN "hash" ELSE IF handler[h].saw = {TRUE} THEN "issue" ELSE "verified")
  /\ UNCHANGED crowded /\ AccountSame /\ SessionsSame /\ ContextSame

(* markEmailVerified also sets isActive, then forgets the context. *)
MarkVerified(h) ==
  /\ handler[h].pc = "verified" /\ RowsAreFree
  /\ account' = [account EXCEPT !.verified = TRUE, !.active = TRUE]
  /\ Moves(h, "forget")
  /\ UNCHANGED <<grants, department>> /\ SessionsSame /\ CodesSame /\ ContextSame

-----------------------------------------------------------------------------
(* UserService: writers of the account. *)
StartPasswordChange(h) ==
  /\ Begins(h, Work("password", "hash"))
  /\ AccountSame /\ SessionsSame /\ CodesSame /\ ContextSame

SavePassword(h) ==
  /\ handler[h].pc = "hash" /\ RowsAreFree
  /\ account' = [account EXCEPT !.password = @ + 1]
  /\ Moves(h, "forget")
  /\ UNCHANGED <<grants, department>> /\ SessionsSame /\ CodesSame /\ ContextSame

(* findOne, changes to the entity, and later save(user).  A suspension is refused
   when the user is suspended already, an activation when the user is active. *)
Entity(op, a, r) ==
  CASE op = "suspend"  -> [a EXCEPT !.active = FALSE, !.deactivated = TRUE]
    [] op = "activate" -> [a EXCEPT !.active = TRUE, !.deactivated = FALSE]
    [] op = "role"     -> [a EXCEPT !.role = r]
    [] OTHER           -> a

StartSave(h, op, r) ==
  /\ Begins(h, [Work(op, "save") EXCEPT !.saw = {Entity(op, account, r)}])
  /\ op = "suspend" => account.active
  /\ op = "activate" => Suspended(account)
  /\ AccountSame /\ SessionsSame /\ CodesSame /\ ContextSame

(* A profile save leaves the cached context as it is. *)
AfterSaveForgotten(op) == IF op \in {"profile", "transfer"} THEN "idle" ELSE "forget"
AfterSave(op) == IF op = "profile" THEN "idle" ELSE "forget"

(* save(user) writes every loaded column that differs from the row: a change made
   since findOne is undone.  The password is not a loaded column. *)
Saves(h) == \E entity \in handler[h].saw : account' = [entity EXCEPT !.password = account.password]

SaveUser(h) ==
  /\ handler[h].pc = "save" /\ RowsAreFree
  /\ ~(handler[h].op = "transfer" /\ department.manager)
  /\ Saves(h) /\ UNCHANGED <<grants, department, context>>
  /\ raced' = (raced \/ (handler[h].op = "profile" /\ CurrentView' # CurrentView))
  /\ Moves(h, AfterSave(handler[h].op))
  /\ SessionsSame /\ CodesSame

(* The manager is moved out of the department: inside the transaction, which holds
   the user and the department, the context is forgotten; then it commits. *)
OpenTransfer(h) ==
  /\ handler[h].pc = "save" /\ handler[h].op = "transfer" /\ department.manager /\ RowsAreFree
  /\ Moves(h, "leave")
  /\ AccountSame /\ SessionsSame /\ CodesSame /\ ContextSame

ReleaseManager(h) ==
  /\ handler[h].pc = "leave"
  /\ context' = {} /\ raced' = FALSE
  /\ Moves(h, "commit")
  /\ AccountSame /\ SessionsSame /\ CodesSame

WriteTransfer(h) ==
  /\ handler[h].pc = "commit"
  /\ Saves(h) /\ department' = [department EXCEPT !.manager = FALSE]
  /\ Moves(h, AfterSave(handler[h].op))
  /\ UNCHANGED grants /\ SessionsSame /\ CodesSame /\ ContextSame

(* DepartmentMutationService.update: the manager is read, and later another one is
   written, possibly with the activity.  The contexts of the manager that was read
   and of the new one are forgotten. *)
StartAssign(h) ==
  /\ Begins(h, [Work("assign", "assign") EXCEPT !.saw = {department.manager}])
  /\ AccountSame /\ SessionsSame /\ CodesSame /\ ContextSame

WriteManager(h) ==
  /\ handler[h].pc = "assign" /\ RowsAreFree /\ UNCHANGED <<account, grants, context>>
  /\ \E becomes, active \in BOOLEAN :
       LET concerned == becomes \/ handler[h].saw = {TRUE} IN
       /\ becomes => handler[h].saw # {TRUE}
       /\ department' = [manager |-> becomes, active |-> active]
       /\ raced' = (raced \/ (~concerned /\ CurrentView' # CurrentView))
       /\ Moves(h, IF concerned THEN "forget" ELSE "idle")
  /\ SessionsSame /\ CodesSame

(* The activity alone, or a removal: no context is forgotten. *)
SetActivity ==
  /\ started < MaxRequests /\ RowsAreFree
  /\ started' = started + 1
  /\ department' = [department EXCEPT !.active = ~@] /\ UNCHANGED <<account, grants, context>>
  /\ raced' = (raced \/ CurrentView' # CurrentView)
  /\ UNCHANGED <<handler, unfinished>> /\ SessionsSame /\ CodesSame

(* setPermissions, update and remove of RoleService: the role's permissions
   change, then the contexts of its users are forgotten. *)
ChangeRole(h) ==
  /\ Begins(h, Work("grants", "forget"))
  /\ grants' = grants + 1
  /\ UNCHANGED <<account, department>> /\ SessionsSame /\ CodesSame /\ ContextSame

(* authContextCache.invalidate, then what is left of the operation. *)
ForgetContext(h) ==
  /\ handler[h].pc = "forget"
  /\ context' = {} /\ raced' = FALSE
  /\ Moves(h, AfterForget(handler[h].op))
  /\ AccountSame /\ SessionsSame /\ CodesSame

-----------------------------------------------------------------------------
(* delByPattern("auth:refresh:<user>:*"): the keys of the tokens and of their
   grace periods, found by SCAN and deleted by DEL turn by turn until the cursor
   is back at 0.  SCAN gives a key that is there all along at least once before
   that; a key written meanwhile it may give or not. *)
RevokedKeysWithoutGrace == KeysOf(live, {})
RevokedKeys == KeysOf(live, grace)

(* The answer to a SCAN when the keys of left are still due: some keys, and the
   last answer when none is due any more. *)
Scanned(h, left, pc) ==
  \E found \in SUBSET RevokedKeys :
    /\ due' = [due EXCEPT ![h] = left \ found]
    /\ batch' = [batch EXCEPT ![h] = found]
    /\ pc = "last" => left \subseteq found

(* The first SCAN.  The requests under way are marked late; a token an earlier
   revocation was excused from is due again. *)
BeginSweep(h) ==
  /\ handler[h].pc = "revoke"
  /\ \E pc \in {"drop", "last"} :
       /\ Scanned(h, RevokedKeys, pc)
       /\ handler' = [g \in Handlers |->
                        IF handler[g].pc = "idle" THEN Idle
                        ELSE [handler[g] EXCEPT !.late = TRUE, !.pc = IF g = h THEN pc ELSE @]]
  /\ overtaken' = IF Sweeping THEN overtaken ELSE {}
  /\ UNCHANGED <<live, grace, exchange, ssoState, proof, unfinished, started>>
  /\ AccountSame /\ CodesSame /\ ContextSame

ScanKeys(h) ==
  /\ handler[h].pc = "scan"
  /\ \E pc \in {"drop", "last"} : Scanned(h, due[h] \cap RevokedKeys, pc) /\ Moves(h, pc)
  /\ UNCHANGED <<live, grace, exchange, ssoState, proof, overtaken>>
  /\ AccountSame /\ CodesSame /\ ContextSame

DropKeys(h) ==
  /\ handler[h].pc \in {"drop", "last"}
  /\ live' = {t \in live : <<"live", t>> \notin batch[h]}
  /\ grace' = {t \in grace : <<"grace", t>> \notin batch[h]}
  /\ batch' = [batch EXCEPT ![h] = {}]
  /\ Moves(h, IF handler[h].pc = "drop" THEN "scan" ELSE "idle")
  /\ UNCHANGED <<exchange, ssoState, proof, overtaken, due>>
  /\ AccountSame /\ CodesSame /\ ContextSame

-----------------------------------------------------------------------------
(* JwtStrategy.validate on a miss: the user is read with role and permissions,
   then the departments, then the context is set.  A hit changes nothing. *)
StartValidate(h) ==
  /\ context = {}
  /\ Begins(h, Work("validate", "user"))
  /\ AccountSame /\ SessionsSame /\ CodesSame /\ ContextSame

findAuthContext(h) ==
  /\ handler[h].pc = "user"
  /\ handler' = [handler EXCEPT ![h] = IF Suspended(account) THEN Idle
                                       ELSE [@ EXCEPT !.pc = "managed", !.saw = {CurrentView}]]
  /\ UNCHANGED <<unfinished, started>>
  /\ AccountSame /\ SessionsSame /\ CodesSame /\ ContextSame

WithManaged(views) == {[v EXCEPT !.managed = findManagedDepartmentIds(department)] : v \in views}

ReadManaged(h) ==
  /\ handler[h].pc = "managed"
  /\ handler' = [handler EXCEPT ![h] = [@ EXCEPT !.pc = "fill", !.saw = WithManaged(handler[h].saw)]]
  /\ UNCHANGED <<unfinished, started>>
  /\ AccountSame /\ SessionsSame /\ CodesSame /\ ContextSame

FillContext(h) ==
  /\ handler[h].pc = "fill"
  /\ context' = handler[h].saw
  /\ raced' = (handler[h].saw # {CurrentView})
  /\ Moves(h, "idle")
  /\ AccountSame /\ SessionsSame /\ CodesSame

(* Time: the context lives a minute, a grace key thirty seconds, a code minutes
   to a day, a pending sign-in ten minutes and an exchange entry one. *)
Expire ==
  /\ started < MaxRequests /\ started' = started + 1
  /\ \/ context # {} /\ context' = {} /\ raced' = FALSE /\ UNCHANGED <<grace, codes, exchange, ssoState>>
     \/ \E t \in grace : grace' = grace \ {t} /\ UNCHANGED <<context, raced, codes, exchange, ssoState>>
     \/ \E k \in Purposes : \E c \in codes[k] :
          codes' = [codes EXCEPT ![k] = @ \ {c}] /\ UNCHANGED <<context, raced, grace, exchange, ssoState>>
     \/ \E t \in exchange : exchange' = exchange \ {t} /\ UNCHANGED <<context, raced, grace, codes, ssoState>>
     \/ ssoState # {} /\ ssoState' = {} /\ UNCHANGED <<context, raced, grace, codes, exchange>>
  /\ UNCHANGED <<live, codeKey, crowded, proof, overtaken, handler, unfinished>>
  /\ SweepsSame /\ AccountSame

(* A request dies between two calls: Redis refuses one, or the process stops. *)
Die(h) ==
  /\ handler[h].pc # "idle" /\ started < MaxRequests
  /\ started' = started + 1
  /\ unfinished' = unfinished \cup Owes(handler[h])
  /\ handler' = [handler EXCEPT ![h] = Idle]
  /\ crowded' = crowded \cup {k \in Purposes : OnCodes(h, k)}
  /\ due' = [due EXCEPT ![h] = {}] /\ batch' = [batch EXCEPT ![h] = {}]
  /\ UNCHANGED <<codes, codeKey, live, grace, exchange, ssoState, proof, overtaken>>
  /\ AccountSame /\ ContextSame

StepAccounts ==
  \/ BeginSso \/ SetActivity \/ Expire
  \/ \E t \in Tokens : Logout(t)
  \/ \E h \in Handlers :
       \/ StartLogin(h) \/ StartPasswordChange(h) \/ StartValidate(h) \/ ChangeRole(h) \/ SsoCallback(h)
       \/ StartAssign(h)
       \/ \E t \in Tokens : StartRefresh(h, t) \/ SsoExchange(h, t)
       \/ \E k \in Purposes : StartCode(h, k) \/ \E c \in Codes : StartConfirm(h, k, c)
       \/ \E op \in {"suspend", "activate", "role", "profile", "transfer"}, r \in Roles : StartSave(h, op, r)
       \/ IssueTokens(h) \/ CheckGrace(h) \/ RotateToken(h) \/ KeepGrace(h) \/ CheckActive(h)
       \/ SwapToken(h) \/ MailCode(h) \/ ClearCode(h) \/ StoreCode(h) \/ NameCode(h) \/ UseCode(h)
       \/ MarkVerified(h) \/ SavePassword(h) \/ SaveUser(h) \/ ForgetContext(h)
       \/ OpenTransfer(h) \/ ReleaseManager(h) \/ WriteTransfer(h) \/ WriteManager(h)
       \/ BeginSweep(h) \/ ScanKeys(h) \/ DropKeys(h)
       \/ findAuthContext(h) \/ ReadManaged(h) \/ FillContext(h) \/ Die(h)

AccountSpec == InitAccounts /\ [][StepAccounts]_accountVars

-----------------------------------------------------------------------------
(* Some request still owes this clean-up, or died owing it. *)
Owed(cleanUp) ==
  \/ cleanUp \in unfinished
  \/ \E h \in Handlers : cleanUp \in Owes(handler[h])

(* Every session and grace period goes back to the current password, except
   those of a request that ran beside the latest revocation, and while (or
   because) the request that changed the password has not revoked the old
   sessions. *)
SessionsFollowPassword ==
  \A t \in live \cup grace :
    \/ proof[t] = account.password
    \/ t \in overtaken
    \/ Owed("revoke")

(* The cached context is that of the account, its role and its department, except
   between a write and its invalidation, after a fill that raced with a writer or a
   write that forgets nothing (a profile save or a change of manager from stale
   rows, the activity of a department), or when the writer died before it
   invalidated. *)
ContextFollowsAccount ==
  \A c \in context :
    \/ c = CurrentView
    \/ raced \/ Owed("forget")

(* A new code replaces the one before it: two codes of a purpose are valid at
   once only when requests about them overlapped, or one died half way. *)
OneCodeAtATime ==
  \A k \in Purposes : Cardinality(codes[k]) <= 1 \/ k \in crowded
=============================================================================
