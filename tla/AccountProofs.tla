---------------------------- MODULE AccountProofs ----------------------------
(***************************************************************************)
(* Sessions follow the password and the cached context follows the         *)
(* account, for any number of requests, tokens, codes and roles.           *)
(***************************************************************************)
EXTENDS Accounts, FiniteSetTheorems, TLAPS

Rows == [active : BOOLEAN, deactivated : BOOLEAN, verified : BOOLEAN, role : Roles, password : Nat]
Views == [active : BOOLEAN, deactivated : BOOLEAN, verified : BOOLEAN, role : Roles,
          grants : Nat, managed : BOOLEAN]
RowSaves == {"suspend", "activate", "role", "profile", "transfer"}
Operations == RowSaves \cup {"login", "refresh", "callback", "exchange", "reset", "verify", "password",
                           "assign", "grants", "validate"}
Calls == SweepCalls \cup
         {"issue", "mail", "grace", "rotate", "keep", "active", "swap", "clear", "store", "name",
          "use", "verified", "hash", "forget", "revoke", "save", "leave", "commit", "assign",
          "user", "managed", "fill"}
SessionKeys == {"live", "grace"} \X Tokens
Working == [op : Operations, pc : Calls, saw : SUBSET (Rows \cup BOOLEAN \cup Views),
            about : SUBSET (Tokens \cup Codes), proof : Nat, late : BOOLEAN]

AccountTypeOK ==
  /\ account \in Rows /\ grants \in Nat /\ department \in [manager : BOOLEAN, active : BOOLEAN]
  /\ proof \in [DOMAIN proof -> Nat] /\ DOMAIN proof \subseteq Tokens
  /\ live \cup grace \cup exchange \subseteq DOMAIN proof
  /\ codes \in [Purposes -> SUBSET Codes] /\ codeKey \in [Purposes -> SUBSET Codes]
  /\ handler \in [Handlers -> {Idle} \cup Working]
  /\ due \in [Handlers -> SUBSET SessionKeys] /\ batch \in [Handlers -> SUBSET SessionKeys]

\* What a request that goes on to issue tokens goes back to.
Issues(w) ==
  \/ w.pc \in {"issue", "rotate", "keep", "active", "swap", "verified"}
  \/ w.pc = "forget" /\ w.op \in {"verify", "callback"}
  \/ w.pc = "use" /\ w.op = "verify"

\* The calls of a request belong to its operation, the tokens it is about go back
\* to the password it carries, and the one it will issue a token for is the
\* current one, unless a revocation overtook it or is still owed.
Sound(w) ==
  w # Idle =>
    /\ w.pc \in {"save", "leave", "commit"} => w.op \in RowSaves /\ w.saw \subseteq Rows
    /\ w.pc \in {"leave", "commit"} => w.op = "transfer"
    /\ w.pc = "assign" => w.op = "assign"
    /\ w.pc \in {"managed", "fill"} => w.saw \subseteq Views
    /\ w.pc = "hash" => w.op \in {"password", "reset"}
    /\ w.pc \in {"clear", "store", "name", "use"} => w.op \in Purposes
    /\ w.pc = "grace" => w.about # {}
    /\ w.pc = "name" => w.about \subseteq Codes
    /\ w.pc \in {"grace", "rotate", "keep"} => \A t \in w.about : t \in DOMAIN proof /\ proof[t] = w.proof
    /\ Issues(w) => w.proof = account.password \/ w.late \/ Owed("revoke")
RequestsAreSound == \A h \in Handlers : Sound(handler[h])

\* A request that runs beside a sweep is late; and a key a sweep has neither been
\* given nor must still be given is one that was written beside it.
Swept(h) ==
  /\ handler[h].pc = "scan" => batch[h] = {}
  /\ handler[h].pc = "last" => due[h] = {}
  /\ \A t \in live : t \in overtaken \/ <<"live", t>> \in due[h] \cup batch[h]
  /\ \A t \in grace : t \in overtaken \/ <<"grace", t>> \in due[h] \cup batch[h]
SweepsAreSound ==
  /\ Sweeping => \A h \in Handlers : handler[h].pc # "idle" => handler[h].late
  /\ \A h \in Handlers : handler[h].pc \in SweepCalls => Swept(h)

AccountInv ==
  /\ AccountTypeOK /\ RequestsAreSound /\ SweepsAreSound
  /\ SessionsFollowPassword /\ ContextFollowsAccount

-----------------------------------------------------------------------------
(* What a request owes (the clean-ups after a write) by the call it is at. *)
LEMMA OwesByCall ==
  ASSUME NEW w
  PROVE  /\ "forget" \in Owes(w) <=> w.pc = "forget"
         /\ "revoke" \in Owes(w) <=> \/ w.pc \in {"revoke"} \cup SweepCalls
                                     \/ w.pc = "forget" /\ w.op \in {"password", "reset", "suspend"}
  BY DEF Owes, AfterForget, SweepCalls

(* A clean-up stays owed while the request that owes it does not do it. *)
LEMMA StaysOwed ==
  ASSUME NEW h \in Handlers, NEW w, AccountTypeOK, NEW cleanUp,
         handler' = [handler EXCEPT ![h] = w], unfinished \subseteq unfinished',
         cleanUp \in Owes(handler[h]) => cleanUp \in Owes(w) \/ cleanUp \in unfinished',
         Owed(cleanUp)
  PROVE  Owed(cleanUp)'
<1>1. handler'[h] = w /\ \A g \in Handlers \ {h} : handler'[g] = handler[g]
  BY DEF AccountTypeOK
<1>2. CASE cleanUp \in unfinished
  BY <1>2 DEF Owed
<1>3. ASSUME NEW g \in Handlers, cleanUp \in Owes(handler[g]) PROVE Owed(cleanUp)'
  <2>1. CASE g = h
    BY <1>1, <1>3, <2>1 DEF Owed, Owes, AfterForget
  <2>2. CASE g # h
    BY <1>1, <1>3, <2>2 DEF Owed, Owes, AfterForget
  <2> QED
    BY <2>1, <2>2
<1> QED
  BY <1>2, <1>3 DEF Owed

(* A step of a request that is not a sweep's keeps the sweeps sound: the keys it
   writes beside one are of tokens that are overtaken. *)
LEMMA SweepsGoOn ==
  ASSUME AccountTypeOK, SweepsAreSound, NEW h \in Handlers, NEW w,
         handler' = [handler EXCEPT ![h] = w], w.pc \notin SweepCalls,
         w.pc = "idle" \/ ~Sweeping \/ w.late,
         overtaken \subseteq overtaken',
         Sweeping => live' \ live \subseteq overtaken' /\ grace' \ grace \subseteq overtaken',
         \A g \in Handlers \ {h} :
           /\ batch'[g] = batch[g] /\ due'[g] \subseteq due[g]
           /\ \A t \in live : <<"live", t>> \in due[g] => <<"live", t>> \in due'[g]
           /\ \A t \in grace : <<"grace", t>> \in due[g] => <<"grace", t>> \in due'[g]
  PROVE  SweepsAreSound'
<1>1. handler'[h] = w /\ \A g \in Handlers \ {h} : handler'[g] = handler[g]
  BY DEF AccountTypeOK
<1>2. Sweeping' => Sweeping
  BY <1>1 DEF Sweeping
<1>3. Sweeping' => \A g \in Handlers : handler'[g].pc # "idle" => handler'[g].late
  BY <1>1, <1>2 DEF SweepsAreSound
<1>4. ASSUME NEW g \in Handlers, handler'[g].pc \in SweepCalls PROVE Swept(g)'
  <2>1. g # h /\ handler'[g] = handler[g] /\ Swept(g) /\ Sweeping
    BY <1>1, <1>4 DEF SweepsAreSound, Sweeping
  <2>2. (handler'[g].pc = "scan" => batch'[g] = {}) /\ (handler'[g].pc = "last" => due'[g] = {})
    BY <2>1 DEF Swept
  <2>3. \A t \in live' : t \in overtaken' \/ <<"live", t>> \in due'[g] \cup batch'[g]
    BY <2>1 DEF Swept
  <2>4. \A t \in grace' : t \in overtaken' \/ <<"grace", t>> \in due'[g] \cup batch'[g]
    BY <2>1 DEF Swept
  <2> QED
    BY <2>2, <2>3, <2>4 DEF Swept
<1> QED
  BY <1>3, <1>4 DEF SweepsAreSound, Sweeping

(* A step of one request that leaves the password and the tokens alone, or takes
   tokens away, keeps sessions sound when its own next call is. *)
LEMMA QuietStep ==
  ASSUME AccountInv, NEW h \in Handlers, NEW w, AccountTypeOK',
         handler' = [handler EXCEPT ![h] = w], unfinished \subseteq unfinished',
         "revoke" \in Owes(handler[h]) => "revoke" \in Owes(w) \/ "revoke" \in unfinished',
         account'.password = account.password, live' \subseteq live, grace' \subseteq grace,
         UNCHANGED <<proof, overtaken>>, Sound(w),
         w.pc \notin SweepCalls, w.pc = "idle" \/ ~Sweeping \/ w.late,
         \A g \in Handlers \ {h} : due'[g] = due[g] /\ batch'[g] = batch[g]
  PROVE  RequestsAreSound' /\ SweepsAreSound' /\ SessionsFollowPassword'
<1>1. Owed("revoke") => Owed("revoke")'
  BY StaysOwed DEF AccountInv
<1>2. handler'[h] = w /\ \A g \in Handlers \ {h} : handler'[g] = handler[g]
  BY DEF AccountInv, AccountTypeOK
<1>3. \A g \in Handlers : Sound(handler'[g])
  BY <1>2 DEF AccountInv, RequestsAreSound
<1>4. \A g \in Handlers : Sound(handler[g])'
  BY <1>1, <1>3 DEF Sound, Issues, Idle
<1>5. SweepsAreSound'
  BY SweepsGoOn DEF AccountInv
<1> QED
  BY <1>1, <1>4, <1>5 DEF AccountInv, RequestsAreSound, SessionsFollowPassword

-----------------------------------------------------------------------------
LEMMA AccountInit == InitAccounts => AccountInv
<1> SUFFICES ASSUME InitAccounts PROVE AccountInv
  OBVIOUS
<1> USE RolesAssumption DEF InitAccounts
<1>1. live \subseteq Tokens /\ DOMAIN proof = live /\ \A t \in live : proof[t] = 0
  BY DEF Fresh
<1>2. (CHOOSE r \in Roles : TRUE) \in Roles
  OBVIOUS
<1>3. account \in Rows /\ account.password = 0
  BY <1>2 DEF Rows
<1>4. codes \in [Purposes -> SUBSET Codes]
  OBVIOUS
<1>5. AccountTypeOK
  BY <1>1, <1>3, <1>4 DEF AccountTypeOK
<1>6. RequestsAreSound /\ SweepsAreSound
  BY DEF RequestsAreSound, Sound, SweepsAreSound, Sweeping, SweepCalls, Idle
<1>7. SessionsFollowPassword /\ ContextFollowsAccount
  BY <1>1, <1>3 DEF SessionsFollowPassword, ContextFollowsAccount
<1> QED
  BY <1>5, <1>6, <1>7 DEF AccountInv

(* What a request is when it starts, and when it moves on. *)
LEMMA WorkIsTyped ==
  ASSUME AccountTypeOK, NEW op \in Operations, NEW pc \in Calls
  PROVE  /\ Work(op, pc) \in Working /\ SignIn(op, pc) \in Working
         /\ SignIn(op, pc).proof = account.password
         /\ Work(op, pc).pc = pc /\ SignIn(op, pc).pc = pc
         /\ Work(op, pc).op = op /\ SignIn(op, pc).op = op
         /\ Work(op, pc).late = Sweeping /\ SignIn(op, pc).late = Sweeping
<1>1. Sweeping \in BOOLEAN
  BY DEF Sweeping
<1> QED
  BY <1>1 DEF AccountTypeOK, Rows, Work, SignIn, Working

LEMMA MovesAlong ==
  ASSUME AccountTypeOK, NEW h \in Handlers, handler[h] # Idle, NEW pc \in Calls \cup {"idle"}, Moves(h, pc)
  PROVE  \E w \in {Idle} \cup Working :
           /\ handler' = [handler EXCEPT ![h] = w] /\ handler' \in [Handlers -> {Idle} \cup Working]
           /\ pc = "idle" => w = Idle
           /\ pc # "idle" => w.pc = pc /\ w # Idle /\ w.op = handler[h].op /\ w.about = handler[h].about
                             /\ w.proof = handler[h].proof /\ w.late = handler[h].late /\ w.saw = handler[h].saw
<1>1. handler[h] \in Working
  BY DEF AccountTypeOK
<1>2. CASE pc = "idle"
  BY <1>2 DEF Moves, AccountTypeOK
<1>3. CASE pc # "idle"
  <2> DEFINE w == [handler[h] EXCEPT !.pc = pc]
  <2>1. w \in Working /\ w.pc = pc /\ w.op = handler[h].op /\ w.about = handler[h].about
        /\ w.proof = handler[h].proof /\ w.late = handler[h].late /\ w.saw = handler[h].saw
    BY <1>1, <1>3 DEF Working
  <2>2. w # Idle
    BY <1>3, <2>1 DEF Idle
  <2>3. handler' = [handler EXCEPT ![h] = w]
    BY <1>3 DEF Moves
  <2>4. handler' \in [Handlers -> {Idle} \cup Working]
    BY <2>1, <2>3 DEF AccountTypeOK
  <2> QED
    BY <1>3, <2>1, <2>2, <2>3, <2>4
<1> QED
  BY <1>2, <1>3

(* A call that changes neither the account nor what tokens go back to. *)
LEMMA CallStep ==
  ASSUME AccountInv, NEW h \in Handlers, NEW w \in {Idle} \cup Working, Sound(w),
         w.pc \notin SweepCalls, w.pc = "idle" \/ ~Sweeping \/ w.late,
         due' \in [Handlers -> SUBSET SessionKeys], batch' \in [Handlers -> SUBSET SessionKeys],
         \A g \in Handlers \ {h} : due'[g] = due[g] /\ batch'[g] = batch[g],
         handler' = [handler EXCEPT ![h] = w], unfinished \subseteq unfinished',
         \A cleanUp \in {"forget", "revoke"} :
           cleanUp \in Owes(handler[h]) => cleanUp \in Owes(w) \/ cleanUp \in unfinished',
         UNCHANGED <<account, grants, department, proof, overtaken, context, raced>>,
         live' \subseteq live, grace' \subseteq grace, exchange' \subseteq exchange,
         codes' \in [Purposes -> SUBSET Codes], codeKey' \in [Purposes -> SUBSET Codes]
  PROVE  AccountInv'
<1>1. AccountTypeOK'
  BY DEF AccountInv, AccountTypeOK
<1>2. RequestsAreSound' /\ SweepsAreSound' /\ SessionsFollowPassword'
  BY <1>1, QuietStep
<1>3. Owed("forget") => Owed("forget")'
  BY StaysOwed DEF AccountInv
<1>4. ContextFollowsAccount'
  BY <1>3 DEF AccountInv, ContextFollowsAccount, CurrentView, View
<1> QED
  BY <1>1, <1>2, <1>4 DEF AccountInv

(* A request that starts owed nothing before. *)
LEMMA BeginStep ==
  ASSUME AccountInv, NEW h \in Handlers, NEW w \in {Idle} \cup Working, Sound(w), Begins(h, w),
         w.pc \notin SweepCalls, w.pc = "idle" \/ (Sweeping => w.late),
         UNCHANGED <<account, grants, department, proof, overtaken, context, raced, codes, codeKey,
                     live, grace, due, batch>>,
         exchange' \subseteq exchange
  PROVE  AccountInv'
<1>1. "forget" \notin Owes(handler[h]) /\ "revoke" \notin Owes(handler[h])
  BY OwesByCall DEF Begins, SweepCalls
<1>2. /\ codes' \in [Purposes -> SUBSET Codes] /\ codeKey' \in [Purposes -> SUBSET Codes]
      /\ due' \in [Handlers -> SUBSET SessionKeys] /\ batch' \in [Handlers -> SUBSET SessionKeys]
  BY DEF AccountInv, AccountTypeOK
<1> QED
  BY <1>1, <1>2, CallStep DEF Begins

(* A request that moves to its next call, and by that leaves no clean-up undone. *)
LEMMA MoveStep ==
  ASSUME AccountInv, NEW h \in Handlers, NEW pc \in Calls \cup {"idle"}, Moves(h, pc),
         handler[h] # Idle, handler[h].pc \notin {"forget", "revoke"} \cup SweepCalls,
         pc \notin SweepCalls, UNCHANGED <<due, batch>>,
         \A w \in Working : /\ w.pc = pc /\ w.op = handler[h].op /\ w.about = handler[h].about
                            /\ w.proof = handler[h].proof /\ w.late = handler[h].late /\ w.saw = handler[h].saw
                            => Sound(w),
         UNCHANGED <<account, grants, department, proof, overtaken, context, raced>>,
         live' \subseteq live, grace' \subseteq grace, exchange' \subseteq exchange,
         codes' \in [Purposes -> SUBSET Codes], codeKey' \in [Purposes -> SUBSET Codes]
  PROVE  AccountInv'
<1>1. PICK w \in {Idle} \cup Working :
         /\ handler' = [handler EXCEPT ![h] = w] /\ handler' \in [Handlers -> {Idle} \cup Working]
         /\ pc = "idle" => w = Idle
         /\ pc # "idle" => w.pc = pc /\ w # Idle /\ w.op = handler[h].op /\ w.about = handler[h].about
                           /\ w.proof = handler[h].proof /\ w.late = handler[h].late /\ w.saw = handler[h].saw
  BY MovesAlong DEF AccountInv
<1>2. Sound(w)
  BY <1>1 DEF Sound
<1>3. "forget" \notin Owes(handler[h]) /\ "revoke" \notin Owes(handler[h])
  BY OwesByCall
<1>4. unfinished \subseteq unfinished'
  BY DEF Moves
<1>5. w.pc \notin SweepCalls /\ (w.pc = "idle" \/ ~Sweeping \/ w.late)
  <2>1. handler[h].pc # "idle"
    BY DEF AccountInv, AccountTypeOK, Working, Calls, SweepCalls
  <2>2. ~Sweeping \/ handler[h].late
    BY <2>1 DEF AccountInv, SweepsAreSound
  <2> QED
    BY <1>1, <2>2 DEF Idle, SweepCalls
<1>6. due' \in [Handlers -> SUBSET SessionKeys] /\ batch' \in [Handlers -> SUBSET SessionKeys]
  BY DEF AccountInv, AccountTypeOK
<1> QED
  BY <1>1, <1>2, <1>3, <1>4, <1>5, <1>6, CallStep

-----------------------------------------------------------------------------
(* The requests that start: login, refresh, the sign-on, codes, saves, validation. *)
LEMMA StartSteps ==
  ASSUME AccountInv, NEW h \in Handlers,
         \/ StartLogin(h) \/ StartPasswordChange(h) \/ StartValidate(h) \/ SsoCallback(h) \/ StartAssign(h)
         \/ \E t \in Tokens : StartRefresh(h, t) \/ SsoExchange(h, t)
         \/ \E k \in Purposes : StartCode(h, k) \/ \E c \in Codes : StartConfirm(h, k, c)
         \/ \E op \in RowSaves, r \in Roles : StartSave(h, op, r)
  PROVE  AccountInv'
<1> USE DEF SessionsSame, SweepsSame, CodesSame, ContextSame, AccountSame
<1>0. AccountTypeOK /\ account \in Rows /\ account.password \in Nat
  BY DEF AccountInv, AccountTypeOK, Rows
<1>1. ASSUME NEW op \in Operations, NEW pc \in {"issue", "swap", "verified"}
      PROVE  /\ SignIn(op, pc) \in Working /\ Sound(SignIn(op, pc))
             /\ SignIn(op, pc).pc \notin SweepCalls /\ (Sweeping => SignIn(op, pc).late)
  BY <1>0, WorkIsTyped DEF Sound, Calls, SweepCalls
<1>2. CASE StartLogin(h)
  <2>1. /\ SignIn("login", "issue") \in Working /\ Sound(SignIn("login", "issue"))
        /\ SignIn("login", "issue").pc \notin SweepCalls /\ (Sweeping => SignIn("login", "issue").late)
    BY <1>1 DEF Operations
  <2> QED
    BY <1>2, <2>1, BeginStep DEF StartLogin
<1>3. CASE StartPasswordChange(h)
  <2> DEFINE w == Work("password", "hash")
  <2>1. w \in Working /\ w.pc = "hash" /\ w.op = "password" /\ w.late = Sweeping
    BY <1>0, WorkIsTyped DEF Operations, Calls
  <2>2. Sound(w) /\ w.pc \notin SweepCalls
    BY <2>1 DEF Sound, Issues, SweepCalls
  <2> HIDE DEF w
  <2> QED
    BY <1>3, <2>1, <2>2, BeginStep DEF StartPasswordChange, w
<1>4. CASE StartValidate(h)
  <2> DEFINE w == Work("validate", "user")
  <2>1. w \in Working /\ w.pc = "user" /\ w.late = Sweeping
    BY <1>0, WorkIsTyped DEF Operations, Calls
  <2>2. Sound(w) /\ w.pc \notin SweepCalls
    BY <2>1 DEF Sound, Issues, SweepCalls
  <2> HIDE DEF w
  <2> QED
    BY <1>4, <2>1, <2>2, BeginStep DEF StartValidate, w
<1>11. CASE StartAssign(h)
  <2> DEFINE w == [Work("assign", "assign") EXCEPT !.saw = {department.manager}]
  <2>1. Work("assign", "assign") \in Working /\ Work("assign", "assign").pc = "assign"
        /\ Work("assign", "assign").op = "assign" /\ Work("assign", "assign").late = Sweeping
    <3>1. "assign" \in Operations /\ "assign" \in Calls
      BY DEF Operations, Calls
    <3> QED
      BY <1>0, <3>1, WorkIsTyped
  <2>5. {department.manager} \in SUBSET (Rows \cup BOOLEAN \cup Views)
    <3>1. department.manager \in BOOLEAN
      BY <1>0 DEF AccountTypeOK
    <3> QED
      BY <3>1, Zenon
  <2>2. w \in Working /\ w.pc = "assign" /\ w.op = "assign" /\ w.late = Sweeping
    BY <2>1, <2>5 DEF Working
  <2>3. Sound(w) /\ w.pc \notin SweepCalls
    BY <2>2 DEF Sound, Issues, SweepCalls
  <2>4. Begins(h, w)
    BY <1>11 DEF StartAssign
  <2> HIDE DEF w
  <2> QED
    BY <1>11, <2>2, <2>3, <2>4, BeginStep DEF StartAssign
<1>5. CASE SsoCallback(h)
  <2>1. /\ ResolveSsoUser \in {Idle} \cup Working /\ Sound(ResolveSsoUser)
        /\ ResolveSsoUser.pc \notin SweepCalls
        /\ ResolveSsoUser.pc = "idle" \/ (Sweeping => ResolveSsoUser.late)
    <3>1. "callback" \in Operations /\ Sound(Idle) /\ Idle.pc = "idle" /\ Idle.pc \notin SweepCalls
      BY DEF Operations, Sound, Idle, SweepCalls
    <3>2. \A pc \in {"issue", "verified"} :
            /\ SignIn("callback", pc) \in Working /\ Sound(SignIn("callback", pc))
            /\ SignIn("callback", pc).pc \notin SweepCalls /\ (Sweeping => SignIn("callback", pc).late)
      BY <1>1, <3>1
    <3> QED
      BY <3>1, <3>2 DEF ResolveSsoUser
  <2> QED
    BY <1>5, <2>1, BeginStep DEF SsoCallback
<1>6. ASSUME NEW t \in Tokens, SsoExchange(h, t) PROVE AccountInv'
  <2> DEFINE w == IF Suspended(account) THEN Idle ELSE [SignIn("exchange", "swap") EXCEPT !.about = {t}]
  <2>1. SignIn("exchange", "swap") \in Working /\ SignIn("exchange", "swap").proof = account.password
        /\ SignIn("exchange", "swap").pc = "swap" /\ SignIn("exchange", "swap").late = Sweeping
    <3>1. "exchange" \in Operations /\ "swap" \in Calls
      BY DEF Operations, Calls
    <3> QED
      BY <1>0, <3>1, WorkIsTyped
  <2>2. w \in {Idle} \cup Working /\ Sound(w) /\ w.pc \in {"idle", "swap"}
        /\ (w.pc = "idle" \/ (Sweeping => w.late))
    <3>1. CASE Suspended(account)
      BY <3>1 DEF Sound, Idle
    <3>2. CASE ~Suspended(account)
      <4> DEFINE v == SignIn("exchange", "swap")
      <4>1. v \in Working /\ v.proof = account.password /\ v.pc = "swap" /\ v.late = Sweeping
        BY <2>1
      <4> HIDE DEF v
      <4>2. [v EXCEPT !.about = {t}] \in Working
        BY <4>1 DEF Working
      <4>3. [v EXCEPT !.about = {t}].pc = "swap" /\ [v EXCEPT !.about = {t}].proof = account.password
            /\ [v EXCEPT !.about = {t}].late = Sweeping
        BY <4>1 DEF Working
      <4>4. Sound([v EXCEPT !.about = {t}])
        BY <4>2, <4>3 DEF Sound
      <4>5. w = [v EXCEPT !.about = {t}]
        BY <3>2 DEF v
      <4> QED
        BY <4>2, <4>3, <4>4, <4>5
    <3> QED
      BY <3>1, <3>2
  <2>3. w.pc \notin SweepCalls
    BY <2>2 DEF SweepCalls
  <2>4. Begins(h, w) /\ exchange' \subseteq exchange
    BY <1>6 DEF SsoExchange
  <2> HIDE DEF w
  <2> QED
    BY <1>6, <2>2, <2>3, <2>4, BeginStep DEF SsoExchange
<1>7. ASSUME NEW t \in Tokens, StartRefresh(h, t) PROVE AccountInv'
  <2> DEFINE pc == IF t \in live THEN "rotate" ELSE "grace"
             v == Work("refresh", pc)
             w == [v EXCEPT !.about = {t}, !.proof = proof[t], !.late = @ \/ t \in overtaken]
  <2>1. t \in DOMAIN proof /\ proof[t] \in Nat /\ Begins(h, w)
    BY <1>0, <1>7 DEF StartRefresh, AccountTypeOK
  <2>2. v \in Working /\ v.pc = pc /\ v.late = Sweeping /\ pc \in {"rotate", "grace"}
    BY <1>0, WorkIsTyped DEF Operations, Calls
  <2>3. (pc = "rotate") = (t \in live)
    OBVIOUS
  <2> HIDE DEF pc, v
  <2>4. w \in Working /\ w.pc = pc /\ w.about = {t} /\ w.proof = proof[t]
        /\ w.late = (Sweeping \/ t \in overtaken)
    <3>1. (v.late \/ t \in overtaken) \in BOOLEAN
      OBVIOUS
    <3>2. w.late = (v.late \/ t \in overtaken)
      BY <2>2 DEF Working
    <3>3. w \in Working /\ w.pc = v.pc /\ w.about = {t} /\ w.proof = proof[t]
      <4> DEFINE late == v.late \/ t \in overtaken
      <4>1. late \in BOOLEAN
        BY <3>1
      <4>2. w = [v EXCEPT !.about = {t}, !.proof = proof[t], !.late = late]
        BY <2>2 DEF Working
      <4> HIDE DEF late, w
      <4> QED
        BY <2>1, <2>2, <4>1, <4>2 DEF Working
    <3> QED
      BY <2>2, <3>2, <3>3
  <2>5. t \in live => proof[t] = account.password \/ t \in overtaken \/ Owed("revoke")
    BY DEF AccountInv, SessionsFollowPassword
  <2> HIDE DEF w
  <2>6. Sound(w) /\ w.pc \notin SweepCalls
    BY <2>1, <2>2, <2>3, <2>4, <2>5 DEF Sound, Issues, SweepCalls
  <2> QED
    BY <1>7, <2>1, <2>4, <2>6, BeginStep DEF StartRefresh
<1>8. ASSUME NEW k \in Purposes, StartCode(h, k) PROVE AccountInv'
  <2> DEFINE w == [Work(k, "clear") EXCEPT !.about = codeKey[k]]
  <2>1. Work(k, "clear") \in Working /\ Work(k, "clear").late = Sweeping /\ codeKey[k] \in SUBSET Codes
        /\ Work(k, "clear").pc = "clear" /\ Work(k, "clear").op = k
    <3>1. k \in Operations /\ "clear" \in Calls
      BY DEF Operations, Calls, Purposes
    <3> QED
      BY <1>0, <3>1, WorkIsTyped DEF AccountTypeOK
  <2>2. w \in Working /\ w.pc = "clear" /\ w.op = k /\ w.late = Sweeping
    BY <2>1 DEF Working
  <2>3. Begins(h, w)
    BY <1>8 DEF StartCode
  <2> HIDE DEF w
  <2>4. Sound(w) /\ w.pc \notin SweepCalls
    BY <2>2 DEF Sound, Issues, SweepCalls
  <2> QED
    BY <1>8, <2>2, <2>3, <2>4, BeginStep DEF StartCode
<1>9. ASSUME NEW k \in Purposes, NEW c \in Codes, StartConfirm(h, k, c) PROVE AccountInv'
  <2> DEFINE w == [SignIn(k, "use") EXCEPT !.about = {c}, !.saw = {account.verified}]
  <2>1. SignIn(k, "use") \in Working /\ SignIn(k, "use").proof = account.password
        /\ SignIn(k, "use").pc = "use" /\ SignIn(k, "use").op = k /\ SignIn(k, "use").late = Sweeping
    <3>1. k \in Operations /\ "use" \in Calls
      BY DEF Operations, Calls, Purposes
    <3> QED
      BY <1>0, <3>1, WorkIsTyped
  <2>2. w \in Working /\ w.pc = "use" /\ w.op = k /\ w.proof = account.password /\ w.late = Sweeping
    BY <1>0, <2>1 DEF Working, Rows
  <2>3. Begins(h, w)
    BY <1>9 DEF StartConfirm
  <2> HIDE DEF w
  <2>4. Sound(w) /\ w.pc \notin SweepCalls
    BY <2>2 DEF Sound, Issues, SweepCalls
  <2> QED
    BY <1>9, <2>2, <2>3, <2>4, BeginStep DEF StartConfirm
<1>10. ASSUME NEW op \in RowSaves, NEW r \in Roles, StartSave(h, op, r)
       PROVE  AccountInv'
  <2> DEFINE w == [Work(op, "save") EXCEPT !.saw = {Entity(op, account, r)}]
  <2>1. Entity(op, account, r) \in Rows
    BY <1>0 DEF Entity, Rows
  <2>2. Work(op, "save") \in Working /\ Work(op, "save").pc = "save" /\ Work(op, "save").op = op
        /\ Work(op, "save").late = Sweeping
    <3>1. op \in Operations /\ "save" \in Calls
      BY DEF Operations, Calls
    <3> QED
      BY <1>0, <3>1, WorkIsTyped
  <2>3. w \in Working /\ w.pc = "save" /\ w.op = op /\ w.saw \subseteq Rows /\ w.late = Sweeping
    BY <2>1, <2>2 DEF Working
  <2>4. Begins(h, w)
    BY <1>10 DEF StartSave
  <2> HIDE DEF w
  <2>5. Sound(w) /\ w.pc \notin SweepCalls
    BY <2>3 DEF Sound, Issues, SweepCalls
  <2> QED
    BY <1>10, <2>3, <2>4, <2>5, BeginStep DEF StartSave
<1> QED
  BY <1>2, <1>3, <1>4, <1>5, <1>6, <1>7, <1>8, <1>9, <1>10, <1>11

-----------------------------------------------------------------------------
(* The calls in the middle of a request that leave the account alone. *)
LEMMA MiddleSteps ==
  ASSUME AccountInv, NEW h \in Handlers,
         \/ RotateToken(h) \/ CheckActive(h) \/ SwapToken(h) \/ ClearCode(h) \/ NameCode(h) \/ UseCode(h)
         \/ OpenTransfer(h)
  PROVE  AccountInv'
<1> USE DEF SessionsSame, SweepsSame, CodesSame, ContextSame, AccountSame, SweepCalls
<1>1. handler[h].pc \in Calls => handler[h] \in Working /\ handler[h] # Idle
  BY DEF AccountInv, AccountTypeOK, Idle, Calls
<1>2. handler[h].pc \in Calls => Sound(handler[h])
  BY DEF AccountInv, RequestsAreSound
<1>3. codes \in [Purposes -> SUBSET Codes] /\ codeKey \in [Purposes -> SUBSET Codes]
  BY DEF AccountInv, AccountTypeOK
<1>4. CASE RotateToken(h)
  <2>1. handler[h].pc = "rotate" /\ "keep" \in Calls \cup {"idle"} /\ "rotate" \in Calls
    BY <1>4 DEF RotateToken, Calls
  <2> QED
    BY <1>1, <1>2, <1>3, <1>4, <2>1, MoveStep DEF RotateToken, Sound, Issues
<1>5. CASE CheckActive(h)
  <2> DEFINE pc == IF account.active THEN "issue" ELSE "idle"
  <2>1. handler[h].pc = "active" /\ pc \in Calls \cup {"idle"} /\ "active" \in Calls /\ pc \in {"issue", "idle"}
    BY <1>5 DEF CheckActive, Calls
  <2>2. Moves(h, pc)
    BY <1>5 DEF CheckActive
  <2> HIDE DEF pc
  <2> QED
    BY <1>1, <1>2, <1>3, <1>5, <2>1, <2>2, MoveStep DEF CheckActive, Sound, Issues
<1>6. CASE SwapToken(h)
  <2>1. handler[h].pc = "swap" /\ "issue" \in Calls \cup {"idle"} /\ "swap" \in Calls
    BY <1>6 DEF SwapToken, Calls
  <2> QED
    BY <1>1, <1>2, <1>3, <1>6, <2>1, MoveStep DEF SwapToken, Sound, Issues
<1>7. CASE ClearCode(h)
  <2>1. handler[h].pc = "clear" /\ "store" \in Calls \cup {"idle"} /\ "clear" \in Calls
    BY <1>7 DEF ClearCode, Calls
  <2>2. handler[h].op \in Purposes
    BY <1>1, <1>2, <2>1 DEF Sound
  <2>3. codes' \in [Purposes -> SUBSET Codes] /\ codeKey' \in [Purposes -> SUBSET Codes]
    BY <1>3, <1>7, <2>2 DEF ClearCode
  <2> QED
    BY <1>1, <1>7, <2>1, <2>2, <2>3, MoveStep DEF ClearCode, Sound, Issues
<1>8. CASE NameCode(h)
  <2>1. handler[h].pc = "name" /\ "idle" \in Calls \cup {"idle"} /\ "name" \in Calls /\ "idle" \notin Calls
    BY <1>8 DEF NameCode, Calls
  <2>2. handler[h].op \in Purposes /\ handler[h].about \subseteq Codes
    BY <1>1, <1>2, <2>1 DEF Sound
  <2>3. codes' \in [Purposes -> SUBSET Codes] /\ codeKey' \in [Purposes -> SUBSET Codes]
    BY <1>3, <1>8, <2>2 DEF NameCode
  <2> QED
    BY <1>1, <1>8, <2>1, <2>2, <2>3, MoveStep DEF NameCode, Sound, Issues
<1>9. CASE UseCode(h)
  <2> DEFINE k == handler[h].op
             pc == IF k = "reset" THEN "hash" ELSE IF handler[h].saw = {TRUE} THEN "issue" ELSE "verified"
  <2>1. handler[h].pc = "use" /\ pc \in Calls \cup {"idle"} /\ "use" \in Calls
    BY <1>9 DEF UseCode, Calls
  <2>5. IF k = "reset" THEN pc = "hash" ELSE pc \in {"issue", "verified"}
    OBVIOUS
  <2>2. k \in Purposes /\ (k # "reset" => k = "verify")
    BY <1>1, <1>2, <2>1 DEF Sound, Purposes
  <2>3. codes' \in [Purposes -> SUBSET Codes] /\ codeKey' \in [Purposes -> SUBSET Codes]
    BY <1>3, <1>9, <2>2 DEF UseCode
  <2>4. Moves(h, pc)
    BY <1>9 DEF UseCode
  <2> HIDE DEF pc
  <2> QED
    BY <1>1, <1>2, <1>9, <2>1, <2>2, <2>3, <2>4, <2>5, MoveStep DEF UseCode, Sound, Issues
<1>10. CASE OpenTransfer(h)
  <2>1. handler[h].pc = "save" /\ "leave" \in Calls \cup {"idle"} /\ "save" \in Calls
    BY <1>10 DEF OpenTransfer, Calls
  <2> QED
    BY <1>1, <1>2, <1>3, <1>10, <2>1, MoveStep DEF OpenTransfer, Sound, Issues
<1> QED
  BY <1>4, <1>5, <1>6, <1>7, <1>8, <1>9, <1>10

(* The calls that change more than the place a request is at. *)
LEMMA RecordSteps ==
  ASSUME AccountInv, NEW h \in Handlers,
         \/ CheckGrace(h) \/ MailCode(h) \/ StoreCode(h) \/ findAuthContext(h) \/ ReadManaged(h) \/ Die(h)
  PROVE  AccountInv'
<1> USE DEF SessionsSame, SweepsSame, CodesSame, ContextSame, AccountSame
<1>1. handler[h].pc \in Calls => handler[h] \in Working /\ handler[h] # Idle
  BY DEF AccountInv, AccountTypeOK, Idle, Calls, SweepCalls
<1>2. handler[h].pc \in Calls => Sound(handler[h])
  BY DEF AccountInv, RequestsAreSound
<1>3. /\ codes \in [Purposes -> SUBSET Codes] /\ codeKey \in [Purposes -> SUBSET Codes]
      /\ due \in [Handlers -> SUBSET SessionKeys] /\ batch \in [Handlers -> SUBSET SessionKeys]
  BY DEF AccountInv, AccountTypeOK
<1>4. Sound(Idle) /\ Idle.pc = "idle" /\ Idle.pc \notin SweepCalls
  BY DEF Sound, Idle, SweepCalls
<1>9. handler[h].pc \in Calls => handler[h].late \/ ~Sweeping
  <2>1. "idle" \notin Calls
    BY DEF Calls, SweepCalls
  <2> QED
    BY <2>1 DEF AccountInv, SweepsAreSound
<1>5. CASE CheckGrace(h)
  <2>1. handler[h].pc = "grace" /\ "grace" \in Calls
    BY <1>5 DEF CheckGrace, Calls
  <2>2. "forget" \notin Owes(handler[h]) /\ "revoke" \notin Owes(handler[h])
    BY <2>1, OwesByCall DEF SweepCalls
  <2>3. CASE handler[h].about \subseteq grace
    <3> DEFINE late == handler[h].late \/ handler[h].about \subseteq overtaken
               w == [handler[h] EXCEPT !.pc = "active", !.late = late]
    <3>1. late \in BOOLEAN
      OBVIOUS
    <3>2. handler' = [handler EXCEPT ![h] = w]
      BY <1>5, <2>3 DEF CheckGrace
    <3>3. w \in Working /\ w.pc = "active" /\ w.proof = handler[h].proof /\ w.late = late
      <4> HIDE DEF late
      <4> QED
        BY <1>1, <2>1, <3>1 DEF Working, Calls
    <3>4. handler[h].about # {} /\ \A t \in handler[h].about : t \in grace /\ proof[t] = handler[h].proof
      BY <1>1, <1>2, <2>1, <2>3 DEF Sound
    <3>5. late \/ handler[h].proof = account.password \/ Owed("revoke")
      BY <3>4 DEF AccountInv, SessionsFollowPassword
    <3>6. Sound(w)
      <4> HIDE DEF late
      <4> QED
        BY <3>3, <3>5 DEF Sound, Issues
    <3>7. UNCHANGED <<account, grants, department, proof, overtaken, context, raced, live, grace,
                      exchange, codes, codeKey, unfinished, due, batch>>
      BY <1>5 DEF CheckGrace
    <3>8. w \in {Idle} \cup Working /\ w.pc \notin SweepCalls /\ (~Sweeping \/ w.late)
      BY <1>9, <2>1, <3>3 DEF SweepCalls
    <3> HIDE DEF w
    <3> QED
      BY <1>3, <2>2, <3>2, <3>6, <3>7, <3>8, CallStep
  <2>4. CASE ~(handler[h].about \subseteq grace)
    <3>1. handler' = [handler EXCEPT ![h] = Idle]
      BY <1>5, <2>4 DEF CheckGrace
    <3>2. UNCHANGED <<account, grants, department, proof, overtaken, context, raced, live, grace,
                      exchange, codes, codeKey, unfinished, due, batch>>
      BY <1>5 DEF CheckGrace
    <3> QED
      BY <1>3, <1>4, <2>2, <3>1, <3>2, CallStep
  <2> QED
    BY <2>3, <2>4
<1>6. CASE MailCode(h)
  <2> DEFINE w == [handler[h] EXCEPT !.op = "verify", !.pc = "clear", !.about = codeKey["verify"]]
  <2>1. handler[h].pc = "mail" /\ "mail" \in Calls
    BY <1>6 DEF MailCode, Calls
  <2>2. "forget" \notin Owes(handler[h]) /\ "revoke" \notin Owes(handler[h])
    BY <2>1, OwesByCall DEF SweepCalls
  <2>3. w \in Working /\ w.pc = "clear" /\ w.op = "verify" /\ w.late = handler[h].late
    BY <1>1, <1>3, <2>1 DEF Working, Calls, Operations, Purposes
  <2>5. handler' = [handler EXCEPT ![h] = w]
    BY <1>6 DEF MailCode
  <2> HIDE DEF w
  <2>4. Sound(w) /\ w.pc \notin SweepCalls /\ (~Sweeping \/ w.late)
    BY <1>9, <2>1, <2>3 DEF Sound, Issues, Purposes, SweepCalls
  <2> QED
    BY <1>3, <1>6, <2>2, <2>3, <2>4, <2>5, CallStep DEF MailCode
<1>7. CASE StoreCode(h)
  <2>1. handler[h].pc = "store" /\ "store" \in Calls
    BY <1>7 DEF StoreCode, Calls
  <2>2. "forget" \notin Owes(handler[h]) /\ "revoke" \notin Owes(handler[h])
    BY <2>1, OwesByCall DEF SweepCalls
  <2>3. PICK c \in Codes :
          /\ codes' = [codes EXCEPT ![handler[h].op] = @ \cup {c}]
          /\ handler' = [handler EXCEPT ![h] = [@ EXCEPT !.pc = "name", !.about = {c}]]
    BY <1>7 DEF StoreCode
  <2> DEFINE w == [handler[h] EXCEPT !.pc = "name", !.about = {c}]
  <2>4. handler[h].op \in Purposes
    BY <1>1, <1>2, <2>1 DEF Sound
  <2>5. w \in Working /\ w.pc = "name" /\ w.op = handler[h].op /\ w.about = {c}
        /\ w.late = handler[h].late
    BY <1>1, <2>1 DEF Working, Calls
  <2>6. Sound(w)
    BY <2>4, <2>5 DEF Sound, Issues
  <2>7. codes' \in [Purposes -> SUBSET Codes]
    BY <1>3, <2>3, <2>4
  <2>8. handler' = [handler EXCEPT ![h] = w]
    BY <2>3
  <2>9. UNCHANGED <<account, grants, department, proof, overtaken, context, raced, live, grace,
                    exchange, codeKey, unfinished, due, batch>>
    BY <1>7 DEF StoreCode
  <2>10. w \in {Idle} \cup Working /\ w.pc \notin SweepCalls /\ (~Sweeping \/ w.late)
    BY <1>9, <2>1, <2>5 DEF SweepCalls
  <2> HIDE DEF w
  <2> QED
    BY <1>3, <2>2, <2>6, <2>7, <2>8, <2>9, <2>10, CallStep
<1>8. CASE Die(h)
  <2>1. /\ due' \in [Handlers -> SUBSET SessionKeys] /\ batch' \in [Handlers -> SUBSET SessionKeys]
        /\ \A g \in Handlers \ {h} : due'[g] = due[g] /\ batch'[g] = batch[g]
    BY <1>3, <1>8 DEF Die
  <2> QED
    BY <1>3, <1>4, <1>8, <2>1, CallStep DEF Die
<1>10. CASE findAuthContext(h)
  <2> DEFINE w == [handler[h] EXCEPT !.pc = "managed", !.saw = {CurrentView}]
  <2>1. handler[h].pc = "user" /\ "user" \in Calls /\ "managed" \in Calls
    BY <1>10 DEF findAuthContext, Calls
  <2>2. "forget" \notin Owes(handler[h]) /\ "revoke" \notin Owes(handler[h])
    BY <2>1, OwesByCall DEF SweepCalls
  <2>3. UNCHANGED <<account, grants, department, proof, overtaken, context, raced, live, grace,
                    exchange, codes, codeKey, unfinished, due, batch>>
    BY <1>10 DEF findAuthContext
  <2>4. CASE Suspended(account)
    <3>1. handler' = [handler EXCEPT ![h] = Idle]
      BY <1>10, <2>4 DEF findAuthContext
    <3> QED
      BY <1>3, <1>4, <2>2, <2>3, <3>1, CallStep
  <2>5. CASE ~Suspended(account)
    <3>1. handler' = [handler EXCEPT ![h] = w]
      BY <1>10, <2>5 DEF findAuthContext
    <3>2. CurrentView \in Views
      BY DEF AccountInv, AccountTypeOK, CurrentView, View, Views, Rows, findManagedDepartmentIds
    <3>3. w \in Working /\ w.pc = "managed" /\ w.saw \subseteq Views /\ w.late = handler[h].late
      BY <1>1, <2>1, <3>2 DEF Working
    <3> HIDE DEF w
    <3>4. Sound(w) /\ w.pc \notin SweepCalls /\ (~Sweeping \/ w.late)
      BY <1>9, <2>1, <3>3 DEF Sound, Issues, SweepCalls
    <3> QED
      BY <1>3, <2>2, <2>3, <3>1, <3>3, <3>4, CallStep
  <2> QED
    BY <2>4, <2>5
<1>11. CASE ReadManaged(h)
  <2> DEFINE views == WithManaged(handler[h].saw)
             w == [handler[h] EXCEPT !.pc = "fill", !.saw = views]
  <2>1. handler[h].pc = "managed" /\ "managed" \in Calls /\ "fill" \in Calls
    BY <1>11 DEF ReadManaged, Calls
  <2>2. "forget" \notin Owes(handler[h]) /\ "revoke" \notin Owes(handler[h])
    BY <2>1, OwesByCall DEF SweepCalls
  <2>3. UNCHANGED <<account, grants, department, proof, overtaken, context, raced, live, grace,
                    exchange, codes, codeKey, unfinished, due, batch>>
    BY <1>11 DEF ReadManaged
  <2>4. handler' = [handler EXCEPT ![h] = w]
    BY <1>11 DEF ReadManaged
  <2>5. views \subseteq Views
    <3>1. handler[h].saw \subseteq Views
      BY <1>1, <1>2, <2>1 DEF Sound
    <3>2. findManagedDepartmentIds(department) \in BOOLEAN
      BY DEF AccountInv, AccountTypeOK, findManagedDepartmentIds
    <3> QED
      BY <3>1, <3>2 DEF Views, WithManaged
  <2> HIDE DEF views
  <2>6. w \in Working /\ w.pc = "fill" /\ w.saw \subseteq Views /\ w.late = handler[h].late
    BY <1>1, <2>1, <2>5 DEF Working
  <2> HIDE DEF w
  <2>7. Sound(w) /\ w.pc \notin SweepCalls /\ (~Sweeping \/ w.late)
    BY <1>9, <2>1, <2>6 DEF Sound, Issues, SweepCalls
  <2> QED
    BY <1>3, <2>2, <2>3, <2>4, <2>6, <2>7, CallStep
<1> QED
  BY <1>5, <1>6, <1>7, <1>8, <1>10, <1>11

(* Tokens that are issued, or live on for their grace period, go back to the
   password the request carries. *)
LEMMA TokenSteps ==
  ASSUME AccountInv, NEW h \in Handlers, KeepGrace(h) \/ IssueTokens(h)
  PROVE  AccountInv'
<1> USE DEF SweepsSame, CodesSame, ContextSame, AccountSame
<1>0. AccountTypeOK /\ RequestsAreSound /\ SweepsAreSound /\ SessionsFollowPassword /\ ContextFollowsAccount
  BY DEF AccountInv
<1>1. handler[h] \in Working /\ handler[h] # Idle /\ Sound(handler[h])
      /\ "forget" \notin Owes(handler[h]) /\ "revoke" \notin Owes(handler[h])
      /\ (Sweeping => handler[h].late)
  BY <1>0, OwesByCall DEF AccountTypeOK, RequestsAreSound, SweepsAreSound, SweepCalls, Idle, KeepGrace,
     IssueTokens
<1> DEFINE pc == IF KeepGrace(h) THEN "active"
                 ELSE IF handler[h].op = "login" /\ ~account.verified THEN "mail" ELSE "idle"
<1>2. Moves(h, pc) /\ pc \in Calls \cup {"idle"} /\ (pc = "active" <=> KeepGrace(h)) /\ pc \in {"active", "mail", "idle"}
  BY DEF KeepGrace, IssueTokens, Calls
<1> HIDE DEF pc
<1>3. PICK w \in {Idle} \cup Working :
        /\ handler' = [handler EXCEPT ![h] = w] /\ handler' \in [Handlers -> {Idle} \cup Working]
        /\ pc = "idle" => w = Idle
        /\ pc # "idle" => w.pc = pc /\ w # Idle /\ w.op = handler[h].op /\ w.about = handler[h].about
                          /\ w.proof = handler[h].proof /\ w.late = handler[h].late /\ w.saw = handler[h].saw
  BY <1>0, <1>1, <1>2, MovesAlong
<1>4. unfinished \subseteq unfinished'
  BY <1>2 DEF Moves
<1>5. (Owed("revoke") => Owed("revoke")') /\ (Owed("forget") => Owed("forget")')
  BY <1>0, <1>1, <1>3, <1>4, StaysOwed
<1>6. ContextFollowsAccount'
  BY <1>0, <1>5 DEF ContextFollowsAccount, CurrentView, View, KeepGrace, IssueTokens
<1>7. Sound(w)
  <2>1. CASE KeepGrace(h)
    BY <1>1, <1>2, <1>3, <2>1 DEF KeepGrace, Sound, Issues
  <2>2. CASE IssueTokens(h)
    BY <1>1, <1>2, <1>3, <2>2 DEF IssueTokens, KeepGrace, Sound, Issues
  <2> QED
    BY <2>1, <2>2
<1>8. \A g \in Handlers : Sound(handler'[g])
  BY <1>0, <1>3, <1>7 DEF AccountTypeOK, RequestsAreSound
<1>11. w.pc \notin SweepCalls /\ (w.pc = "idle" \/ ~Sweeping \/ w.late)
  BY <1>1, <1>2, <1>3 DEF SweepCalls, Idle
<1>9. CASE KeepGrace(h)
  <2>1. handler[h].pc = "keep" /\ UNCHANGED <<account, grants, codes, codeKey, live, exchange, proof>>
        /\ UNCHANGED <<department, batch>> /\ grace' = grace \cup handler[h].about
        /\ due' = [g \in Handlers |-> due[g] \ KeysOf({}, handler[h].about \ grace)]
        /\ overtaken' = IF handler[h].late THEN overtaken \cup handler[h].about ELSE overtaken
    BY <1>9 DEF KeepGrace
  <2>2. \A t \in handler[h].about : t \in DOMAIN proof /\ proof[t] = handler[h].proof
    BY <1>1, <2>1 DEF Sound
  <2>3. handler[h].late \/ handler[h].proof = account.password \/ Owed("revoke")
    BY <1>1, <2>1 DEF Sound, Issues
  <2>4. AccountTypeOK'
    BY <1>0, <1>3, <2>1, <2>2 DEF AccountTypeOK
  <2>7. SweepsAreSound'
    <3>1. overtaken \subseteq overtaken' /\ live' = live
          /\ (Sweeping => grace' \ grace \subseteq overtaken')
      BY <1>1, <2>1
    <3>2. \A g \in Handlers :
            /\ batch'[g] = batch[g] /\ due'[g] \subseteq due[g]
            /\ \A t \in live : <<"live", t>> \in due[g] => <<"live", t>> \in due'[g]
            /\ \A t \in grace : <<"grace", t>> \in due[g] => <<"grace", t>> \in due'[g]
      BY <2>1 DEF KeysOf
    <3> QED
      BY <1>0, <1>3, <1>11, <3>1, <3>2, SweepsGoOn
  <2>5. RequestsAreSound'
    BY <1>5, <1>8, <2>1 DEF RequestsAreSound, Sound, Issues, Idle
  <2>6. SessionsFollowPassword'
    BY <1>0, <1>5, <2>1, <2>2, <2>3 DEF SessionsFollowPassword
  <2> QED
    BY <1>6, <2>4, <2>5, <2>6, <2>7 DEF AccountInv
<1>10. CASE IssueTokens(h)
  <2>1. PICK t \in Fresh(Tokens \ DOMAIN proof) :
          /\ live' = live \cup {t}
          /\ proof' = [u \in DOMAIN proof \cup {t} |-> IF u = t THEN handler[h].proof ELSE proof[u]]
          /\ overtaken' = IF handler[h].late THEN overtaken \cup {t} ELSE overtaken
          /\ exchange' = IF handler[h].op = "callback" THEN exchange \cup {t} ELSE exchange
    BY <1>10 DEF IssueTokens
  <2>2. handler[h].pc = "issue" /\ UNCHANGED <<account, grants, department, codes, codeKey, grace, due, batch>>
    BY <1>10 DEF IssueTokens
  <2>3. t \in Tokens \ DOMAIN proof
    BY DEF Fresh
  <2>4. handler[h].late \/ handler[h].proof = account.password \/ Owed("revoke")
    BY <1>1, <2>2 DEF Sound, Issues
  <2>5. DOMAIN proof' = DOMAIN proof \cup {t} /\ proof'[t] = handler[h].proof
        /\ \A u \in DOMAIN proof : u # t /\ proof'[u] = proof[u]
    BY <2>1, <2>3
  <2>6. AccountTypeOK'
    <3>1. proof' \in [DOMAIN proof' -> Nat] /\ DOMAIN proof' \subseteq Tokens
      BY <1>0, <1>1, <2>1, <2>3, <2>5 DEF AccountTypeOK, Working
    <3> QED
      BY <1>0, <1>3, <2>1, <2>2, <2>5, <3>1 DEF AccountTypeOK
  <2>7. RequestsAreSound'
    BY <1>5, <1>8, <2>2, <2>5 DEF RequestsAreSound, Sound, Issues, Idle
  <2>8. SessionsFollowPassword'
    BY <1>0, <1>5, <2>1, <2>2, <2>4, <2>5 DEF SessionsFollowPassword, AccountTypeOK
  <2>9. SweepsAreSound'
    <3>1. overtaken \subseteq overtaken' /\ grace' = grace
          /\ (Sweeping => live' \ live \subseteq overtaken')
      BY <1>1, <2>1, <2>2
    <3> QED
      BY <1>0, <1>3, <1>11, <2>2, <3>1, SweepsGoOn
  <2> QED
    BY <1>6, <2>6, <2>7, <2>8, <2>9 DEF AccountInv
<1> QED
  BY <1>9, <1>10

-----------------------------------------------------------------------------
(* The writes: the request that made one owes the clean-up, or the write is
   recorded as one that forgets nothing. *)
LEMMA WriteSteps ==
  ASSUME AccountInv, NEW h \in Handlers,
         MarkVerified(h) \/ SavePassword(h) \/ SaveUser(h) \/ WriteTransfer(h) \/ WriteManager(h)
  PROVE  AccountInv'
<1> USE DEF SessionsSame, SweepsSame, CodesSame, ContextSame, AccountSame
<1>0. AccountTypeOK /\ RequestsAreSound /\ SweepsAreSound /\ SessionsFollowPassword /\ ContextFollowsAccount
  BY DEF AccountInv
<1>21. handler[h].pc \in {"verified", "hash", "save", "commit", "assign"}
  BY DEF MarkVerified, SavePassword, SaveUser, WriteTransfer, WriteManager
<1>22. handler[h] \in Working /\ handler[h] # Idle
  BY <1>0, <1>21 DEF AccountTypeOK, Idle
<1>23. "forget" \notin Owes(handler[h]) /\ "revoke" \notin Owes(handler[h])
  BY <1>21, OwesByCall DEF SweepCalls
<1>1. handler[h] \in Working /\ handler[h] # Idle /\ Sound(handler[h])
      /\ "forget" \notin Owes(handler[h]) /\ "revoke" \notin Owes(handler[h])
      /\ (~Sweeping \/ handler[h].late)
  BY <1>0, <1>21, <1>22, <1>23 DEF RequestsAreSound, SweepsAreSound
<1>2. PICK pc \in {"forget", "idle"} :
        /\ Moves(h, pc)
        /\ SavePassword(h) \/ MarkVerified(h) => pc = "forget"
        /\ pc = "idle" => raced' = (raced \/ CurrentView' # CurrentView)
  <2>1. CASE MarkVerified(h) \/ SavePassword(h)
    BY <2>1 DEF MarkVerified, SavePassword
  <2>2. CASE SaveUser(h)
    BY <2>2 DEF SaveUser, AfterSave, SavePassword, MarkVerified
  <2>3. CASE WriteTransfer(h)
    <3>1. handler[h].pc = "commit" /\ handler[h].op = "transfer"
      BY <1>1, <2>3 DEF WriteTransfer, Sound
    <3> QED
      BY <2>3, <3>1 DEF WriteTransfer, AfterSave
  <2>4. CASE WriteManager(h)
    <3>1. PICK becomes, active \in BOOLEAN :
            LET concerned == becomes \/ handler[h].saw = {TRUE} IN
            /\ raced' = (raced \/ (~concerned /\ CurrentView' # CurrentView))
            /\ Moves(h, IF concerned THEN "forget" ELSE "idle")
      BY <2>4 DEF WriteManager
    <3>2. ~SavePassword(h) /\ ~MarkVerified(h)
      BY <2>4 DEF WriteManager, SavePassword, MarkVerified
    <3>3. CASE becomes \/ handler[h].saw = {TRUE}
      BY <3>1, <3>2, <3>3
    <3>4. CASE ~(becomes \/ handler[h].saw = {TRUE})
      BY <3>1, <3>2, <3>4
    <3> QED
      BY <3>3, <3>4
  <2> QED
    BY <2>1, <2>2, <2>3, <2>4
<1>12. pc \in Calls \cup {"idle"}
  BY DEF Calls
<1>3. PICK w \in {Idle} \cup Working :
        /\ handler' = [handler EXCEPT ![h] = w] /\ handler' \in [Handlers -> {Idle} \cup Working]
        /\ pc = "idle" => w = Idle
        /\ pc # "idle" => w.pc = pc /\ w # Idle /\ w.op = handler[h].op /\ w.about = handler[h].about
                          /\ w.proof = handler[h].proof /\ w.late = handler[h].late /\ w.saw = handler[h].saw
  BY <1>0, <1>1, <1>2, <1>12, MovesAlong
<1>4. unfinished \subseteq unfinished' /\ handler'[h] = w
      /\ \A g \in Handlers \ {h} : handler'[g] = handler[g]
  BY <1>0, <1>2, <1>3 DEF Moves, AccountTypeOK
<1>5. (Owed("revoke") => Owed("revoke")') /\ (Owed("forget") => Owed("forget")')
  BY <1>0, <1>1, <1>3, <1>4, StaysOwed
<1>6. pc = "forget" => Owed("forget")'
  BY <1>2, <1>3, <1>4, OwesByCall DEF Owed, Owes, AfterForget
<1>7. /\ account' \in Rows /\ grants' = grants /\ context' = context
      /\ department' \in [manager : BOOLEAN, active : BOOLEAN]
      /\ UNCHANGED <<live, grace, exchange, proof, overtaken, codes, codeKey, due, batch>>
  <2>1. account \in Rows /\ department \in [manager : BOOLEAN, active : BOOLEAN]
    BY <1>0 DEF AccountTypeOK
  <2>2. CASE MarkVerified(h)
    BY <2>1, <2>2 DEF MarkVerified, Rows
  <2>3. CASE SavePassword(h)
    BY <2>1, <2>3 DEF SavePassword, Rows
  <2>4. ASSUME Saves(h), handler[h].pc \in {"save", "commit"} PROVE account' \in Rows
    <3>1. handler[h].saw \subseteq Rows
      BY <1>1, <2>4 DEF Sound
    <3> QED
      BY <2>1, <2>4, <3>1 DEF Saves, Rows
  <2>5. CASE SaveUser(h)
    BY <2>1, <2>4, <2>5 DEF SaveUser
  <2>6. CASE WriteTransfer(h)
    BY <2>1, <2>4, <2>6 DEF WriteTransfer
  <2>7. CASE WriteManager(h)
    BY <2>1, <2>7 DEF WriteManager
  <2> QED
    BY <2>2, <2>3, <2>5, <2>6, <2>7
<1>8. AccountTypeOK'
  BY <1>0, <1>3, <1>7 DEF AccountTypeOK
<1>9. ContextFollowsAccount'
  <2>1. CASE pc = "forget"
    BY <1>6, <2>1 DEF ContextFollowsAccount
  <2>2. CASE pc = "idle"
    BY <1>0, <1>2, <1>5, <1>7, <2>2 DEF ContextFollowsAccount
  <2> QED
    BY <1>2, <2>1, <2>2
<1>13. w.pc \notin SweepCalls /\ (w.pc = "idle" \/ ~Sweeping \/ w.late)
  BY <1>1, <1>2, <1>3 DEF SweepCalls, Idle
<1>10. CASE ~SavePassword(h)
  <2>1. account'.password = account.password
    <3>1. CASE MarkVerified(h) \/ WriteManager(h)
      BY <1>0, <3>1 DEF MarkVerified, WriteManager, AccountTypeOK, Rows
    <3>2. CASE SaveUser(h) \/ WriteTransfer(h)
      <4>1. handler[h].saw \subseteq Rows /\ Saves(h)
        BY <1>1, <3>2 DEF SaveUser, WriteTransfer, Sound
      <4> QED
        BY <4>1 DEF Saves, Rows
    <3> QED
      BY <1>10, <3>1, <3>2
  <2>2. Sound(w)
    <3>1. handler[h].pc \in {"verified", "save", "commit", "assign"}
      BY <1>10 DEF MarkVerified, SaveUser, WriteTransfer, WriteManager
    <3>2. handler[h].pc # "verified" => handler[h].op \notin {"verify", "callback"}
      BY <1>1, <3>1 DEF Sound, RowSaves
    <3> QED
      BY <1>1, <1>2, <1>3, <3>1, <3>2 DEF Sound, Issues
  <2>3. RequestsAreSound' /\ SweepsAreSound' /\ SessionsFollowPassword'
    BY <1>1, <1>3, <1>4, <1>7, <1>8, <1>13, <2>1, <2>2, QuietStep
  <2> QED
    BY <1>8, <1>9, <2>3 DEF AccountInv
<1>11. CASE SavePassword(h)
  <2>1. handler[h].pc = "hash" /\ pc = "forget"
    BY <1>2, <1>11 DEF SavePassword
  <2>2. w.pc = "forget" /\ w.op \in {"password", "reset"}
    BY <1>1, <1>3, <2>1 DEF Sound
  <2>3. Owed("revoke")'
    BY <1>4, <2>2, OwesByCall DEF Owed, Owes, AfterForget
  <2>4. \A g \in Handlers : Sound(handler'[g])
    BY <1>0, <1>4, <2>2 DEF RequestsAreSound, Sound, Issues
  <2>5. RequestsAreSound'
    BY <1>7, <2>3, <2>4 DEF RequestsAreSound, Sound, Issues, Idle
  <2>6. SessionsFollowPassword'
    BY <2>3 DEF SessionsFollowPassword
  <2>7. SweepsAreSound'
    BY <1>0, <1>3, <1>7, <1>13, SweepsGoOn
  <2> QED
    BY <1>8, <1>9, <2>5, <2>6, <2>7 DEF AccountInv
<1> QED
  BY <1>10, <1>11

(* The activity of the department changes and no context is forgotten. *)
LEMMA ActivityStep == ASSUME AccountInv, SetActivity PROVE AccountInv'
<1> USE DEF SessionsSame, SweepsSame, CodesSame
<1>1. UNCHANGED <<account, grants, context, handler, unfinished, live, grace, exchange, proof,
                  overtaken, codes, codeKey, due, batch>>
  BY DEF SetActivity
<1>2. (Owed("revoke") <=> Owed("revoke")') /\ (Owed("forget") <=> Owed("forget")')
  BY <1>1 DEF Owed
<1>3. AccountTypeOK'
  BY <1>1 DEF SetActivity, AccountInv, AccountTypeOK
<1>4. RequestsAreSound' /\ SweepsAreSound' /\ SessionsFollowPassword'
  BY <1>1, <1>2 DEF AccountInv, RequestsAreSound, Sound, Issues, Idle, SessionsFollowPassword,
     SweepsAreSound, Sweeping, Swept
<1>5. ContextFollowsAccount'
  BY <1>1, <1>2 DEF SetActivity, AccountInv, ContextFollowsAccount
<1> QED
  BY <1>3, <1>4, <1>5 DEF AccountInv

(* A change of the role's permissions owes the invalidation of the context. *)
LEMMA ChangeRoleStep == ASSUME AccountInv, NEW h \in Handlers, ChangeRole(h) PROVE AccountInv'
<1> USE DEF SessionsSame, SweepsSame, CodesSame, ContextSame
<1> DEFINE w == Work("grants", "forget")
<1>1. "grants" \in Operations /\ "forget" \in Calls
  BY DEF Operations, Calls
<1>2. w \in Working /\ w.pc = "forget" /\ w.op = "grants" /\ w.late = Sweeping
  BY <1>1, WorkIsTyped DEF AccountInv
<1> HIDE DEF w
<1>3. handler' = [handler EXCEPT ![h] = w] /\ handler[h].pc = "idle" /\ unfinished' = unfinished
  BY DEF ChangeRole, Begins, w
<1>4. "forget" \notin Owes(handler[h]) /\ "revoke" \notin Owes(handler[h])
  BY <1>3, OwesByCall DEF SweepCalls
<1>5. AccountTypeOK'
  BY <1>2, <1>3 DEF ChangeRole, AccountInv, AccountTypeOK
<1>6. Sound(w)
  BY <1>2 DEF Sound, Issues
<1>7. RequestsAreSound' /\ SweepsAreSound' /\ SessionsFollowPassword'
  BY <1>2, <1>3, <1>4, <1>5, <1>6, QuietStep DEF ChangeRole, SweepCalls
<1>8. Owed("forget")'
  BY <1>2, <1>3, OwesByCall DEF Owed, Owes, AfterForget, AccountInv, AccountTypeOK
<1> QED
  BY <1>5, <1>7, <1>8 DEF AccountInv, ContextFollowsAccount

(* The context is forgotten, and what the operation owes next is owed now. *)
LEMMA ForgetStep == ASSUME AccountInv, NEW h \in Handlers, ForgetContext(h) PROVE AccountInv'
<1> USE DEF SessionsSame, SweepsSame, CodesSame, AccountSame
<1>1. handler[h] \in Working /\ handler[h] # Idle /\ Sound(handler[h]) /\ handler[h].pc = "forget"
      /\ (~Sweeping \/ handler[h].late)
  BY DEF AccountInv, AccountTypeOK, RequestsAreSound, SweepsAreSound, Idle, ForgetContext
<1> DEFINE pc == AfterForget(handler[h].op)
<1>2. Moves(h, pc) /\ pc \in Calls \cup {"idle"} /\ pc \in {"revoke", "issue", "idle"}
      /\ (handler[h].op \in {"password", "reset", "suspend"} => pc = "revoke")
      /\ (pc = "issue" => handler[h].op \in {"verify", "callback"})
  BY DEF ForgetContext, AfterForget, Calls
<1> HIDE DEF pc
<1>3. PICK w \in {Idle} \cup Working :
        /\ handler' = [handler EXCEPT ![h] = w] /\ handler' \in [Handlers -> {Idle} \cup Working]
        /\ pc = "idle" => w = Idle
        /\ pc # "idle" => w.pc = pc /\ w # Idle /\ w.op = handler[h].op /\ w.about = handler[h].about
                          /\ w.proof = handler[h].proof /\ w.late = handler[h].late /\ w.saw = handler[h].saw
  BY <1>1, <1>2, MovesAlong DEF AccountInv
<1>4. "revoke" \in Owes(handler[h]) => "revoke" \in Owes(w)
  BY <1>1, <1>2, <1>3, OwesByCall DEF SweepCalls
<1>5. Sound(w)
  BY <1>1, <1>2, <1>3 DEF Sound, Issues
<1>6. AccountTypeOK'
  BY <1>3 DEF ForgetContext, AccountInv, AccountTypeOK
<1>7. unfinished \subseteq unfinished'
  BY <1>2 DEF Moves
<1>10. w.pc \notin SweepCalls /\ (w.pc = "idle" \/ ~Sweeping \/ w.late)
  BY <1>1, <1>2, <1>3 DEF SweepCalls, Idle
<1>8. RequestsAreSound' /\ SweepsAreSound' /\ SessionsFollowPassword'
  BY <1>3, <1>4, <1>5, <1>6, <1>7, <1>10, QuietStep DEF ForgetContext
<1>9. ContextFollowsAccount'
  BY DEF ForgetContext, ContextFollowsAccount
<1> QED
  BY <1>6, <1>8, <1>9 DEF AccountInv

(* Inside the transaction of a transfer the context is forgotten, and nothing is owed yet. *)
LEMMA ReleaseStep == ASSUME AccountInv, NEW h \in Handlers, ReleaseManager(h) PROVE AccountInv'
<1> USE DEF SessionsSame, SweepsSame, CodesSame, AccountSame
<1>1. handler[h] \in Working /\ handler[h] # Idle /\ Sound(handler[h]) /\ handler[h].pc = "leave"
      /\ (~Sweeping \/ handler[h].late) /\ Moves(h, "commit") /\ "commit" \in Calls
  BY DEF AccountInv, AccountTypeOK, RequestsAreSound, SweepsAreSound, Idle, ReleaseManager, Calls
<1>2. PICK w \in {Idle} \cup Working :
        /\ handler' = [handler EXCEPT ![h] = w] /\ handler' \in [Handlers -> {Idle} \cup Working]
        /\ w.pc = "commit" /\ w.op = handler[h].op /\ w.late = handler[h].late /\ w.saw = handler[h].saw
  BY <1>1, MovesAlong DEF AccountInv
<1>3. "revoke" \notin Owes(handler[h])
  BY <1>1, OwesByCall DEF SweepCalls
<1>4. Sound(w) /\ w.pc \notin SweepCalls /\ (w.pc = "idle" \/ ~Sweeping \/ w.late)
  BY <1>1, <1>2 DEF Sound, Issues, SweepCalls
<1>5. AccountTypeOK'
  BY <1>2 DEF ReleaseManager, AccountInv, AccountTypeOK
<1>6. unfinished \subseteq unfinished'
  BY <1>1 DEF Moves
<1>7. RequestsAreSound' /\ SweepsAreSound' /\ SessionsFollowPassword'
  BY <1>2, <1>3, <1>4, <1>5, <1>6, QuietStep DEF ReleaseManager
<1>8. ContextFollowsAccount'
  BY DEF ReleaseManager, ContextFollowsAccount
<1> QED
  BY <1>5, <1>7, <1>8 DEF AccountInv

(* Some keys are found, and deleted later; a key that is neither found nor due is
   not there. *)
LEMMA ScannedKeys ==
  ASSUME AccountTypeOK, NEW h \in Handlers, NEW left \in SUBSET SessionKeys, NEW pc, Scanned(h, left, pc)
  PROVE  /\ due' \in [Handlers -> SUBSET SessionKeys] /\ batch' \in [Handlers -> SUBSET SessionKeys]
         /\ left \subseteq due'[h] \cup batch'[h] /\ (pc = "last" => due'[h] = {})
         /\ \A g \in Handlers \ {h} : due'[g] = due[g] /\ batch'[g] = batch[g]
<1>1. PICK found \in SUBSET RevokedKeys :
        /\ due' = [due EXCEPT ![h] = left \ found]
        /\ batch' = [batch EXCEPT ![h] = found]
        /\ pc = "last" => left \subseteq found
  BY DEF Scanned
<1>2. RevokedKeys \subseteq SessionKeys
  BY DEF RevokedKeys, KeysOf, SessionKeys, AccountTypeOK
<1> QED
  BY <1>1, <1>2 DEF AccountTypeOK

(* A sweep begins: all keys are due, and what is under way is late. *)
LEMMA BeginSweepStep == ASSUME AccountInv, NEW h \in Handlers, BeginSweep(h) PROVE AccountInv'
<1> USE DEF CodesSame, ContextSame, AccountSame
<1>1. AccountTypeOK /\ RequestsAreSound /\ SweepsAreSound /\ ContextFollowsAccount
  BY DEF AccountInv
<1>2. PICK pc \in {"drop", "last"} :
        /\ Scanned(h, RevokedKeys, pc)
        /\ handler' = [g \in Handlers |->
                         IF handler[g].pc = "idle" THEN Idle
                         ELSE [handler[g] EXCEPT !.late = TRUE, !.pc = IF g = h THEN pc ELSE @]]
  BY DEF BeginSweep
<1>3. handler[h].pc = "revoke" /\ UNCHANGED <<live, grace, exchange, proof, unfinished, codes, codeKey>>
      /\ overtaken' = IF Sweeping THEN overtaken ELSE {}
  BY DEF BeginSweep
<1>4. \A g \in Handlers :
        \/ handler[g].pc = "idle" /\ handler'[g] = Idle
        \/ /\ handler[g] \in Working /\ handler'[g] \in Working /\ handler[g] # Idle /\ handler'[g].late
           /\ handler'[g].pc = (IF g = h THEN pc ELSE handler[g].pc) /\ handler'[g].op = handler[g].op
           /\ handler'[g].saw = handler[g].saw /\ handler'[g].about = handler[g].about
           /\ handler'[g].proof = handler[g].proof
  <2> SUFFICES ASSUME NEW g \in Handlers, handler[g].pc # "idle"
               PROVE  /\ handler[g] \in Working /\ handler'[g] \in Working /\ handler[g] # Idle
                      /\ handler'[g].late
                      /\ handler'[g].pc = (IF g = h THEN pc ELSE handler[g].pc)
                      /\ handler'[g].op = handler[g].op
                      /\ handler'[g].saw = handler[g].saw /\ handler'[g].about = handler[g].about
                      /\ handler'[g].proof = handler[g].proof
    BY <1>2
  <2>1. handler[g] \in Working /\ handler[g] # Idle
    BY <1>1 DEF AccountTypeOK, Idle
  <2>2. pc \in Calls
    BY DEF Calls, SweepCalls
  <2>3. CASE g = h
    <3>1. handler'[g] = [handler[g] EXCEPT !.late = TRUE, !.pc = pc]
      BY <1>2, <2>3
    <3> QED
      BY <2>1, <2>2, <2>3, <3>1 DEF Working
  <2>4. CASE g # h
    <3>1. handler'[g] = [handler[g] EXCEPT !.late = TRUE]
      BY <1>2, <2>4
    <3> QED
      BY <2>1, <2>4, <3>1 DEF Working
  <2> QED
    BY <2>3, <2>4
<1>5. RevokedKeys \in SUBSET SessionKeys
  BY <1>1 DEF RevokedKeys, KeysOf, SessionKeys, AccountTypeOK
<1>6. /\ due' \in [Handlers -> SUBSET SessionKeys] /\ batch' \in [Handlers -> SUBSET SessionKeys]
      /\ RevokedKeys \subseteq due'[h] \cup batch'[h] /\ (pc = "last" => due'[h] = {})
      /\ \A g \in Handlers \ {h} : due'[g] = due[g] /\ batch'[g] = batch[g]
  BY <1>1, <1>2, <1>5, ScannedKeys
<1>7. AccountTypeOK'
  <2>1. handler' \in [Handlers -> {Idle} \cup Working]
    BY <1>2, <1>4
  <2> QED
    BY <1>1, <1>3, <1>6, <2>1 DEF AccountTypeOK, BeginSweep
<1>8. \A g \in Handlers : "forget" \in Owes(handler[g]) => "forget" \in Owes(handler'[g])
  <2> SUFFICES ASSUME NEW g \in Handlers, "forget" \in Owes(handler[g]) PROVE "forget" \in Owes(handler'[g])
    OBVIOUS
  <2>1. handler[g].pc = "forget" /\ g # h
    BY <1>3, OwesByCall
  <2>2. handler'[g].pc = "forget"
    BY <1>4, <2>1
  <2> QED
    BY <2>2, OwesByCall
<1>9. Owed("forget") => Owed("forget")'
  BY <1>3, <1>8 DEF Owed, Owes, AfterForget
<1>10. handler'[h].pc = pc /\ "revoke" \in Owes(handler'[h])
  <2>1. handler'[h].pc = pc
    BY <1>3, <1>4
  <2> QED
    BY <2>1, OwesByCall DEF SweepCalls
<1>11. Owed("revoke")'
  BY <1>10 DEF Owed, Owes, AfterForget
<1>12. RequestsAreSound'
  <2> SUFFICES ASSUME NEW g \in Handlers PROVE Sound(handler[g])'
    BY DEF RequestsAreSound
  <2>1. Sound(handler'[g])
    <3>1. CASE g = h
      BY <1>3, <1>4, <1>10, <3>1 DEF Sound, Issues
    <3>2. CASE g # h
      BY <1>1, <1>3, <1>4, <3>2 DEF Sound, Issues, RequestsAreSound
    <3> QED
      BY <3>1, <3>2
  <2> QED
    BY <1>3, <1>11, <2>1 DEF Sound, Issues, Idle
<1>13. SweepsAreSound'
  <2>1. \A g \in Handlers : handler'[g].pc # "idle" => handler'[g].late
    BY <1>4 DEF Idle
  <2>2. Swept(h)'
    BY <1>3, <1>6, <1>10 DEF Swept, RevokedKeys, KeysOf
  <2>3. ASSUME NEW g \in Handlers \ {h}, handler'[g].pc \in SweepCalls PROVE Swept(g)'
    <3>1. handler'[g].pc = handler[g].pc
      BY <1>4, <2>3 DEF Idle, SweepCalls
    <3>2. Sweeping /\ Swept(g)
      BY <1>1, <2>3, <3>1 DEF SweepsAreSound, Sweeping
    <3> QED
      BY <1>3, <1>6, <3>1, <3>2 DEF Swept
  <2> QED
    BY <2>1, <2>2, <2>3 DEF SweepsAreSound
<1>14. SessionsFollowPassword'
  BY <1>11 DEF SessionsFollowPassword
<1>15. ContextFollowsAccount'
  BY <1>1, <1>9 DEF BeginSweep, ContextFollowsAccount, CurrentView, View
<1> QED
  BY <1>7, <1>12, <1>13, <1>14, <1>15 DEF AccountInv

(* A sweep goes on; at its end every key that is left was written beside it. *)
LEMMA SweepSteps == ASSUME AccountInv, NEW h \in Handlers, ScanKeys(h) \/ DropKeys(h) PROVE AccountInv'
<1> USE DEF CodesSame, ContextSame, AccountSame
<1>1. AccountTypeOK /\ RequestsAreSound /\ SweepsAreSound /\ SessionsFollowPassword /\ ContextFollowsAccount
  BY DEF AccountInv
<1>2. handler[h].pc \in SweepCalls /\ Swept(h) /\ Sweeping
  BY <1>1 DEF ScanKeys, DropKeys, SweepCalls, SweepsAreSound, Sweeping
<1>3. handler[h] \in Working /\ handler[h] # Idle /\ "forget" \notin Owes(handler[h]) /\ handler[h].late
  BY <1>1, <1>2, OwesByCall DEF AccountTypeOK, Idle, SweepCalls, SweepsAreSound
<1>4. /\ UNCHANGED <<account, grants, department, exchange, proof, overtaken, codes, codeKey, context, raced>>
      /\ live' \subseteq live /\ grace' \subseteq grace
  BY DEF ScanKeys, DropKeys
<1>5. PICK pc \in SweepCalls \cup {"idle"} : Moves(h, pc) /\ (pc = "idle" => DropKeys(h) /\ handler[h].pc = "last")
                                          /\ (ScanKeys(h) => Scanned(h, due[h] \cap RevokedKeys, pc) /\ pc \in {"drop", "last"})
                                          /\ (DropKeys(h) => pc \in {"scan", "idle"})
  <2>1. CASE ScanKeys(h)
    BY <2>1 DEF ScanKeys, DropKeys, SweepCalls
  <2>2. CASE DropKeys(h)
    BY <2>2 DEF ScanKeys, DropKeys, SweepCalls
  <2> QED
    BY <2>1, <2>2
<1>6. PICK w \in {Idle} \cup Working :
        /\ handler' = [handler EXCEPT ![h] = w] /\ handler' \in [Handlers -> {Idle} \cup Working]
        /\ pc = "idle" => w = Idle
        /\ pc # "idle" => w.pc = pc /\ w # Idle /\ w.late
  <2>1. pc \in Calls \cup {"idle"}
    BY DEF Calls
  <2> QED
    BY <1>1, <1>3, <1>5, <2>1, MovesAlong
<1>7. handler'[h] = w /\ (\A g \in Handlers \ {h} : handler'[g] = handler[g]) /\ unfinished' = unfinished
  BY <1>1, <1>5, <1>6 DEF AccountTypeOK, Moves
<1>8. /\ due' \in [Handlers -> SUBSET SessionKeys] /\ batch' \in [Handlers -> SUBSET SessionKeys]
      /\ \A g \in Handlers \ {h} : due'[g] = due[g] /\ batch'[g] = batch[g]
      /\ pc # "idle" => Swept(h)'
      /\ pc = "idle" => live' \cup grace' \subseteq overtaken
  <2>1. CASE ScanKeys(h)
    <3>1. due[h] \cap RevokedKeys \in SUBSET SessionKeys /\ batch[h] = {} /\ UNCHANGED <<live, grace>>
      BY <1>1, <1>2, <2>1 DEF AccountTypeOK, ScanKeys, Swept
    <3>2. /\ due' \in [Handlers -> SUBSET SessionKeys] /\ batch' \in [Handlers -> SUBSET SessionKeys]
          /\ due[h] \cap RevokedKeys \subseteq due'[h] \cup batch'[h] /\ (pc = "last" => due'[h] = {})
          /\ \A g \in Handlers \ {h} : due'[g] = due[g] /\ batch'[g] = batch[g]
      BY <1>1, <1>5, <2>1, <3>1, ScannedKeys
    <3>3. pc \in {"drop", "last"} /\ handler'[h].pc = pc
      BY <1>5, <1>6, <1>7, <2>1
    <3>4. Swept(h)'
      BY <1>2, <1>4, <3>1, <3>2, <3>3 DEF Swept, RevokedKeys, KeysOf
    <3> QED
      BY <3>2, <3>3, <3>4
  <2>2. CASE DropKeys(h)
    <3>1. /\ live' = {t \in live : <<"live", t>> \notin batch[h]}
          /\ grace' = {t \in grace : <<"grace", t>> \notin batch[h]}
          /\ batch' = [batch EXCEPT ![h] = {}] /\ due' = due
      BY <2>2 DEF DropKeys
    <3>2. /\ \A t \in live' : t \in overtaken \/ <<"live", t>> \in due[h]
          /\ \A t \in grace' : t \in overtaken \/ <<"grace", t>> \in due[h]
      BY <1>2, <3>1 DEF Swept
    <3>3. CASE pc = "idle"
      BY <1>1, <1>2, <1>5, <3>1, <3>2, <3>3 DEF AccountTypeOK, Swept
    <3>4. CASE pc = "scan"
      <4>1. handler'[h].pc = "scan" /\ batch'[h] = {}
        BY <1>1, <1>6, <1>7, <3>1, <3>4 DEF AccountTypeOK
      <4>2. Swept(h)'
        BY <1>4, <3>1, <3>2, <4>1 DEF Swept
      <4> QED
        BY <1>1, <3>1, <3>4, <4>2 DEF AccountTypeOK
    <3> QED
      BY <1>5, <2>2, <3>3, <3>4
  <2> QED
    BY <2>1, <2>2
<1>9. AccountTypeOK'
  BY <1>1, <1>4, <1>6, <1>8 DEF AccountTypeOK
<1>10. (Owed("forget") => Owed("forget")') /\ (pc # "idle" => Owed("revoke")')
  <2>1. Owed("forget") => Owed("forget")'
    BY <1>1, <1>3, <1>6, <1>7, StaysOwed
  <2>2. pc # "idle" => "revoke" \in Owes(handler'[h])
    BY <1>5, <1>6, <1>7, OwesByCall
  <2> QED
    BY <2>1, <2>2 DEF Owed, Owes, AfterForget
<1>11. RequestsAreSound'
  <2> SUFFICES ASSUME NEW g \in Handlers PROVE Sound(handler[g])'
    BY DEF RequestsAreSound
  <2>1. Sound(handler'[g]) /\ (Issues(handler'[g]) => handler'[g].late \/ handler'[g] = Idle)
    <3>1. CASE g = h
      BY <1>5, <1>6, <1>7, <3>1 DEF Sound, Issues, SweepCalls
    <3>2. CASE g # h
      BY <1>1, <1>2, <1>7, <3>2 DEF RequestsAreSound, SweepsAreSound, Sound, Issues
    <3> QED
      BY <3>1, <3>2
  <2> QED
    BY <1>4, <2>1 DEF Sound, Issues, Idle
<1>12. SweepsAreSound'
  <2>1. \A g \in Handlers : handler'[g].pc # "idle" => handler'[g].late
    BY <1>1, <1>2, <1>6, <1>7 DEF SweepsAreSound, Idle
  <2>2. handler'[h].pc \in SweepCalls => Swept(h)'
    BY <1>6, <1>7, <1>8 DEF Idle, SweepCalls
  <2>3. ASSUME NEW g \in Handlers \ {h}, handler'[g].pc \in SweepCalls PROVE Swept(g)'
    <3>1. handler'[g] = handler[g] /\ Swept(g)
      BY <1>1, <1>7, <2>3 DEF SweepsAreSound
    <3> QED
      BY <1>4, <1>8, <3>1 DEF Swept
  <2> QED
    BY <2>1, <2>2, <2>3 DEF SweepsAreSound
<1>13. SessionsFollowPassword'
  BY <1>4, <1>8, <1>10 DEF SessionsFollowPassword
<1>14. ContextFollowsAccount'
  BY <1>1, <1>4, <1>10 DEF ContextFollowsAccount, CurrentView, View
<1> QED
  BY <1>9, <1>11, <1>12, <1>13, <1>14 DEF AccountInv

(* A validation that fills the context records whether a writer outran it. *)
LEMMA FillStep == ASSUME AccountInv, NEW h \in Handlers, FillContext(h) PROVE AccountInv'
<1> USE DEF SessionsSame, SweepsSame, CodesSame, AccountSame
<1>1. handler' = [handler EXCEPT ![h] = Idle] /\ unfinished' = unfinished
  BY DEF FillContext, Moves
<1>2. "revoke" \notin Owes(handler[h])
  BY OwesByCall DEF FillContext, SweepCalls
<1>3. AccountTypeOK'
  BY <1>1 DEF FillContext, AccountInv, AccountTypeOK
<1>4. RequestsAreSound' /\ SweepsAreSound' /\ SessionsFollowPassword'
  BY <1>1, <1>2, <1>3, QuietStep DEF FillContext, Sound, Idle, SweepCalls
<1>5. ContextFollowsAccount'
  BY DEF FillContext, ContextFollowsAccount, CurrentView, View
<1> QED
  BY <1>3, <1>4, <1>5 DEF AccountInv

(* What happens to the keys of Redis without a request. *)
LEMMA KeySteps ==
  ASSUME AccountInv, BeginSso \/ Expire \/ \E t \in Tokens : Logout(t)
  PROVE  AccountInv'
<1> USE DEF SessionsSame, SweepsSame, CodesSame, ContextSame, AccountSame
<1>1. UNCHANGED <<account, grants, department, proof, overtaken, handler, unfinished, codeKey, due, batch>>
      /\ live' \subseteq live /\ grace' \subseteq grace /\ exchange' \subseteq exchange
  BY DEF BeginSso, Expire, Logout
<1>2. codes' \in [Purposes -> SUBSET Codes]
  BY DEF BeginSso, Expire, Logout, AccountInv, AccountTypeOK
<1>3. AccountTypeOK'
  BY <1>1, <1>2 DEF AccountInv, AccountTypeOK
<1>4. (Owed("revoke") <=> Owed("revoke")') /\ (Owed("forget") <=> Owed("forget")')
  BY <1>1 DEF Owed
<1>5. RequestsAreSound' /\ SessionsFollowPassword'
  BY <1>1, <1>4 DEF AccountInv, RequestsAreSound, Sound, Issues, Idle, SessionsFollowPassword
<1>8. SweepsAreSound'
  BY <1>1 DEF AccountInv, SweepsAreSound, Sweeping, Swept
<1>6. context' = {} \/ UNCHANGED <<context, raced>>
  BY DEF BeginSso, Expire, Logout
<1>7. ContextFollowsAccount'
  BY <1>1, <1>4, <1>6 DEF AccountInv, ContextFollowsAccount, CurrentView, View
<1> QED
  BY <1>3, <1>5, <1>7, <1>8 DEF AccountInv

LEMMA AccountInvariant == AccountSpec => []AccountInv
<1>1. ASSUME AccountInv, StepAccounts PROVE AccountInv'
  BY <1>1, StartSteps, MiddleSteps, RecordSteps, TokenSteps, WriteSteps, ChangeRoleStep, ForgetStep,
     ReleaseStep, ActivityStep, BeginSweepStep, SweepSteps, FillStep, KeySteps DEF StepAccounts, RowSaves
<1>2. ASSUME AccountInv, UNCHANGED accountVars PROVE AccountInv'
  <2>1. (Owed("revoke") <=> Owed("revoke")') /\ (Owed("forget") <=> Owed("forget")')
    BY <1>2 DEF accountVars, Owed
  <2> QED
    BY <1>2, <2>1 DEF accountVars, AccountInv, AccountTypeOK, RequestsAreSound, Sound, Issues, Idle,
       SweepsAreSound, Sweeping, Swept, SessionsFollowPassword, ContextFollowsAccount, CurrentView, View
<1> QED
  BY AccountInit, <1>1, <1>2, PTL DEF AccountSpec

(* Type correctness of the account, its tokens and the requests on it. *)
THEOREM AccountsAreTyped == AccountSpec => []AccountTypeOK
  BY AccountInvariant, PTL DEF AccountInv

(* Changing or resetting the password, and suspending the user, leave no session
   and no grace period that goes back to an old password, except of requests the
   revocation overtook (revokeAllSessions). *)
THEOREM SessionsFollowThePassword == AccountSpec => []SessionsFollowPassword
  BY AccountInvariant, PTL DEF AccountInv

(* The cached authorisation context is the account's unless an invalidation is
   owed or a fill or profile save raced with a writer (AuthContextCacheService). *)
THEOREM ContextFollowsTheAccount == AccountSpec => []ContextFollowsAccount
  BY AccountInvariant, PTL DEF AccountInv

-----------------------------------------------------------------------------
(* One code of a purpose.  Until two requests about its codes overlap, or one
   dies half way, a purpose is in one of few situations. *)
CodeCalls == {"clear", "store", "name", "use"}
AtMostOne(S) == \A x, y \in S : x = y

Tidy(k) ==
  /\ \A g, h \in Handlers : OnCodes(g, k) /\ OnCodes(h, k) => g = h
  /\ AtMostOne(codes[k]) /\ AtMostOne(codeKey[k])
  /\ (\A h \in Handlers : OnCodes(h, k) => handler[h].pc \in {"clear", "use"})
       => codes[k] \subseteq codeKey[k]
  /\ \A h \in Handlers : OnCodes(h, k) =>
       /\ handler[h].pc \in {"clear", "use"} => handler[h].about = codeKey[k]
       /\ handler[h].pc = "store" => codes[k] = {}
       /\ handler[h].pc = "name" => codes[k] \subseteq handler[h].about /\ AtMostOne(handler[h].about)
CodesAreTidy == \A k \in Purposes : k \in crowded \/ Tidy(k)

(* Codes that only expire, and requests about them that stay where they are. *)
LEMMA TidyStays ==
  ASSUME NEW k \in Purposes, Tidy(k), codes'[k] \subseteq codes[k], codeKey'[k] = codeKey[k],
         \A g \in Handlers : OnCodes(g, k)' <=> OnCodes(g, k),
         \A g \in Handlers : OnCodes(g, k) => /\ handler'[g].pc = handler[g].pc
                                              /\ handler'[g].about = handler[g].about
  PROVE  Tidy(k)'
<1>1. /\ \A g, h \in Handlers : OnCodes(g, k)' /\ OnCodes(h, k)' => g = h
      /\ AtMostOne(codes[k])' /\ AtMostOne(codeKey[k])'
  BY DEF Tidy, AtMostOne
<1>2. (\A h \in Handlers : OnCodes(h, k)' => handler'[h].pc \in {"clear", "use"})
        => codes'[k] \subseteq codeKey'[k]
  BY DEF Tidy
<1>3. ASSUME NEW h \in Handlers, OnCodes(h, k)'
      PROVE  /\ handler'[h].pc \in {"clear", "use"} => handler'[h].about = codeKey'[k]
             /\ handler'[h].pc = "store" => codes'[k] = {}
             /\ handler'[h].pc = "name" => codes'[k] \subseteq handler'[h].about /\ AtMostOne(handler'[h].about)
  BY <1>3 DEF Tidy
<1> QED
  BY <1>1, <1>2, <1>3 DEF Tidy, AtMostOne

(* A step of a request that is not about codes. *)
LEMMA OtherCall ==
  ASSUME AccountTypeOK, CodesAreTidy, NEW h \in Handlers, NEW w,
         handler' = [handler EXCEPT ![h] = w], handler[h].pc \notin CodeCalls, w.pc \notin CodeCalls,
         UNCHANGED <<codes, codeKey, crowded>>
  PROVE  CodesAreTidy'
<1>1. handler'[h] = w /\ \A g \in Handlers \ {h} : handler'[g] = handler[g]
  BY DEF AccountTypeOK
<1>2. \A k \in Purposes, g \in Handlers : OnCodes(g, k)' <=> OnCodes(g, k)
  BY <1>1 DEF OnCodes, CodeCalls
<1>3. \A k \in Purposes, g \in Handlers :
        OnCodes(g, k) => handler'[g].pc = handler[g].pc /\ handler'[g].about = handler[g].about
  BY <1>1 DEF OnCodes, CodeCalls
<1> QED
  BY <1>2, <1>3, TidyStays DEF CodesAreTidy

(* The requests that start about something else, and those that move on. *)
LEMMA OtherStarts ==
  ASSUME AccountTypeOK, CodesAreTidy, NEW h \in Handlers,
         \/ StartLogin(h) \/ StartPasswordChange(h) \/ StartValidate(h) \/ ChangeRole(h) \/ SsoCallback(h)
         \/ StartAssign(h)
         \/ \E t \in Tokens : StartRefresh(h, t) \/ SsoExchange(h, t)
         \/ \E op \in RowSaves, r \in Roles : StartSave(h, op, r)
  PROVE  CodesAreTidy'
<1> USE DEF CodesSame, CodeCalls, Begins
<1>1. CASE StartLogin(h)
  <2>1. SignIn("login", "issue").pc = "issue"
    BY DEF SignIn, Work
  <2> QED
    BY <1>1, <2>1, OtherCall DEF StartLogin
<1>2. CASE StartPasswordChange(h) \/ ChangeRole(h)
  <2>1. Work("password", "hash").pc = "hash" /\ Work("grants", "forget").pc = "forget"
    BY DEF Work
  <2> QED
    BY <1>2, <2>1, OtherCall DEF StartPasswordChange, ChangeRole
<1>3. CASE StartValidate(h)
  <2>1. Work("validate", "user").pc = "user"
    BY DEF Work
  <2> QED
    BY <1>3, <2>1, OtherCall DEF StartValidate
<1>8. CASE StartAssign(h)
  <2> DEFINE w == [Work("assign", "assign") EXCEPT !.saw = {department.manager}]
  <2>1. w.pc = "assign"
    BY DEF Work
  <2>2. Begins(h, w) /\ UNCHANGED <<codes, codeKey, crowded>>
    BY <1>8 DEF StartAssign
  <2> HIDE DEF w
  <2> QED
    BY <2>1, <2>2, OtherCall
<1>4. CASE SsoCallback(h)
  <2>1. ResolveSsoUser.pc \in {"idle", "issue", "verified"}
    BY DEF ResolveSsoUser, SignIn, Work, Idle
  <2> QED
    BY <1>4, <2>1, OtherCall DEF SsoCallback
<1>5. ASSUME NEW t \in Tokens, StartRefresh(h, t) PROVE CodesAreTidy'
  <2> DEFINE w == [Work("refresh", IF t \in live THEN "rotate" ELSE "grace") EXCEPT
                     !.about = {t}, !.proof = proof[t], !.late = @ \/ t \in overtaken]
  <2>1. w.pc \in {"rotate", "grace"}
    BY DEF Work
  <2>2. Begins(h, w) /\ UNCHANGED <<codes, codeKey, crowded>>
    BY <1>5 DEF StartRefresh
  <2> HIDE DEF w
  <2> QED
    BY <2>1, <2>2, OtherCall
<1>6. ASSUME NEW t \in Tokens, SsoExchange(h, t) PROVE CodesAreTidy'
  <2> DEFINE w == IF Suspended(account) THEN Idle ELSE [SignIn("exchange", "swap") EXCEPT !.about = {t}]
  <2>1. w.pc \in {"idle", "swap"}
    BY DEF SignIn, Work, Idle
  <2>2. Begins(h, w) /\ UNCHANGED <<codes, codeKey, crowded>>
    BY <1>6 DEF SsoExchange
  <2> HIDE DEF w
  <2> QED
    BY <2>1, <2>2, OtherCall
<1>7. ASSUME NEW op \in RowSaves, NEW r \in Roles, StartSave(h, op, r)
      PROVE  CodesAreTidy'
  <2> DEFINE w == [Work(op, "save") EXCEPT !.saw = {Entity(op, account, r)}]
  <2>1. w.pc = "save"
    BY DEF Work
  <2>2. Begins(h, w) /\ UNCHANGED <<codes, codeKey, crowded>>
    BY <1>7 DEF StartSave
  <2> HIDE DEF w
  <2> QED
    BY <2>1, <2>2, OtherCall
<1> QED
  BY <1>1, <1>2, <1>3, <1>4, <1>5, <1>6, <1>7, <1>8

LEMMA OtherMove ==
  ASSUME AccountTypeOK, CodesAreTidy, NEW h \in Handlers, NEW pc \in (Calls \ CodeCalls) \cup {"idle"},
         handler[h].pc \notin CodeCalls \cup {"idle"}, Moves(h, pc), UNCHANGED <<codes, codeKey, crowded>>
  PROVE  CodesAreTidy'
<1>1. handler[h] # Idle /\ pc \in Calls \cup {"idle"}
  BY DEF Idle
<1>2. PICK w \in {Idle} \cup Working :
        /\ handler' = [handler EXCEPT ![h] = w]
        /\ pc = "idle" => w = Idle
        /\ pc # "idle" => w.pc = pc
  BY <1>1, MovesAlong
<1>3. w.pc \notin CodeCalls
  BY <1>2 DEF Idle, CodeCalls
<1> QED
  BY <1>2, <1>3, OtherCall

LEMMA OtherMoves ==
  ASSUME AccountTypeOK, CodesAreTidy, NEW h \in Handlers,
         \/ IssueTokens(h) \/ CheckGrace(h) \/ RotateToken(h) \/ KeepGrace(h) \/ CheckActive(h)
         \/ SwapToken(h) \/ MarkVerified(h) \/ SavePassword(h) \/ SaveUser(h) \/ ForgetContext(h)
         \/ OpenTransfer(h) \/ ReleaseManager(h) \/ WriteTransfer(h) \/ WriteManager(h)
         \/ ScanKeys(h) \/ DropKeys(h) \/ findAuthContext(h) \/ ReadManaged(h) \/ FillContext(h)
  PROVE  CodesAreTidy'
<1> USE DEF CodesSame
<1>1. CASE CheckGrace(h)
  <2> DEFINE w == IF handler[h].about \subseteq grace
                    THEN [handler[h] EXCEPT !.pc = "active",
                            !.late = handler[h].late \/ handler[h].about \subseteq overtaken]
                    ELSE Idle
  <2>1. handler[h] \in Working
    BY <1>1 DEF CheckGrace, AccountTypeOK, Idle
  <2>2. w.pc \notin CodeCalls
    BY <2>1 DEF Working, Idle, CodeCalls
  <2>3. handler' = [handler EXCEPT ![h] = w] /\ UNCHANGED <<codes, codeKey, crowded>>
        /\ handler[h].pc \notin CodeCalls
    BY <1>1 DEF CheckGrace, CodeCalls
  <2> HIDE DEF w
  <2> QED
    BY <2>2, <2>3, OtherCall
<1>3. CASE findAuthContext(h)
  <2> DEFINE w == IF Suspended(account) THEN Idle
                  ELSE [handler[h] EXCEPT !.pc = "managed", !.saw = {CurrentView}]
  <2>1. handler[h] \in Working
    BY <1>3 DEF findAuthContext, AccountTypeOK, Idle
  <2>2. w.pc \notin CodeCalls
    BY <2>1 DEF Working, Idle, CodeCalls
  <2>3. handler' = [handler EXCEPT ![h] = w] /\ UNCHANGED <<codes, codeKey, crowded>>
        /\ handler[h].pc \notin CodeCalls
    BY <1>3 DEF findAuthContext, CodeCalls
  <2> HIDE DEF w
  <2> QED
    BY <2>2, <2>3, OtherCall
<1>4. CASE ReadManaged(h)
  <2> DEFINE views == WithManaged(handler[h].saw)
             w == [handler[h] EXCEPT !.pc = "fill", !.saw = views]
  <2>1. handler[h] \in Working
    BY <1>4 DEF ReadManaged, AccountTypeOK, Idle
  <2>3. handler' = [handler EXCEPT ![h] = w] /\ UNCHANGED <<codes, codeKey, crowded>>
        /\ handler[h].pc \notin CodeCalls
    BY <1>4 DEF ReadManaged, CodeCalls
  <2> HIDE DEF views
  <2>2. w.pc \notin CodeCalls
    BY <2>1 DEF Working, CodeCalls
  <2> HIDE DEF w
  <2> QED
    BY <2>2, <2>3, OtherCall
<1>2. ASSUME ~CheckGrace(h), ~findAuthContext(h), ~ReadManaged(h)
      PROVE  \E pc \in (Calls \ CodeCalls) \cup {"idle"} :
               /\ handler[h].pc \notin CodeCalls \cup {"idle"} /\ Moves(h, pc)
               /\ UNCHANGED <<codes, codeKey, crowded>>
  <2>1. {"mail", "keep", "active", "issue", "forget", "revoke", "leave", "commit", "scan", "drop", "last"}
          \subseteq Calls \ CodeCalls
    BY DEF Calls, CodeCalls, SweepCalls
  <2>2. CASE IssueTokens(h) \/ RotateToken(h) \/ KeepGrace(h) \/ CheckActive(h) \/ SwapToken(h)
    BY <2>1, <2>2 DEF IssueTokens, RotateToken, KeepGrace, CheckActive, SwapToken, CodeCalls
  <2>3. CASE MarkVerified(h) \/ SavePassword(h) \/ SaveUser(h) \/ ForgetContext(h) \/ FillContext(h)
    BY <2>1, <2>3 DEF MarkVerified, SavePassword, SaveUser, ForgetContext, FillContext, AfterSave,
       AfterForget, CodeCalls
  <2>4. CASE OpenTransfer(h) \/ ReleaseManager(h) \/ WriteTransfer(h)
    BY <2>1, <2>4 DEF OpenTransfer, ReleaseManager, WriteTransfer, AfterSave, CodeCalls
  <2>5. CASE WriteManager(h)
    BY <2>1, <2>5 DEF WriteManager, CodeCalls
  <2>6. CASE ScanKeys(h) \/ DropKeys(h)
    BY <2>1, <2>6 DEF ScanKeys, DropKeys, CodeCalls
  <2> QED
    BY <1>2, <2>2, <2>3, <2>4, <2>5, <2>6
<1> QED
  BY <1>1, <1>2, <1>3, <1>4, OtherMove

(* A revocation marks the requests about codes and leaves them where they are. *)
LEMMA SweepLeavesCodes ==
  ASSUME AccountTypeOK, CodesAreTidy, NEW h \in Handlers, BeginSweep(h)
  PROVE  CodesAreTidy'
<1>1. PICK pc \in {"drop", "last"} :
        handler' = [g \in Handlers |->
                     IF handler[g].pc = "idle" THEN Idle
                     ELSE [handler[g] EXCEPT !.late = TRUE, !.pc = IF g = h THEN pc ELSE @]]
  BY DEF BeginSweep
<1>2. \A g \in Handlers : handler[g].pc # "idle" => handler[g] \in Working
  BY DEF AccountTypeOK, Idle
<1>3. ASSUME NEW g \in Handlers
      PROVE  \/ handler[g].pc = "idle" /\ handler'[g] = Idle
             \/ handler[g].pc = "revoke" /\ handler'[g].pc = pc
             \/ handler'[g].pc = handler[g].pc /\ handler'[g].op = handler[g].op /\ handler'[g].about = handler[g].about
  <2>1. CASE handler[g].pc = "idle"
    BY <1>1, <2>1
  <2>2. CASE handler[g].pc # "idle" /\ g = h
    BY <1>1, <1>2, <2>2 DEF Working, BeginSweep
  <2>3. CASE handler[g].pc # "idle" /\ g # h
    BY <1>1, <1>2, <2>3 DEF Working
  <2> QED
    BY <2>1, <2>2, <2>3
<1>4. \A k \in Purposes, g \in Handlers :
        /\ OnCodes(g, k)' <=> OnCodes(g, k)
        /\ OnCodes(g, k) => handler'[g].pc = handler[g].pc /\ handler'[g].about = handler[g].about
  BY <1>3 DEF OnCodes, Idle
<1>5. UNCHANGED <<codes, codeKey, crowded>>
  BY DEF BeginSweep, CodesSame
<1> QED
  BY <1>4, <1>5, TidyStays DEF CodesAreTidy

(* Keys that expire, and what happens without a request. *)
LEMMA KeysLeaveCodes ==
  ASSUME AccountTypeOK, CodesAreTidy, BeginSso \/ SetActivity \/ Expire \/ \E t \in Tokens : Logout(t)
  PROVE  CodesAreTidy'
<1>1. handler' = handler /\ codeKey' = codeKey /\ crowded' = crowded
  BY DEF BeginSso, SetActivity, Expire, Logout, CodesSame
<1>2. \A k \in Purposes : codes'[k] \subseteq codes[k]
  BY DEF BeginSso, SetActivity, Expire, Logout, CodesSame, AccountTypeOK
<1>3. \A k \in Purposes, g \in Handlers : OnCodes(g, k)' <=> OnCodes(g, k)
  BY <1>1 DEF OnCodes
<1> QED
  BY <1>1, <1>2, <1>3, TidyStays DEF CodesAreTidy

(* A request that dies about a purpose crowds it. *)
LEMMA DeathCrowds ==
  ASSUME AccountTypeOK, CodesAreTidy, NEW h \in Handlers, Die(h)
  PROVE  CodesAreTidy'
<1>1. handler'[h] = Idle /\ \A g \in Handlers \ {h} : handler'[g] = handler[g]
  BY DEF Die, AccountTypeOK
<1>2. codes' = codes /\ codeKey' = codeKey /\ crowded \subseteq crowded'
      /\ \A k \in Purposes : k \notin crowded' => ~OnCodes(h, k)
  BY DEF Die
<1>3. ASSUME NEW k \in Purposes, k \notin crowded' PROVE Tidy(k)'
  <2>1. \A g \in Handlers : OnCodes(g, k)' <=> OnCodes(g, k)
    BY <1>1, <1>2, <1>3 DEF OnCodes, Idle
  <2>2. \A g \in Handlers : OnCodes(g, k) => handler'[g] = handler[g]
    BY <1>1, <1>2, <1>3
  <2> QED
    BY <1>2, <1>3, <2>1, <2>2, TidyStays DEF CodesAreTidy
<1> QED
  BY <1>3 DEF CodesAreTidy

(* A request that turns to the codes of a purpose crowds it, or is alone with them
   and knows the code its user key names. *)
LEMMA ArrivalIsTidy ==
  ASSUME AccountTypeOK, CodesAreTidy, NEW h \in Handlers, NEW k \in Purposes, NEW w,
         handler' = [handler EXCEPT ![h] = w], handler[h].pc \notin CodeCalls,
         w.op = k, w.pc \in {"clear", "use"}, Crowds(h, k), UNCHANGED <<codes, codeKey>>,
         Tidy(k) /\ (\A g \in Handlers : ~OnCodes(g, k)) => w.about = codeKey[k]
  PROVE  CodesAreTidy'
<1>1. handler'[h] = w /\ \A g \in Handlers \ {h} : handler'[g] = handler[g]
  BY DEF AccountTypeOK
<1>2. \A j \in Purposes : ~OnCodes(h, j)
  BY DEF OnCodes, CodeCalls
<1>3. ASSUME NEW j \in Purposes, j # k, j \notin crowded' PROVE Tidy(j)'
  <2>1. \A g \in Handlers : OnCodes(g, j)' <=> OnCodes(g, j)
    BY <1>1, <1>2, <1>3 DEF OnCodes
  <2>2. \A g \in Handlers : OnCodes(g, j) => handler'[g] = handler[g]
    BY <1>1, <1>2
  <2>3. Tidy(j)
    BY <1>3 DEF CodesAreTidy, Crowds
  <2> QED
    BY <2>1, <2>2, <2>3, TidyStays
<1>4. ASSUME k \notin crowded' PROVE Tidy(k)'
  <2>1. Tidy(k) /\ \A g \in Handlers : ~OnCodes(g, k)
    BY <1>2, <1>4 DEF Crowds, CodesAreTidy
  <2>2. \A g \in Handlers : OnCodes(g, k)' => g = h
    BY <1>1, <2>1 DEF OnCodes
  <2>3. codes[k] \subseteq codeKey[k]
    BY <2>1 DEF Tidy
  <2> QED
    BY <1>1, <2>1, <2>2, <2>3 DEF Tidy, AtMostOne
<1> QED
  BY <1>3, <1>4 DEF CodesAreTidy

LEMMA Arrivals ==
  ASSUME AccountTypeOK, CodesAreTidy, NEW h \in Handlers,
         \/ MailCode(h)
         \/ \E k \in Purposes : StartCode(h, k) \/ \E c \in Codes : StartConfirm(h, k, c)
  PROVE  CodesAreTidy'
<1>1. ASSUME NEW k \in Purposes, StartCode(h, k) PROVE CodesAreTidy'
  <2> DEFINE w == [Work(k, "clear") EXCEPT !.about = codeKey[k]]
  <2>1. w.op = k /\ w.pc = "clear" /\ w.about = codeKey[k]
    BY DEF Work
  <2>2. /\ handler' = [handler EXCEPT ![h] = w] /\ handler[h].pc = "idle"
        /\ Crowds(h, k) /\ UNCHANGED <<codes, codeKey>>
    BY <1>1 DEF StartCode, Begins
  <2> HIDE DEF w
  <2> QED
    BY <2>1, <2>2, ArrivalIsTidy DEF CodeCalls
<1>2. ASSUME NEW k \in Purposes, NEW c \in Codes, StartConfirm(h, k, c) PROVE CodesAreTidy'
  <2> DEFINE w == [SignIn(k, "use") EXCEPT !.about = {c}, !.saw = {account.verified}]
  <2>1. w.op = k /\ w.pc = "use" /\ w.about = {c}
    BY DEF SignIn, Work
  <2>2. /\ handler' = [handler EXCEPT ![h] = w] /\ handler[h].pc = "idle"
        /\ Crowds(h, k) /\ UNCHANGED <<codes, codeKey>> /\ c \in codes[k]
    BY <1>2 DEF StartConfirm, Begins
  <2> HIDE DEF w
  <2>3. Tidy(k) /\ (\A g \in Handlers : ~OnCodes(g, k)) => w.about = codeKey[k]
    BY <2>1, <2>2 DEF Tidy, AtMostOne
  <2> QED
    BY <2>1, <2>2, <2>3, ArrivalIsTidy DEF CodeCalls
<1>3. CASE MailCode(h)
  <2> DEFINE w == [handler[h] EXCEPT !.op = "verify", !.pc = "clear", !.about = codeKey["verify"]]
  <2>1. handler[h] \in Working
    BY <1>3 DEF MailCode, AccountTypeOK, Idle
  <2>2. w.op = "verify" /\ w.pc = "clear" /\ w.about = codeKey["verify"]
    BY <2>1 DEF Working
  <2>3. /\ handler' = [handler EXCEPT ![h] = w] /\ handler[h].pc = "mail"
        /\ Crowds(h, "verify") /\ UNCHANGED <<codes, codeKey>> /\ "verify" \in Purposes
    BY <1>3 DEF MailCode, Purposes
  <2> HIDE DEF w
  <2> QED
    BY <2>2, <2>3, ArrivalIsTidy DEF CodeCalls
<1> QED
  BY <1>1, <1>2, <1>3

(* The calls about codes: clear the code the user key names, store another, name it,
   or use one. *)
LEMMA CodeCallsAreTidy ==
  ASSUME AccountTypeOK, CodesAreTidy, NEW h \in Handlers, NEW k \in Purposes, handler[h].op = k,
         ClearCode(h) \/ StoreCode(h) \/ NameCode(h) \/ UseCode(h)
  PROVE  CodesAreTidy'
<1>0. handler[h].pc \in {"clear", "store", "name", "use"}
  BY DEF ClearCode, StoreCode, NameCode, UseCode
<1>1. handler[h] \in Working /\ OnCodes(h, k) /\ handler[h] # Idle
  BY <1>0 DEF AccountTypeOK, OnCodes, Idle
<1>2. /\ \A g \in Handlers \ {h} : handler'[g] = handler[g]
      /\ crowded' = crowded
      /\ \A j \in Purposes \ {k} : codes'[j] = codes[j] /\ codeKey'[j] = codeKey[j]
  BY DEF AccountTypeOK, Moves, ClearCode, StoreCode, NameCode, UseCode
<1>3. \A pc \in Calls : Moves(h, pc) =>
        handler'[h].pc = pc /\ handler'[h].op = k /\ handler'[h].about = handler[h].about
  BY <1>1 DEF Moves, Working, AccountTypeOK, Calls, SweepCalls
<1>4. Moves(h, "idle") => handler'[h] = Idle
  BY DEF Moves, AccountTypeOK
<1>5. \A j \in Purposes \ {k} : ~OnCodes(h, j) /\ ~OnCodes(h, j)'
  <2>1. CASE StoreCode(h)
    <3>1. PICK c \in Codes : handler' = [handler EXCEPT ![h] = [@ EXCEPT !.pc = "name", !.about = {c}]]
      BY <2>1 DEF StoreCode
    <3>2. handler'[h].op = k
      BY <1>1, <3>1 DEF Working, AccountTypeOK
    <3> QED
      BY <3>2 DEF OnCodes
  <2>2. ASSUME NEW pc \in Calls \cup {"idle"}, Moves(h, pc) PROVE handler'[h].op \in {k, "none"}
    BY <1>3, <1>4, <2>2 DEF Idle
  <2>3. CASE ~StoreCode(h)
    <3>1. \E pc \in Calls \cup {"idle"} : Moves(h, pc)
      BY <2>3 DEF ClearCode, NameCode, UseCode, Calls
    <3> QED
      BY <2>2, <3>1 DEF OnCodes, Purposes
  <2> QED
    BY <2>1, <2>3
<1>6. ASSUME NEW j \in Purposes \ {k}, j \notin crowded PROVE Tidy(j)'
  <2>1. \A g \in Handlers : OnCodes(g, j)' <=> OnCodes(g, j)
    BY <1>2, <1>5 DEF OnCodes
  <2>2. \A g \in Handlers : OnCodes(g, j) => handler'[g] = handler[g]
    BY <1>2, <1>5
  <2> QED
    BY <1>2, <1>6, <2>1, <2>2, TidyStays DEF CodesAreTidy
<1>7. ASSUME k \notin crowded PROVE Tidy(k)'
  <2>0. Tidy(k)
    BY <1>1, <1>7 DEF CodesAreTidy
  <2>1. \A g \in Handlers \ {h} : ~OnCodes(g, k) /\ ~OnCodes(g, k)'
    BY <1>1, <1>2, <2>0 DEF Tidy, OnCodes
  <2>2. CASE ClearCode(h)
    <3>1. handler[h].about = codeKey[k] /\ codes[k] \subseteq codeKey[k]
      BY <1>1, <2>0, <2>1, <2>2 DEF Tidy, ClearCode
    <3>2. codes'[k] = {} /\ codeKey'[k] = {} /\ handler'[h].pc = "store"
      BY <1>1, <1>3, <2>2, <3>1 DEF ClearCode, Superseded, AccountTypeOK, Calls
    <3> QED
      BY <2>1, <3>2 DEF Tidy, AtMostOne
  <2>3. CASE StoreCode(h)
    <3>1. PICK c \in Codes :
            /\ codes' = [codes EXCEPT ![k] = @ \cup {c}]
            /\ handler' = [handler EXCEPT ![h] = [@ EXCEPT !.pc = "name", !.about = {c}]]
      BY <2>3 DEF StoreCode
    <3>2. codes[k] = {}
      BY <1>1, <2>0, <2>3 DEF Tidy, StoreCode
    <3>3. codes'[k] = {c} /\ codeKey'[k] = codeKey[k]
      BY <1>1, <2>3, <3>1, <3>2 DEF StoreCode, AccountTypeOK
    <3>4. handler'[h].pc = "name" /\ handler'[h].about = {c} /\ OnCodes(h, k)'
      BY <1>1, <3>1 DEF Working, AccountTypeOK, OnCodes
    <3> QED
      BY <2>0, <2>1, <3>3, <3>4 DEF Tidy, AtMostOne
  <2>4. CASE NameCode(h)
    <3>1. codes[k] \subseteq handler[h].about /\ AtMostOne(handler[h].about)
      BY <1>1, <2>0, <2>4 DEF Tidy, NameCode
    <3>2. codes'[k] = codes[k] /\ codeKey'[k] = handler[h].about /\ ~OnCodes(h, k)'
      BY <1>1, <1>4, <2>4 DEF NameCode, AccountTypeOK, OnCodes, Idle
    <3> QED
      BY <2>0, <2>1, <3>1, <3>2 DEF Tidy, AtMostOne
  <2>5. CASE UseCode(h)
    <3>1. handler[h].about = codeKey[k] /\ codes[k] \subseteq codeKey[k]
      BY <1>1, <2>0, <2>1, <2>5 DEF Tidy, UseCode
    <3>2. codes'[k] = {} /\ codeKey'[k] = {}
      BY <1>1, <2>5, <3>1 DEF UseCode, AccountTypeOK
    <3>3. handler'[h].pc \in {"hash", "issue", "verified"}
      BY <1>3, <2>5 DEF UseCode, Calls
    <3> QED
      BY <2>1, <3>2, <3>3 DEF Tidy, AtMostOne, OnCodes
  <2> QED
    BY <2>2, <2>3, <2>4, <2>5
<1> QED
  BY <1>2, <1>6, <1>7 DEF CodesAreTidy

LEMMA CodesInvariant == AccountSpec => []CodesAreTidy
<1>1. InitAccounts => CodesAreTidy
  <2> SUFFICES ASSUME InitAccounts, NEW k \in Purposes PROVE Tidy(k)
    BY DEF CodesAreTidy
  <2>1. PICK mailed \in {{}} \cup {{c} : c \in Codes} :
          codes = [j \in Purposes |-> IF j = "verify" THEN mailed ELSE {}] /\ codeKey = codes
    BY DEF InitAccounts
  <2>2. \A h \in Handlers : ~OnCodes(h, k)
    BY DEF InitAccounts, OnCodes, Idle
  <2> QED
    BY <2>1, <2>2 DEF Tidy, AtMostOne
<1>2. ASSUME AccountInv, CodesAreTidy, StepAccounts PROVE CodesAreTidy'
  <2>1. AccountTypeOK /\ RequestsAreSound
    BY <1>2 DEF AccountInv
  <2>2. ASSUME NEW h \in Handlers, ClearCode(h) \/ StoreCode(h) \/ NameCode(h) \/ UseCode(h)
        PROVE  CodesAreTidy'
    <3>1. handler[h].op \in Purposes
      <4>1. handler[h].pc \in {"clear", "store", "name", "use"}
        BY <2>2 DEF ClearCode, StoreCode, NameCode, UseCode
      <4> QED
        BY <2>1, <4>1 DEF RequestsAreSound, Sound, Idle
    <3> QED
      BY <1>2, <2>1, <2>2, <3>1, CodeCallsAreTidy
  <2> QED
    BY <1>2, <2>1, <2>2, OtherStarts, OtherMoves, SweepLeavesCodes, KeysLeaveCodes, DeathCrowds,
       Arrivals DEF StepAccounts, RowSaves
<1>3. ASSUME CodesAreTidy, UNCHANGED accountVars PROVE CodesAreTidy'
  BY <1>3 DEF accountVars, CodesAreTidy, Tidy, AtMostOne, OnCodes
<1> QED
  BY <1>1, <1>2, <1>3, AccountInvariant, PTL DEF AccountSpec

(* A new code replaces the one before it: two codes of a purpose are valid at once
   only when requests about them overlapped, or one died half way. *)
THEOREM OneCodeIsValid == AccountSpec => []OneCodeAtATime
<1>1. CodesAreTidy => OneCodeAtATime
  <2> SUFFICES ASSUME NEW k \in Purposes, Tidy(k) PROVE Cardinality(codes[k]) <= 1
    BY DEF CodesAreTidy, OneCodeAtATime
  <2>1. CASE codes[k] = {}
    BY <2>1, FS_EmptySet
  <2>2. ASSUME NEW c \in codes[k] PROVE Cardinality(codes[k]) <= 1
    <3>1. codes[k] = {c}
      BY <2>2 DEF Tidy, AtMostOne
    <3>2. Cardinality({c}) = 1
      BY FS_Singleton
    <3> QED
      BY <3>1, <3>2
  <2> QED
    BY <2>1, <2>2
<1> QED
  BY <1>1, CodesInvariant, PTL
=============================================================================
