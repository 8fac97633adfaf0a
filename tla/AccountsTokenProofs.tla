------------------------ MODULE AccountsTokenProofs ------------------------
(* The stored refresh token is one that Google takes: who else holds the   *)
(* refresh tokens of Accounts, on top of who is who.                       *)
EXTENDS AccountsProofs

\* The refresh token a callback, a call and a row hold.
LoginHolds(h) ==
    IF login[h].pc \in {"lookup", "insert", "save"} THEN login[h].row.refresh ELSE NoRefresh
CallHolds(c) ==
    IF call[c].pc \in {"refresh", "save", "use"} THEN call[c].row.refresh ELSE NoRefresh
RowHolds(u) == tokens[u].refresh

\* What a callback holds is its own.
LoginsFresh ==
    \A h \in Logins : LoginHolds(h) \in RefreshTokens =>
       /\ grant[LoginHolds(h)].state = "live"
       /\ \A g \in Logins \ {h} : LoginHolds(g) # LoginHolds(h)
       /\ \A c \in Calls : CallHolds(c) # LoginHolds(h)
       /\ \A u \in UserIds : RowHolds(u) # LoginHolds(h)

\* So is what a refresh has brought, until it is saved.
CallsFresh ==
    \A c \in Calls : call[c].pc = "save" =>
       /\ CallHolds(c) \in RefreshTokens /\ grant[CallHolds(c)].state = "live"
       /\ call[c].spent \in RefreshTokens
       /\ grant[call[c].spent].state \in {"used", "lost"}
       /\ \A d \in Calls \ {c} : CallHolds(d) # CallHolds(c)
       /\ \A u \in UserIds : RowHolds(u) # CallHolds(c)

\* The second invariant.
Fresh == env.rotates => LoginsFresh /\ CallsFresh /\ RowUsable

-----------------------------------------------------------------------------

LEMMA InitFresh == Init => Fresh
<1> SUFFICES ASSUME Init PROVE Fresh
  OBVIOUS
<1>1. /\ \A h \in Logins : LoginHolds(h) = NoRefresh
      /\ \A c \in Calls : call[c].pc = "idle"
      /\ \A u \in UserIds : RowHolds(u) = NoRefresh
  BY DEF Init, NoLogin, NoCall, NoRow, LoginHolds, RowHolds
<1>. QED
  BY <1>1, AccountsAssumption
  DEF AccountsAssumption, Fresh, LoginsFresh, CallsFresh, RowUsable, RowHolds

\* What is held has been issued.
LEMMA HeldIsIssued ==
    ASSUME Identity, NEW t \in RefreshTokens, grant[t].state = "unissued"
    PROVE  /\ \A h \in Logins : LoginHolds(h) # t
           /\ \A c \in Calls : CallHolds(c) # t
           /\ \A u \in UserIds : RowHolds(u) # t
<1>1. grant[t].owner = NoAccount /\ t # NoRefresh
  BY AccountsAssumption DEF AccountsAssumption, Identity, GrantInv
<1>2. \A row : GoodRow(row) => row.refresh # t
  BY <1>1, AccountsAssumption DEF AccountsAssumption, GoodRow
<1>. QED
  BY <1>1, <1>2
  DEF Identity, LoginOf, CallOf, TokensOf, LoginHolds, CallHolds, RowHolds, NoRow

\* Steps in which no token is granted, spent or stored, and nobody holds one
\* that is neither theirs already nor stored.
LEMMA FreshStays ==
    ASSUME Fresh, env' = env, grant' = grant,
           \A u \in UserIds : RowHolds(u)' = RowHolds(u),
           \A h \in Logins : LoginHolds(h)' \in {LoginHolds(h), NoRefresh, DevToken},
           \A c \in Calls : \/ CallHolds(c)' \in {CallHolds(c), NoRefresh}
                            \/ \E u \in UserIds : CallHolds(c)' = RowHolds(u),
           \A c \in Calls : call[c].pc = "save" \/ call'[c].pc = "save" => call'[c] = call[c]
    PROVE  Fresh'
<1> SUFFICES ASSUME env.rotates PROVE LoginsFresh' /\ CallsFresh' /\ RowUsable'
  BY DEF Fresh
<1>0. NoRefresh \notin RefreshTokens /\ DevToken \notin RefreshTokens
  BY AccountsAssumption DEF AccountsAssumption
<1>1. LoginsFresh'
  BY <1>0 DEF Fresh, LoginsFresh
<1>2. CallsFresh'
  BY <1>0 DEF Fresh, CallsFresh, CallHolds
<1>3. RowUsable'
  BY DEF Fresh, RowUsable, RowHolds
<1>. QED
  BY <1>1, <1>2, <1>3

-----------------------------------------------------------------------------
(* The steps that grant, spend, store or lose a token. *)

LEMMA QuietFresh ==
    ASSUME Identity, Fresh, NEW h \in Logins,
           \/ \E b \in Browsers : DevLogin(h, b) \/ \E f \in Flows : Callback(h, b, f)
           \/ LookUpUser(h) \/ InsertUser(h) \/ AnswerLogin(h) \/ FailLogin(h)
    PROVE  Fresh'
<1>1. UNCHANGED <<env, grant, tokens, call>>
  BY DEF DevLogin, Callback, LookUpUser, InsertUser, AnswerLogin, FailLogin
<1>2. \A g \in Logins \ {h} : login'[g] = login[g]
  BY DEF DevLogin, Callback, LookUpUser, InsertUser, AnswerLogin, FailLogin, Identity, TypeOK
<1>3. LoginHolds(h)' \in {LoginHolds(h), NoRefresh, DevToken}
  <2>1. ASSUME NEW b \in Browsers, DevLogin(h, b)
        PROVE  LoginHolds(h)' = DevToken
    <3>1. PICK row : row = [account |-> DevAccount, refresh |-> DevToken, expired |-> FALSE]
      OBVIOUS
    <3>2. login'[h] = [NoLogin EXCEPT !.pc = "lookup", !.browser = b, !.row = row]
      BY <2>1, <3>1 DEF DevLogin, Identity, TypeOK
    <3>3. login'[h].pc = "lookup" /\ login'[h].row = row /\ row.refresh = DevToken
      BY <3>1, <3>2 DEF NoLogin
    <3>. QED
      BY <3>3 DEF LoginHolds
  <2>2. ASSUME NEW b \in Browsers, NEW f \in Flows, Callback(h, b, f)
        PROVE  LoginHolds(h)' = NoRefresh
    <3>1. login'[h].pc = "exchange"
      BY <2>2 DEF Callback, NoLogin, Identity, TypeOK
    <3>. QED
      BY <3>1 DEF LoginHolds
  <2>3. CASE LookUpUser(h) \/ InsertUser(h)
    <3>1. login[h] \in LoginSet /\ login[h].pc \in {"lookup", "insert"}
      BY <2>3 DEF LookUpUser, InsertUser, Identity, TypeOK
    <3>2. login'[h].pc \in {"insert", "save"} /\ login'[h].row = login[h].row
      BY <2>3, <3>1 DEF LookUpUser, InsertUser, Identity, TypeOK, LoginSet
    <3>. QED
      BY <3>1, <3>2 DEF LoginHolds
  <2>4. CASE AnswerLogin(h) \/ FailLogin(h)
    <3>1. login'[h].pc = "idle"
      BY <2>4 DEF AnswerLogin, FailLogin, NoLogin, Identity, TypeOK
    <3>. QED
      BY <3>1 DEF LoginHolds
  <2>. QED
    BY <2>1, <2>2, <2>3, <2>4
<1>4. \A g \in Logins : LoginHolds(g)' \in {LoginHolds(g), NoRefresh, DevToken}
  BY <1>2, <1>3 DEF LoginHolds
<1>. QED
  BY <1>1, <1>4, FreshStays DEF RowHolds, CallHolds

LEMMA WorldFresh == ASSUME Identity, Fresh, World PROVE Fresh'
<1>1. UNCHANGED <<env, grant, login, call>>
  BY DEF World, BeginLogin, Logout, Consent, Expire
<1>2. \A u \in UserIds : RowHolds(u)' = RowHolds(u)
  <2>1. CASE tokens' = tokens
    BY <2>1 DEF RowHolds
  <2>2. ASSUME NEW v \in UserIds, Expire(v)
        PROVE  \A u \in UserIds : RowHolds(u)' = RowHolds(u)
    <3>1. tokens[v] \in TokenRows
      BY DEF Identity, TypeOK
    <3>2. [tokens[v] EXCEPT !.expired = TRUE].refresh = tokens[v].refresh
      BY <3>1 DEF TokenRows
    <3>. QED
      BY <2>2, <3>2 DEF Expire, RowHolds, Identity, TypeOK
  <2>. QED
    BY <2>1, <2>2 DEF World, BeginLogin, Logout, Consent
<1>. QED
  BY <1>1, <1>2, FreshStays DEF LoginHolds, CallHolds

LEMMA CallOnlyFresh ==
    ASSUME Identity, Fresh, NEW c \in Calls,
           \/ \E b \in Browsers : StartCall(c, b)
           \/ GetTokens(c) \/ Denied(c) \/ EndCall(c)
    PROVE  Fresh'
<1>1. UNCHANGED <<env, grant, tokens, login>>
  BY DEF StartCall, GetTokens, Denied, EndCall
<1>2. call[c] \in CallSet /\ call[c].pc # "save"
      /\ \A d \in Calls \ {c} : call'[d] = call[d]
  BY DEF StartCall, GetTokens, Denied, EndCall, Identity, TypeOK
<1>3. /\ call'[c].pc # "save"
      /\ \/ CallHolds(c)' \in {CallHolds(c), NoRefresh}
         \/ \E u \in UserIds : CallHolds(c)' = RowHolds(u)
  <2>1. ASSUME NEW b \in Browsers, StartCall(c, b)
        PROVE  call'[c].pc = "read"
    BY <2>1 DEF StartCall, NoCall, Identity, TypeOK
  <2>2. CASE GetTokens(c)
    <3>1. PICK u \in UserIds, row \in TokenRows : u = call[c].user /\ row = tokens[u]
      BY <2>2 DEF GetTokens, Identity, CallOf, TypeOK
    <3>2. PICK at \in {"refresh", "use"} :
             call'[c] = [call[c] EXCEPT !.row = row, !.pc = at]
      BY <2>2, <3>1 DEF GetTokens, Identity, TypeOK
    <3>3. call'[c].pc = at /\ call'[c].row = row
      BY <1>2, <3>2 DEF CallSet
    <3>. QED
      BY <3>1, <3>3 DEF CallHolds, RowHolds
  <2>3. CASE Denied(c)
    <3>1. call'[c] = [call[c] EXCEPT !.pc = "refresh", !.again = TRUE] /\ call[c].pc = "use"
      BY <2>3 DEF Denied, Identity, TypeOK
    <3>2. call'[c].pc = "refresh" /\ call'[c].row = call[c].row
      BY <1>2, <3>1 DEF CallSet
    <3>. QED
      BY <3>1, <3>2 DEF CallHolds
  <2>4. CASE EndCall(c)
    <3>1. call'[c].pc = "idle"
      BY <2>4 DEF EndCall, NoCall, Identity, TypeOK
    <3>. QED
      BY <3>1 DEF CallHolds
  <2>. QED
    BY <2>1, <2>2, <2>3, <2>4 DEF CallHolds
<1>4. \A d \in Calls : \/ CallHolds(d)' \in {CallHolds(d), NoRefresh}
                       \/ \E u \in UserIds : CallHolds(d)' = RowHolds(u)
  BY <1>2, <1>3 DEF CallHolds
<1>5. \A d \in Calls : call[d].pc = "save" \/ call'[d].pc = "save" => call'[d] = call[d]
  BY <1>2, <1>3
<1>. QED
  BY <1>1, <1>4, <1>5, FreshStays DEF RowHolds, LoginHolds

LEMMA ExchangeFresh ==
    ASSUME Identity, Fresh, NEW h \in Logins, ExchangeCode(h)
    PROVE  Fresh'
<1>1. PICK a : a = flows[login[h].flow].account
  OBVIOUS
<1>2. PICK t \in RefreshTokens :
         /\ grant[t].state = "unissued"
         /\ grant' = [grant EXCEPT ![t] = Issue(a)]
         /\ login' = [login EXCEPT ![h].pc = "lookup", ![h].flow = NoFlow,
                ![h].row = [account |-> a, expired |-> FALSE, refresh |-> t]]
  BY <1>1 DEF ExchangeCode, PromptsConsent
<1>3. UNCHANGED <<env, tokens, call>>
  BY DEF ExchangeCode
<1>4. /\ grant'[t].state = "live"
      /\ \A s \in RefreshTokens \ {t} : grant'[s] = grant[s]
  BY <1>2 DEF Identity, TypeOK, Issue
<1>5. PICK row : row = [account |-> a, expired |-> FALSE, refresh |-> t]
  OBVIOUS
<1>6. /\ login[h] \in LoginSet /\ row.refresh = t
      /\ login'[h] = [login[h] EXCEPT !.pc = "lookup", !.flow = NoFlow, !.row = row]
      /\ \A g \in Logins \ {h} : login'[g] = login[g]
  BY <1>2, <1>5 DEF Identity, TypeOK
<1>7. login'[h].pc = "lookup" /\ login'[h].row = row
  BY <1>6 DEF LoginSet
<1>8. /\ LoginHolds(h)' = t
      /\ \A g \in Logins \ {h} : LoginHolds(g)' = LoginHolds(g)
      /\ \A c \in Calls : CallHolds(c)' = CallHolds(c)
      /\ \A u \in UserIds : RowHolds(u)' = RowHolds(u)
  BY <1>3, <1>6, <1>7 DEF LoginHolds, CallHolds, RowHolds
<1>9. /\ \A g \in Logins : LoginHolds(g) # t
      /\ \A c \in Calls : CallHolds(c) # t
      /\ \A u \in UserIds : RowHolds(u) # t
  BY <1>2, HeldIsIssued
<1> SUFFICES ASSUME env.rotates PROVE LoginsFresh' /\ CallsFresh' /\ RowUsable'
  BY <1>3 DEF Fresh
<1>10. LoginsFresh'
  BY <1>4, <1>8, <1>9 DEF Fresh, LoginsFresh
<1>11. CallsFresh'
  BY <1>2, <1>3, <1>4, <1>8, <1>9 DEF Fresh, CallsFresh
<1>12. RowUsable'
  BY <1>3, <1>4, <1>9 DEF Fresh, RowUsable, RowHolds
<1>. QED
  BY <1>10, <1>11, <1>12

\* A callback stores its token.
LEMMA SaveLoginFresh ==
    ASSUME Identity, Fresh, NEW h \in Logins, SaveLogin(h)
    PROVE  Fresh'
<1>1. UNCHANGED <<env, grant, call>>
  BY DEF SaveLogin
<1>2. PICK u \in UserIds : u = login[h].user
  BY DEF SaveLogin, Identity, LoginOf
<1>3. /\ tokens' = [tokens EXCEPT ![u] = login[h].row]
      /\ login[h].pc = "save" /\ login[h] \in LoginSet
      /\ login'[h] = [login[h] EXCEPT !.pc = "answer", !.row = NoRow]
      /\ \A g \in Logins \ {h} : login'[g] = login[g]
  BY <1>2 DEF SaveLogin, SaveTokens, Identity, TypeOK
<1>4. /\ LoginHolds(h)' = NoRefresh
      /\ \A g \in Logins \ {h} : LoginHolds(g)' = LoginHolds(g)
      /\ \A c \in Calls : CallHolds(c)' = CallHolds(c)
      /\ RowHolds(u)' = LoginHolds(h)
      /\ \A v \in UserIds \ {u} : RowHolds(v)' = RowHolds(v)
  <2>1. login'[h].pc = "answer"
    BY <1>3 DEF LoginSet
  <2>. QED
    BY <1>1, <1>2, <1>3, <2>1 DEF LoginHolds, CallHolds, RowHolds, Identity, TypeOK
<1> SUFFICES ASSUME env.rotates PROVE LoginsFresh' /\ CallsFresh' /\ RowUsable'
  BY <1>1 DEF Fresh
<1>0. NoRefresh \notin RefreshTokens
  BY AccountsAssumption DEF AccountsAssumption
<1>5. LoginsFresh'
  BY <1>0, <1>1, <1>4 DEF Fresh, LoginsFresh
<1>6. CallsFresh'
  BY <1>0, <1>1, <1>4 DEF Fresh, CallsFresh, LoginsFresh
<1>7. RowUsable'
  BY <1>1, <1>4 DEF Fresh, RowUsable, RowHolds, LoginsFresh
<1>. QED
  BY <1>5, <1>6, <1>7

\* A call spends a token, and gets a new one.
LEMMA RefreshFresh ==
    ASSUME Identity, Fresh, NEW c \in Calls, RefreshToken(c)
    PROVE  Fresh'
<1> SUFFICES ASSUME env.rotates PROVE LoginsFresh' /\ CallsFresh' /\ RowUsable'
  BY DEF Fresh, RefreshToken
<1>0. NoRefresh \notin RefreshTokens
  BY AccountsAssumption DEF AccountsAssumption
<1>1. PICK old \in RefreshTokens, new \in RefreshTokens, row \in TokenRows :
         /\ old = call[c].row.refresh /\ row.refresh = new
         /\ row.account = call[c].row.account
         /\ call' = [call EXCEPT ![c].pc = "save", ![c].spent = old, ![c].row = row]
         /\ IF env.rotates
            THEN /\ grant[new].state = "unissued"
                 /\ grant' = [grant EXCEPT ![new] = Issue(row.account), ![old].state = "used"]
            ELSE new = old /\ grant' = grant
  BY RefreshEffect
<1>2. /\ call[c] \in CallSet /\ row.account \in Accounts /\ call[c].pc = "refresh"
      /\ grant[old].owner = row.account /\ grant[old].state = "live"
      /\ HasUser(call[c].user, row.account) /\ call[c].user \in UserIds
  BY <1>1, Refreshes DEF RefreshToken
<1>3. UNCHANGED <<tokens, login>>
  BY DEF RefreshToken
<1>4. /\ grant' \in [RefreshTokens -> Grants] /\ grant[new].state = "unissued"
      /\ new # old
      /\ grant'[new].owner = row.account /\ grant'[new].state = "live"
      /\ grant'[old].owner = row.account /\ grant'[old].state = "used"
      /\ \A t \in RefreshTokens \ {old, new} : grant'[t] = grant[t]
  BY <1>1, <1>2, Rotation
<1>5. /\ call'[c].pc = "save" /\ call'[c].spent = old
      /\ call'[c].user = call[c].user /\ call'[c].row = row
      /\ \A d \in Calls \ {c} : call'[d] = call[d]
  BY <1>1, <1>2 DEF CallSet, Identity, TypeOK
<1>6. /\ CallHolds(c) = old /\ CallHolds(c)' = new
      /\ \A d \in Calls \ {c} : CallHolds(d)' = CallHolds(d)
      /\ \A h \in Logins : LoginHolds(h)' = LoginHolds(h)
      /\ \A u \in UserIds : RowHolds(u)' = RowHolds(u)
  <2>1. CallHolds(c) = old
    BY <1>1, <1>2 DEF CallHolds
  <2>2. CallHolds(c)' = new
    BY <1>1, <1>5 DEF CallHolds
  <2>. QED
    BY <1>3, <1>5, <2>1, <2>2 DEF CallHolds, LoginHolds, RowHolds
<1>7. /\ \A h \in Logins : LoginHolds(h) # new
      /\ \A d \in Calls : CallHolds(d) # new
      /\ \A u \in UserIds : RowHolds(u) # new
  BY <1>4, HeldIsIssued
<1>8. LoginsFresh'
  BY <1>4, <1>6, <1>7 DEF Fresh, LoginsFresh
<1>9. CallsFresh'
  <2> SUFFICES ASSUME NEW d \in Calls, call'[d].pc = "save"
      PROVE  /\ CallHolds(d)' \in RefreshTokens /\ grant'[CallHolds(d)'].state = "live"
             /\ call'[d].spent \in RefreshTokens
             /\ grant'[call'[d].spent].state \in {"used", "lost"}
             /\ \A e \in Calls \ {d} : CallHolds(e)' # CallHolds(d)'
             /\ \A u \in UserIds : RowHolds(u)' # CallHolds(d)'
    BY DEF CallsFresh
  <2>1. CASE d = c
    BY <1>4, <1>5, <1>6, <1>7, <2>1
  <2>2. CASE d # c
    <3>1. PICK t, s : t = CallHolds(d) /\ s = call[d].spent
      OBVIOUS
    <3>2. /\ t \in RefreshTokens /\ grant[t].state = "live"
          /\ s \in RefreshTokens /\ grant[s].state \in {"used", "lost"}
          /\ \A e \in Calls \ {d} : CallHolds(e) # t
          /\ \A u \in UserIds : RowHolds(u) # t
      BY <1>5, <2>2, <3>1 DEF Fresh, CallsFresh
    <3>3. CallHolds(d)' = t /\ call'[d].spent = s /\ t # old /\ t # new
      BY <1>5, <1>6, <1>7, <2>2, <3>1, <3>2
    <3>4. grant'[t] = grant[t] /\ grant'[s].state \in {"used", "lost"}
      BY <1>4, <3>2, <3>3
    <3>5. \A e \in Calls \ {d} : CallHolds(e)' # t
      BY <1>6, <3>2, <3>3
    <3>. QED
      BY <1>6, <3>2, <3>3, <3>4, <3>5
  <2>. QED
    BY <2>1, <2>2
<1>10. RowUsable'
  <2> SUFFICES ASSUME NEW u \in UserIds, RowHolds(u) \in RefreshTokens
      PROVE  \/ grant'[RowHolds(u)].state \in {"live", "lost"}
             \/ \E d \in Calls : /\ call'[d].pc = "save" /\ call'[d].user = u
                                 /\ call'[d].spent = RowHolds(u)
    BY <1>3 DEF RowUsable, RowHolds
  <2>1. CASE RowHolds(u) = old
    <3>1. tokens[u].refresh = old /\ tokens[u] # NoRow
      BY <1>0, <2>1 DEF RowHolds, NoRow
    <3>2. tokens[u].account = row.account /\ HasUser(u, tokens[u].account)
      BY <1>2, <3>1 DEF Identity, TokensOf, GoodRow
    <3>3. u = call[c].user
      BY <1>2, <3>2 DEF Identity, OneUserPerAccount, HasUser
    <3>. QED
      BY <1>5, <2>1, <3>3
  <2>2. CASE RowHolds(u) # old
    <3>1. grant'[RowHolds(u)] = grant[RowHolds(u)]
      BY <1>4, <1>7, <2>2
    <3>2. \/ grant[RowHolds(u)].state \in {"live", "lost"}
          \/ \E d \in Calls : /\ call[d].pc = "save" /\ call[d].user = u
                              /\ call[d].spent = RowHolds(u)
      BY DEF Fresh, RowUsable, RowHolds
    <3>. QED
      BY <1>2, <1>5, <3>1, <3>2
  <2>. QED
    BY <2>1, <2>2
<1>. QED
  BY <1>8, <1>9, <1>10

\* A token is lost: it is one that a call holds to spend, or has spent.
LEMMA LostFresh ==
    ASSUME Identity, Fresh, NEW c \in Calls, RefreshLost(c) \/ SaveRefreshedFails(c)
    PROVE  Fresh'
<1>1. UNCHANGED <<env, tokens, login>>
  BY DEF RefreshLost, SaveRefreshedFails
<1> SUFFICES ASSUME env.rotates PROVE LoginsFresh' /\ CallsFresh' /\ RowUsable'
  BY <1>1 DEF Fresh
<1>2. PICK old \in RefreshTokens :
         /\ grant' = [grant EXCEPT ![old].state = "lost"]
         /\ \A h \in Logins : LoginHolds(h) # old
         /\ \A d \in Calls \ {c} : call[d].pc = "save" => CallHolds(d) # old
         /\ call[c].pc = "save" => call[c].spent = old
  <2>1. CASE RefreshLost(c)
    <3>1. PICK old \in RefreshTokens : /\ old = call[c].row.refresh
                                       /\ grant' = [grant EXCEPT ![old].state = "lost"]
      BY <2>1 DEF RefreshLost, Live
    <3>2. CallHolds(c) = old /\ call[c].pc = "refresh"
      BY <2>1, <3>1 DEF RefreshLost, CallHolds
    <3>. QED
      BY <3>1, <3>2 DEF Fresh, LoginsFresh, CallsFresh
  <2>2. CASE SaveRefreshedFails(c)
    <3>1. /\ call[c].pc = "save" /\ call[c].spent \in RefreshTokens
          /\ grant[call[c].spent].state \in {"used", "lost"}
          /\ CallHolds(c) \in RefreshTokens /\ grant[CallHolds(c)].state = "live"
      BY <2>2 DEF Fresh, CallsFresh, SaveRefreshedFails
    <3>2. CallHolds(c) = call[c].row.refresh
      BY <3>1 DEF CallHolds
    <3>3. PICK old \in RefreshTokens : old = call[c].spent /\ old # call[c].row.refresh
      BY <3>1, <3>2
    <3>4. grant' = [grant EXCEPT ![old].state = "lost"]
      BY <2>2, <3>3 DEF SaveRefreshedFails
    <3>. QED
      BY <3>1, <3>3, <3>4 DEF Fresh, LoginsFresh, CallsFresh
  <2>. QED
    BY <2>1, <2>2
<1>3. /\ grant'[old].state = "lost"
      /\ \A t \in RefreshTokens \ {old} : grant'[t] = grant[t]
  BY <1>2 DEF Identity, TypeOK, Grants
<1>4. call'[c].pc = "idle" /\ \A d \in Calls \ {c} : call'[d] = call[d]
  BY DEF RefreshLost, SaveRefreshedFails, NoCall, Identity, TypeOK
<1>5. /\ CallHolds(c)' = NoRefresh
      /\ \A d \in Calls \ {c} : CallHolds(d)' = CallHolds(d)
      /\ \A h \in Logins : LoginHolds(h)' = LoginHolds(h)
      /\ \A u \in UserIds : RowHolds(u)' = RowHolds(u)
  BY <1>1, <1>4 DEF CallHolds, LoginHolds, RowHolds
<1>0. NoRefresh \notin RefreshTokens
  BY AccountsAssumption DEF AccountsAssumption
<1>6. LoginsFresh'
  BY <1>0, <1>2, <1>3, <1>5 DEF Fresh, LoginsFresh
<1>7. CallsFresh'
  <2> SUFFICES ASSUME NEW d \in Calls, call'[d].pc = "save"
      PROVE  /\ CallHolds(d)' \in RefreshTokens /\ grant'[CallHolds(d)'].state = "live"
             /\ call'[d].spent \in RefreshTokens
             /\ grant'[call'[d].spent].state \in {"used", "lost"}
             /\ \A e \in Calls \ {d} : CallHolds(e)' # CallHolds(d)'
             /\ \A u \in UserIds : RowHolds(u)' # CallHolds(d)'
    BY DEF CallsFresh
  <2>1. PICK t, s : t = CallHolds(d) /\ s = call[d].spent
    OBVIOUS
  <2>2. d # c /\ call[d].pc = "save"
    BY <1>4
  <2>3. /\ t \in RefreshTokens /\ grant[t].state = "live" /\ t # old
        /\ s \in RefreshTokens /\ grant[s].state \in {"used", "lost"}
        /\ \A e \in Calls \ {d} : CallHolds(e) # t
        /\ \A u \in UserIds : RowHolds(u) # t
    BY <1>2, <2>1, <2>2 DEF Fresh, CallsFresh
  <2>4. CallHolds(d)' = t /\ call'[d].spent = s
    BY <1>4, <1>5, <2>1, <2>2
  <2>5. grant'[t] = grant[t] /\ grant'[s].state \in {"used", "lost"}
    BY <1>3, <2>3
  <2>6. \A e \in Calls \ {d} : CallHolds(e)' # t
    BY <1>0, <1>5, <2>3
  <2>. QED
    BY <1>5, <2>3, <2>4, <2>5, <2>6
<1>8. RowUsable'
  <2> SUFFICES ASSUME NEW u \in UserIds, RowHolds(u) \in RefreshTokens
      PROVE  \/ grant'[RowHolds(u)].state \in {"live", "lost"}
             \/ \E d \in Calls : /\ call'[d].pc = "save" /\ call'[d].user = u
                                 /\ call'[d].spent = RowHolds(u)
    BY <1>1 DEF RowUsable, RowHolds
  <2>1. \/ grant[RowHolds(u)].state \in {"live", "lost"}
        \/ \E d \in Calls : /\ call[d].pc = "save" /\ call[d].user = u
                            /\ call[d].spent = RowHolds(u)
    BY DEF Fresh, RowUsable, RowHolds
  <2>. QED
    BY <1>2, <1>3, <1>4, <2>1
<1>. QED
  BY <1>6, <1>7, <1>8

\* A call stores what its refresh has brought.
LEMMA SaveRefreshedFresh ==
    ASSUME Identity, Fresh, NEW c \in Calls, SaveRefreshed(c)
    PROVE  Fresh'
<1>1. UNCHANGED <<env, grant, login>>
  BY DEF SaveRefreshed
<1>2. PICK u \in UserIds : u = call[c].user
  BY DEF SaveRefreshed, Identity, CallOf
<1>3. /\ tokens' = [tokens EXCEPT ![u] = call[c].row]
      /\ call[c].pc = "save" /\ call[c] \in CallSet
      /\ call'[c] = [call[c] EXCEPT !.pc = "use", !.spent = NoRefresh]
      /\ \A d \in Calls \ {c} : call'[d] = call[d]
  BY <1>2 DEF SaveRefreshed, SaveTokens, Identity, TypeOK
<1>4. call'[c].pc = "use" /\ call'[c].row = call[c].row
  BY <1>3 DEF CallSet
<1>5. /\ \A h \in Logins : LoginHolds(h)' = LoginHolds(h)
      /\ \A d \in Calls : CallHolds(d)' = CallHolds(d)
      /\ RowHolds(u)' = CallHolds(c)
      /\ \A v \in UserIds \ {u} : RowHolds(v)' = RowHolds(v)
  BY <1>1, <1>3, <1>4 DEF LoginHolds, CallHolds, RowHolds, Identity, TypeOK
<1> SUFFICES ASSUME env.rotates PROVE LoginsFresh' /\ CallsFresh' /\ RowUsable'
  BY <1>1 DEF Fresh
<1>6. LoginsFresh'
  BY <1>1, <1>5 DEF Fresh, LoginsFresh
<1>7. CallsFresh'
  <2> SUFFICES ASSUME NEW d \in Calls, call'[d].pc = "save"
      PROVE  /\ CallHolds(d)' \in RefreshTokens /\ grant'[CallHolds(d)'].state = "live"
             /\ call'[d].spent \in RefreshTokens
             /\ grant'[call'[d].spent].state \in {"used", "lost"}
             /\ \A e \in Calls \ {d} : CallHolds(e)' # CallHolds(d)'
             /\ \A v \in UserIds : RowHolds(v)' # CallHolds(d)'
    BY DEF CallsFresh
  <2>1. d # c /\ call'[d] = call[d]
    BY <1>3, <1>4
  <2>2. /\ CallHolds(d) \in RefreshTokens /\ grant[CallHolds(d)].state = "live"
        /\ call[d].spent \in RefreshTokens
        /\ grant[call[d].spent].state \in {"used", "lost"}
        /\ \A e \in Calls \ {d} : CallHolds(e) # CallHolds(d)
        /\ \A v \in UserIds : RowHolds(v) # CallHolds(d)
    BY <2>1 DEF Fresh, CallsFresh
  <2>. QED
    BY <1>1, <1>5, <2>1, <2>2
<1>8. RowUsable'
  <2> SUFFICES ASSUME NEW v \in UserIds, RowHolds(v)' \in RefreshTokens
      PROVE  \/ grant'[RowHolds(v)'].state \in {"live", "lost"}
             \/ \E d \in Calls : /\ call'[d].pc = "save" /\ call'[d].user = v
                                 /\ call'[d].spent = RowHolds(v)'
    BY DEF RowUsable, RowHolds
  <2>1. CASE v = u
    BY <1>1, <1>3, <1>5, <2>1 DEF Fresh, CallsFresh
  <2>2. CASE v # u
    <3>1. \/ grant[RowHolds(v)].state \in {"live", "lost"}
          \/ \E d \in Calls : /\ call[d].pc = "save" /\ call[d].user = v
                              /\ call[d].spent = RowHolds(v)
      BY <1>5, <2>2 DEF Fresh, RowUsable, RowHolds
    <3>. QED
      BY <1>1, <1>2, <1>3, <1>5, <2>2, <3>1
  <2>. QED
    BY <2>1, <2>2
<1>. QED
  BY <1>6, <1>7, <1>8

LEMMA NextFresh == Identity /\ Fresh /\ [Next]_vars => Fresh'
<1> SUFFICES ASSUME Identity, Fresh, [Next]_vars PROVE Fresh'
  OBVIOUS
<1>1. ASSUME NEW h \in Logins, LoginStep(h) PROVE Fresh'
  BY <1>1, QuietFresh, ExchangeFresh, SaveLoginFresh DEF LoginStep
<1>2. ASSUME NEW c \in Calls, CallStep(c) PROVE Fresh'
  BY <1>2, CallOnlyFresh, RefreshFresh, LostFresh, SaveRefreshedFresh DEF CallStep
<1>3. CASE World
  BY <1>3, WorldFresh
<1>4. CASE UNCHANGED vars
  BY <1>4, FreshStays DEF vars, RowHolds, LoginHolds, CallHolds
<1>. QED
  BY <1>1, <1>2, <1>3, <1>4 DEF Next

-----------------------------------------------------------------------------

\* The refresh token stored for a user is one Google takes, unless its
\* successor was lost on the way or is about to be saved, for any number of
\* concurrent refreshes and logins.
THEOREM RowsUsable == Spec => []RowUsable
<1>1. Identity /\ Fresh => RowUsable
  <2> SUFFICES ASSUME Identity, Fresh, ~env.rotates PROVE RowUsable
    BY DEF Fresh
  <2> SUFFICES ASSUME NEW u \in UserIds, tokens[u].refresh \in RefreshTokens
               PROVE  grant[tokens[u].refresh].state = "live"
    BY DEF RowUsable
  <2>1. tokens[u] # NoRow
    BY AccountsAssumption DEF AccountsAssumption, NoRow
  <2>2. grant[tokens[u].refresh].owner \in Accounts
    BY <2>1 DEF Identity, TokensOf, GoodRow
  <2>. QED
    BY <2>2, AccountsAssumption DEF AccountsAssumption, Identity, GrantInv
<1>. QED
  BY <1>1, InitFresh, NextFresh, IdentityHolds, PTL DEF Spec

=============================================================================
