--------------------------- MODULE AccountsProofs ---------------------------
(* Theorems about Accounts: any accounts, browsers, logins and calls, and  *)
(* any number of tokens.                                                   *)
EXTENDS Accounts, TLAPS

HasUser(u, a) == \E r \in users : r.id = u /\ r.account = a

\* A row that could be stored: what was granted to its account.
GoodRow(row) ==
    /\ row.account \in Accounts
    /\ row.refresh # NoRefresh
    /\ row.refresh \in RefreshTokens => grant[row.refresh].owner = row.account

FlowInv ==
    /\ \A f \in Flows : flows[f].code = "none" <=> flows[f].account = NoAccount
    /\ \A b \in Browsers : stateCookie[b] \in Flows => flows[stateCookie[b]].browser = b

GrantInv ==
    \A t \in RefreshTokens :
       /\ grant[t].state = "unissued" => grant[t].owner = NoAccount
       /\ ~env.rotates => grant[t].state \in {"unissued", "live"}

LoginOf(h) ==
    /\ login[h].pc # "idle" => login[h].browser \in Browsers
    /\ login[h].pc = "exchange" =>
          /\ login[h].flow \in Flows
          /\ flows[login[h].flow].browser = login[h].browser
          /\ flows[login[h].flow].code # "none"
    /\ login[h].pc \in {"lookup", "insert", "save"} =>
          GoodRow(login[h].row) /\ OwnFlow(login[h].browser, login[h].row.account)
    /\ login[h].pc = "save" =>
          login[h].user \in UserIds /\ HasUser(login[h].user, login[h].row.account)
    /\ login[h].pc = "answer" =>
          /\ login[h].user \in UserIds /\ tokens[login[h].user] # NoRow
          /\ \E a \in Accounts :
                HasUser(login[h].user, a) /\ OwnFlow(login[h].browser, a)

CallOf(c) ==
    /\ call[c].pc # "idle" => call[c].user \in UserIds /\ tokens[call[c].user] # NoRow
    /\ call[c].pc \in {"refresh", "save", "use"} =>
          GoodRow(call[c].row) /\ HasUser(call[c].user, call[c].row.account)
    /\ call[c].pc = "save" /\ ~env.rotates => call[c].spent = call[c].row.refresh

TokensOf(u) ==
    tokens[u] # NoRow => GoodRow(tokens[u]) /\ HasUser(u, tokens[u].account)

SessionOf(b) ==
    session[b] # NoUser =>
       /\ session[b] \in UserIds /\ tokens[session[b]] # NoRow
       /\ \E a \in Accounts : HasUser(session[b], a) /\ OwnFlow(b, a)

\* The first invariant: who is who.
Identity ==
    /\ TypeOK
    /\ OneUserPerAccount
    /\ FlowInv
    /\ GrantInv
    /\ \A h \in Logins : LoginOf(h)
    /\ \A c \in Calls : CallOf(c)
    /\ \A u \in UserIds : TokensOf(u)
    /\ \A b \in Browsers : SessionOf(b)

-----------------------------------------------------------------------------
(* What no step takes back. *)

Grows ==
    /\ env' = env
    /\ users \subseteq users'
    /\ \A f \in Flows :
          /\ flows[f].browser # NoBrowser => flows'[f].browser = flows[f].browser
          /\ flows[f].code # "none" =>
                flows'[f].code # "none" /\ flows'[f].account = flows[f].account
    /\ \A t \in RefreshTokens :
          grant[t].owner # NoAccount => grant'[t].owner = grant[t].owner
    /\ \A u \in UserIds : tokens[u] # NoRow => tokens'[u] # NoRow

LEMMA GoodRowStays ==
    ASSUME Identity, Grows, NEW row, GoodRow(row)
    PROVE  GoodRow(row)'
  BY AccountsAssumption DEF AccountsAssumption, Grows, GoodRow

LEMMA HasUserStays ==
    ASSUME Grows, NEW u, NEW a, HasUser(u, a)
    PROVE  HasUser(u, a)'
  BY DEF Grows, HasUser

LEMMA OwnFlowStays ==
    ASSUME Identity, Grows, NEW b \in Browsers, NEW a \in Accounts, OwnFlow(b, a)
    PROVE  OwnFlow(b, a)'
<1>1. CASE ~env.oauth /\ a = DevAccount
  BY <1>1 DEF Grows, OwnFlow
<1>2. ASSUME NEW f \in Flows, flows[f].browser = b, flows[f].account = a
      PROVE  flows'[f].browser = b /\ flows'[f].account = a
  BY <1>2, AccountsAssumption DEF AccountsAssumption, Identity, FlowInv, Grows
<1>. QED
  BY <1>1, <1>2 DEF OwnFlow

LEMMA LoginStays ==
    ASSUME Identity, Grows, NEW h \in Logins, login'[h] = login[h]
    PROVE  LoginOf(h)'
<1>1. LoginOf(h)
  BY DEF Identity
<1>2. /\ (login[h].pc # "idle" => login[h].browser \in Browsers)'
      /\ (login[h].pc = "exchange" =>
            /\ login[h].flow \in Flows
            /\ flows[login[h].flow].browser = login[h].browser
            /\ flows[login[h].flow].code # "none")'
  BY <1>1, AccountsAssumption DEF AccountsAssumption, LoginOf, Grows
<1>3. login'[h].pc \in {"lookup", "insert", "save"} =>
         GoodRow(login[h].row)' /\ OwnFlow(login[h].browser, login[h].row.account)'
  <2> SUFFICES ASSUME login[h].pc \in {"lookup", "insert", "save"}
               PROVE  GoodRow(login[h].row)' /\ OwnFlow(login[h].browser, login[h].row.account)'
    OBVIOUS
  <2>0. login[h].browser \in Browsers /\ login[h].row.account \in Accounts
    BY <1>1 DEF LoginOf, GoodRow
  <2>1. PICK row : row = login[h].row
    OBVIOUS
  <2>2. PICK b \in Browsers, a \in Accounts : b = login[h].browser /\ a = row.account
    BY <2>0, <2>1
  <2>3. GoodRow(row)' /\ OwnFlow(b, a)'
    BY <1>1, <2>1, <2>2, GoodRowStays, OwnFlowStays DEF LoginOf
  <2>. QED
    BY <2>1, <2>2, <2>3 DEF GoodRow, OwnFlow
<1>4. login'[h].pc = "save" =>
         login'[h].user \in UserIds /\ HasUser(login[h].user, login[h].row.account)'
  BY <1>1 DEF LoginOf, HasUser, Grows
<1>5. login'[h].pc = "answer" =>
          /\ login'[h].user \in UserIds /\ tokens'[login'[h].user] # NoRow
          /\ (\E a \in Accounts :
                HasUser(login[h].user, a) /\ OwnFlow(login[h].browser, a))'
  <2> SUFFICES ASSUME login[h].pc = "answer"
               PROVE  /\ login'[h].user \in UserIds /\ tokens'[login'[h].user] # NoRow
                      /\ (\E a \in Accounts :
                            HasUser(login[h].user, a) /\ OwnFlow(login[h].browser, a))'
    OBVIOUS
  <2>1. PICK u \in UserIds, b \in Browsers, a \in Accounts :
           /\ u = login[h].user /\ b = login[h].browser
           /\ HasUser(u, a) /\ OwnFlow(b, a) /\ tokens[u] # NoRow
    BY <1>1 DEF LoginOf
  <2>2. HasUser(u, a)' /\ OwnFlow(b, a)' /\ tokens'[u] # NoRow
    BY <2>1, HasUserStays, OwnFlowStays DEF Grows
  <2>. QED
    BY <2>1, <2>2 DEF HasUser, OwnFlow
<1>. QED
  BY <1>2, <1>3, <1>4, <1>5 DEF LoginOf

LEMMA CallStays ==
    ASSUME Identity, Grows, NEW c \in Calls, call'[c] = call[c]
    PROVE  CallOf(c)'
<1>1. CallOf(c)
  BY DEF Identity
<1>2. call'[c].pc # "idle" => call'[c].user \in UserIds /\ tokens'[call'[c].user] # NoRow
  BY <1>1 DEF CallOf, Grows
<1>3. call'[c].pc \in {"refresh", "save", "use"} =>
         GoodRow(call[c].row)' /\ HasUser(call[c].user, call[c].row.account)'
  <2> SUFFICES ASSUME call[c].pc \in {"refresh", "save", "use"}
               PROVE  GoodRow(call[c].row)' /\ HasUser(call[c].user, call[c].row.account)'
    OBVIOUS
  <2>1. PICK row, u : row = call[c].row /\ u = call[c].user
    OBVIOUS
  <2>2. GoodRow(row)' /\ HasUser(u, row.account)'
    BY <1>1, <2>1, GoodRowStays, HasUserStays DEF CallOf
  <2>. QED
    BY <2>1, <2>2 DEF GoodRow, HasUser
<1>4. call'[c].pc = "save" /\ ~env'.rotates => call'[c].spent = call'[c].row.refresh
  BY <1>1 DEF CallOf, Grows
<1>. QED
  BY <1>2, <1>3, <1>4 DEF CallOf

LEMMA TokensStay ==
    ASSUME Identity, Grows, NEW u \in UserIds, tokens'[u] = tokens[u]
    PROVE  TokensOf(u)'
<1> SUFFICES ASSUME tokens[u] # NoRow
             PROVE  GoodRow(tokens[u])' /\ HasUser(u, tokens[u].account)'
  BY DEF TokensOf
<1>1. PICK row : row = tokens[u]
  OBVIOUS
<1>2. GoodRow(row)' /\ HasUser(u, row.account)'
  BY <1>1, GoodRowStays, HasUserStays DEF Identity, TokensOf
<1>. QED
  BY <1>1, <1>2 DEF GoodRow, HasUser

LEMMA SessionStays ==
    ASSUME Identity, Grows, NEW b \in Browsers, session'[b] \in {session[b], NoUser}
    PROVE  SessionOf(b)'
<1> SUFFICES ASSUME session'[b] # NoUser
             PROVE  /\ session'[b] \in UserIds /\ tokens'[session'[b]] # NoRow
                    /\ (\E a \in Accounts : HasUser(session[b], a) /\ OwnFlow(b, a))'
  BY DEF SessionOf
<1>1. PICK u \in UserIds, a \in Accounts :
         u = session[b] /\ tokens[u] # NoRow /\ HasUser(u, a) /\ OwnFlow(b, a)
  BY DEF Identity, SessionOf
<1>2. HasUser(u, a)' /\ OwnFlow(b, a)' /\ tokens'[u] # NoRow
  BY <1>1, HasUserStays, OwnFlowStays DEF Grows
<1>. QED
  BY <1>1, <1>2 DEF HasUser, OwnFlow

-----------------------------------------------------------------------------
(* Types of what the steps build. *)

LEMMA NoRowTyped == NoRow \in TokenRows
  BY DEF NoRow, TokenRows

LEMMA NoLoginTyped == NoLogin \in LoginSet
  BY NoRowTyped DEF NoLogin, LoginSet

LEMMA NoCallTyped == NoCall \in CallSet
  BY NoRowTyped DEF NoCall, CallSet

LEMMA InitIdentity == Init => Identity
<1> SUFFICES ASSUME Init PROVE Identity
  OBVIOUS
<1>1. TypeOK
  BY NoRowTyped, NoLoginTyped, NoCallTyped
  DEF Init, TypeOK, FlowSet, NoFlowYet, Grants, NoLogin, NoCall
<1>2. OneUserPerAccount /\ FlowInv /\ GrantInv
  BY AccountsAssumption
  DEF Init, OneUserPerAccount, FlowInv, GrantInv, NoFlowYet, AccountsAssumption
<1>3. \A h \in Logins : LoginOf(h)
  BY DEF Init, NoLogin, LoginOf
<1>4. \A c \in Calls : CallOf(c)
  BY DEF Init, NoCall, CallOf
<1>5. /\ \A u \in UserIds : TokensOf(u)
      /\ \A b \in Browsers : SessionOf(b)
  BY DEF Init, TokensOf, SessionOf
<1>. QED
  BY <1>1, <1>2, <1>3, <1>4, <1>5 DEF Identity

\* What is left to show of a step in which one login or one call moves.
LEMMA LoginMoves ==
    ASSUME Identity, Grows, NEW h \in Logins, LoginOf(h)',
           \A g \in Logins \ {h} : login'[g] = login[g]
    PROVE  \A g \in Logins : LoginOf(g)'
<1> SUFFICES ASSUME NEW g \in Logins PROVE LoginOf(g)'
  OBVIOUS
<1>1. CASE g = h
  BY <1>1
<1>2. CASE g # h
  BY <1>2, LoginStays
<1>. QED
  BY <1>1, <1>2

LEMMA CallMoves ==
    ASSUME Identity, Grows, NEW c \in Calls, CallOf(c)',
           \A d \in Calls \ {c} : call'[d] = call[d]
    PROVE  \A d \in Calls : CallOf(d)'
<1> SUFFICES ASSUME NEW d \in Calls PROVE CallOf(d)'
  OBVIOUS
<1>1. CASE d = c
  BY <1>1
<1>2. CASE d # c
  BY <1>2, CallStays
<1>. QED
  BY <1>1, <1>2

-----------------------------------------------------------------------------
(* Steps of the browsers, Google and time. *)

LEMMA WorldIdentity == Identity /\ World => Identity'
<1> SUFFICES ASSUME Identity, World PROVE Identity'
  OBVIOUS
<1>1. ASSUME NEW b \in Browsers, BeginLogin(b) PROVE Identity'
  <2>1. PICK f \in Flows :
           /\ flows[f].browser = NoBrowser
           /\ flows' = [flows EXCEPT ![f].browser = b]
           /\ stateCookie' = [stateCookie EXCEPT ![b] = f]
    BY <1>1 DEF BeginLogin, CreateStateCookie
  <2>2. UNCHANGED <<env, grant, users, tokens, session, login, call>>
    BY <1>1 DEF BeginLogin, CreateStateCookie
  <2>3. /\ flows[f] \in FlowSet
        /\ flows'[f] = [flows[f] EXCEPT !.browser = b]
        /\ \A g \in Flows \ {f} : flows'[g] = flows[g]
    BY <2>1 DEF Identity, TypeOK
  <2>4. flows'[f] \in FlowSet /\ flows'[f].browser = b
        /\ flows'[f].code = flows[f].code /\ flows'[f].account = flows[f].account
    BY <2>3 DEF FlowSet
  <2>5. Grows
    BY <2>1, <2>2, <2>3, <2>4 DEF Grows
  <2>6. TypeOK'
    <3>1. flows' \in [Flows -> FlowSet]
      BY <2>1, <2>3, <2>4 DEF Identity, TypeOK
    <3>2. stateCookie' \in [Browsers -> Flows \cup {NoFlow}]
      BY <2>1 DEF Identity, TypeOK
    <3>. QED
      BY <2>2, <3>1, <3>2 DEF Identity, TypeOK
  <2>7. FlowInv'
    <3>1. \A e \in Browsers : stateCookie'[e] \in Flows =>
             flows'[stateCookie'[e]].browser = e
      <4> SUFFICES ASSUME NEW e \in Browsers, stateCookie'[e] \in Flows
                   PROVE  flows'[stateCookie'[e]].browser = e
        OBVIOUS
      <4>1. CASE e = b
        BY <2>1, <2>4, <4>1 DEF Identity, TypeOK
      <4>2. CASE e # b
        <5>1. stateCookie'[e] = stateCookie[e] /\ flows[stateCookie[e]].browser = e
          BY <2>1, <4>2 DEF Identity, TypeOK, FlowInv
        <5>2. stateCookie[e] # f
          BY <2>1, <5>1, AccountsAssumption DEF AccountsAssumption
        <5>. QED
          BY <2>3, <5>1, <5>2
      <4>. QED
        BY <4>1, <4>2
    <3>2. \A g \in Flows : flows'[g].code = "none" <=> flows'[g].account = NoAccount
      BY <2>3, <2>4 DEF Identity, FlowInv
    <3>. QED
      BY <3>1, <3>2 DEF FlowInv
  <2>8. OneUserPerAccount' /\ GrantInv'
    BY <2>2 DEF Identity, OneUserPerAccount, GrantInv
  <2>. QED
    BY <2>2, <2>5, <2>6, <2>7, <2>8, LoginStays, CallStays, TokensStay, SessionStays
    DEF Identity
<1>2. ASSUME NEW b \in Browsers, Logout(b) PROVE Identity'
  <2>1. UNCHANGED <<env, flows, grant, users, tokens, stateCookie, login, call>>
    BY <1>2 DEF Logout, ClearSessionCookie
  <2>2. Grows
    BY <2>1 DEF Grows
  <2>3. /\ session' \in [Browsers -> UserIds \cup {NoUser}]
        /\ \A e \in Browsers : session'[e] \in {session[e], NoUser}
    BY <1>2 DEF Logout, ClearSessionCookie, Identity, TypeOK
  <2>4. TypeOK'
    BY <2>1, <2>3 DEF Identity, TypeOK
  <2>5. OneUserPerAccount' /\ FlowInv' /\ GrantInv'
    BY <2>1 DEF Identity, OneUserPerAccount, FlowInv, GrantInv
  <2>. QED
    BY <2>1, <2>2, <2>3, <2>4, <2>5, LoginStays, CallStays, TokensStay, SessionStays
    DEF Identity
<1>3. ASSUME NEW f \in Flows, NEW a \in Accounts, Consent(f, a) PROVE Identity'
  <2>1. UNCHANGED <<env, grant, users, tokens, stateCookie, session, login, call>>
    BY <1>3 DEF Consent
  <2>2. /\ flows[f] \in FlowSet /\ flows[f].code = "none"
        /\ flows'[f] = [flows[f] EXCEPT !.account = a, !.code = "issued"]
        /\ \A g \in Flows \ {f} : flows'[g] = flows[g]
    BY <1>3 DEF Consent, Identity, TypeOK
  <2>3. flows'[f] \in FlowSet /\ flows'[f].browser = flows[f].browser
        /\ flows'[f].code = "issued" /\ flows'[f].account = a
    BY <2>2 DEF FlowSet
  <2>4. Grows
    BY <2>1, <2>2, <2>3 DEF Grows
  <2>5. TypeOK'
    <3>1. flows' \in [Flows -> FlowSet]
      BY <1>3, <2>2, <2>3 DEF Consent, Identity, TypeOK
    <3>. QED
      BY <2>1, <3>1 DEF Identity, TypeOK
  <2>6. FlowInv'
    <3>1. ASSUME NEW g \in Flows
          PROVE  flows'[g].code = "none" <=> flows'[g].account = NoAccount
      <4>1. CASE g = f
        BY <2>3, <4>1, AccountsAssumption DEF AccountsAssumption
      <4>2. CASE g # f
        BY <2>2, <4>2 DEF Identity, FlowInv
      <4>. QED
        BY <4>1, <4>2
    <3>2. \A g \in Flows : flows'[g].browser = flows[g].browser
      BY <2>2, <2>3
    <3>. QED
      BY <2>1, <3>1, <3>2 DEF Identity, FlowInv
  <2>7. OneUserPerAccount' /\ GrantInv'
    BY <2>1 DEF Identity, OneUserPerAccount, GrantInv
  <2>. QED
    BY <2>1, <2>4, <2>5, <2>6, <2>7, LoginStays, CallStays, TokensStay, SessionStays
    DEF Identity
<1>4. ASSUME NEW u \in UserIds, Expire(u) PROVE Identity'
  <2>1. UNCHANGED <<env, flows, grant, users, stateCookie, session, login, call>>
    BY <1>4 DEF Expire
  <2>2. /\ tokens[u] \in TokenRows /\ tokens[u] # NoRow
        /\ tokens'[u] = [tokens[u] EXCEPT !.expired = TRUE]
        /\ \A v \in UserIds \ {u} : tokens'[v] = tokens[v]
    BY <1>4 DEF Expire, Identity, TypeOK
  <2>3. /\ tokens'[u] \in TokenRows /\ tokens'[u].expired = TRUE
        /\ tokens'[u].account = tokens[u].account /\ tokens'[u].refresh = tokens[u].refresh
    BY <2>2 DEF TokenRows
  <2>4. tokens'[u] # NoRow
    <3>1. NoRow.expired = FALSE
      BY DEF NoRow
    <3>. QED
      BY <2>3, <3>1
  <2>5. Grows
    BY <2>1, <2>2, <2>4 DEF Grows
  <2>6. TypeOK'
    <3>1. tokens' \in [UserIds -> TokenRows]
      BY <1>4, <2>2, <2>3 DEF Expire, Identity, TypeOK
    <3>. QED
      BY <2>1, <3>1 DEF Identity, TypeOK
  <2>7. \A v \in UserIds : TokensOf(v)'
    <3> SUFFICES ASSUME NEW v \in UserIds PROVE TokensOf(v)'
      OBVIOUS
    <3>1. CASE v # u
      BY <2>2, <2>5, <3>1, TokensStay
    <3>2. CASE v = u
      <4>1. GoodRow(tokens[u]) /\ HasUser(u, tokens[u].account)
        BY <2>2 DEF Identity, TokensOf
      <4>2. GoodRow(tokens[u])' /\ HasUser(u, tokens[u].account)'
        BY <2>1, <2>3, <4>1 DEF GoodRow, HasUser
      <4>. QED
        BY <3>2, <4>2 DEF TokensOf
    <3>. QED
      BY <3>1, <3>2
  <2>8. OneUserPerAccount' /\ FlowInv' /\ GrantInv'
    BY <2>1 DEF Identity, OneUserPerAccount, FlowInv, GrantInv
  <2>. QED
    BY <2>1, <2>5, <2>6, <2>7, <2>8, LoginStays, CallStays, SessionStays DEF Identity
<1>. QED
  BY <1>1, <1>2, <1>3, <1>4 DEF World

-----------------------------------------------------------------------------
(* Steps of a callback. *)

\* A callback that begins.
LEMMA BeginIdentity ==
    ASSUME Identity, NEW h \in Logins, NEW b \in Browsers,
           DevLogin(h, b) \/ \E f \in Flows : Callback(h, b, f)
    PROVE  Identity'
<1>1. UNCHANGED <<env, flows, grant, users, tokens, stateCookie, session, call>>
  BY DEF DevLogin, Callback
<1>2. Grows
  BY <1>1 DEF Grows
<1>3. login'[h] \in LoginSet /\ LoginOf(h)'
  <2>1. CASE DevLogin(h, b)
    <3>1. PICK row : row = [account |-> DevAccount, refresh |-> DevToken, expired |-> FALSE]
      OBVIOUS
    <3>2. row \in TokenRows /\ GoodRow(row)' /\ OwnFlow(b, row.account)'
      BY <1>1, <2>1, <3>1, AccountsAssumption
      DEF AccountsAssumption, TokenRows, GoodRow, OwnFlow, DevLogin
    <3>3. login'[h] = [NoLogin EXCEPT !.pc = "lookup", !.browser = b, !.row = row]
      BY <2>1, <3>1 DEF DevLogin, Identity, TypeOK
    <3>4. login'[h] = [pc |-> "lookup", browser |-> b, flow |-> NoFlow,
                       row |-> row, user |-> NoUser]
      BY <3>3 DEF NoLogin
    <3>5. login'[h] \in LoginSet
      BY <3>2, <3>4 DEF LoginSet
    <3>6. /\ login'[h].pc = "lookup" /\ login'[h].browser = b /\ login'[h].row = row
      BY <3>4
    <3>. QED
      BY <3>2, <3>5, <3>6 DEF LoginOf, GoodRow, OwnFlow
  <2>2. ASSUME NEW f \in Flows, Callback(h, b, f)
        PROVE  login'[h] \in LoginSet /\ LoginOf(h)'
    <3>1. login'[h] = [NoLogin EXCEPT !.pc = "exchange", !.browser = b, !.flow = f]
      BY <2>2 DEF Callback, Identity, TypeOK
    <3>2. login'[h] = [pc |-> "exchange", browser |-> b, flow |-> f,
                       row |-> NoRow, user |-> NoUser]
      BY <3>1 DEF NoLogin
    <3>3. login'[h] \in LoginSet
      BY <3>2, NoRowTyped DEF LoginSet
    <3>4. flows'[f].browser = b /\ flows'[f].code # "none"
      BY <1>1, <2>2 DEF Callback, VerifyState, Identity, FlowInv
    <3>5. login'[h].pc = "exchange" /\ login'[h].browser = b /\ login'[h].flow = f
      BY <3>2
    <3>. QED
      BY <3>3, <3>4, <3>5 DEF LoginOf
  <2>. QED
    BY <2>1, <2>2
<1>4. \A g \in Logins \ {h} : login'[g] = login[g]
  BY DEF DevLogin, Callback, Identity, TypeOK
<1>5. TypeOK'
  <2>1. login' \in [Logins -> LoginSet]
    BY <1>3, <1>4 DEF DevLogin, Callback, Identity, TypeOK
  <2>. QED
    BY <1>1, <2>1 DEF Identity, TypeOK
<1>6. OneUserPerAccount' /\ FlowInv' /\ GrantInv'
  BY <1>1 DEF Identity, OneUserPerAccount, FlowInv, GrantInv
<1>. QED
  BY <1>1, <1>2, <1>3, <1>4, <1>5, <1>6, LoginMoves, CallStays, TokensStay, SessionStays
  DEF Identity

\* Google answers with tokens of the account that consented.
LEMMA ExchangeIdentity ==
    ASSUME Identity, NEW h \in Logins, ExchangeCode(h)
    PROVE  Identity'
<1>1. PICK f \in Flows, a \in Accounts, b \in Browsers :
         /\ f = login[h].flow /\ a = flows[f].account /\ b = login[h].browser
         /\ flows[f].browser = b /\ flows[f].code # "none"
  <2>1. LoginOf(h) /\ login[h].pc = "exchange"
    BY DEF Identity, ExchangeCode
  <2>2. PICK f \in Flows : f = login[h].flow
    BY <2>1 DEF LoginOf
  <2>3. flows[f].account \in Accounts /\ flows[f] \in FlowSet
    BY <2>1, <2>2 DEF LoginOf, Identity, FlowInv, TypeOK, FlowSet
  <2>. QED
    BY <2>1, <2>2, <2>3 DEF LoginOf
<1>2. PICK t \in RefreshTokens :
         /\ grant[t].state = "unissued"
         /\ grant' = [grant EXCEPT ![t] = Issue(a)]
         /\ login' = [login EXCEPT ![h].pc = "lookup", ![h].flow = NoFlow,
                ![h].row = [account |-> a, expired |-> FALSE, refresh |-> t]]
  BY <1>1 DEF ExchangeCode, PromptsConsent
<1>3. flows' = [flows EXCEPT ![f].code = "used"]
  BY <1>1 DEF ExchangeCode
<1>4. UNCHANGED <<env, users, tokens, stateCookie, session, call>>
  BY DEF ExchangeCode
<1>5. /\ \A g \in Flows : /\ flows'[g] \in FlowSet
                          /\ flows'[g].browser = flows[g].browser
                          /\ flows'[g].account = flows[g].account
                          /\ flows[g].code = "none" <=> flows'[g].code = "none"
      /\ flows' \in [Flows -> FlowSet]
  <2>1. [flows[f] EXCEPT !.code = "used"] \in FlowSet
    BY DEF Identity, TypeOK, FlowSet
  <2>. QED
    BY <1>1, <1>3, <2>1 DEF Identity, TypeOK, FlowSet
<1>6. /\ grant' \in [RefreshTokens -> Grants]
      /\ grant'[t].owner = a /\ grant'[t].state = "live"
      /\ \A s \in RefreshTokens \ {t} : grant'[s] = grant[s]
  BY <1>2 DEF Identity, TypeOK, Issue, Grants
<1>7. grant[t].owner = NoAccount
  BY <1>2 DEF Identity, GrantInv
<1>8. Grows
  BY <1>4, <1>5, <1>6, <1>7 DEF Grows
<1>9. PICK row \in TokenRows :
         /\ row = [account |-> a, expired |-> FALSE, refresh |-> t]
         /\ row.account = a /\ row.refresh = t
  <2>1. [account |-> a, expired |-> FALSE, refresh |-> t] \in TokenRows
    BY DEF TokenRows
  <2>. QED
    BY <2>1
<1>10. /\ login[h] \in LoginSet
       /\ login'[h] = [login[h] EXCEPT !.pc = "lookup", !.flow = NoFlow, !.row = row]
       /\ \A g \in Logins \ {h} : login'[g] = login[g]
  BY <1>2, <1>9 DEF Identity, TypeOK
<1>11. /\ login'[h] \in LoginSet
       /\ login'[h].pc = "lookup" /\ login'[h].browser = b /\ login'[h].row = row
  BY <1>1, <1>10 DEF LoginSet
<1>12. LoginOf(h)'
  <2>1. GoodRow(row)'
    BY <1>6, <1>9, AccountsAssumption DEF AccountsAssumption, GoodRow
  <2>2. OwnFlow(b, a)'
    BY <1>1, <1>5 DEF OwnFlow
  <2>. QED
    BY <1>9, <1>11, <2>1, <2>2 DEF LoginOf, GoodRow, OwnFlow
<1>13. TypeOK'
  <2>1. login' \in [Logins -> LoginSet]
    BY <1>2, <1>10, <1>11 DEF Identity, TypeOK
  <2>. QED
    BY <1>4, <1>5, <1>6, <2>1 DEF Identity, TypeOK
<1>14. FlowInv'
  BY <1>4, <1>5 DEF Identity, FlowInv
<1>15. GrantInv'
  BY <1>4, <1>6 DEF Identity, GrantInv
<1>16. OneUserPerAccount'
  BY <1>4 DEF Identity, OneUserPerAccount
<1>. QED
  BY <1>4, <1>8, <1>10, <1>12, <1>13, <1>14, <1>15, <1>16, LoginMoves, CallStays,
     TokensStay, SessionStays
  DEF Identity

\* UpsertUser finds the account's user or inserts one.
LEMMA UpsertIdentity ==
    ASSUME Identity, NEW h \in Logins, LookUpUser(h) \/ InsertUser(h)
    PROVE  Identity'
<1>0. /\ login[h].pc \in {"lookup", "insert"} /\ login[h] \in LoginSet
      /\ GoodRow(login[h].row) /\ OwnFlow(login[h].browser, login[h].row.account)
      /\ login[h].browser \in Browsers /\ login[h].row.account \in Accounts
  BY DEF LookUpUser, InsertUser, Identity, TypeOK, LoginOf, GoodRow
<1>1. PICK a \in Accounts : a = login[h].row.account
  BY <1>0
<1>2. UNCHANGED <<env, flows, grant, tokens, stateCookie, session, call>>
  BY DEF LookUpUser, InsertUser
<1>3. \/ users' = users
      \/ /\ ~Registered(a)
         /\ \E id \in UserIds : /\ \A r \in users : r.id # id
                                /\ users' = users \cup {[id |-> id, account |-> a]}
  BY <1>1 DEF LookUpUser, InsertUser
<1>4. users' \subseteq UserRows /\ users \subseteq users'
  BY <1>1, <1>3 DEF Identity, TypeOK, UserRows
<1>5. OneUserPerAccount'
  <2>1. CASE users' = users
    BY <2>1 DEF Identity, OneUserPerAccount
  <2>2. ASSUME ~Registered(a), NEW id \in UserIds, \A r \in users : r.id # id,
               users' = users \cup {[id |-> id, account |-> a]}
        PROVE  OneUserPerAccount'
    <3>1. \A r \in users : r.account # a /\ r.id # id
      BY <2>2 DEF Registered
    <3>2. \A r \in users' : r \in users \/ (r.id = id /\ r.account = a)
      BY <2>2
    <3>. QED
      BY <3>1, <3>2 DEF Identity, OneUserPerAccount
  <2>. QED
    BY <1>3, <2>1, <2>2
<1>6. Grows
  BY <1>2, <1>4 DEF Grows
<1>7. \/ login' = [login EXCEPT ![h].pc = "insert"]
      \/ \E u \in UserIds : /\ login' = [login EXCEPT ![h].pc = "save", ![h].user = u]
                            /\ HasUser(u, a)'
  <2>1. CASE LookUpUser(h)
    <3>1. CASE login' = [login EXCEPT ![h].pc = "insert"]
      BY <3>1
    <3>2. ASSUME NEW r \in users, r.account = a,
                 login' = [login EXCEPT ![h].pc = "save", ![h].user = r.id]
          PROVE  r.id \in UserIds /\ HasUser(r.id, a)'
      BY <1>4, <3>2 DEF HasUser, Identity, TypeOK, UserRows
    <3>. QED
      BY <1>1, <2>1, <3>1, <3>2 DEF LookUpUser
  <2>2. CASE InsertUser(h)
    <3>1. PICK id \in UserIds :
             /\ users' = users \cup {[id |-> id, account |-> a]}
             /\ login' = [login EXCEPT ![h].pc = "save", ![h].user = id]
      BY <1>1, <2>2 DEF InsertUser
    <3>2. [id |-> id, account |-> a] \in users'
      BY <3>1
    <3>3. HasUser(id, a)'
      BY <3>2 DEF HasUser
    <3>. QED
      BY <3>1, <3>3
  <2>. QED
    BY <2>1, <2>2
<1>8. PICK b \in Browsers, row \in TokenRows : b = login[h].browser /\ row = login[h].row
  BY <1>0 DEF LoginSet
<1>9. GoodRow(row)' /\ OwnFlow(b, a)'
  BY <1>0, <1>1, <1>6, <1>8, GoodRowStays, OwnFlowStays
<1>10. /\ login'[h] \in LoginSet
       /\ login'[h].browser = b /\ login'[h].row = row
       /\ \/ login'[h].pc = "insert"
          \/ /\ login'[h].pc = "save" /\ login'[h].user \in UserIds
             /\ HasUser(login[h].user, a)'
       /\ login' \in [Logins -> LoginSet]
       /\ \A g \in Logins \ {h} : login'[g] = login[g]
  <2>1. CASE login' = [login EXCEPT ![h].pc = "insert"]
    <3>1. login'[h] = [login[h] EXCEPT !.pc = "insert"] /\ login'[h] \in LoginSet
      BY <1>0, <2>1 DEF Identity, TypeOK, LoginSet
    <3>. QED
      BY <1>0, <1>8, <2>1, <3>1 DEF Identity, TypeOK, LoginSet
  <2>2. ASSUME NEW u \in UserIds, login' = [login EXCEPT ![h].pc = "save", ![h].user = u],
               HasUser(u, a)'
        PROVE  /\ login'[h].pc = "save" /\ login'[h].user = u
               /\ login'[h].browser = b /\ login'[h].row = row
               /\ login'[h] \in LoginSet
               /\ login' \in [Logins -> LoginSet]
               /\ \A g \in Logins \ {h} : login'[g] = login[g]
    <3>1. login'[h] = [login[h] EXCEPT !.pc = "save", !.user = u] /\ login'[h] \in LoginSet
      BY <1>0, <2>2 DEF Identity, TypeOK, LoginSet
    <3>. QED
      BY <1>0, <1>8, <2>2, <3>1 DEF Identity, TypeOK, LoginSet
  <2>. QED
    BY <1>7, <2>1, <2>2 DEF HasUser
<1>11. LoginOf(h)'
  BY <1>1, <1>8, <1>9, <1>10 DEF LoginOf, GoodRow, OwnFlow, HasUser
<1>12. TypeOK'
  BY <1>2, <1>4, <1>10 DEF Identity, TypeOK
<1>13. FlowInv' /\ GrantInv'
  BY <1>2 DEF Identity, FlowInv, GrantInv
<1>. QED
  BY <1>2, <1>5, <1>6, <1>10, <1>11, <1>12, <1>13, LoginMoves, CallStays, TokensStay,
     SessionStays
  DEF Identity

\* SaveTokens stores the new row.
LEMMA SaveLoginIdentity ==
    ASSUME Identity, NEW h \in Logins, SaveLogin(h)
    PROVE  Identity'
<1>1. PICK u \in UserIds, b \in Browsers, row \in TokenRows :
         /\ u = login[h].user /\ b = login[h].browser /\ row = login[h].row
         /\ GoodRow(row) /\ OwnFlow(b, row.account) /\ HasUser(u, row.account)
  <2>1. /\ LoginOf(h) /\ login[h].pc = "save" /\ login[h] \in LoginSet
    BY DEF Identity, SaveLogin, TypeOK
  <2>2. login[h].row \in TokenRows /\ login[h].user \in UserIds /\ login[h].browser \in Browsers
    BY <2>1 DEF LoginSet, LoginOf
  <2>. QED
    BY <2>1, <2>2 DEF LoginOf
<1>2. UNCHANGED <<env, flows, grant, users, stateCookie, session, call>>
  BY DEF SaveLogin
<1>3. /\ tokens' \in [UserIds -> TokenRows] /\ tokens'[u] = row
      /\ \A v \in UserIds \ {u} : tokens'[v] = tokens[v]
  BY <1>1 DEF SaveLogin, SaveTokens, Identity, TypeOK
<1>4. row # NoRow
  BY <1>1, AccountsAssumption DEF AccountsAssumption, GoodRow, NoRow
<1>5. Grows
  BY <1>2, <1>3, <1>4 DEF Grows
<1>6. GoodRow(row)' /\ OwnFlow(b, row.account)' /\ HasUser(u, row.account)'
  BY <1>1, <1>2 DEF GoodRow, OwnFlow, HasUser
<1>7. /\ login[h] \in LoginSet
      /\ login'[h] = [login[h] EXCEPT !.pc = "answer", !.row = NoRow]
      /\ \A g \in Logins \ {h} : login'[g] = login[g]
  BY DEF SaveLogin, Identity, TypeOK
<1>8. /\ login'[h] \in LoginSet /\ login'[h].pc = "answer"
      /\ login'[h].user = u /\ login'[h].browser = b
  BY <1>1, <1>7, NoRowTyped DEF LoginSet
<1>9. LoginOf(h)'
  <2>1. row.account \in Accounts /\ tokens'[u] # NoRow
    BY <1>1, <1>3, <1>4 DEF GoodRow
  <2>. QED
    BY <1>6, <1>8, <2>1 DEF LoginOf, OwnFlow, HasUser
<1>10. \A v \in UserIds : TokensOf(v)'
  <2> SUFFICES ASSUME NEW v \in UserIds PROVE TokensOf(v)'
    OBVIOUS
  <2>1. CASE v # u
    BY <1>3, <1>5, <2>1, TokensStay
  <2>2. CASE v = u
    BY <1>3, <1>6, <2>2 DEF TokensOf, GoodRow, HasUser
  <2>. QED
    BY <2>1, <2>2
<1>11. TypeOK'
  <2>1. login' \in [Logins -> LoginSet]
    BY <1>7, <1>8 DEF SaveLogin, Identity, TypeOK
  <2>. QED
    BY <1>2, <1>3, <2>1 DEF Identity, TypeOK
<1>12. OneUserPerAccount' /\ FlowInv' /\ GrantInv'
  BY <1>2 DEF Identity, OneUserPerAccount, FlowInv, GrantInv
<1>. QED
  BY <1>2, <1>5, <1>7, <1>9, <1>10, <1>11, <1>12, LoginMoves, CallStays, SessionStays
  DEF Identity

\* A callback ends, with a session or without.
LEMMA EndIdentity ==
    ASSUME Identity, NEW h \in Logins, AnswerLogin(h) \/ FailLogin(h)
    PROVE  Identity'
<1>1. UNCHANGED <<env, flows, grant, users, tokens, stateCookie, call>>
  BY DEF AnswerLogin, CreateSessionCookie, FailLogin
<1>2. Grows
  BY <1>1 DEF Grows
<1>3. /\ login' \in [Logins -> LoginSet] /\ login'[h] = NoLogin
      /\ \A g \in Logins \ {h} : login'[g] = login[g]
  BY NoLoginTyped DEF AnswerLogin, CreateSessionCookie, FailLogin, Identity, TypeOK
<1>4. LoginOf(h)'
  BY <1>3 DEF NoLogin, LoginOf
<1>5. /\ session' \in [Browsers -> UserIds \cup {NoUser}]
      /\ \A b \in Browsers : SessionOf(b)'
  <2>1. CASE FailLogin(h)
    BY <1>2, <2>1, SessionStays DEF FailLogin, Identity, TypeOK
  <2>2. CASE AnswerLogin(h)
    <3>1. PICK u \in UserIds, b \in Browsers, a \in Accounts :
             /\ u = login[h].user /\ b = login[h].browser
             /\ tokens[u] # NoRow /\ HasUser(u, a) /\ OwnFlow(b, a)
      <4>1. LoginOf(h) /\ login[h].pc = "answer"
        BY <2>2 DEF AnswerLogin, CreateSessionCookie, Identity
      <4>. QED
        BY <4>1 DEF LoginOf
    <3>2. /\ session' \in [Browsers -> UserIds \cup {NoUser}]
          /\ session'[b] = u /\ \A e \in Browsers \ {b} : session'[e] = session[e]
      BY <2>2, <3>1 DEF AnswerLogin, CreateSessionCookie, Identity, TypeOK
    <3>3. SessionOf(b)'
      BY <1>1, <3>1, <3>2 DEF SessionOf, HasUser, OwnFlow
    <3>. QED
      BY <1>2, <3>2, <3>3, SessionStays
  <2>. QED
    BY <2>1, <2>2
<1>6. TypeOK'
  BY <1>1, <1>3, <1>5 DEF Identity, TypeOK
<1>7. OneUserPerAccount' /\ FlowInv' /\ GrantInv'
  BY <1>1 DEF Identity, OneUserPerAccount, FlowInv, GrantInv
<1>. QED
  BY <1>1, <1>2, <1>3, <1>4, <1>5, <1>6, <1>7, LoginMoves, CallStays, TokensStay
  DEF Identity

-----------------------------------------------------------------------------
(* Steps of a call. *)

\* A call begins, reads its row, is denied, or ends.
LEMMA CallOnlyIdentity ==
    ASSUME Identity, NEW c \in Calls,
           \/ \E b \in Browsers : StartCall(c, b)
           \/ GetTokens(c) \/ Denied(c) \/ EndCall(c)
    PROVE  Identity'
<1>1. UNCHANGED <<env, flows, grant, users, tokens, stateCookie, session, login>>
  BY DEF StartCall, ParseUserID, GetTokens, Denied, EndCall
<1>2. Grows
  BY <1>1 DEF Grows
<1>3. call[c] \in CallSet /\ CallOf(c)
  BY DEF Identity, TypeOK
<1>4. call'[c] \in CallSet /\ CallOf(c)' /\ (call'[c].pc # "idle" => call'[c].user # NoUser)
  <2>1. ASSUME NEW b \in Browsers, StartCall(c, b)
        PROVE  call'[c] \in CallSet /\ CallOf(c)' /\ call'[c].user # NoUser
    <3>1. call'[c] = [NoCall EXCEPT !.pc = "read", !.user = session[b]]
      BY <2>1 DEF StartCall, ParseUserID, Identity, TypeOK
    <3>2. session[b] \in UserIds /\ session[b] # NoUser /\ tokens[session[b]] # NoRow
      BY <2>1 DEF StartCall, ParseUserID, Identity, SessionOf
    <3>3. call'[c] \in CallSet /\ call'[c].pc = "read" /\ call'[c].user = session[b]
      BY <3>1, <3>2, NoRowTyped DEF NoCall, CallSet
    <3>. QED
      BY <1>1, <3>2, <3>3 DEF CallOf
  <2>2. CASE GetTokens(c)
    <3>1. PICK u \in UserIds, row \in TokenRows :
             u = call[c].user /\ row = tokens[u] /\ row # NoRow
      BY <1>3, <2>2 DEF GetTokens, CallOf, Identity, TypeOK
    <3>2. PICK at \in {"refresh", "use"} :
             call'[c] = [call[c] EXCEPT !.row = row, !.pc = at]
      BY <2>2, <3>1 DEF GetTokens, Identity, TypeOK
    <3>3. /\ call'[c] \in CallSet /\ call'[c].pc = at
          /\ call'[c].user = u /\ call'[c].row = row
      BY <1>3, <3>1, <3>2 DEF CallSet
    <3>4. GoodRow(row)' /\ HasUser(u, row.account)'
      BY <1>1, <3>1 DEF Identity, TokensOf, GoodRow, HasUser
    <3>5. u # NoUser
      BY <3>1, AccountsAssumption DEF AccountsAssumption
    <3>. QED
      BY <1>1, <3>1, <3>3, <3>4, <3>5 DEF CallOf, GoodRow, HasUser
  <2>3. CASE Denied(c)
    <3>1. call'[c] = [call[c] EXCEPT !.pc = "refresh", !.again = TRUE]
      BY <2>3 DEF Denied, Identity, TypeOK
    <3>2. /\ call'[c] \in CallSet /\ call'[c].pc = "refresh"
          /\ call'[c].user = call[c].user /\ call'[c].row = call[c].row
      BY <1>3, <3>1 DEF CallSet
    <3>3. /\ GoodRow(call[c].row) /\ HasUser(call[c].user, call[c].row.account)
          /\ call[c].user \in UserIds /\ tokens[call[c].user] # NoRow
      BY <1>3, <2>3 DEF Denied, CallOf
    <3>. QED
      BY <1>1, <3>2, <3>3, AccountsAssumption
      DEF AccountsAssumption, CallOf, GoodRow, HasUser
  <2>4. CASE EndCall(c)
    <3>1. call'[c] = NoCall
      BY <2>4 DEF EndCall, Identity, TypeOK
    <3>. QED
      BY <3>1, NoCallTyped DEF NoCall, CallOf
  <2>. QED
    BY <2>1, <2>2, <2>3, <2>4
<1>5. \A d \in Calls \ {c} : call'[d] = call[d]
  BY DEF StartCall, ParseUserID, GetTokens, Denied, EndCall, Identity, TypeOK
<1>6. TypeOK'
  <2>1. /\ call' \in [Calls -> CallSet]
        /\ \A d \in Calls : call'[d].pc # "idle" => call'[d].user # NoUser
    BY <1>4, <1>5 DEF StartCall, ParseUserID, GetTokens, Denied, EndCall, Identity, TypeOK
  <2>. QED
    BY <1>1, <2>1 DEF Identity, TypeOK
<1>7. OneUserPerAccount' /\ FlowInv' /\ GrantInv'
  BY <1>1 DEF Identity, OneUserPerAccount, FlowInv, GrantInv
<1>. QED
  BY <1>1, <1>2, <1>4, <1>5, <1>6, <1>7, LoginStays, CallMoves, TokensStay, SessionStays
  DEF Identity

\* What a call that refreshes holds.
LEMMA Refreshes ==
    ASSUME Identity, NEW c \in Calls, call[c].pc = "refresh", Live(call[c].row.refresh)
    PROVE  /\ call[c] \in CallSet
           /\ call[c].row.refresh \in RefreshTokens
           /\ call[c].row.account \in Accounts
           /\ grant[call[c].row.refresh].owner = call[c].row.account
           /\ grant[call[c].row.refresh].state = "live"
           /\ HasUser(call[c].user, call[c].row.account)
           /\ call[c].user \in UserIds /\ tokens[call[c].user] # NoRow
  BY DEF Identity, TypeOK, CallOf, GoodRow, Live

\* What RefreshToken changes.
LEMMA RefreshEffect ==
    ASSUME Identity, NEW c \in Calls, RefreshToken(c)
    PROVE  \E old \in RefreshTokens, new \in RefreshTokens, row \in TokenRows :
              /\ old = call[c].row.refresh /\ row.refresh = new
              /\ row.account = call[c].row.account
              /\ call' = [call EXCEPT ![c].pc = "save", ![c].spent = old, ![c].row = row]
              /\ IF env.rotates
                 THEN /\ grant[new].state = "unissued"
                      /\ grant' = [grant EXCEPT ![new] = Issue(row.account),
                                                ![old].state = "used"]
                 ELSE new = old /\ grant' = grant
<1>1. call[c].pc = "refresh" /\ Live(call[c].row.refresh)
  BY DEF RefreshToken
<1>2. PICK old \in RefreshTokens, a \in Accounts :
         old = call[c].row.refresh /\ a = call[c].row.account /\ grant[old].owner = a
  BY <1>1, Refreshes
<1>3. \A t \in RefreshTokens :
         [account |-> a, expired |-> FALSE, refresh |-> t] \in TokenRows
  BY DEF TokenRows
<1>4. CASE ~env.rotates
  <2>1. KeptRefresh(old, NoRefresh) = old
    BY DEF KeptRefresh
  <2>2. /\ grant' = grant
        /\ call' = [call EXCEPT ![c].pc = "save", ![c].spent = old,
                      ![c].row = [account |-> a, expired |-> FALSE, refresh |-> old]]
    BY <1>2, <1>4, <2>1 DEF RefreshToken
  <2>3. PICK row \in TokenRows : row = [account |-> a, expired |-> FALSE, refresh |-> old]
    BY <1>3
  <2>4. row.account = a /\ row.refresh = old
    BY <2>3
  <2>. QED
    BY <1>2, <1>4, <2>2, <2>3, <2>4
<1>5. CASE env.rotates
  <2>1. PICK t \in RefreshTokens :
           /\ grant[t].state = "unissued"
           /\ grant' = [grant EXCEPT ![t] = Issue(a), ![old].state = "used"]
           /\ call' = [call EXCEPT ![c].pc = "save", ![c].spent = old,
                         ![c].row = [account |-> a, expired |-> FALSE,
                                     refresh |-> KeptRefresh(old, t)]]
    BY <1>2, <1>5 DEF RefreshToken
  <2>2. KeptRefresh(old, t) = t
    BY AccountsAssumption DEF AccountsAssumption, KeptRefresh
  <2>3. PICK row \in TokenRows : row = [account |-> a, expired |-> FALSE, refresh |-> t]
    BY <1>3
  <2>4. row.account = a /\ row.refresh = t
    BY <2>3
  <2>. QED
    BY <1>2, <1>5, <2>1, <2>2, <2>3, <2>4
<1>. QED
  BY <1>4, <1>5 DEF RefreshToken

\* The grants after a rotation.
LEMMA Rotation ==
    ASSUME Identity, NEW old \in RefreshTokens, NEW new \in RefreshTokens, NEW a \in Accounts,
           grant[new].state = "unissued", grant[old].state = "live", grant[old].owner = a,
           grant' = [grant EXCEPT ![new] = Issue(a), ![old].state = "used"]
    PROVE  /\ grant' \in [RefreshTokens -> Grants]
           /\ new # old
           /\ grant'[new].owner = a /\ grant'[new].state = "live"
           /\ grant'[old].owner = a /\ grant'[old].state = "used"
           /\ \A t \in RefreshTokens \ {old, new} : grant'[t] = grant[t]
<1>1. new # old
  OBVIOUS
<1>2. /\ grant'[new] = Issue(a)
      /\ grant'[old] = [grant[old] EXCEPT !.state = "used"]
      /\ \A t \in RefreshTokens \ {old, new} : grant'[t] = grant[t]
  BY <1>1 DEF Identity, TypeOK
<1>3. /\ Issue(a) \in Grants /\ Issue(a).owner = a /\ Issue(a).state = "live"
      /\ [grant[old] EXCEPT !.state = "used"] \in Grants
  BY DEF Issue, Grants, Identity, TypeOK
<1>4. grant'[old].owner = a /\ grant'[old].state = "used"
  BY <1>2 DEF Identity, TypeOK, Grants
<1>5. grant' \in [RefreshTokens -> Grants]
  BY <1>2, <1>3 DEF Identity, TypeOK
<1>. QED
  BY <1>1, <1>2, <1>3, <1>4, <1>5

\* A call refreshes its token.
LEMMA RefreshIdentity ==
    ASSUME Identity, NEW c \in Calls, RefreshToken(c)
    PROVE  Identity'
<1>1. PICK old \in RefreshTokens, new \in RefreshTokens, row \in TokenRows :
         /\ old = call[c].row.refresh /\ row.refresh = new
         /\ row.account = call[c].row.account
         /\ call' = [call EXCEPT ![c].pc = "save", ![c].spent = old, ![c].row = row]
         /\ IF env.rotates
            THEN /\ grant[new].state = "unissued"
                 /\ grant' = [grant EXCEPT ![new] = Issue(row.account), ![old].state = "used"]
            ELSE new = old /\ grant' = grant
  BY RefreshEffect
<1>2. /\ call[c] \in CallSet /\ row.account \in Accounts
      /\ grant[old].owner = row.account /\ grant[old].state = "live"
      /\ HasUser(call[c].user, row.account)
      /\ call[c].user \in UserIds /\ tokens[call[c].user] # NoRow
  BY <1>1, Refreshes DEF RefreshToken
<1>3. UNCHANGED <<env, flows, users, tokens, stateCookie, session, login>>
  BY DEF RefreshToken
<1>4. /\ grant' \in [RefreshTokens -> Grants]
      /\ grant'[new].owner = row.account
      /\ \A t \in RefreshTokens : grant[t].owner # NoAccount => grant'[t].owner = grant[t].owner
      /\ GrantInv'
  <2>1. CASE env.rotates
    <3>1. /\ grant' \in [RefreshTokens -> Grants]
          /\ new # old
          /\ grant'[new].owner = row.account /\ grant'[new].state = "live"
          /\ grant'[old].owner = row.account /\ grant'[old].state = "used"
          /\ \A t \in RefreshTokens \ {old, new} : grant'[t] = grant[t]
      BY <1>1, <1>2, <2>1, Rotation
    <3>2. grant[new].owner = NoAccount
      BY <1>1, <2>1 DEF Identity, GrantInv
    <3>3. GrantInv'
      BY <1>3, <2>1, <3>1 DEF Identity, GrantInv
    <3>. QED
      BY <1>2, <3>1, <3>2, <3>3
  <2>2. CASE ~env.rotates
    BY <1>1, <1>2, <1>3, <2>2 DEF Identity, TypeOK, GrantInv
  <2>. QED
    BY <2>1, <2>2
<1>5. Grows
  BY <1>3, <1>4 DEF Grows
<1>6. /\ call'[c] = [call[c] EXCEPT !.pc = "save", !.spent = old, !.row = row]
      /\ \A d \in Calls \ {c} : call'[d] = call[d]
  BY <1>1 DEF Identity, TypeOK
<1>7. /\ call'[c] \in CallSet /\ call'[c].pc = "save" /\ call'[c].spent = old
      /\ call'[c].user = call[c].user /\ call'[c].row = row
  BY <1>2, <1>6 DEF CallSet
<1>8. CallOf(c)'
  <2>1. GoodRow(row)'
    BY <1>1, <1>2, <1>4, AccountsAssumption DEF AccountsAssumption, GoodRow
  <2>2. HasUser(call[c].user, row.account)'
    BY <1>2, <1>3, <1>7 DEF HasUser
  <2>3. ~env.rotates => old = row.refresh
    BY <1>1
  <2>. QED
    BY <1>2, <1>3, <1>7, <2>1, <2>2, <2>3 DEF CallOf, GoodRow, HasUser
<1>9. TypeOK'
  <2>1. call' \in [Calls -> CallSet]
    BY <1>1, <1>6, <1>7 DEF Identity, TypeOK
  <2>2. \A d \in Calls : call'[d].pc # "idle" => call'[d].user # NoUser
    <3>1. call'[c].user # NoUser
      BY <1>2, <1>7, AccountsAssumption DEF AccountsAssumption
    <3>. QED
      BY <1>6, <3>1 DEF Identity, TypeOK
  <2>. QED
    BY <1>3, <1>4, <2>1, <2>2 DEF Identity, TypeOK
<1>10. OneUserPerAccount' /\ FlowInv'
  BY <1>3 DEF Identity, OneUserPerAccount, FlowInv
<1>. QED
  BY <1>3, <1>4, <1>5, <1>6, <1>8, <1>9, <1>10, LoginStays, CallMoves, TokensStay,
     SessionStays
  DEF Identity

\* The answer of a refresh is lost on its way, or in the process.
LEMMA LostIdentity ==
    ASSUME Identity, NEW c \in Calls, RefreshLost(c) \/ SaveRefreshedFails(c)
    PROVE  Identity'
<1>1. UNCHANGED <<env, flows, users, tokens, stateCookie, session, login>>
  BY DEF RefreshLost, SaveRefreshedFails
<1>2. /\ call' \in [Calls -> CallSet] /\ call'[c] = NoCall
      /\ \A d \in Calls \ {c} : call'[d] = call[d]
  BY NoCallTyped DEF RefreshLost, SaveRefreshedFails, Identity, TypeOK
<1>3. \/ grant' = grant
      \/ env.rotates /\ \E old : grant' = [grant EXCEPT ![old].state = "lost"]
  BY DEF RefreshLost, SaveRefreshedFails, Identity, CallOf
<1>4. /\ grant' \in [RefreshTokens -> Grants]
      /\ \A t \in RefreshTokens : grant'[t].owner = grant[t].owner
      /\ GrantInv'
  <2>1. CASE grant' = grant
    BY <1>1, <2>1 DEF Identity, TypeOK, GrantInv
  <2>2. ASSUME env.rotates, NEW old, grant' = [grant EXCEPT ![old].state = "lost"]
        PROVE  /\ grant' \in [RefreshTokens -> Grants]
               /\ \A t \in RefreshTokens : grant'[t].owner = grant[t].owner
               /\ GrantInv'
    <3>1. ASSUME NEW t \in RefreshTokens
          PROVE  /\ grant'[t] \in Grants /\ grant'[t].owner = grant[t].owner
                 /\ grant'[t].state \in {grant[t].state, "lost"}
      <4>1. grant[t] \in Grants /\ [grant[t] EXCEPT !.state = "lost"] \in Grants
        BY DEF Identity, TypeOK, Grants
      <4>2. grant'[t] = grant[t] \/ grant'[t] = [grant[t] EXCEPT !.state = "lost"]
        BY <2>2 DEF Identity, TypeOK
      <4>. QED
        BY <4>1, <4>2 DEF Grants
    <3>2. grant' \in [RefreshTokens -> Grants]
      BY <2>2, <3>1 DEF Identity, TypeOK
    <3>3. GrantInv'
      BY <1>1, <2>2, <3>1 DEF Identity, GrantInv
    <3>. QED
      BY <3>1, <3>2, <3>3
  <2>. QED
    BY <1>3, <2>1, <2>2
<1>5. Grows
  BY <1>1, <1>4 DEF Grows
<1>6. CallOf(c)'
  BY <1>2 DEF NoCall, CallOf
<1>7. TypeOK'
  <2>1. \A d \in Calls : call'[d].pc # "idle" => call'[d].user # NoUser
    BY <1>2 DEF NoCall, Identity, TypeOK
  <2>. QED
    BY <1>1, <1>2, <1>4, <2>1 DEF Identity, TypeOK
<1>8. OneUserPerAccount' /\ FlowInv'
  BY <1>1 DEF Identity, OneUserPerAccount, FlowInv
<1>. QED
  BY <1>1, <1>2, <1>4, <1>5, <1>6, <1>7, <1>8, LoginStays, CallMoves, TokensStay,
     SessionStays
  DEF Identity

\* SaveTokens stores what the refresh brought.
LEMMA SaveRefreshedIdentity ==
    ASSUME Identity, NEW c \in Calls, SaveRefreshed(c)
    PROVE  Identity'
<1>1. PICK u \in UserIds, row \in TokenRows :
         /\ u = call[c].user /\ row = call[c].row
         /\ GoodRow(row) /\ HasUser(u, row.account)
  <2>1. CallOf(c) /\ call[c].pc = "save" /\ call[c] \in CallSet
    BY DEF Identity, SaveRefreshed, TypeOK
  <2>2. call[c].row \in TokenRows /\ call[c].user \in UserIds
    BY <2>1 DEF CallSet, CallOf
  <2>. QED
    BY <2>1, <2>2 DEF CallOf
<1>2. UNCHANGED <<env, flows, grant, users, stateCookie, session, login>>
  BY DEF SaveRefreshed
<1>3. /\ tokens' \in [UserIds -> TokenRows] /\ tokens'[u] = row
      /\ \A v \in UserIds \ {u} : tokens'[v] = tokens[v]
  BY <1>1 DEF SaveRefreshed, SaveTokens, Identity, TypeOK
<1>4. row # NoRow
  BY <1>1, AccountsAssumption DEF AccountsAssumption, GoodRow, NoRow
<1>5. Grows
  BY <1>2, <1>3, <1>4 DEF Grows
<1>6. GoodRow(row)' /\ HasUser(u, row.account)'
  BY <1>1, <1>2 DEF GoodRow, HasUser
<1>7. /\ call[c] \in CallSet
      /\ call'[c] = [call[c] EXCEPT !.pc = "use", !.spent = NoRefresh]
      /\ \A d \in Calls \ {c} : call'[d] = call[d]
  BY DEF SaveRefreshed, Identity, TypeOK
<1>8. /\ call'[c] \in CallSet /\ call'[c].pc = "use"
      /\ call'[c].user = u /\ call'[c].row = row
  BY <1>1, <1>7 DEF CallSet
<1>9. CallOf(c)'
  BY <1>3, <1>4, <1>6, <1>8 DEF CallOf, GoodRow, HasUser
<1>10. \A v \in UserIds : TokensOf(v)'
  <2> SUFFICES ASSUME NEW v \in UserIds PROVE TokensOf(v)'
    OBVIOUS
  <2>1. CASE v # u
    BY <1>3, <1>5, <2>1, TokensStay
  <2>2. CASE v = u
    BY <1>3, <1>6, <2>2 DEF TokensOf, GoodRow, HasUser
  <2>. QED
    BY <2>1, <2>2
<1>11. TypeOK'
  <2>1. call' \in [Calls -> CallSet]
    BY <1>7, <1>8 DEF SaveRefreshed, Identity, TypeOK
  <2>2. \A d \in Calls : call'[d].pc # "idle" => call'[d].user # NoUser
    BY <1>1, <1>7, <1>8, AccountsAssumption DEF AccountsAssumption, Identity, TypeOK
  <2>. QED
    BY <1>2, <1>3, <2>1, <2>2 DEF Identity, TypeOK
<1>12. OneUserPerAccount' /\ FlowInv' /\ GrantInv'
  BY <1>2 DEF Identity, OneUserPerAccount, FlowInv, GrantInv
<1>. QED
  BY <1>2, <1>5, <1>7, <1>9, <1>10, <1>11, <1>12, LoginStays, CallMoves, SessionStays
  DEF Identity

LEMMA NextIdentity == Identity /\ [Next]_vars => Identity'
<1> SUFFICES ASSUME Identity, [Next]_vars PROVE Identity'
  OBVIOUS
<1>1. ASSUME NEW h \in Logins, LoginStep(h) PROVE Identity'
  BY <1>1, BeginIdentity, ExchangeIdentity, UpsertIdentity, SaveLoginIdentity, EndIdentity
  DEF LoginStep
<1>2. ASSUME NEW c \in Calls, CallStep(c) PROVE Identity'
  BY <1>2, CallOnlyIdentity, RefreshIdentity, LostIdentity, SaveRefreshedIdentity
  DEF CallStep
<1>3. CASE World
  BY <1>3, WorldIdentity
<1>4. CASE UNCHANGED vars
  <2>1. Grows
    BY <1>4 DEF vars, Grows
  <2>2. TypeOK' /\ OneUserPerAccount' /\ FlowInv' /\ GrantInv'
    BY <1>4 DEF vars, Identity, TypeOK, OneUserPerAccount, FlowInv, GrantInv
  <2>. QED
    BY <1>4, <2>1, <2>2, LoginStays, CallStays, TokensStay, SessionStays
    DEF vars, Identity
<1>. QED
  BY <1>1, <1>2, <1>3, <1>4 DEF Next

LEMMA IdentityHolds == Spec => []Identity
  BY InitIdentity, NextIdentity, PTL DEF Spec

-----------------------------------------------------------------------------

\* The tables, cookies and handlers keep their types; a call is always made for
\* a user.
THEOREM TypeCorrect == Spec => []TypeOK
<1>1. Identity => TypeOK
  BY DEF Identity
<1>. QED
  BY <1>1, IdentityHolds, PTL

\* However first logins race, an account has one user and a user one account.
THEOREM UsersUnique == Spec => []OneUserPerAccount
<1>1. Identity => OneUserPerAccount
  BY DEF Identity
<1>. QED
  BY <1>1, IdentityHolds, PTL

\* What is stored for a user, and what a call of that user works with, was
\* granted by the user's own account.
THEOREM TokensOwn == Spec => []OwnTokens
<1>1. Identity => OwnTokens
  BY DEF Identity, OwnTokens, OfUser, TokensOf, CallOf, GoodRow, HasUser
<1>. QED
  BY <1>1, IdentityHolds, PTL

\* A stored row always has a refresh token.
THEOREM RowsRefreshable == Spec => []RowRefreshable
<1>1. Identity => RowRefreshable
  BY DEF Identity, RowRefreshable, TokensOf, GoodRow
<1>. QED
  BY <1>1, IdentityHolds, PTL

\* A browser is logged in only as an account that consented to a login begun
\* in it.
THEOREM SessionsOwn == Spec => []SessionFromOwnFlow
<1>1. Identity => SessionFromOwnFlow
  BY DEF Identity, SessionFromOwnFlow, SessionOf, HasUser
<1>. QED
  BY <1>1, IdentityHolds, PTL

\* Who is logged in has tokens.
THEOREM SessionsTokens == Spec => []SessionHasTokens
<1>1. Identity => SessionHasTokens
  BY DEF Identity, SessionHasTokens, SessionOf, CallOf
<1>. QED
  BY <1>1, IdentityHolds, PTL

-----------------------------------------------------------------------------
(* What follows from who is who. *)

\* A refresh token is one user's: it is never stored for two users, nor held by a call of
\* a user other than the one it is stored for.
TokensNotShared ==
    \A v \in UserIds :
       tokens[v].refresh \in RefreshTokens =>
          /\ \A u \in UserIds : tokens[u].refresh = tokens[v].refresh => u = v
          /\ \A c \in Calls :
                /\ call[c].pc \in {"refresh", "save", "use"}
                /\ call[c].row.refresh = tokens[v].refresh
                => call[c].user = v

\* However logins and refreshes of several accounts interleave, no token is shared.
THEOREM TokensUnshared == Spec => []TokensNotShared
<1>1. ASSUME OneUserPerAccount, OwnTokens
      PROVE  TokensNotShared
  <2> SUFFICES ASSUME NEW v \in UserIds, tokens[v].refresh \in RefreshTokens
               PROVE  /\ \A u \in UserIds : tokens[u].refresh = tokens[v].refresh => u = v
                      /\ \A c \in Calls :
                            /\ call[c].pc \in {"refresh", "save", "use"}
                            /\ call[c].row.refresh = tokens[v].refresh
                            => call[c].user = v
    BY DEF TokensNotShared
  <2>1. NoRow.refresh \notin RefreshTokens
    BY AccountsAssumption DEF AccountsAssumption, NoRow
  <2>2. ASSUME NEW u, NEW row, OfUser(u, row), row.refresh = tokens[v].refresh
        PROVE  u = v
    <3>1. OfUser(v, tokens[v])
      BY <1>1, <2>1 DEF OwnTokens
    <3>2. PICK q \in users : q.id = v /\ q.account = tokens[v].account
      BY <3>1 DEF OfUser
    <3>3. PICK r \in users : r.id = u /\ r.account = row.account
      BY <2>2 DEF OfUser
    <3>4. r.account = q.account
      BY <2>2, <3>1, <3>2, <3>3 DEF OfUser
    <3>. QED
      BY <1>1, <3>2, <3>3, <3>4 DEF OneUserPerAccount
  <2>3. ASSUME NEW u \in UserIds, tokens[u].refresh = tokens[v].refresh
        PROVE  u = v
    BY <1>1, <2>1, <2>2, <2>3 DEF OwnTokens
  <2>4. ASSUME NEW c \in Calls, call[c].pc \in {"refresh", "save", "use"},
               call[c].row.refresh = tokens[v].refresh
        PROVE  call[c].user = v
    BY <1>1, <2>2, <2>4 DEF OwnTokens
  <2>. QED
    BY <2>3, <2>4
<1>. QED
  BY <1>1, UsersUnique, TokensOwn, PTL

-----------------------------------------------------------------------------
(* Logins and calls come to an end. *)

\* How many steps a callback and a call can still take.
LoginLeft(h) ==
    LET p == login[h].pc
    IN IF p = "exchange" THEN 5 ELSE IF p = "lookup" THEN 4 ELSE IF p = "insert" THEN 3
       ELSE IF p = "save" THEN 2 ELSE IF p = "answer" THEN 1 ELSE 0

CallLeft(c) ==
    LET p == call[c].pc
    IN (IF p = "read" THEN 7 ELSE IF p = "refresh" THEN 3 ELSE IF p = "save" THEN 2
        ELSE IF p = "use" THEN 1 ELSE 0) +
       (IF p \in {"refresh", "save", "use"} /\ ~call[c].again THEN 3 ELSE 0)

\* Each step of a callback or a call leaves it fewer to take, and nobody else's steps
\* touch it: a login takes at most five, a call at most seven, among which it refreshes
\* its token at most twice, however often Google refuses.
RequestsShrink ==
    [][/\ \A h \in Logins : login[h].pc # "idle" =>
             login'[h] = login[h] \/ LoginLeft(h)' < LoginLeft(h)
       /\ \A c \in Calls : call[c].pc # "idle" =>
             call'[c] = call[c] \/ CallLeft(c)' < CallLeft(c)]_vars

LEMMA LoginShrinks ==
    ASSUME TypeOK, NEW h \in Logins, login[h].pc # "idle", LoginStep(h)
    PROVE  LoginLeft(h)' < LoginLeft(h)
<1>1. login \in [Logins -> LoginSet] /\ login[h] \in LoginSet
  BY DEF TypeOK
<1>2. CASE ExchangeCode(h)
  <2>1. login[h].pc = "exchange" /\ login'[h].pc = "lookup"
    BY <1>1, <1>2 DEF ExchangeCode, LoginSet
  <2>. QED
    BY <2>1 DEF LoginLeft
<1>3. CASE LookUpUser(h)
  <2>1. login[h].pc = "lookup" /\ login'[h].pc \in {"save", "insert"}
    BY <1>1, <1>3 DEF LookUpUser, LoginSet
  <2>. QED
    BY <2>1 DEF LoginLeft
<1>4. CASE InsertUser(h)
  <2>1. login[h].pc = "insert" /\ login'[h].pc = "save"
    BY <1>1, <1>4 DEF InsertUser, LoginSet
  <2>. QED
    BY <2>1 DEF LoginLeft
<1>5. CASE SaveLogin(h)
  <2>1. login[h].pc = "save" /\ login'[h].pc = "answer"
    BY <1>1, <1>5 DEF SaveLogin, LoginSet
  <2>. QED
    BY <2>1 DEF LoginLeft
<1>6. CASE AnswerLogin(h) \/ FailLogin(h)
  <2>1. login'[h].pc = "idle"
    BY <1>1, <1>6 DEF AnswerLogin, FailLogin, NoLogin
  <2>. QED
    BY <1>1, <2>1 DEF LoginLeft, LoginSet
<1>. QED
  BY <1>2, <1>3, <1>4, <1>5, <1>6 DEF LoginStep, DevLogin, Callback

LEMMA CallShrinks ==
    ASSUME TypeOK, NEW c \in Calls, call[c].pc # "idle", CallStep(c)
    PROVE  CallLeft(c)' < CallLeft(c)
<1>1. call \in [Calls -> CallSet] /\ call[c] \in CallSet
  BY DEF TypeOK
<1>2. CASE GetTokens(c)
  <2>1. call[c].pc = "read" /\ call'[c].pc \in {"refresh", "use"}
    BY <1>1, <1>2 DEF GetTokens, CallSet
  <2>. QED
    BY <2>1 DEF CallLeft
<1>3. CASE RefreshToken(c)
  <2>1. PICK row :
           call' = [call EXCEPT ![c].pc = "save", ![c].spent = call[c].row.refresh,
                                ![c].row = row]
    BY <1>3 DEF RefreshToken
  <2>2. call'[c].pc = "save" /\ call'[c].again = call[c].again
    BY <1>1, <2>1 DEF CallSet
  <2>3. call[c].pc = "refresh"
    BY <1>3 DEF RefreshToken
  <2>. QED
    BY <2>2, <2>3 DEF CallLeft
<1>4. CASE SaveRefreshed(c)
  <2>1. /\ call[c].pc = "save" /\ call'[c].pc = "use"
        /\ call'[c].again = call[c].again
    BY <1>1, <1>4 DEF SaveRefreshed, CallSet
  <2>. QED
    BY <2>1 DEF CallLeft
<1>5. CASE Denied(c)
  <2>1. /\ call[c].pc = "use" /\ call'[c].pc = "refresh"
        /\ ~call[c].again /\ call'[c].again
    BY <1>1, <1>5 DEF Denied, CallSet
  <2>. QED
    BY <2>1 DEF CallLeft
<1>6. CASE RefreshLost(c) \/ SaveRefreshedFails(c) \/ EndCall(c)
  <2>1. call'[c].pc = "idle"
    BY <1>1, <1>6 DEF RefreshLost, SaveRefreshedFails, EndCall, NoCall
  <2>. QED
    BY <1>1, <2>1 DEF CallLeft, CallSet
<1>. QED
  BY <1>2, <1>3, <1>4, <1>5, <1>6 DEF CallStep, StartCall

\* No callback and no call goes on for ever, whatever the others, the browsers and
\* Google do; a refused call does not refresh in circles.
THEOREM RequestsEnd == Spec => RequestsShrink
<1>1. ASSUME TypeOK, [Next]_vars, NEW h \in Logins, login[h].pc # "idle"
      PROVE  login'[h] = login[h] \/ LoginLeft(h)' < LoginLeft(h)
  <2>1. ASSUME NEW g \in Logins \ {h}, LoginStep(g) PROVE login'[h] = login[h]
    BY <1>1, <2>1
    DEF LoginStep, DevLogin, Callback, ExchangeCode, LookUpUser, InsertUser, SaveLogin,
        AnswerLogin, FailLogin, TypeOK
  <2>2. ASSUME NEW c \in Calls, CallStep(c) PROVE login' = login
    BY <2>2 DEF CallStep, StartCall, GetTokens, RefreshToken, RefreshLost, SaveRefreshed,
                SaveRefreshedFails, Denied, EndCall
  <2>3. CASE World \/ UNCHANGED vars
    BY <2>3 DEF World, BeginLogin, Logout, Consent, Expire, vars
  <2>. QED
    BY <1>1, <2>1, <2>2, <2>3, LoginShrinks DEF Next
<1>2. ASSUME TypeOK, [Next]_vars, NEW c \in Calls, call[c].pc # "idle"
      PROVE  call'[c] = call[c] \/ CallLeft(c)' < CallLeft(c)
  <2>1. ASSUME NEW d \in Calls \ {c}, CallStep(d) PROVE call'[c] = call[c]
    BY <1>2, <2>1 DEF CallStep, StartCall, GetTokens, RefreshToken, RefreshLost,
                      SaveRefreshed, SaveRefreshedFails, Denied, EndCall, TypeOK
  <2>2. ASSUME NEW h \in Logins, LoginStep(h) PROVE call' = call
    BY <2>2
    DEF LoginStep, DevLogin, Callback, ExchangeCode, LookUpUser, InsertUser, SaveLogin,
        AnswerLogin, FailLogin
  <2>3. CASE World \/ UNCHANGED vars
    BY <2>3 DEF World, BeginLogin, Logout, Consent, Expire, vars
  <2>. QED
    BY <1>2, <2>1, <2>2, <2>3, CallShrinks DEF Next
<1>3. TypeOK /\ [Next]_vars =>
        [/\ \A h \in Logins : login[h].pc # "idle" =>
               login'[h] = login[h] \/ LoginLeft(h)' < LoginLeft(h)
         /\ \A c \in Calls : call[c].pc # "idle" =>
               call'[c] = call[c] \/ CallLeft(c)' < CallLeft(c)]_vars
  BY <1>1, <1>2
<1>. QED
  BY <1>3, TypeCorrect, PTL DEF Spec, RequestsShrink

=============================================================================
