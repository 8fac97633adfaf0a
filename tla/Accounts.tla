------------------------------ MODULE Accounts ------------------------------
(***************************************************************************)
(* Login, session and tokens: the handlers /auth/google, /auth/callback    *)
(* and /auth/logout, the signed cookies of SessionManager, the tables      *)
(* users and oauth_tokens, and AuthService.EnsureAccessToken with the      *)
(* second refresh of collectMediaItemsWithRetry.                           *)
(*                                                                         *)
(* A Flow is one random state value, with what Google knows of it.  A      *)
(* member of Logins is one callback under way, a member of Calls one       *)
(* request (or job) that needs the user's access token.  One action is one *)
(* statement, one call of Google, or one cookie.  Google is modelled from  *)
(* the calls the code makes: a code is taken once, and a refresh answers   *)
(* with a new refresh token either always or never (env.rotates).          *)
(***************************************************************************)
EXTENDS Naturals, FiniteSets

CONSTANTS
    Accounts, Browsers, Flows, Logins, Calls,
    UserIds,        \* values of users.id
    RefreshTokens,  \* the refresh tokens Google may issue
    DevAccount,     \* the account "dev-user" of a server without OAuth keys
    DevToken,       \* its "dev-refresh-token"
    NoAccount, NoBrowser, NoFlow, NoUser,
    NoRefresh       \* the empty refresh token

ASSUME AccountsAssumption ==
    /\ DevAccount \in Accounts
    /\ NoAccount \notin Accounts
    /\ NoBrowser \notin Browsers
    /\ NoFlow \notin Flows
    /\ NoUser \notin UserIds
    /\ DevToken \notin RefreshTokens
    /\ NoRefresh \notin RefreshTokens \cup {DevToken}

VARIABLES
    env,          \* what the server is started with and Google's policy
    flows,        \* the flows begun so far, as Google sees them
    grant,        \* the refresh tokens, as Google sees them
    users,        \* rows of users
    tokens,       \* oauth_tokens: user_id -> row
    stateCookie,  \* cookie oauth_state of each browser
    session,      \* cookie session of each browser, verified and parsed
    login,        \* the callbacks under way
    call          \* the calls under way

vars == <<env, flows, grant, users, tokens, stateCookie, session, login, call>>

Envs    == [oauth : BOOLEAN, rotates : BOOLEAN]
FlowSet == [browser : Browsers \cup {NoBrowser},
            account : Accounts \cup {NoAccount},
            code : {"none", "issued", "used"}]
Grants  == [owner : Accounts \cup {NoAccount},
            state : {"unissued", "live", "used", "lost"}]
UserRows  == [id : UserIds, account : Accounts]
TokenRows == [account : Accounts \cup {NoAccount},
              refresh : RefreshTokens \cup {DevToken, NoRefresh},
              expired : BOOLEAN]
NoRow == [account |-> NoAccount, refresh |-> NoRefresh, expired |-> FALSE]

LoginSet == [pc : {"idle", "exchange", "lookup", "insert", "save", "answer"},
             browser : Browsers \cup {NoBrowser},
             flow : Flows \cup {NoFlow},
             row : TokenRows,
             user : UserIds \cup {NoUser}]
CallSet == [pc : {"idle", "read", "refresh", "save", "use"},
            user : UserIds \cup {NoUser},
            row : TokenRows,
            spent : RefreshTokens \cup {DevToken, NoRefresh},
            again : BOOLEAN]

NoFlowYet == [browser |-> NoBrowser, account |-> NoAccount, code |-> "none"]
NoLogin == [pc |-> "idle", browser |-> NoBrowser, flow |-> NoFlow,
            row |-> NoRow, user |-> NoUser]
NoCall  == [pc |-> "idle", user |-> NoUser, row |-> NoRow,
            spent |-> NoRefresh, again |-> FALSE]

TypeOK ==
    /\ env \in Envs
    /\ flows \in [Flows -> FlowSet]
    /\ grant \in [RefreshTokens -> Grants]
    /\ users \subseteq UserRows
    /\ tokens \in [UserIds -> TokenRows]
    /\ stateCookie \in [Browsers -> Flows \cup {NoFlow}]
    /\ session \in [Browsers -> UserIds \cup {NoUser}]
    /\ login \in [Logins -> LoginSet]
    /\ call \in [Calls -> CallSet]
    /\ \A c \in Calls : call[c].pc # "idle" => call[c].user # NoUser

Init ==
    /\ env \in Envs
    /\ flows = [f \in Flows |-> NoFlowYet]
    /\ grant = [t \in RefreshTokens |->
                  [owner |-> NoAccount, state |-> "unissued"]]
    /\ users = {}
    /\ tokens = [u \in UserIds |-> NoRow]
    /\ stateCookie = [b \in Browsers |-> NoFlow]
    /\ session = [b \in Browsers |-> NoUser]
    /\ login = [h \in Logins |-> NoLogin]
    /\ call = [c \in Calls |-> NoCall]

\* What AuthURL asks Google for: prompt=consent.
PromptsConsent_Never == FALSE
PromptsConsent == TRUE

Registered(a) == \E r \in users : r.account = a
Live(t) == t \in RefreshTokens /\ grant[t].state = "live"
Issue(a) == [owner |-> a, state |-> "live"]

(* SessionManager's cookies.  A value is signed, so a cookie holds what the *)
(* server put there, or nothing.                                            *)

CreateStateCookie(b, f)   == stateCookie' = [stateCookie EXCEPT ![b] = f]
VerifyState(b, f)         == stateCookie[b] = f
CreateSessionCookie(b, u) == session' = [session EXCEPT ![b] = u]
ClearSessionCookie(b)     == session' = [session EXCEPT ![b] = NoUser]
ParseUserID(b)            == session[b]

SaveTokens(u, row) == tokens' = [tokens EXCEPT ![u] = row]

-----------------------------------------------------------------------------
(* GET or POST /auth/google, and the user's consent at Google. *)

\* A second login in the same browser replaces the state of the first.
BeginLogin(b) ==
    /\ env.oauth
    /\ \E f \in Flows :
         /\ flows[f].browser = NoBrowser
         /\ flows' = [flows EXCEPT ![f].browser = b]
         /\ CreateStateCookie(b, f)
    /\ UNCHANGED <<env, grant, users, tokens, session, login, call>>

\* Without OAuth keys a development server logs its one user in at once.
DevLogin(h, b) ==
    /\ ~env.oauth
    /\ login[h].pc = "idle"
    /\ login' = [login EXCEPT ![h] =
         [NoLogin EXCEPT !.pc = "lookup", !.browser = b,
            !.row = [account |-> DevAccount, refresh |-> DevToken,
                     expired |-> FALSE]]]
    /\ UNCHANGED <<env, flows, grant, users, tokens, stateCookie, session, call>>

Consent(f, a) ==
    /\ flows[f].browser # NoBrowser
    /\ flows[f].code = "none"
    /\ flows' = [flows EXCEPT ![f].account = a, ![f].code = "issued"]
    /\ UNCHANGED <<env, grant, users, tokens, stateCookie, session, login, call>>

-----------------------------------------------------------------------------
(* GET /auth/callback.  The URL may be opened twice, or in another browser. *)

\* Mutant: the state that comes back is not compared with the cookie.
Callback_AnyState(h, b, f) ==
    /\ login[h].pc = "idle"
    /\ flows[f].code # "none"
    /\ login' = [login EXCEPT ![h] =
         [NoLogin EXCEPT !.pc = "exchange", !.browser = b, !.flow = f]]
    /\ UNCHANGED <<env, flows, grant, users, tokens, stateCookie, session, call>>

Callback(h, b, f) ==
    /\ login[h].pc = "idle"
    /\ flows[f].code # "none"
    /\ VerifyState(b, f)
    /\ login' = [login EXCEPT ![h] =
         [NoLogin EXCEPT !.pc = "exchange", !.browser = b, !.flow = f]]
    /\ UNCHANGED <<env, flows, grant, users, tokens, stateCookie, session, call>>

\* Google gives a refresh token when it asks for consent, or else only to an
\* account that has never been given one.
ExchangeCode(h) ==
    LET f == login[h].flow
        a == flows[f].account IN
    /\ login[h].pc = "exchange"
    /\ flows[f].code = "issued"
    /\ flows' = [flows EXCEPT ![f].code = "used"]
    /\ \E t \in RefreshTokens :
         /\ grant[t].state = "unissued"
         /\ LET given == PromptsConsent \/ \A s \in RefreshTokens : grant[s].owner # a IN
            /\ grant' = IF given THEN [grant EXCEPT ![t] = Issue(a)] ELSE grant
            /\ login' = [login EXCEPT ![h].pc = "lookup", ![h].flow = NoFlow,
                 ![h].row = [account |-> a, expired |-> FALSE,
                             refresh |-> IF given THEN t ELSE NoRefresh]]
    /\ UNCHANGED <<env, users, tokens, stateCookie, session, call>>

\* Mutant: a browser that is logged in keeps its user.
LookUpUser_KeepSession(h) ==
    /\ login[h].pc = "lookup"
    /\ IF session[login[h].browser] # NoUser
       THEN login' = [login EXCEPT ![h].pc = "save",
                        ![h].user = session[login[h].browser]]
       ELSE \/ \E r \in users :
                 /\ r.account = login[h].row.account
                 /\ login' = [login EXCEPT ![h].pc = "save", ![h].user = r.id]
            \/ /\ ~Registered(login[h].row.account)
               /\ login' = [login EXCEPT ![h].pc = "insert"]
    /\ UNCHANGED <<env, flows, grant, users, tokens, stateCookie, session, call>>

\* UpsertUser, first statement, with the update of the email.
LookUpUser(h) ==
    /\ login[h].pc = "lookup"
    /\ \/ \E r \in users :
            /\ r.account = login[h].row.account
            /\ login' = [login EXCEPT ![h].pc = "save", ![h].user = r.id]
       \/ /\ ~Registered(login[h].row.account)
          /\ login' = [login EXCEPT ![h].pc = "insert"]
    /\ UNCHANGED <<env, flows, grant, users, tokens, stateCookie, session, call>>

\* Mutant: google_user_id is not unique.
InsertUser_NotUnique(h) ==
    /\ login[h].pc = "insert"
    /\ \E id \in UserIds :
         /\ \A r \in users : r.id # id
         /\ users' = users \cup {[id |-> id, account |-> login[h].row.account]}
         /\ login' = [login EXCEPT ![h].pc = "save", ![h].user = id]
    /\ UNCHANGED <<env, flows, grant, tokens, stateCookie, session, call>>

\* UpsertUser, second statement.  The unique google_user_id refuses the row of
\* a login that lost the race; that one ends in FailLogin.
InsertUser(h) ==
    /\ login[h].pc = "insert"
    /\ ~Registered(login[h].row.account)
    /\ \E id \in UserIds :
         /\ \A r \in users : r.id # id
         /\ users' = users \cup {[id |-> id, account |-> login[h].row.account]}
         /\ login' = [login EXCEPT ![h].pc = "save", ![h].user = id]
    /\ UNCHANGED <<env, flows, grant, tokens, stateCookie, session, call>>

SaveLogin(h) ==
    /\ login[h].pc = "save"
    /\ SaveTokens(login[h].user, login[h].row)
    /\ login' = [login EXCEPT ![h].pc = "answer", ![h].row = NoRow]
    /\ UNCHANGED <<env, flows, grant, users, stateCookie, session, call>>

\* Mutant: an error of SaveTokens does not end the handler.
AnswerLogin_IgnoreError(h) ==
    /\ login[h].pc \in {"save", "answer"}
    /\ CreateSessionCookie(login[h].browser, login[h].user)
    /\ login' = [login EXCEPT ![h] = NoLogin]
    /\ UNCHANGED <<env, flows, grant, users, tokens, stateCookie, call>>

\* The browser gets its session cookie.
AnswerLogin(h) ==
    /\ login[h].pc = "answer"
    /\ CreateSessionCookie(login[h].browser, login[h].user)
    /\ login' = [login EXCEPT ![h] = NoLogin]
    /\ UNCHANGED <<env, flows, grant, users, tokens, stateCookie, call>>

\* A call or statement of the handler fails, or its answer is lost.
FailLogin(h) ==
    /\ login[h].pc # "idle"
    /\ login' = [login EXCEPT ![h] = NoLogin]
    /\ UNCHANGED <<env, flows, grant, users, tokens, stateCookie, session, call>>

\* The cookie is cleared, or its time is over.
Logout(b) ==
    /\ session[b] # NoUser
    /\ ClearSessionCookie(b)
    /\ UNCHANGED <<env, flows, grant, users, tokens, stateCookie, login, call>>

-----------------------------------------------------------------------------
(* A call that needs the user's access token: EnsureAccessToken. *)

\* requireUserID
StartCall(c, b) ==
    /\ call[c].pc = "idle"
    /\ ParseUserID(b) # NoUser
    /\ call' = [call EXCEPT ![c] = [NoCall EXCEPT !.pc = "read", !.user = ParseUserID(b)]]
    /\ UNCHANGED <<env, flows, grant, users, tokens, stateCookie, session, login>>

\* The row is read; a token about to expire is refreshed if that is possible.
GetTokens(c) ==
    LET row == tokens[call[c].user] IN
    /\ call[c].pc = "read"
    /\ row # NoRow
    /\ call' = [call EXCEPT ![c].row = row,
         ![c].pc = IF row.expired /\ row.refresh # NoRefresh THEN "refresh" ELSE "use"]
    /\ UNCHANGED <<env, flows, grant, users, tokens, stateCookie, session, login>>

\* What the code keeps of an answer: its refresh token, or else the old one.
\* Mutant: the old refresh token is kept in any case.
KeptRefresh_Old(old, new) == old
KeptRefresh(old, new) == IF new # NoRefresh THEN new ELSE old

\* RefreshToken: Google takes a live refresh token, and uses it up if it
\* answers with a new one.  The new access token is of the same account.
RefreshToken(c) ==
    LET old == call[c].row.refresh
        row(new) == [account |-> grant[old].owner, expired |-> FALSE,
                     refresh |-> KeptRefresh(old, new)] IN
    /\ call[c].pc = "refresh"
    /\ Live(old)
    /\ \/ /\ ~env.rotates
          /\ call' = [call EXCEPT ![c].pc = "save", ![c].spent = old,
                        ![c].row = row(NoRefresh)]
          /\ UNCHANGED grant
       \/ /\ env.rotates
          /\ \E t \in RefreshTokens :
               /\ grant[t].state = "unissued"
               /\ grant' = [grant EXCEPT ![t] = Issue(grant[old].owner),
                                         ![old].state = "used"]
               /\ call' = [call EXCEPT ![c].pc = "save", ![c].spent = old,
                             ![c].row = row(t)]
    /\ UNCHANGED <<env, flows, users, tokens, stateCookie, session, login>>

\* Google has taken the token, but its answer does not arrive; the retries of
\* the same token are refused.
RefreshLost(c) ==
    LET old == call[c].row.refresh IN
    /\ call[c].pc = "refresh"
    /\ Live(old)
    /\ env.rotates
    /\ grant' = [grant EXCEPT ![old].state = "lost"]
    /\ call' = [call EXCEPT ![c] = NoCall]
    /\ UNCHANGED <<env, flows, users, tokens, stateCookie, session, login>>

SaveRefreshed(c) ==
    /\ call[c].pc = "save"
    /\ SaveTokens(call[c].user, call[c].row)
    /\ call' = [call EXCEPT ![c].pc = "use", ![c].spent = NoRefresh]
    /\ UNCHANGED <<env, flows, grant, users, stateCookie, session, login>>

\* The statement fails or the process stops: the new tokens are lost.
SaveRefreshedFails(c) ==
    LET old == call[c].spent IN
    /\ call[c].pc = "save"
    /\ grant' = IF old # call[c].row.refresh
                THEN [grant EXCEPT ![old].state = "lost"] ELSE grant
    /\ call' = [call EXCEPT ![c] = NoCall]
    /\ UNCHANGED <<env, flows, users, tokens, stateCookie, session, login>>

\* The picker answers 401 or 403: the call refreshes once more, with the
\* refresh token it holds and without reading the row again.
Denied(c) ==
    /\ call[c].pc = "use"
    /\ ~call[c].again
    /\ call[c].row.refresh # NoRefresh
    /\ call' = [call EXCEPT ![c].pc = "refresh", ![c].again = TRUE]
    /\ UNCHANGED <<env, flows, grant, users, tokens, stateCookie, session, login>>

\* The call has its answer, or it has failed.
EndCall(c) ==
    /\ call[c].pc \in {"read", "refresh", "use"}
    /\ call' = [call EXCEPT ![c] = NoCall]
    /\ UNCHANGED <<env, flows, grant, users, tokens, stateCookie, session, login>>

-----------------------------------------------------------------------------
(* Time: an access token runs out. *)

Expire(u) ==
    /\ tokens[u] # NoRow
    /\ ~tokens[u].expired
    /\ tokens' = [tokens EXCEPT ![u].expired = TRUE]
    /\ UNCHANGED <<env, flows, grant, users, stateCookie, session, login, call>>

LoginStep(h) ==
    \/ \E b \in Browsers : DevLogin(h, b)
    \/ \E b \in Browsers, f \in Flows : Callback(h, b, f)
    \/ ExchangeCode(h) \/ LookUpUser(h) \/ InsertUser(h)
    \/ SaveLogin(h) \/ AnswerLogin(h) \/ FailLogin(h)

CallStep(c) ==
    \/ \E b \in Browsers : StartCall(c, b)
    \/ GetTokens(c) \/ RefreshToken(c) \/ RefreshLost(c)
    \/ SaveRefreshed(c) \/ SaveRefreshedFails(c) \/ Denied(c) \/ EndCall(c)

World ==
    \/ \E b \in Browsers : BeginLogin(b) \/ Logout(b)
    \/ \E f \in Flows, a \in Accounts : Consent(f, a)
    \/ \E u \in UserIds : Expire(u)

Next ==
    \/ \E h \in Logins : LoginStep(h)
    \/ \E c \in Calls : CallStep(c)
    \/ World

Spec == Init /\ [][Next]_vars

-----------------------------------------------------------------------------
(* Properties. *)

\* However first logins of an account race between the two statements of
\* UpsertUser, an account has one user and a user one account.
OneUserPerAccount ==
    \A r, s \in users : r.id = s.id <=> r.account = s.account

\* The access and the refresh token stored for a user, and the ones a call of
\* that user works with, were granted by the user's own account, also when
\* logins to several accounts run in one browser.
OfUser(u, row) ==
    \E r \in users :
       /\ r.id = u
       /\ r.account = row.account
       /\ row.refresh \in RefreshTokens => grant[row.refresh].owner = row.account
OwnTokens ==
    /\ \A u \in UserIds : tokens[u] # NoRow => OfUser(u, tokens[u])
    /\ \A c \in Calls : call[c].pc \in {"refresh", "save", "use"} =>
         OfUser(call[c].user, call[c].row)

\* Logging in again never leaves a user without a refresh token, nor does a
\* refresh that answers without one: the stored one is never empty.
RowRefreshable ==
    \A u \in UserIds : tokens[u] # NoRow => tokens[u].refresh # NoRefresh

\* The refresh token stored for a user is one Google takes, unless its
\* successor was lost on the way; it is used up only while the call that used
\* it is about to save the successor.  Neither concurrent refreshes nor a login
\* between a call's read and its save leave a dead token behind.
RowUsable ==
    \A u \in UserIds :
       LET t == tokens[u].refresh IN
       t \in RefreshTokens =>
          \/ grant[t].state \in {"live", "lost"}
          \/ \E c \in Calls : /\ call[c].pc = "save"
                              /\ call[c].user = u
                              /\ call[c].spent = t

\* A browser is logged in as the user of an account that consented to a login
\* begun in this browser, whatever callbacks are opened in which browser and
\* in which order they end.
OwnFlow(b, a) ==
    \/ \E f \in Flows : flows[f].browser = b /\ flows[f].account = a
    \/ ~env.oauth /\ a = DevAccount
SessionFromOwnFlow ==
    \A b \in Browsers : session[b] # NoUser =>
       \E r \in users : r.id = session[b] /\ OwnFlow(b, r.account)

\* Who is logged in has a row of tokens, so a call never ends at GetTokens for
\* want of one.
SessionHasTokens ==
    /\ \A b \in Browsers : session[b] # NoUser => tokens[session[b]] # NoRow
    /\ \A c \in Calls : call[c].pc # "idle" => tokens[call[c].user] # NoRow

=============================================================================
