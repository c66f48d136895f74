------------------------------ MODULE Session ------------------------------
(***************************************************************************)
(* Signing in: auth/AuthProvider.tsx and api/client.ts in the tabs of one  *)
(* browser, which share one stored token, and the endpoints behind them    *)
(* (api/auth.py, api/users.py).                                            *)
(*                                                                         *)
(* Every call takes the token that is stored when it is made and is        *)
(* answered later: sent, handled by the server, answered in the tab.  A    *)
(* call survives the page that made it, and dies with the document.  A     *)
(* tab has at most one call of a kind in the air.                          *)
(***************************************************************************)
EXTENDS Naturals, Sequences, FiniteSets

CONSTANTS
    Tab,        \* tabs of the browser
    User,       \* accounts there may be
    NoUser,     \* "nobody is signed in"
    Change,     \* what admins do to users: "delete", or give a role
    Invited,    \* roles people are invited with
    MaxTokens,  \* bound: how many tokens are issued
    MaxOpen     \* bound: how many calls are in the air when one is made

ASSUME SessionAssumption ==
    /\ NoUser \notin User
    /\ Change \subseteq {"admin", "viewer", "delete"}
    /\ Invited \subseteq {"admin", "viewer"}
    /\ MaxTokens \in Nat
    /\ MaxOpen \in Nat

VARIABLES
    role,     \* users: each account's role, or that there is no row yet, or that
              \* it is deleted; an id is not used again
    owner,    \* the account each token was issued to; tokens are its indices
    revoked,  \* auth/jwt.py: tokens that have been signed out
    stored,   \* localStorage: the token every tab sends
    tab,      \* what each tab shows and holds
    call      \* the calls of each tab, by kind

vars == <<role, owner, revoked, stored, tab, call>>

Role == {"admin", "viewer"}
NoToken == 0
Token == 1 .. MaxTokens

\* "app": the pages behind ProtectedRoute, the dashboard and the settings among
\* them.
Page == {"closed", "login", "setup", "app"}

TabType == [page : Page, user : User \cup {NoUser}, admin : BOOLEAN,
            loading : BOOLEAN,
            held : Token \cup {NoToken},  \* history: the token this document
                                          \* has last found or put in the storage
            raced : BOOLEAN]  \* history: it signed in while /auth/me was open

\* "me": GET /auth/me.  "sign": POST /auth/login or /auth/setup.  "out": POST
\* /auth/logout.  "work": any query or mutation of a page.
Kind == {"me", "sign", "out", "work"}
Call == [state : {"none", "sent", "counted", "ok", "refused"},
         token : Token \cup {NoToken},  \* sent, and for "sign" the answer's
         who : User \cup {NoUser},      \* for whom, or in "work" on whom
         what : {"-", "setup", "read", "delete"} \cup Role]
NoCall == [state |-> "none", token |-> NoToken, who |-> NoUser, what |-> "-"]
Idle == [k \in Kind |-> NoCall]

Exists(u) == role[u] \in Role

Open(t, k) == call[t][k].state # "none"
OpenCalls == {c \in Tab \X Kind : Open(c[1], c[2])}
CallsOfOthers(t) == {c \in OpenCalls : c[1] # t}

SessionTypeOK ==
    /\ role \in [User -> Role \cup {"none", "deleted"}]
    /\ Len(owner) <= MaxTokens
    /\ \A k \in 1 .. Len(owner) : owner[k] \in User
    /\ revoked \subseteq 1 .. Len(owner)
    /\ stored \in 0 .. Len(owner)
    /\ tab \in [Tab -> TabType]
    /\ call \in [Tab -> [Kind -> Call]]

Closed == [page |-> "closed", user |-> NoUser, admin |-> FALSE, loading |-> FALSE,
           held |-> NoToken, raced |-> FALSE]

Init ==
    /\ role = [u \in User |-> "none"]
    /\ owner = <<>>
    /\ revoked = {}
    /\ stored = NoToken
    /\ tab = [t \in Tab |-> Closed]
    /\ call = [t \in Tab |-> Idle]

-----------------------------------------------------------------------------
(* Documents and routes.                                                   *)

\* ProtectedRoute sends a document that shows nobody to the sign-in page, but
\* not while it is loading.
Settle(d) ==
    IF d.page = "app" /\ ~d.loading /\ d.user = NoUser
    THEN [d EXCEPT !.page = "login"]
    ELSE d

\* A new document: with a token in the storage AuthProvider asks who it is.
Loaded(page, token) ==
    Settle([page |-> page, user |-> NoUser, admin |-> FALSE,
            loading |-> token # NoToken, held |-> token, raced |-> FALSE])
FirstCalls(token) ==
    IF token = NoToken THEN Idle
    ELSE [Idle EXCEPT !["me"] = [NoCall EXCEPT !.state = "sent", !.token = token]]

\* The user opens or reloads a tab at an address.
Load(t, page) ==
    /\ Cardinality(CallsOfOthers(t)) < MaxOpen
    /\ tab' = [tab EXCEPT ![t] = Loaded(page, stored)]
    /\ call' = [call EXCEPT ![t] = FirstCalls(stored)]
    /\ UNCHANGED <<role, owner, revoked, stored>>

\* Links, and the browser's way back and forth between routes.
Navigate(t, page) ==
    /\ tab[t].page # "closed"
    /\ tab' = [tab EXCEPT ![t] = Settle([tab[t] EXCEPT !.page = page])]
    /\ UNCHANGED <<role, owner, revoked, stored, call>>

-----------------------------------------------------------------------------
(* Making calls.                                                           *)

Send(t, k, who, what) ==
    /\ ~Open(t, k)
    /\ Cardinality(OpenCalls) < MaxOpen
    /\ call' = [call EXCEPT ![t][k] =
           [state |-> "sent", token |-> stored, who |-> who, what |-> what]]
    /\ UNCHANGED <<role, owner, revoked, stored, tab>>

SubmitLogin(t, u) == tab[t].page = "login" /\ Send(t, "sign", u, "-")
SubmitSetup(t, u) == tab[t].page = "setup" /\ Send(t, "sign", u, "setup")

\* The user menu is on every page of AppShell.
Showing(t) == tab[t].page = "app" /\ tab[t].user # NoUser

ClickSignOut(t) == Showing(t) /\ Send(t, "out", NoUser, "-")
Query(t) == Showing(t) /\ Send(t, "work", NoUser, "read")

\* The table of users is on the Settings page of an admin.
ChangeUser(t, u, what) ==
    /\ Showing(t)
    /\ tab[t].admin
    /\ Send(t, "work", u, what)

-----------------------------------------------------------------------------
(* The server.                                                             *)

Answer(t, k, state) == call' = [call EXCEPT ![t][k].state = state]

\* The call is over, with an error the page shows or with nothing to do.
Over(t, k) == call' = [call EXCEPT ![t][k] = NoCall]

\* A call that never gets there, or whose answer gets lost.  The question who
\* is signed in is the only one to mind: MeFails.
Lost(t, k) ==
    /\ k # "me"
    /\ call[t][k].state \in {"sent", "counted", "ok"}
    /\ Over(t, k)
    /\ UNCHANGED <<role, owner, revoked, stored, tab>>

\* auth/deps.py: current_user.
Accepted(k) == k # NoToken /\ k \notin revoked /\ Exists(owner[k])

ServeMe(t) ==
    /\ call[t]["me"].state = "sent"
    /\ IF Accepted(call[t]["me"].token)
       THEN call' = [call EXCEPT ![t]["me"] =
                [@ EXCEPT !.state = "ok", !.who = owner[call[t]["me"].token],
                          !.what = role[owner[call[t]["me"].token]]]]
       ELSE Answer(t, "me", "refused")
    /\ UNCHANGED <<role, owner, revoked, stored, tab>>

\* A token for u, and what the answer says of u.
Issue(t, u, r) ==
    /\ Len(owner) < MaxTokens
    /\ owner' = Append(owner, u)
    /\ call' = [call EXCEPT ![t]["sign"] =
           [state |-> "ok", token |-> Len(owner) + 1, who |-> u, what |-> r]]

ServeLogin(t) ==
    /\ call[t]["sign"].state = "sent"
    /\ call[t]["sign"].what = "-"
    /\ \/ /\ Exists(call[t]["sign"].who)
          /\ Issue(t, call[t]["sign"].who, role[call[t]["sign"].who])
       \/ /\ Answer(t, "sign", "refused")   \* no such account, wrong password
          /\ UNCHANGED owner
    /\ UNCHANGED <<role, revoked, stored, tab>>

\* POST /auth/setup counts the users and then, another statement, makes one.
CountUsers(t) ==
    /\ call[t]["sign"].state = "sent"
    /\ call[t]["sign"].what = "setup"
    /\ IF \E u \in User : Exists(u) THEN Over(t, "sign")
                                 ELSE Answer(t, "sign", "counted")
    /\ UNCHANGED <<role, owner, revoked, stored, tab>>

CreateAdmin(t) ==
    /\ call[t]["sign"].state = "counted"
    /\ role[call[t]["sign"].who] = "none"      \* or the email is taken: Lost
    /\ role' = [role EXCEPT ![call[t]["sign"].who] = "admin"]
    /\ Issue(t, call[t]["sign"].who, "admin")
    /\ UNCHANGED <<revoked, stored, tab>>

\* Without a token the header the endpoint demands is missing.
ServeLogout(t) ==
    /\ call[t]["out"].state = "sent"
    /\ IF call[t]["out"].token = NoToken
       THEN Over(t, "out") /\ UNCHANGED revoked
       ELSE Answer(t, "out", "ok") /\ revoked' = revoked \cup {call[t]["out"].token}
    /\ UNCHANGED <<role, owner, stored, tab>>

\* What an admin's request makes of the users; nobody deletes himself, and a
\* role is changed whoever's it is.
Changed(who, u, what) ==
    IF what = "read" \/ role[who] # "admin" \/ ~Exists(u)
       \/ (what = "delete" /\ who = u)
    THEN role
    ELSE [role EXCEPT ![u] = IF what = "delete" THEN "deleted" ELSE what]

ServeWork(t) ==
    LET c == call[t]["work"]
    IN  /\ c.state = "sent"
        /\ IF Accepted(c.token)
           THEN /\ Answer(t, "work", "ok")
                /\ role' = Changed(owner[c.token], c.who, c.what)
           ELSE Answer(t, "work", "refused") /\ UNCHANGED role
        /\ UNCHANGED <<owner, revoked, stored, tab>>

\* An invitation is accepted outside the dashboard, which has no page for it.
AcceptInvite(u, r) ==
    /\ role[u] = "none"
    /\ \E v \in User : Exists(v)
    /\ role' = [role EXCEPT ![u] = r]
    /\ UNCHANGED <<owner, revoked, stored, tab, call>>

-----------------------------------------------------------------------------
(* Answers in the tab.                                                     *)

Answered(t, k) ==
    /\ call[t][k].state = "ok"
    /\ Over(t, k)
    /\ UNCHANGED <<role, owner, revoked>>

\* api() forgets the token, whichever it was, and loads the sign-in page; what
\* may still be answered before the document has gone is left out.
Refused(t, k) ==
    /\ call[t][k].state = "refused"
    /\ stored' = NoToken
    /\ tab' = [tab EXCEPT ![t] = Loaded("login", NoToken)]
    /\ call' = [call EXCEPT ![t] = Idle]
    /\ UNCHANGED <<role, owner, revoked>>

MeAnswered(t) ==
    /\ Answered(t, "me")
    /\ tab' = [tab EXCEPT ![t].user = call[t]["me"].who,
                          ![t].admin = call[t]["me"].what = "admin",
                          ![t].loading = FALSE]
    /\ UNCHANGED stored

\* Any failure of the first question forgets the token, too.
MeFails(t) ==
    /\ call[t]["me"].state \in {"sent", "ok"}
    /\ Over(t, "me")
    /\ UNCHANGED <<role, owner, revoked>>
    /\ stored' = NoToken
    /\ tab' = [tab EXCEPT ![t] =
           Settle([@ EXCEPT !.loading = FALSE, !.held = NoToken])]

\* login and setup keep the token and the user, and go to the dashboard.
SignedIn(t) ==
    LET c == call[t]["sign"]
    IN  /\ Answered(t, "sign")
        /\ stored' = c.token
        /\ tab' = [tab EXCEPT ![t] =
               [page |-> "app", user |-> c.who, admin |-> c.what = "admin",
                loading |-> @.loading, held |-> c.token, raced |-> @.raced \/ Open(t, "me")]]

\* Fault: the token is left in the storage, only the user is forgotten.
SignedOutKeepingToken(t) ==
    /\ Answered(t, "out")
    /\ UNCHANGED stored
    /\ tab' = [tab EXCEPT ![t] =
           [page |-> "login", user |-> NoUser, admin |-> FALSE,
            loading |-> @.loading, held |-> @.held, raced |-> @.raced]]

SignedOut(t) ==
    /\ Answered(t, "out")
    /\ stored' = NoToken
    /\ tab' = [tab EXCEPT ![t] =
           [page |-> "login", user |-> NoUser, admin |-> FALSE,
            loading |-> @.loading, held |-> NoToken, raced |-> @.raced]]

\* An answer for a page, which is not modelled here.
WorkDone(t) ==
    /\ Answered(t, "work")
    /\ UNCHANGED <<stored, tab>>

-----------------------------------------------------------------------------
Next ==
    \/ \E t \in Tab :
          \/ \E page \in {"login", "setup", "app"} : Load(t, page)
          \/ \E page \in {"login", "app"} : Navigate(t, page)
          \/ \E u \in User : SubmitLogin(t, u) \/ SubmitSetup(t, u)
          \/ ClickSignOut(t)
          \/ Query(t)
          \/ \E u \in User, what \in Change : ChangeUser(t, u, what)
          \/ \E k \in Kind : Lost(t, k)
          \/ ServeMe(t)
          \/ ServeLogin(t)
          \/ CountUsers(t)
          \/ CreateAdmin(t)
          \/ ServeLogout(t)
          \/ ServeWork(t)
          \/ \E k \in Kind : Refused(t, k)
          \/ MeAnswered(t)
          \/ MeFails(t)
          \/ SignedIn(t)
          \/ SignedOut(t)
          \/ WorkDone(t)
    \/ \E u \in User, r \in Invited : AcceptInvite(u, r)

Spec == Init /\ [][Next]_vars
-----------------------------------------------------------------------------
(* A tab shows the account its calls are made for: once it has loaded, and *)
(* unless another tab has put something else in the storage since, it      *)
(* shows nobody when no token is stored, and otherwise the account the     *)
(* token was issued to - however late sign-ins, sign-outs and refusals of  *)
(* earlier calls are answered.  Not so if somebody signs in while the      *)
(* document is still asking who is signed in: that answer comes last.      *)
SignedInTogether ==
    \A t \in Tab :
        /\ tab[t].page # "closed"
        /\ ~tab[t].loading
        /\ ~tab[t].raced
        /\ stored = tab[t].held
        =>
        IF stored = NoToken THEN tab[t].user = NoUser
        ELSE tab[t].user = owner[stored]
=============================================================================
