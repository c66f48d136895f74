---------------------------- MODULE SessionProofs ----------------------------
(***************************************************************************)
(* Proofs about Session, for any number of tabs, accounts, tokens and      *)
(* calls: a loaded tab shows the account its calls are made for.           *)
(*                                                                         *)
(* SignedInTogether speaks of the token that is stored, which any tab may  *)
(* replace at any time.  The invariant behind it (Told) compares what a    *)
(* tab shows with the token the tab itself has found or put there.  It     *)
(* needs to know that the first question of a document was asked with that *)
(* token, that nobody can sign out of a document that is still asking, and *)
(* that the answer to a sign-in names the account of its token.            *)
(***************************************************************************)
EXTENDS Session, TLAPS, SequenceTheorems

Changes == {"read", "delete"} \cup Role

\* d is a document, c its calls, o the owners of the tokens.
Told(d, c, o) ==
    IF d.loading
    THEN /\ d.user = NoUser
         /\ d.held # NoToken
         /\ c["me"].token = d.held
         /\ c["me"].state = "ok" => c["me"].who = o[d.held]
         /\ c["out"].state = "none"
    ELSE IF d.held = NoToken THEN d.user = NoUser ELSE d.user = o[d.held]

TabInv(d, c, o) ==
    /\ d.held \in 0 .. Len(o)
    /\ \A k \in Kind : c[k].token \in 0 .. Len(o)
    /\ d.loading <=> c["me"].state # "none"
    /\ c["sign"].state \in {"sent", "counted"} => c["sign"].who \in User
    /\ c["sign"].state = "ok" =>
          c["sign"].token # NoToken /\ o[c["sign"].token] = c["sign"].who
    /\ c["work"].state = "sent" => c["work"].what \in Changes
    /\ ~d.raced => Told(d, c, o)

ServerTypes ==
    /\ role \in [User -> Role \cup {"none", "deleted"}]
    /\ owner \in Seq(User) /\ Len(owner) <= MaxTokens
    /\ revoked \subseteq 1 .. Len(owner)
    /\ stored \in 0 .. Len(owner)

TabTypes ==
    /\ tab \in [Tab -> TabType]
    /\ call \in [Tab -> [Kind -> Call]]

SessionInv ==
    /\ ServerTypes
    /\ TabTypes
    /\ \A t \in Tab : TabInv(tab[t], call[t], owner)

-----------------------------------------------------------------------------
LEMMA IdleCalls ==
    /\ NoCall \in Call /\ NoCall.state = "none" /\ NoCall.token = NoToken
    /\ Idle \in [Kind -> Call]
    /\ \A k \in Kind : Idle[k] = NoCall
BY DEF NoCall, Call, Idle, Kind, NoToken

LEMMA ShortOwners ==
    ASSUME ServerTypes
    PROVE  /\ Len(owner) \in Nat
           /\ \A k \in 0 .. Len(owner) : k \in Token \cup {NoToken}
           /\ \A k \in 0 .. Len(owner) : k # NoToken => owner[k] \in User
<1>1. Len(owner) \in Nat /\ Len(owner) <= MaxTokens /\ MaxTokens \in Nat
  BY SessionAssumption, LenProperties DEF ServerTypes
<1>2. \A k \in 1 .. Len(owner) : owner[k] \in User
  BY ElementOfSeq DEF ServerTypes
<1>. QED BY <1>1, <1>2 DEF Token, NoToken

\* Being sent to the sign-in page changes nothing but the page.
LEMMA Settled ==
    ASSUME NEW d \in TabType
    PROVE  /\ Settle(d) \in TabType
           /\ Settle(d).user = d.user /\ Settle(d).held = d.held
           /\ Settle(d).loading <=> d.loading
           /\ Settle(d).raced <=> d.raced
<1>. DEFINE e == [d EXCEPT !.page = "login"]
<1>1. e \in TabType
  BY DEF TabType, Page
<1>2. e.user = d.user /\ e.held = d.held
  BY DEF TabType
<1>3. e.loading = d.loading /\ e.raced = d.raced
  BY DEF TabType
<1>4. Settle(d) = d \/ Settle(d) = e
  BY DEF Settle
<1>. HIDE DEF e
<1>5. CASE Settle(d) = d
  BY <1>5
<1>6. CASE Settle(d) = e
  BY <1>1, <1>2, <1>3, <1>6
<1>. QED BY <1>4, <1>5, <1>6

LEMMA LoadedInv ==
    ASSUME ServerTypes, NEW k \in 0 .. Len(owner), NEW page \in Page
    PROVE  /\ Loaded(page, k) \in TabType
           /\ FirstCalls(k) \in [Kind -> Call]
           /\ TabInv(Loaded(page, k), FirstCalls(k), owner)
<1>. DEFINE d == [page |-> page, user |-> NoUser, admin |-> FALSE,
                  loading |-> k # NoToken, held |-> k, raced |-> FALSE]
            me == [NoCall EXCEPT !.state = "sent", !.token = k]
<1>1. k \in Token \cup {NoToken}
  BY ShortOwners
<1>2. d \in TabType
  BY <1>1 DEF TabType
<1>3. Loaded(page, k) = Settle(d)
  BY DEF Loaded
<1>4. d.user = NoUser /\ d.held = k /\ ~d.raced /\ (d.loading <=> k # NoToken)
  OBVIOUS
<1>5. LET f == Loaded(page, k)
      IN  /\ f \in TabType /\ f.user = NoUser /\ f.held = k /\ ~f.raced
          /\ f.loading <=> k # NoToken
  BY <1>2, <1>3, <1>4, Settled
<1>6. me \in Call /\ me.state = "sent" /\ me.token = k
  BY <1>1 DEF NoCall, Call
<1>7. FirstCalls(k) = IF k = NoToken THEN Idle ELSE [Idle EXCEPT !["me"] = me]
  BY DEF FirstCalls
<1>. HIDE DEF d, me
<1>8. FirstCalls(k) \in [Kind -> Call]
  BY <1>6, <1>7, IdleCalls
<1>9. /\ \A j \in Kind : j # "me" => FirstCalls(k)[j] = NoCall
      /\ FirstCalls(k)["me"] = IF k = NoToken THEN NoCall ELSE me
  BY <1>7, IdleCalls DEF Kind
<1>10. 0 \in 0 .. Len(owner)
  BY ShortOwners
<1>11. \A j \in Kind : FirstCalls(k)[j].token \in 0 .. Len(owner)
  BY <1>6, <1>9, <1>10, IdleCalls DEF NoToken
<1>12. /\ FirstCalls(k)["sign"] = NoCall /\ FirstCalls(k)["out"] = NoCall
       /\ FirstCalls(k)["work"] = NoCall
  BY <1>9 DEF Kind
<1>13. FirstCalls(k)["me"].state = IF k = NoToken THEN "none" ELSE "sent"
  BY <1>6, <1>9, IdleCalls
<1>14. k # NoToken => FirstCalls(k)["me"].token = k
  BY <1>6, <1>9
<1>15. Told(Loaded(page, k), FirstCalls(k), owner)
  BY <1>5, <1>12, <1>13, <1>14, IdleCalls DEF Told
<1>16. TabInv(Loaded(page, k), FirstCalls(k), owner)
  BY <1>5, <1>11, <1>12, <1>13, <1>15, IdleCalls DEF TabInv
<1>. QED BY <1>5, <1>8, <1>16

\* A token more takes nothing away from the others.
LEMMA MoreOwners ==
    ASSUME ServerTypes, NEW u \in User, NEW d \in TabType, NEW c \in [Kind -> Call],
           TabInv(d, c, owner)
    PROVE  TabInv(d, c, Append(owner, u))
<1>1. /\ Len(owner) \in Nat /\ Len(Append(owner, u)) = Len(owner) + 1
      /\ \A k \in 1 .. Len(owner) : Append(owner, u)[k] = owner[k]
  BY AppendProperties, LenProperties DEF ServerTypes
<1>2. \A k \in 0 .. Len(owner) :
         /\ k \in 0 .. Len(Append(owner, u))
         /\ k # NoToken => Append(owner, u)[k] = owner[k]
  BY <1>1 DEF NoToken
<1>. HIDE DEF NoToken
<1>. QED BY <1>2 DEF TabInv, Told, Kind

\* What a step does to one tab.
LEMMA OneTab ==
    ASSUME SessionInv, ServerTypes', NEW t \in Tab,
           owner' = owner \/ \E u \in User : owner' = Append(owner, u),
           NEW d \in TabType, NEW c \in [Kind -> Call],
           tab' = [tab EXCEPT ![t] = d], call' = [call EXCEPT ![t] = c],
           TabInv(d, c, owner')
    PROVE  SessionInv'
<1>1. TabTypes'
  BY DEF SessionInv, TabTypes
<1>2. \A x \in Tab : TabInv(tab'[x], call'[x], owner')
  <2>. SUFFICES ASSUME NEW x \in Tab, x # t PROVE TabInv(tab'[x], call'[x], owner')
    BY DEF SessionInv, TabTypes
  <2>1. tab'[x] = tab[x] /\ call'[x] = call[x]
    BY DEF SessionInv, TabTypes
  <2>2. tab[x] \in TabType /\ call[x] \in [Kind -> Call] /\ TabInv(tab[x], call[x], owner)
    BY DEF SessionInv, TabTypes
  <2>. QED BY <2>1, <2>2, MoreOwners DEF SessionInv
<1>. QED BY <1>1, <1>2 DEF SessionInv

-----------------------------------------------------------------------------
(* Calls.                                                                  *)

\* What a call may become without upsetting its tab; the first question is
\* another matter.
Fits(t, k, x, o) ==
    /\ x \in Call /\ x.token \in 0 .. Len(o)
    /\ k = "sign" /\ x.state \in {"sent", "counted"} => x.who \in User
    /\ k = "sign" /\ x.state = "ok" => x.token # NoToken /\ o[x.token] = x.who
    /\ k = "work" /\ x.state = "sent" => x.what \in Changes
    /\ k = "out" /\ x.state # "none" => ~tab[t].loading \/ tab[t].raced

LEMMA ChangeCall ==
    ASSUME TabTypes, NEW t \in Tab, NEW k \in Kind \ {"me"}, NEW o, NEW x,
           TabInv(tab[t], call[t], o), Fits(t, k, x, o)
    PROVE  /\ [call[t] EXCEPT ![k] = x] \in [Kind -> Call]
           /\ TabInv(tab[t], [call[t] EXCEPT ![k] = x], o)
<1>. DEFINE c == [call[t] EXCEPT ![k] = x]
<1>1. call[t] \in [Kind -> Call] /\ x \in Call
  BY DEF TabTypes, Fits
<1>2. c \in [Kind -> Call] /\ \A j \in Kind : c[j] = IF j = k THEN x ELSE call[t][j]
  BY <1>1
<1>. HIDE DEF c
<1>3. \A j \in Kind : c[j].token \in 0 .. Len(o)
  BY <1>2 DEF TabInv, Fits
<1>4. c["me"] = call[t]["me"]
  BY <1>2 DEF Kind
<1>5. /\ c["sign"].state \in {"sent", "counted"} => c["sign"].who \in User
      /\ c["sign"].state = "ok" =>
            c["sign"].token # NoToken /\ o[c["sign"].token] = c["sign"].who
      /\ c["work"].state = "sent" => c["work"].what \in Changes
  BY <1>2 DEF Kind, TabInv, Fits
<1>6. ~tab[t].raced => Told(tab[t], c, o)
  <2>. SUFFICES ASSUME ~tab[t].raced PROVE Told(tab[t], c, o)
    OBVIOUS
  <2>1. Told(tab[t], call[t], o)
    BY DEF TabInv
  <2>2. tab[t].loading => c["out"].state = "none"
    BY <1>2, <2>1 DEF Told, Fits, Kind
  <2>. QED BY <1>4, <2>1, <2>2 DEF Told
<1>7. TabInv(tab[t], c, o)
  BY <1>3, <1>4, <1>5, <1>6 DEF TabInv
<1>. QED BY <1>2, <1>7 DEF c

LEMMA SetCall ==
    ASSUME SessionInv, ServerTypes', UNCHANGED <<owner, tab>>,
           NEW t \in Tab, NEW k \in Kind \ {"me"}, NEW x, Fits(t, k, x, owner),
           call' = [call EXCEPT ![t][k] = x]
    PROVE  SessionInv'
<1>. DEFINE c == [call[t] EXCEPT ![k] = x]
<1>1. c \in [Kind -> Call] /\ TabInv(tab[t], c, owner)
  BY ChangeCall DEF SessionInv
<1>2. call' = [call EXCEPT ![t] = c]
  BY DEF SessionInv, TabTypes
<1>. HIDE DEF c
<1>3. tab[t] \in TabType /\ tab' = [tab EXCEPT ![t] = tab[t]]
  BY DEF SessionInv, TabTypes
<1>. QED BY <1>1, <1>2, <1>3, OneTab DEF SessionInv

\* A call that is over always fits.
LEMMA OverFits ==
    ASSUME NEW t, NEW k, NEW o, Len(o) \in Nat
    PROVE  Fits(t, k, NoCall, o)
BY IdleCalls DEF Fits, NoToken, NoCall

\* A call that goes on with the same token, and as a sign-in not to "ok".
LEMMA AnswerInv ==
    ASSUME SessionInv, ServerTypes', UNCHANGED <<owner, tab>>,
           NEW t \in Tab, NEW k \in Kind \ {"me"}, Open(t, k),
           NEW state \in {"counted", "ok", "refused"}, Answer(t, k, state),
           k = "sign" => state # "ok" /\ (state = "counted" => call[t][k].state = "sent")
    PROVE  SessionInv'
<1>. DEFINE x == [call[t][k] EXCEPT !.state = state]
<1>1. call[t][k] \in Call
  BY DEF SessionInv, TabTypes
<1>2. x \in Call /\ x.state = state /\ x.token = call[t][k].token /\ x.who = call[t][k].who
  BY <1>1 DEF Call
<1>3. call' = [call EXCEPT ![t][k] = x]
  BY DEF Answer, SessionInv, TabTypes
<1>. HIDE DEF x
<1>4. TabInv(tab[t], call[t], owner)
  BY DEF SessionInv
<1>5. x.token \in 0 .. Len(owner)
  BY <1>2, <1>4 DEF TabInv
<1>6. k = "sign" => x.state # "ok" /\ (x.state \in {"sent", "counted"} => x.who \in User)
  BY <1>2, <1>4 DEF TabInv
<1>7. k = "out" => ~tab[t].loading \/ tab[t].raced
  BY <1>4 DEF TabInv, Told, Open
<1>8. Fits(t, k, x, owner)
  BY <1>2, <1>5, <1>6, <1>7 DEF Fits
<1>. QED BY <1>3, <1>8, SetCall

LEMMA SendInv ==
    ASSUME SessionInv, NEW t \in Tab, NEW k \in Kind \ {"me"},
           NEW who \in User \cup {NoUser}, NEW what \in {"-", "setup"} \cup Changes,
           k = "sign" => who \in User,
           k = "work" => what \in Changes,
           k = "out" => tab[t].user # NoUser,
           Send(t, k, who, what)
    PROVE  SessionInv'
<1>. DEFINE x == [state |-> "sent", token |-> stored, who |-> who, what |-> what]
<1>1. /\ UNCHANGED <<role, owner, revoked, stored, tab>>
      /\ call' = [call EXCEPT ![t][k] = x]
  BY DEF Send
<1>2. stored \in 0 .. Len(owner) /\ stored \in Token \cup {NoToken}
  BY ShortOwners DEF SessionInv, ServerTypes
<1>3. x \in Call
  BY <1>2 DEF Call, Changes
<1>4. TabInv(tab[t], call[t], owner)
  BY DEF SessionInv
<1>5. k = "out" => ~tab[t].loading \/ tab[t].raced
  BY <1>4 DEF TabInv, Told
<1>6. Fits(t, k, x, owner)
  BY <1>2, <1>3, <1>5 DEF Fits
<1>. HIDE DEF x
<1>7. ServerTypes'
  BY <1>1 DEF SessionInv, ServerTypes
<1>. QED BY <1>1, <1>6, <1>7, SetCall

LEMMA UserCalls ==
    ASSUME SessionInv, NEW t \in Tab,
           \/ \E u \in User : SubmitLogin(t, u) \/ SubmitSetup(t, u)
           \/ ClickSignOut(t) \/ Query(t)
           \/ \E u \in User, what \in Change : ChangeUser(t, u, what)
    PROVE  SessionInv'
<1>1. CASE \E u \in User : SubmitLogin(t, u) \/ SubmitSetup(t, u)
  BY <1>1, SendInv DEF SubmitLogin, SubmitSetup, Kind
<1>2. CASE ClickSignOut(t)
  BY <1>2, SendInv DEF ClickSignOut, Showing, Kind
<1>3. CASE Query(t)
  BY <1>3, SendInv DEF Query, Kind, Changes
<1>4. CASE \E u \in User, what \in Change : ChangeUser(t, u, what)
  <2>1. Change \subseteq Changes
    BY SessionAssumption DEF Changes, Role
  <2>. QED BY <1>4, <2>1, SendInv DEF ChangeUser, Kind
<1>. QED BY <1>1, <1>2, <1>3, <1>4

LEMMA LostInv ==
    ASSUME SessionInv, NEW t \in Tab, NEW k \in Kind, Lost(t, k)
    PROVE  SessionInv'
<1>1. /\ k \in Kind \ {"me"} /\ UNCHANGED <<role, owner, revoked, stored, tab>>
      /\ call' = [call EXCEPT ![t][k] = NoCall]
  BY DEF Lost, Over
<1>2. ServerTypes' /\ Len(owner) \in Nat
  BY <1>1, ShortOwners DEF SessionInv, ServerTypes
<1>. QED BY <1>1, <1>2, OverFits, SetCall

-----------------------------------------------------------------------------
(* The server.                                                             *)

LEMMA AcceptedToken ==
    ASSUME ServerTypes, NEW k \in 0 .. Len(owner), Accepted(k)
    PROVE  k # NoToken /\ owner[k] \in User /\ role[owner[k]] \in Role
BY ShortOwners DEF Accepted, Exists

LEMMA ServeMeInv ==
    ASSUME SessionInv, NEW t \in Tab, ServeMe(t)
    PROVE  SessionInv'
<1>. DEFINE old == call[t]["me"]
<1>1. UNCHANGED <<role, owner, revoked, stored, tab>> /\ old.state = "sent"
  BY DEF ServeMe
<1>2. /\ old \in Call /\ old.token \in 0 .. Len(owner) /\ TabInv(tab[t], call[t], owner)
      /\ call \in [Tab -> [Kind -> Call]] /\ tab[t] \in TabType
  BY DEF SessionInv, TabTypes, TabInv, Kind
<1>3. PICK x \in Call : /\ call' = [call EXCEPT ![t]["me"] = x]
                        /\ x.token = old.token /\ x.state \in {"ok", "refused"}
                        /\ x.state = "ok" => x.who = owner[old.token]
  <2>1. CASE Accepted(old.token)
    <3>. DEFINE u == owner[old.token]
                x == [old EXCEPT !.state = "ok", !.who = u, !.what = role[u]]
    <3>1. u \in User /\ role[u] \in Role
      BY <1>2, <2>1, AcceptedToken DEF SessionInv
    <3>2. call' = [call EXCEPT ![t]["me"] = x]
      BY <1>2, <2>1 DEF ServeMe
    <3>. HIDE DEF u
    <3>3. x \in Call /\ x.token = old.token /\ x.state = "ok" /\ x.who = u
      BY <1>2, <3>1 DEF Call, Role
    <3>. QED BY <3>2, <3>3 DEF u
  <2>2. CASE ~Accepted(old.token)
    <3>. DEFINE x == [old EXCEPT !.state = "refused"]
    <3>1. call' = [call EXCEPT ![t]["me"] = x]
      BY <1>2, <2>2 DEF ServeMe, Answer
    <3>2. x \in Call /\ x.token = old.token /\ x.state = "refused"
      BY <1>2 DEF Call
    <3>. QED BY <3>1, <3>2
  <2>. QED BY <2>1, <2>2
<1>. DEFINE c == [call[t] EXCEPT !["me"] = x]
<1>4. call' = [call EXCEPT ![t] = c]
  BY <1>2, <1>3
<1>5. /\ c \in [Kind -> Call] /\ c["me"] = x
      /\ \A k \in Kind \ {"me"} : c[k] = call[t][k]
  BY <1>2 DEF Kind
<1>6. c["sign"] = call[t]["sign"] /\ c["out"] = call[t]["out"] /\ c["work"] = call[t]["work"]
  BY <1>5 DEF Kind
<1>. HIDE DEF c
<1>7. \A k \in Kind : c[k].token \in 0 .. Len(owner)
  BY <1>2, <1>3, <1>5 DEF TabInv
<1>8. ~tab[t].raced => Told(tab[t], c, owner)
  <2>. SUFFICES ASSUME ~tab[t].raced PROVE Told(tab[t], c, owner)
    OBVIOUS
  <2>1. Told(tab[t], call[t], owner) /\ tab[t].loading
    BY <1>1, <1>2 DEF TabInv
  <2>. QED BY <1>3, <1>5, <1>6, <2>1 DEF Told
<1>9. TabInv(tab[t], c, owner)
  BY <1>1, <1>2, <1>3, <1>5, <1>6, <1>7, <1>8 DEF TabInv
<1>10. ServerTypes'
  BY <1>1 DEF SessionInv, ServerTypes
<1>11. tab' = [tab EXCEPT ![t] = tab[t]]
  BY <1>1 DEF SessionInv, TabTypes
<1>. QED BY <1>1, <1>2, <1>4, <1>5, <1>9, <1>10, <1>11, OneTab

\* A token is issued to the account the answer names.
LEMMA IssueInv ==
    ASSUME SessionInv, NEW t \in Tab, NEW u \in User, NEW r \in Role, Issue(t, u, r),
           UNCHANGED <<revoked, stored, tab>>,
           role' \in [User -> Role \cup {"none", "deleted"}]
    PROVE  SessionInv'
<1>. DEFINE x == [state |-> "ok", token |-> Len(owner) + 1, who |-> u, what |-> r]
            c == [call[t] EXCEPT !["sign"] = x]
<1>1. /\ Len(owner) < MaxTokens /\ owner' = Append(owner, u)
      /\ call' = [call EXCEPT ![t]["sign"] = x]
  BY DEF Issue
<1>2. ServerTypes /\ TabTypes /\ TabInv(tab[t], call[t], owner) /\ tab[t] \in TabType
      /\ call[t] \in [Kind -> Call]
  BY DEF SessionInv, TabTypes
<1>3. /\ owner' \in Seq(User) /\ Len(owner') = Len(owner) + 1 /\ Len(owner) \in Nat
      /\ owner'[Len(owner) + 1] = u
  BY <1>1, <1>2, AppendProperties, LenProperties DEF ServerTypes
<1>4. ServerTypes'
  BY <1>1, <1>2, <1>3, SessionAssumption DEF ServerTypes
<1>5. TabInv(tab[t], call[t], owner')
  BY <1>1, <1>2, MoreOwners
<1>6. /\ x \in Call /\ x.token \in 0 .. Len(owner') /\ x.token # NoToken
      /\ owner'[x.token] = x.who /\ x.state = "ok"
  BY <1>1, <1>3, SessionAssumption DEF Call, Token, NoToken
<1>. HIDE DEF x
<1>7. Fits(t, "sign", x, owner')
  BY <1>6 DEF Fits
<1>8. c \in [Kind -> Call] /\ TabInv(tab[t], c, owner')
  BY <1>2, <1>5, <1>7, ChangeCall DEF Kind
<1>9. call' = [call EXCEPT ![t] = c] /\ tab' = [tab EXCEPT ![t] = tab[t]]
  BY <1>1, <1>2 DEF TabTypes
<1>. HIDE DEF c
<1>. QED BY <1>1, <1>2, <1>4, <1>8, <1>9, OneTab

LEMMA SignServed ==
    ASSUME SessionInv, NEW t \in Tab, ServeLogin(t) \/ CountUsers(t) \/ CreateAdmin(t)
    PROVE  SessionInv'
<1>. DEFINE u == call[t]["sign"].who
<1>1. /\ ServerTypes /\ role \in [User -> Role \cup {"none", "deleted"}]
      /\ call[t]["sign"].state \in {"sent", "counted"} => u \in User
  BY DEF SessionInv, ServerTypes, TabInv
<1>2. Len(owner) \in Nat /\ "sign" \in Kind \ {"me"}
  BY <1>1, ShortOwners DEF Kind
<1>3. CASE ServeLogin(t)
  <2>1. u \in User /\ UNCHANGED <<role, revoked, stored, tab>> /\ Open(t, "sign")
    BY <1>1, <1>3 DEF ServeLogin, Open
  <2>2. CASE Exists(u) /\ Issue(t, u, role[u])
    BY <1>1, <2>1, <2>2, IssueInv DEF Exists
  <2>3. CASE Answer(t, "sign", "refused") /\ UNCHANGED owner
    <3>1. ServerTypes'
      BY <1>1, <2>1, <2>3 DEF ServerTypes
    <3>. QED BY <1>2, <2>1, <2>3, <3>1, AnswerInv
  <2>. QED BY <1>3, <2>2, <2>3 DEF ServeLogin
<1>4. CASE CountUsers(t)
  <2>1. /\ UNCHANGED <<role, owner, revoked, stored, tab>> /\ Open(t, "sign")
        /\ call[t]["sign"].state = "sent"
    BY <1>4 DEF CountUsers, Open
  <2>2. ServerTypes'
    BY <1>1, <2>1 DEF ServerTypes
  <2>3. CASE Over(t, "sign")
    BY <1>2, <2>1, <2>2, <2>3, OverFits, SetCall DEF Over
  <2>4. CASE Answer(t, "sign", "counted")
    BY <1>2, <2>1, <2>2, <2>4, AnswerInv
  <2>. QED BY <1>4, <2>3, <2>4 DEF CountUsers
<1>5. CASE CreateAdmin(t)
  <2>1. /\ u \in User /\ Issue(t, u, "admin") /\ UNCHANGED <<revoked, stored, tab>>
        /\ role' = [role EXCEPT ![u] = "admin"]
    BY <1>1, <1>5 DEF CreateAdmin
  <2>2. role' \in [User -> Role \cup {"none", "deleted"}]
    BY <1>1, <2>1 DEF Role
  <2>. QED BY <2>1, <2>2, IssueInv DEF Role
<1>. QED BY <1>3, <1>4, <1>5

LEMMA ServeLogoutInv ==
    ASSUME SessionInv, NEW t \in Tab, ServeLogout(t)
    PROVE  SessionInv'
<1>. DEFINE k == call[t]["out"].token
<1>1. UNCHANGED <<role, owner, stored, tab>> /\ Open(t, "out")
  BY DEF ServeLogout, Open
<1>2. ServerTypes /\ k \in 0 .. Len(owner) /\ Len(owner) \in Nat /\ "out" \in Kind \ {"me"}
  BY ShortOwners DEF SessionInv, TabInv, Kind
<1>3. CASE k = NoToken
  <2>1. Over(t, "out") /\ UNCHANGED revoked
    BY <1>3 DEF ServeLogout
  <2>2. ServerTypes'
    BY <1>1, <1>2, <2>1 DEF ServerTypes
  <2>. QED BY <1>1, <1>2, <2>1, <2>2, OverFits, SetCall DEF Over
<1>4. CASE k # NoToken
  <2>1. Answer(t, "out", "ok") /\ revoked' = revoked \cup {k}
    BY <1>4 DEF ServeLogout
  <2>2. k \in 1 .. Len(owner)
    BY <1>2, <1>4 DEF NoToken
  <2>3. revoked' \subseteq 1 .. Len(owner)
    BY <1>2, <2>1, <2>2 DEF ServerTypes
  <2>4. ServerTypes'
    BY <1>1, <1>2, <2>3 DEF ServerTypes
  <2>. QED BY <1>1, <1>2, <2>1, <2>4, AnswerInv
<1>. QED BY <1>3, <1>4

LEMMA ServeWorkInv ==
    ASSUME SessionInv, NEW t \in Tab, ServeWork(t)
    PROVE  SessionInv'
<1>. DEFINE c == call[t]["work"]
<1>1. UNCHANGED <<owner, revoked, stored, tab>> /\ Open(t, "work") /\ c.what \in Changes
  BY DEF ServeWork, Open, SessionInv, TabInv
<1>2. ServerTypes /\ "work" \in Kind \ {"me"}
  BY DEF SessionInv, Kind
<1>3. Answer(t, "work", "ok") \/ Answer(t, "work", "refused")
  BY DEF ServeWork
<1>4. role' = role \/ role' = Changed(owner[c.token], c.who, c.what)
  BY DEF ServeWork
<1>5. Changed(owner[c.token], c.who, c.what) \in [User -> Role \cup {"none", "deleted"}]
  BY <1>1, <1>2 DEF Changed, ServerTypes, Changes
<1>6. ServerTypes'
  BY <1>1, <1>2, <1>4, <1>5 DEF ServerTypes
<1>. QED BY <1>1, <1>2, <1>3, <1>6, AnswerInv

LEMMA AcceptInviteInv ==
    ASSUME SessionInv, NEW u \in User, NEW r \in Invited, AcceptInvite(u, r)
    PROVE  SessionInv'
<1>1. /\ UNCHANGED <<owner, revoked, stored, tab, call>>
      /\ role' = [role EXCEPT ![u] = r]
  BY DEF AcceptInvite
<1>2. r \in Role
  BY SessionAssumption DEF Role
<1>3. ServerTypes'
  BY <1>1, <1>2 DEF SessionInv, ServerTypes
<1>. QED BY <1>1, <1>3 DEF SessionInv, TabTypes

-----------------------------------------------------------------------------
(* The tab.                                                                *)

LEMMA LoadInv ==
    ASSUME SessionInv, NEW t \in Tab, NEW page \in {"login", "setup", "app"}, Load(t, page)
    PROVE  SessionInv'
<1>1. /\ UNCHANGED <<role, owner, revoked, stored>>
      /\ tab' = [tab EXCEPT ![t] = Loaded(page, stored)]
      /\ call' = [call EXCEPT ![t] = FirstCalls(stored)]
  BY DEF Load
<1>2. ServerTypes /\ stored \in 0 .. Len(owner) /\ page \in Page
  BY DEF SessionInv, ServerTypes, Page
<1>3. ServerTypes'
  BY <1>1, <1>2 DEF ServerTypes
<1>4. /\ Loaded(page, stored) \in TabType /\ FirstCalls(stored) \in [Kind -> Call]
      /\ TabInv(Loaded(page, stored), FirstCalls(stored), owner')
  BY <1>1, <1>2, LoadedInv
<1>. QED BY <1>1, <1>3, <1>4, OneTab

LEMMA RefusedInv ==
    ASSUME SessionInv, NEW t \in Tab, NEW k \in Kind, Refused(t, k)
    PROVE  SessionInv'
<1>1. /\ UNCHANGED <<role, owner, revoked>> /\ stored' = NoToken
      /\ tab' = [tab EXCEPT ![t] = Loaded("login", NoToken)]
      /\ call' = [call EXCEPT ![t] = Idle] /\ Idle = FirstCalls(NoToken)
  BY DEF Refused, FirstCalls
<1>2. ServerTypes /\ NoToken \in 0 .. Len(owner) /\ "login" \in Page
  BY ShortOwners DEF SessionInv, NoToken, Page
<1>3. ServerTypes'
  BY <1>1, <1>2 DEF ServerTypes
<1>4. /\ Loaded("login", NoToken) \in TabType /\ Idle \in [Kind -> Call]
      /\ TabInv(Loaded("login", NoToken), Idle, owner')
  BY <1>1, <1>2, LoadedInv
<1>. QED BY <1>1, <1>3, <1>4, OneTab

\* The same user, token and questions on another page.
LEMMA SamePage ==
    ASSUME NEW d, NEW e, NEW c, NEW o, TabInv(d, c, o),
           e.user = d.user, e.held = d.held, e.loading <=> d.loading, e.raced <=> d.raced
    PROVE  TabInv(e, c, o)
BY DEF TabInv, Told

LEMMA NavigateInv ==
    ASSUME SessionInv, NEW t \in Tab, NEW page \in {"login", "app"}, Navigate(t, page)
    PROVE  SessionInv'
<1>. DEFINE d == [tab[t] EXCEPT !.page = page]
<1>1. /\ UNCHANGED <<role, owner, revoked, stored, call>>
      /\ tab' = [tab EXCEPT ![t] = Settle(d)]
  BY DEF Navigate
<1>2. /\ tab[t] \in TabType /\ call[t] \in [Kind -> Call] /\ TabInv(tab[t], call[t], owner)
      /\ ServerTypes /\ call' = [call EXCEPT ![t] = call[t]]
  BY <1>1 DEF SessionInv, TabTypes
<1>3. d \in TabType /\ d.user = tab[t].user /\ d.held = tab[t].held
  BY <1>2 DEF TabType, Page
<1>4. d.loading = tab[t].loading /\ d.raced = tab[t].raced
  BY <1>2 DEF TabType
<1>. HIDE DEF d
<1>5. Settle(d) \in TabType /\ TabInv(Settle(d), call[t], owner)
  BY <1>2, <1>3, <1>4, Settled, SamePage
<1>6. ServerTypes'
  BY <1>1, <1>2 DEF ServerTypes
<1>. QED BY <1>1, <1>2, <1>5, <1>6, OneTab

\* The first question has been answered, or has failed: what is shown from
\* now on is who holds the token, or nobody.
LEMMA FirstOver ==
    ASSUME SessionInv, ServerTypes', UNCHANGED owner, NEW t \in Tab, NEW d \in TabType,
           tab' = [tab EXCEPT ![t] = d], Over(t, "me"),
           ~d.loading, d.held \in 0 .. Len(owner), d.raced <=> tab[t].raced,
           ~d.raced => IF d.held = NoToken THEN d.user = NoUser ELSE d.user = owner[d.held]
    PROVE  SessionInv'
<1>. DEFINE c == [call[t] EXCEPT !["me"] = NoCall]
<1>1. call[t] \in [Kind -> Call] /\ TabInv(tab[t], call[t], owner) /\ Len(owner) \in Nat
  BY ShortOwners DEF SessionInv, TabTypes
<1>2. call' = [call EXCEPT ![t] = c]
  BY DEF Over, SessionInv, TabTypes
<1>3. /\ c \in [Kind -> Call] /\ c["me"] = NoCall
      /\ \A k \in Kind \ {"me"} : c[k] = call[t][k]
  BY <1>1, IdleCalls DEF Kind
<1>. HIDE DEF c
<1>4. c["sign"] = call[t]["sign"] /\ c["work"] = call[t]["work"]
  BY <1>3 DEF Kind
<1>5. \A k \in Kind : c[k].token \in 0 .. Len(owner)
  BY <1>1, <1>3, IdleCalls DEF TabInv, NoToken
<1>6. TabInv(d, c, owner)
  BY <1>1, <1>3, <1>4, <1>5, IdleCalls DEF TabInv, Told
<1>. QED BY <1>2, <1>3, <1>6, OneTab

LEMMA MeAnsweredInv ==
    ASSUME SessionInv, NEW t \in Tab, MeAnswered(t)
    PROVE  SessionInv'
<1>. DEFINE m == call[t]["me"]
            d == [tab[t] EXCEPT !.user = m.who, !.admin = m.what = "admin", !.loading = FALSE]
<1>1. /\ UNCHANGED <<role, owner, revoked, stored>> /\ Over(t, "me") /\ m.state = "ok"
  BY DEF MeAnswered, Answered
<1>2. /\ tab[t] \in TabType /\ m \in Call /\ TabInv(tab[t], call[t], owner) /\ ServerTypes
      /\ tab \in [Tab -> TabType]
  BY DEF SessionInv, TabTypes, Kind
<1>3. tab' = [tab EXCEPT ![t] = d]
  BY <1>2 DEF MeAnswered
<1>4. d \in TabType
  BY <1>2 DEF TabType, Call
<1>5. d.held = tab[t].held /\ d.user = m.who /\ ~d.loading
  BY <1>2 DEF TabType
<1>6. d.raced <=> tab[t].raced
  BY <1>2 DEF TabType
<1>. HIDE DEF d
<1>7. d.held \in 0 .. Len(owner)
  BY <1>2, <1>5 DEF TabInv
<1>8. ~d.raced => d.held # NoToken /\ d.user = owner[d.held]
  BY <1>1, <1>2, <1>5, <1>6 DEF TabInv, Told
<1>9. ServerTypes'
  BY <1>1, <1>2 DEF ServerTypes
<1>. QED BY <1>1, <1>3, <1>4, <1>5, <1>6, <1>7, <1>8, <1>9, FirstOver

LEMMA MeFailsInv ==
    ASSUME SessionInv, NEW t \in Tab, MeFails(t)
    PROVE  SessionInv'
<1>. DEFINE d == [tab[t] EXCEPT !.loading = FALSE, !.held = NoToken]
<1>1. /\ UNCHANGED <<role, owner, revoked>> /\ stored' = NoToken /\ Over(t, "me")
      /\ call[t]["me"].state # "none"
  BY DEF MeFails
<1>2. /\ tab[t] \in TabType /\ TabInv(tab[t], call[t], owner) /\ ServerTypes
      /\ tab \in [Tab -> TabType] /\ NoToken \in 0 .. Len(owner)
  BY ShortOwners DEF SessionInv, TabTypes, NoToken
<1>3. tab' = [tab EXCEPT ![t] = Settle(d)]
  BY <1>2 DEF MeFails
<1>4. d \in TabType
  BY <1>2 DEF TabType, Token
<1>5. d.held = NoToken /\ d.user = tab[t].user /\ ~d.loading
  BY <1>2 DEF TabType
<1>6. d.raced <=> tab[t].raced
  BY <1>2 DEF TabType
<1>. HIDE DEF d
<1>7. ~d.raced => d.user = NoUser
  BY <1>1, <1>2, <1>5, <1>6 DEF TabInv, Told
<1>8. ServerTypes'
  BY <1>1, <1>2 DEF ServerTypes
<1>9. /\ Settle(d) \in TabType /\ ~Settle(d).loading /\ Settle(d).held = NoToken
      /\ Settle(d).user = d.user /\ (Settle(d).raced <=> tab[t].raced)
  BY <1>4, <1>5, <1>6, Settled
<1>. QED BY <1>1, <1>2, <1>3, <1>6, <1>7, <1>8, <1>9, FirstOver

\* Signing in and out: the tab shows who holds the token it has put in the
\* storage.
LEMMA SignedInv ==
    ASSUME SessionInv, NEW t \in Tab, SignedIn(t) \/ SignedOut(t)
    PROVE  SessionInv'
<1>. DEFINE k == IF SignedIn(t) THEN "sign" ELSE "out"
            c == [call[t] EXCEPT ![k] = NoCall]
<1>1. /\ UNCHANGED <<role, owner, revoked>> /\ k \in Kind \ {"me"}
      /\ call[t][k].state = "ok" /\ call' = [call EXCEPT ![t][k] = NoCall]
  BY DEF SignedIn, SignedOut, Answered, Over, Kind
<1>2. /\ tab[t] \in TabType /\ TabInv(tab[t], call[t], owner) /\ ServerTypes /\ TabTypes
      /\ call[t][k] \in Call /\ Len(owner) \in Nat /\ NoToken \in 0 .. Len(owner)
  BY <1>1, ShortOwners DEF SessionInv, TabTypes, NoToken
<1>3. /\ c \in [Kind -> Call] /\ TabInv(tab[t], c, owner)
  BY <1>1, <1>2, OverFits, ChangeCall
<1>4. call' = [call EXCEPT ![t] = c]
  BY <1>1, <1>2 DEF TabTypes
<1>5. c["me"] = call[t]["me"]
  BY <1>1, <1>2 DEF TabTypes, Kind
<1>. HIDE DEF c
<1>6. CASE SignedIn(t)
  <2>. DEFINE s == call[t]["sign"]
              d == [page |-> "app", user |-> s.who, admin |-> s.what = "admin",
                    loading |-> tab[t].loading, held |-> s.token,
                    raced |-> tab[t].raced \/ Open(t, "me")]
  <2>1. /\ s \in Call /\ s.state = "ok" /\ s.token \in 0 .. Len(owner)
        /\ s.token # NoToken /\ owner[s.token] = s.who
    BY <1>1, <1>2, <1>6 DEF TabInv, Kind
  <2>2. tab' = [tab EXCEPT ![t] = d] /\ stored' = s.token
    BY <1>2, <1>6 DEF SignedIn, TabTypes
  <2>3. d \in TabType
    BY <1>2, <2>1 DEF TabType, Page, Call, Open
  <2>4. ServerTypes'
    BY <1>1, <1>2, <2>1, <2>2 DEF ServerTypes
  <2>5. /\ d.user = s.who /\ d.held = s.token /\ (d.loading <=> tab[t].loading)
        /\ d.raced <=> (tab[t].raced \/ Open(t, "me"))
    OBVIOUS
  <2>. HIDE DEF d, s
  <2>6. tab[t].loading <=> c["me"].state # "none"
    BY <1>3 DEF TabInv
  <2>7. ~d.raced => ~d.loading
    BY <1>5, <2>5, <2>6 DEF Open
  <2>8. ~d.raced => Told(d, c, owner)
    BY <2>1, <2>5, <2>7 DEF Told
  <2>9. TabInv(d, c, owner)
    BY <1>3, <2>1, <2>5, <2>6, <2>8 DEF TabInv
  <2>. QED BY <1>1, <1>3, <1>4, <2>2, <2>3, <2>4, <2>9, OneTab
<1>7. CASE ~SignedIn(t)
  <2>. DEFINE d == [page |-> "login", user |-> NoUser, admin |-> FALSE,
                    loading |-> tab[t].loading, held |-> NoToken, raced |-> tab[t].raced]
  <2>1. tab' = [tab EXCEPT ![t] = d] /\ stored' = NoToken /\ call[t]["out"].state = "ok"
    BY <1>2, <1>7 DEF SignedOut, Answered, TabTypes
  <2>2. d \in TabType
    BY <1>2 DEF TabType, Page
  <2>3. ServerTypes'
    BY <1>1, <1>2, <2>1 DEF ServerTypes
  <2>4. /\ d.user = NoUser /\ d.held = NoToken /\ (d.loading <=> tab[t].loading)
        /\ d.raced <=> tab[t].raced
    OBVIOUS
  <2>. HIDE DEF d
  <2>5. ~d.raced => ~d.loading
    BY <1>2, <2>1, <2>4 DEF TabInv, Told
  <2>6. ~d.raced => Told(d, c, owner)
    BY <2>4, <2>5 DEF Told
  <2>7. TabInv(d, c, owner)
    BY <1>2, <1>3, <2>4, <2>6 DEF TabInv
  <2>. QED BY <1>1, <1>3, <1>4, <2>1, <2>2, <2>3, <2>7, OneTab
<1>. QED BY <1>6, <1>7

LEMMA WorkDoneInv ==
    ASSUME SessionInv, NEW t \in Tab, WorkDone(t)
    PROVE  SessionInv'
<1>1. /\ UNCHANGED <<role, owner, revoked, stored, tab>> /\ "work" \in Kind \ {"me"}
      /\ call' = [call EXCEPT ![t]["work"] = NoCall]
  BY DEF WorkDone, Answered, Over, Kind
<1>2. ServerTypes' /\ Len(owner) \in Nat
  BY <1>1, ShortOwners DEF SessionInv, ServerTypes
<1>. QED BY <1>1, <1>2, OverFits, SetCall

-----------------------------------------------------------------------------
LEMMA InitInv == Init => SessionInv
<1>. SUFFICES ASSUME Init PROVE SessionInv
  OBVIOUS
<1>1. owner = <<>> /\ owner \in Seq(User) /\ Len(owner) = 0
  BY DEF Init
<1>2. ServerTypes
  BY <1>1, SessionAssumption DEF Init, ServerTypes, NoToken
<1>3. Closed \in TabType
  BY DEF Closed, TabType, Page
<1>4. Closed.user = NoUser /\ Closed.held = NoToken /\ ~Closed.loading
  BY DEF Closed
<1>5. TabTypes
  BY <1>3, IdleCalls DEF Init, TabTypes
<1>6. TabInv(Closed, Idle, owner)
  <2>1. Idle["me"] = NoCall /\ Idle["sign"] = NoCall /\ Idle["work"] = NoCall
    BY IdleCalls DEF Kind
  <2>2. \A k \in Kind : Idle[k].token \in 0 .. Len(owner)
    BY <1>1, IdleCalls DEF NoToken
  <2>3. Closed.held \in 0 .. Len(owner)
    BY <1>1, <1>4 DEF NoToken
  <2>. QED BY <1>4, <2>1, <2>2, <2>3, IdleCalls DEF TabInv, Told
<1>7. \A t \in Tab : TabInv(tab[t], call[t], owner)
  BY <1>6 DEF Init
<1>. QED BY <1>2, <1>5, <1>7 DEF SessionInv

LEMMA NextInv == SessionInv /\ [Next]_vars => SessionInv'
<1>. SUFFICES ASSUME SessionInv, [Next]_vars PROVE SessionInv'
  OBVIOUS
<1>1. CASE UNCHANGED vars
  BY <1>1 DEF vars, SessionInv, ServerTypes, TabTypes
<1>2. CASE \E u \in User, r \in Invited : AcceptInvite(u, r)
  BY <1>2, AcceptInviteInv
<1>3. ASSUME NEW t \in Tab,
             \/ \E page \in {"login", "setup", "app"} : Load(t, page)
             \/ \E page \in {"login", "app"} : Navigate(t, page)
             \/ \E k \in Kind : Lost(t, k) \/ Refused(t, k)
      PROVE  SessionInv'
  BY <1>3, LoadInv, NavigateInv, LostInv, RefusedInv
<1>4. ASSUME NEW t \in Tab,
             \/ \E u \in User : SubmitLogin(t, u) \/ SubmitSetup(t, u)
             \/ ClickSignOut(t) \/ Query(t)
             \/ \E u \in User, what \in Change : ChangeUser(t, u, what)
      PROVE  SessionInv'
  BY <1>4, UserCalls
<1>5. ASSUME NEW t \in Tab,
             ServeMe(t) \/ ServeLogin(t) \/ CountUsers(t) \/ CreateAdmin(t)
                \/ ServeLogout(t) \/ ServeWork(t)
      PROVE  SessionInv'
  BY <1>5, ServeMeInv, SignServed, ServeLogoutInv, ServeWorkInv
<1>6. ASSUME NEW t \in Tab,
             MeAnswered(t) \/ MeFails(t) \/ SignedIn(t) \/ SignedOut(t) \/ WorkDone(t)
      PROVE  SessionInv'
  BY <1>6, MeAnsweredInv, MeFailsInv, SignedInv, WorkDoneInv
<1>. QED BY <1>1, <1>2, <1>3, <1>4, <1>5, <1>6 DEF Next

\* What a tab shows goes with the token it has found or stored itself.
THEOREM SessionInvariant == Spec => []SessionInv
<1>. QED BY InitInv, NextInv, PTL DEF Spec

\* Every variable of Session keeps its type.
THEOREM SessionTypes == Spec => []SessionTypeOK
<1>1. SessionInv => SessionTypeOK
  BY ElementOfSeq DEF SessionInv, ServerTypes, TabTypes, SessionTypeOK
<1>. QED BY <1>1, SessionInvariant, PTL

\* A loaded tab shows the account its calls are made for, unless another tab
\* has stored something else since or somebody signed in while it was asking
\* (AuthProvider.tsx and client.ts, for any number of tabs and calls).
THEOREM AlwaysTogether == Spec => []SignedInTogether
<1>1. SessionInv => SignedInTogether
  BY DEF SessionInv, TabInv, Told, SignedInTogether
<1>. QED BY <1>1, SessionInvariant, PTL
=============================================================================
