---------------------------- MODULE SessionProofs ----------------------------
(***************************************************************************)
(* Theorems about Session, for every number of tabs, users, tokens and     *)
(* requests.                                                               *)
(***************************************************************************)
EXTENDS Session, TLAPS

\* Who asks for whom, and who may be told what: a 401 answers a request that
\* needs the current user, and a login that succeeded brings a token.
AnswerOK(r) ==
  /\ r.kind \in {"login", "register"} => r.who \in Users
  /\ r.answer = "refused" => r.kind \in {"boot", "me", "places", "delete"}
  /\ r.kind = "login" /\ r.answer = "ok" => r.token # NoToken

Inv == TypeOK /\ \A r \in requests : AnswerOK(r)

\* r may stand among the requests of a state in which owner is `issued`.
Fits(r, issued) ==
  /\ r \in Request
  /\ r.kind \in {"boot", "me"} => r.token # NoToken
  /\ r.tab = NoTab => r.kind \in {"register", "delete"}
  /\ r.token \in DOMAIN issued \cup {NoToken}
  /\ AnswerOK(r)

-----------------------------------------------------------------------------
(* What the helpers of the handlers do.                                    *)

LEMMA InitInv == Init => Inv
  BY BoundsAssumption
  DEF Init, Inv, TypeOK, Tokens, NoToken, Paths

\* A new request fits, whatever token is stored.
LEMMA SentFits ==
  ASSUME NEW issued, NEW t \in Tabs, NEW kind \in Kinds, NEW token \in Tokens \cup {NoToken},
         NEW who \in Users \cup {Nobody}, token \in DOMAIN issued \cup {NoToken},
         kind \in {"boot", "me"} => token # NoToken,
         kind \in {"login", "register"} => who \in Users
  PROVE  Fits(Sent(t, kind, token, who), issued)
  BY BoundsAssumption DEF Fits, Sent, Request, AnswerOK, Answers

\* Rendering keeps every React state in its range.
Shown ==
  /\ path' \in [Tabs -> Paths]
  /\ user' \in [Tabs -> Users \cup {Nobody}]
  /\ loading' \in [Tabs -> BOOLEAN] /\ bootError' \in [Tabs -> BOOLEAN]
  /\ submitting' \in [Tabs -> BOOLEAN]

LEMMA ShowTypes ==
  ASSUME TypeOK, NEW t \in Tabs, NEW p \in Paths, NEW u \in Users \cup {Nobody},
         NEW l \in BOOLEAN, NEW e \in BOOLEAN, NEW b \in BOOLEAN,
         Show(t, p, u, l, e, b)
  PROVE  Shown
<1>1. Routed(p, u, l, e) \in Paths
  BY DEF Routed, Paths
<1> QED
  BY <1>1 DEF Show, Shown, TypeOK

LEMMA NothingShown ==
  ASSUME TypeOK, UNCHANGED <<path, user, loading, bootError, submitting>>
  PROVE  Shown
  BY DEF TypeOK, Shown

LEMMA StateTypes ==
  ASSUME TypeOK, NEW t \in Tabs
  PROVE  /\ path[t] \in Paths /\ user[t] \in Users \cup {Nobody}
         /\ loading[t] \in BOOLEAN /\ bootError[t] \in BOOLEAN
         /\ submitting[t] \in BOOLEAN
  BY DEF TypeOK

\* A request and the same one unheard.
Alike(s, r) ==
  /\ s.tab = r.tab /\ s.kind = r.kind /\ s.token = r.token
  /\ s.who = r.who /\ s.answer = r.answer
  /\ s.heard => r.heard

LEMMA UnheardAlike ==
  ASSUME NEW t, NEW left \in SUBSET Request, NEW s \in Unheard(t, left)
  PROVE  s \in Request /\ \E r \in left : Alike(s, r)
<1>1. CASE path'[t] = "login" /\ path[t] = "login"
  BY <1>1 DEF Unheard, Alike
<1>2. CASE ~(path'[t] = "login" /\ path[t] = "login")
  <2>1. PICK r \in left : s = IF r.tab = t /\ r.kind \in {"login", "register", "me"}
                                THEN [r EXCEPT !.heard = FALSE] ELSE r
    BY <1>2 DEF Unheard
  <2> QED
    BY <2>1 DEF Request, Alike
<1> QED
  BY <1>1, <1>2

LEMMA ClearedAlike ==
  ASSUME NEW t, NEW left \in SUBSET Request, NEW s \in Cleared(t, left)
  PROVE  s \in Request /\ \E r \in left : Alike(s, r)
<1>1. PICK r \in left : s = IF r.tab = t /\ r.kind = "places"
                              THEN [r EXCEPT !.heard = FALSE] ELSE r
  BY DEF Cleared
<1> QED
  BY <1>1 DEF Request, Alike

LEMMA AlikeFits ==
  ASSUME NEW issued, NEW r, NEW s \in Request, Fits(r, issued), Alike(s, r)
  PROVE  Fits(s, issued)
  BY DEF Fits, Alike, AnswerOK

LEMMA UnheardFits ==
  ASSUME NEW t, NEW left, NEW issued, \A r \in left : Fits(r, issued)
  PROVE  \A s \in Unheard(t, left) : Fits(s, issued)
<1>1. left \in SUBSET Request
  BY DEF Fits
<1> QED
  BY <1>1, UnheardAlike, AlikeFits

LEMMA ClearedFits ==
  ASSUME NEW t, NEW left, NEW issued, \A r \in left : Fits(r, issued)
  PROVE  \A s \in Cleared(t, left) : Fits(s, issued)
<1>1. left \in SUBSET Request
  BY DEF Fits
<1> QED
  BY <1>1, ClearedAlike, AlikeFits

LEMMA InvFits == Inv => \A r \in requests : Fits(r, owner)
  BY DEF Inv, TypeOK, Fits

\* Issuing one more token leaves the others where they were.
LEMMA Issued ==
  ASSUME TypeOK, NEW u \in Users
  PROVE  /\ Append(owner, u) \in Seq(Users)
         /\ Len(owner) \in Nat
         /\ DOMAIN owner = 1 .. Len(owner)
         /\ DOMAIN Append(owner, u) = 1 .. Len(owner) + 1
         /\ Len(Append(owner, u)) = Len(owner) + 1
         /\ Append(owner, u)[Len(owner) + 1] = u
         /\ \A k \in DOMAIN owner : Append(owner, u)[k] = owner[k]
  BY DEF TypeOK

-----------------------------------------------------------------------------
(* TypeOK, action by action.                                               *)

\* The requests of the next state fit, and the rest has its type.
NextFits ==
  /\ \A r \in requests' : Fits(r, owner')
  /\ stored' \in DOMAIN owner' \cup {NoToken}
  /\ Shown
  /\ cache' \in [Tabs -> Users \cup {Nobody}]
  /\ owner' \in Seq(Users) /\ Len(owner') <= MaxTokens
  /\ live' \subseteq DOMAIN owner'
  /\ accounts' \subseteq Users
  /\ loads' \in 0 .. MaxLoads /\ crossed' \subseteq Tabs

LEMMA NextFitsInv == NextFits => Inv'
  BY BoundsAssumption DEF NextFits, Shown, Inv, TypeOK, Fits, Tokens

LEMMA OwnerOfType ==
  ASSUME TypeOK, NEW token \in DOMAIN owner \cup {NoToken}
  PROVE  /\ OwnerOf(token) \in Users \cup {Nobody}
         /\ token # NoToken => OwnerOf(token) \in Users
  BY DEF OwnerOf, TypeOK

LEMMA UserStep ==
  ASSUME Inv, NEW t \in Tabs, ByUser(t)
  PROVE  NextFits
<1>0. TypeOK /\ \A r \in requests : Fits(r, owner)
  BY InvFits DEF Inv
<1> USE BoundsAssumption DEF NextFits
<1>1. ASSUME NEW p \in {"login", "app"}, Open(t, p) PROVE NextFits
  <2>1. Shown
    <3>1. Show(t, p, Nobody, stored # NoToken, FALSE, FALSE)
      BY <1>1 DEF Open
    <3> QED
      BY <1>0, <3>1, ShowTypes DEF Paths
  <2>2. ASSUME NEW r \in requests' PROVE Fits(r, owner)
    <3>1. CASE r \in requests
      BY <3>1, <1>0
    <3>2. CASE \E q \in requests : q.kind \in {"register", "delete"} /\ r = [q EXCEPT !.tab = NoTab]
      <4>1. PICK q \in requests : q.kind \in {"register", "delete"} /\ r = [q EXCEPT !.tab = NoTab]
        BY <3>2
      <4> QED
        BY <4>1, <1>0 DEF Fits, Request, AnswerOK
    <3>3. CASE stored # NoToken /\ r = Sent(t, "boot", stored, Nobody)
      BY <3>3, <1>0, SentFits DEF TypeOK, Kinds
    <3> QED
      <4>1. \/ r \in requests
            \/ \E q \in requests : q.kind \in {"register", "delete"} /\ r = [q EXCEPT !.tab = NoTab]
            \/ stored # NoToken /\ r = Sent(t, "boot", stored, Nobody)
        BY <1>1, Zenon DEF Open
      <4> QED
        BY <4>1, <3>1, <3>2, <3>3
  <2> QED
    BY <1>0, <1>1, <2>1, <2>2 DEF Open, TypeOK, server
<1>2. ASSUME NEW u \in Users, OpenCallback(t, u) PROVE NextFits
  <2> DEFINE k == Len(owner) + 1
  <2>1. Shown
    <3>1. Show(t, "callback", Nobody, TRUE, FALSE, FALSE)
      BY <1>2 DEF OpenCallback
    <3> QED
      BY <1>0, <3>1, ShowTypes DEF Paths
  <2>2. /\ k \in Tokens /\ k # NoToken /\ k \in DOMAIN owner' /\ owner' = Append(owner, u)
        /\ DOMAIN owner \subseteq DOMAIN owner'
        /\ owner' \in Seq(Users) /\ Len(owner') <= MaxTokens
    BY <1>0, <1>2, Issued DEF OpenCallback, Tokens, NoToken, TypeOK
  <2>3. ASSUME NEW r \in requests' PROVE Fits(r, owner')
    <3>1. CASE r \in requests
      BY <3>1, <1>0, <2>2 DEF Fits
    <3>2. CASE r \in {Sent(t, "me", k, Nobody), Sent(t, "boot", k, Nobody)}
      <4>1. ASSUME NEW kind \in {"me", "boot"} PROVE Fits(Sent(t, kind, k, Nobody), owner')
        BY <2>2, SentFits DEF Kinds
      <4> QED
        BY <3>2, <4>1
    <3> QED
      <4>1. r \in requests \/ r \in {Sent(t, "me", k, Nobody), Sent(t, "boot", k, Nobody)}
        BY <1>2 DEF OpenCallback
      <4> QED
        BY <4>1, <3>1, <3>2
  <2> QED
    BY <1>0, <1>2, <2>1, <2>2, <2>3 DEF OpenCallback, TypeOK
<1>3. ASSUME BackToLogin(t) PROVE NextFits
  <2>1. Shown
    <3>1. Show(t, "login", user[t], loading[t], bootError[t], FALSE)
      BY <1>3 DEF BackToLogin
    <3> QED
      BY <1>0, <3>1, StateTypes, ShowTypes DEF Paths
  <2>2. \A r \in requests' : Fits(r, owner)
    BY <1>0, <1>3, UnheardFits DEF BackToLogin
  <2> QED
    BY <1>0, <1>3, <2>1, <2>2 DEF BackToLogin, TypeOK, server
<1>4. ASSUME NEW kind \in {"login", "register"}, NEW u \in Users, Submit(t, kind, u)
      PROVE  NextFits
  <2>1. Shown
    <3>1. Show(t, path[t], user[t], loading[t], bootError[t], TRUE)
      BY <1>4 DEF Submit
    <3> QED
      BY <1>0, <3>1, StateTypes, ShowTypes
  <2>2. Fits(Sent(t, kind, stored, u), owner)
    BY <1>0, SentFits DEF TypeOK, Kinds
  <2> QED
    BY <1>0, <1>4, <2>1, <2>2 DEF Submit, TypeOK, server, Crossing
<1>5. ASSUME RetryBoot(t) PROVE NextFits
  <2>1. Shown
    <3>1. Show(t, path[t], Nobody, TRUE, FALSE, FALSE)
      BY <1>5 DEF RetryBoot
    <3> QED
      BY <1>0, <3>1, StateTypes, ShowTypes
  <2>2. Fits(Sent(t, "boot", stored, Nobody), owner)
    BY <1>0, <1>5, SentFits DEF TypeOK, Kinds, RetryBoot
  <2> QED
    BY <1>0, <1>5, <2>1, <2>2 DEF RetryBoot, TypeOK, server
<1>6. ASSUME AskPlaces(t) PROVE NextFits
  <2>1. Fits(Sent(t, "places", stored, Nobody), owner)
    BY <1>0, SentFits DEF TypeOK, Kinds
  <2> QED
    BY <1>0, <1>6, <2>1, NothingShown DEF AskPlaces, TypeOK, server, Crossing
<1>7. ASSUME AskDelete(t) PROVE NextFits
  <2>1. Fits(Sent(t, "delete", stored, Nobody), owner)
    BY <1>0, SentFits DEF TypeOK, Kinds
  <2> QED
    BY <1>0, <1>7, <2>1, NothingShown DEF AskDelete, TypeOK, server, Crossing
<1>8. ASSUME Logout(t) PROVE NextFits
  <2>1. Shown
    <3>1. Show(t, path[t], Nobody, loading[t], FALSE, submitting[t])
      BY <1>8 DEF Logout, SignOut
    <3> QED
      BY <1>0, <3>1, StateTypes, ShowTypes
  <2>2. \A r \in requests' : Fits(r, owner)
    BY <1>0, <1>8, UnheardFits, ClearedFits DEF Logout, SignOut
  <2>3. /\ stored' = NoToken /\ cache' = [cache EXCEPT ![t] = Nobody]
        /\ crossed' = crossed \ {t}
        /\ UNCHANGED <<owner, live, accounts, loads>>
    BY <1>8 DEF Logout, SignOut, server
  <2> QED
    BY <1>0, <2>1, <2>2, <2>3 DEF TypeOK
<1> QED
  BY <1>1, <1>2, <1>3, <1>4, <1>5, <1>6, <1>7, <1>8 DEF ByUser

LEMMA ServerStep ==
  ASSUME Inv, NEW r \in requests, Serve(r) \/ Fail(r)
  PROVE  NextFits
<1>0. TypeOK /\ Fits(r, owner) /\ \A q \in requests : Fits(q, owner)
  BY InvFits DEF Inv
<1> USE BoundsAssumption DEF NextFits
<1>1. ASSUME NEW a \in Answers, a = "refused" => r.kind \in {"boot", "me", "places", "delete"},
             a = "ok" => r.kind # "login" \/ r.answer = "ok",
             requests' = Answered(r, a)
      PROVE  \A q \in requests' : Fits(q, owner)
  <2>1. Fits([r EXCEPT !.answer = a], owner)
    BY <1>0, <1>1 DEF Fits, Request, AnswerOK
  <2> QED
    BY <1>0, <1>1, <2>1 DEF Answered
<1>2. ASSUME Fail(r) PROVE NextFits
  <2>1. \A q \in requests' : Fits(q, owner)
    BY <1>1, <1>2 DEF Fail, Answers
  <2> QED
    BY <1>0, <1>2, <2>1, NothingShown DEF Fail, TypeOK, server, tabState
<1>3. ASSUME Serve(r), ServeAuthenticated(r) PROVE NextFits
  <2>1. \A q \in requests' : Fits(q, owner)
    BY <1>1, <1>3 DEF ServeAuthenticated, Answers
  <2> QED
    BY <1>0, <1>3, <2>1, NothingShown DEF Serve, ServeAuthenticated, TypeOK, tabState
<1>4. ASSUME Serve(r), ServeRegister(r) PROVE NextFits
  <2>1. \A q \in requests' : Fits(q, owner)
    BY <1>1, <1>4 DEF ServeRegister, Answers
  <2>2. r.who \in Users
    BY <1>0, <1>4 DEF Fits, AnswerOK, ServeRegister
  <2> QED
    BY <1>0, <1>4, <2>1, <2>2, NothingShown DEF Serve, ServeRegister, TypeOK, tabState
<1>5. ASSUME Serve(r), ServeLogin(r) PROVE NextFits
  <2> DEFINE k == Len(owner) + 1
  <2>0. r.who \in Users
    BY <1>0, <1>5 DEF Fits, AnswerOK, ServeLogin
  <2>1. /\ k \in Tokens /\ k # NoToken /\ k \in DOMAIN owner' /\ owner' = Append(owner, r.who)
        /\ DOMAIN owner \subseteq DOMAIN owner'
        /\ owner' \in Seq(Users) /\ Len(owner') <= MaxTokens
    BY <1>0, <1>5, <2>0, Issued DEF ServeLogin, Tokens, NoToken, TypeOK
  <2>2. Fits([r EXCEPT !.answer = "ok", !.token = k], owner')
    BY <1>0, <1>5, <2>1 DEF Fits, Request, AnswerOK, Answers, ServeLogin
  <2>3. \A q \in requests : Fits(q, owner')
    BY <1>0, <2>1 DEF Fits
  <2>4. \A q \in requests' : Fits(q, owner')
    BY <1>5, <2>2, <2>3 DEF ServeLogin
  <2> QED
    BY <1>0, <1>5, <2>1, <2>4, NothingShown DEF Serve, ServeLogin, TypeOK, tabState
<1> QED
  BY <1>2, <1>3, <1>4, <1>5 DEF Serve

LEMMA AnswerStep ==
  ASSUME Inv, NEW r \in requests, Receive(r)
  PROVE  NextFits
<1>0. TypeOK /\ Fits(r, owner) /\ \A q \in requests : Fits(q, owner)
  BY InvFits DEF Inv
<1> DEFINE t == r.tab
<1>a. /\ r \in Request /\ r.token \in DOMAIN owner \cup {NoToken}
      /\ r.token \in Tokens \cup {NoToken}
      /\ r.heard \in BOOLEAN /\ t \in Tabs \cup {NoTab}
  BY <1>0 DEF Fits, Request
<1>b. \A q \in requests \ {r} : Fits(q, owner)
  BY <1>0
<1> HIDE DEF t
\* What is left when every handler but the one for a login has run.
<1>c. ASSUME Shown, \A q \in requests' : Fits(q, owner), stored' \in {stored, NoToken},
             cache' \in [Tabs -> Users \cup {Nobody}], crossed' \subseteq Tabs,
             UNCHANGED <<server, loads>>
      PROVE  NextFits
  BY <1>0, <1>c, BoundsAssumption DEF NextFits, TypeOK, server
<1>1. ASSUME Discard(r) PROVE NextFits
  <2>1. Shown
    BY <1>0, <1>1, NothingShown DEF Discard, tabState
  <2> QED
    BY <1>0, <1>1, <1>b, <1>c, <2>1 DEF Discard, TypeOK, tabState
<1>2. ASSUME t # NoTab, Unauthorized(r) PROVE NextFits
  <2>1. Shown
    <3>1. Show(t, path[t], Nobody, loading[t] /\ r.kind # "boot", bootError[t],
               submitting[t] /\ ~(r.kind = "me" /\ r.heard))
      BY <1>2 DEF Unauthorized, t
    <3> QED
      BY <1>0, <1>2, <1>a, <3>1, StateTypes, ShowTypes
  <2>2. \A q \in requests' : Fits(q, owner)
    BY <1>2, <1>b, UnheardFits DEF Unauthorized, t
  <2>3. crossed' \subseteq Tabs
    BY <1>0, <1>2, <1>a DEF Unauthorized, t, TypeOK
  <2> QED
    BY <1>0, <1>2, <1>c, <2>1, <2>2, <2>3 DEF Unauthorized, t, TypeOK
<1>3. ASSUME t # NoTab, TakeUser(r) PROVE NextFits
  <2>1. Shown
    <3>1. Show(t, IF r.kind = "me" THEN "app" ELSE path[t], OwnerOf(r.token),
               loading[t] /\ r.kind = "me", bootError[t] /\ ~(r.kind = "me"), submitting[t])
      BY <1>3 DEF TakeUser, t
    <3>2. (IF r.kind = "me" THEN "app" ELSE path[t]) \in Paths
      BY <1>0, <1>3, <1>a, StateTypes DEF Paths
    <3> QED
      BY <1>0, <1>3, <1>a, <3>1, <3>2, StateTypes, ShowTypes, OwnerOfType
  <2>2. \A q \in requests' : Fits(q, owner)
    BY <1>3, <1>b, UnheardFits DEF TakeUser, t
  <2>3. crossed' \subseteq Tabs
    BY <1>0, <1>3, <1>a DEF TakeUser, t, Replacing, TypeOK
  <2> QED
    BY <1>0, <1>3, <1>c, <2>1, <2>2, <2>3 DEF TakeUser, t, TypeOK
<1>4. ASSUME t # NoTab, BootFails(r) PROVE NextFits
  <2>1. Shown
    <3>1. Show(t, path[t], user[t], FALSE, TRUE, submitting[t])
      BY <1>4 DEF BootFails, t
    <3> QED
      BY <1>0, <1>4, <1>a, <3>1, StateTypes, ShowTypes
  <2>2. \A q \in requests' : Fits(q, owner)
    BY <1>4, <1>b, UnheardFits DEF BootFails, t
  <2> QED
    BY <1>0, <1>4, <1>c, <2>1, <2>2 DEF BootFails, t, TypeOK
<1>5. ASSUME t # NoTab, TakeToken(r) PROVE NextFits
  <2>1. Shown
    BY <1>0, <1>5, NothingShown DEF TakeToken, t, tabState
  <2>2. r.token # NoToken /\ Fits(Sent(t, "me", r.token, Nobody), owner)
    BY <1>0, <1>5, <1>a, SentFits DEF TakeToken, t, Fits, AnswerOK, Kinds
  <2>3. Fits([Sent(t, "me", r.token, Nobody) EXCEPT !.heard = r.heard], owner)
    BY <1>a, <2>2 DEF Fits, AnswerOK, Request, Sent
  <2>4. \A q \in requests' : Fits(q, owner)
    BY <1>5, <1>b, <2>3 DEF TakeToken, t
  <2>5. stored' \in DOMAIN owner \cup {NoToken} /\ UNCHANGED <<tabState, server, loads>>
    BY <1>5, <1>a DEF TakeToken, t
  <2> QED
    BY <1>0, <2>1, <2>4, <2>5, BoundsAssumption DEF NextFits, TypeOK, tabState, server
<1>6. ASSUME t # NoTab, TakeAccount(r) PROVE NextFits
  <2>1. Shown
    BY <1>0, <1>6, NothingShown DEF TakeAccount, t
  <2>2. r.who \in Users /\ Fits(Sent(t, "login", stored, r.who), owner)
    BY <1>0, <1>6, <1>a, SentFits DEF TakeAccount, t, Fits, AnswerOK, Kinds, TypeOK
  <2>3. Fits([Sent(t, "login", stored, r.who) EXCEPT !.heard = r.heard], owner)
    BY <1>a, <2>2 DEF Fits, AnswerOK, Request, Sent
  <2>4. \A q \in requests' : Fits(q, owner)
    BY <1>6, <1>b, <2>3 DEF TakeAccount, t
  <2>5. crossed' \subseteq Tabs
    BY <1>0, <1>6, <1>a DEF TakeAccount, t, Crossing, TypeOK
  <2> QED
    BY <1>0, <1>6, <1>c, <2>1, <2>4, <2>5 DEF TakeAccount, t, TypeOK
<1>7. ASSUME t # NoTab, SubmitFails(r) PROVE NextFits
  <2>1. Shown
    <3>1. Show(t, path[t], user[t], loading[t], bootError[t], submitting[t] /\ ~r.heard)
      BY <1>7 DEF SubmitFails, t
    <3> QED
      BY <1>0, <1>7, <1>a, <3>1, StateTypes, ShowTypes
  <2> QED
    BY <1>0, <1>7, <1>b, <1>c, <2>1 DEF SubmitFails, t, TypeOK
<1>8. ASSUME t # NoTab, TakePlaces(r) PROVE NextFits
  <2>1. Shown
    BY <1>0, <1>8, NothingShown DEF TakePlaces, t
  <2>2. cache' \in [Tabs -> Users \cup {Nobody}]
    <3>1. cache' \in {cache, [cache EXCEPT ![t] = OwnerOf(r.token)]}
      BY <1>8 DEF TakePlaces, t
    <3> QED
      BY <1>0, <1>a, <3>1, OwnerOfType DEF TypeOK
  <2> QED
    BY <1>0, <1>8, <1>b, <1>c, <2>1, <2>2 DEF TakePlaces, t, TypeOK
<1>9. ASSUME t # NoTab, TakeDeleted(r) PROVE NextFits
  <2>1. CASE r.answer = "ok"
    <3>1. SignOut(t, requests \ {r}) /\ UNCHANGED <<server, loads>>
      BY <1>9, <2>1 DEF TakeDeleted, t
    <3>2. Shown
      <4>1. Show(t, path[t], Nobody, loading[t], FALSE, submitting[t])
        BY <3>1 DEF SignOut
      <4> QED
        BY <1>0, <1>9, <1>a, <4>1, StateTypes, ShowTypes
    <3>3. \A q \in requests' : Fits(q, owner)
      BY <1>b, <3>1, UnheardFits, ClearedFits DEF SignOut
    <3>4. /\ stored' = NoToken /\ cache' = [cache EXCEPT ![t] = Nobody]
          /\ crossed' = crossed \ {t}
      BY <3>1 DEF SignOut
    <3> QED
      BY <1>0, <1>c, <3>1, <3>2, <3>3, <3>4 DEF TypeOK
  <2>2. CASE r.answer # "ok"
    <3>1. requests' = requests \ {r} /\ UNCHANGED <<stored, tabState, server, loads>>
      BY <1>9, <2>2 DEF TakeDeleted, t
    <3>2. Shown
      BY <1>0, <3>1, NothingShown DEF tabState
    <3> QED
      BY <1>0, <1>b, <1>c, <3>1, <3>2 DEF TypeOK, tabState
  <2> QED
    BY <2>1, <2>2
<1> QED
  BY <1>1, <1>2, <1>3, <1>4, <1>5, <1>6, <1>7, <1>8, <1>9 DEF Receive, t

LEMMA InvStep == Inv /\ [Next]_vars => Inv'
<1> SUFFICES ASSUME Inv, [Next]_vars PROVE NextFits
  BY NextFitsInv
<1>1. ASSUME NEW token \in live, Expire(token) PROVE NextFits
  <2>1. /\ live' \subseteq live
        /\ UNCHANGED <<stored, tabState, requests, owner, accounts, loads>>
    BY <1>1 DEF Expire
  <2>2. Shown
    BY <2>1, NothingShown DEF Inv, tabState
  <2> QED
    BY <2>1, <2>2, InvFits DEF NextFits, Inv, TypeOK, tabState
<1>2. CASE UNCHANGED vars
  <2>1. Shown
    BY <1>2, NothingShown DEF Inv, vars, tabState
  <2> QED
    BY <1>2, <2>1, InvFits DEF NextFits, Inv, TypeOK, tabState, server, vars
<1> QED
  BY <1>1, <1>2, UserStep, ServerStep, AnswerStep DEF Next

\* Every variable keeps its range, for any number of tabs, users and tokens: a
\* request is always made of a tab, a token the server issued and an answer
\* that goes with its kind.
THEOREM TypeCorrect == Spec => []TypeOK
<1>1. Inv => TypeOK
  BY DEF Inv
<1> QED
  BY InitInv, InvStep, <1>1, PTL DEF Spec

-----------------------------------------------------------------------------
(* RedirectIsHonest: the router has nothing left to do between two steps, so  *)
(* that it moves a tab only when a step changes what it decides from.         *)

Settled == \A t \in Tabs : Routed(path[t], user[t], loading[t], bootError[t]) = path[t]
Honest == \A t \in Tabs : SentToLogin(t) => stored' = NoToken

\* A tab shows where Routed sends it, and the others stay as they are.
LEMMA ShowOf ==
  ASSUME TypeOK, NEW t \in Tabs, NEW p, NEW u, NEW l, NEW e, NEW b, Show(t, p, u, l, e, b)
  PROVE  /\ path'[t] = Routed(p, u, l, e) /\ user'[t] = u
         /\ loading'[t] = l /\ bootError'[t] = e
         /\ submitting'[t] = (b /\ path'[t] = "login" /\ path[t] = "login")
         /\ \A s \in Tabs \ {t} :
              /\ path'[s] = path[s] /\ user'[s] = user[s] /\ loading'[s] = loading[s]
              /\ bootError'[s] = bootError[s] /\ submitting'[s] = submitting[s]
  BY DEF Show, TypeOK

\* Where the router leads, it stays.
LEMMA RoutedOnce ==
  ASSUME NEW p, NEW u, NEW l, NEW e
  PROVE  Routed(Routed(p, u, l, e), u, l, e) = Routed(p, u, l, e)
  BY DEF Routed

\* A rendering is honest if the tab it moves to the form had no say in it.
LEMMA ShowHonest ==
  ASSUME TypeOK, Settled, NEW t \in Tabs, NEW p, NEW u, NEW l, NEW e, NEW b,
         Show(t, p, u, l, e, b),
         path[t] = "app" /\ Routed(p, u, l, e) = "login" =>
           stored' = NoToken \/ loads' # loads
  PROVE  Settled' /\ Honest
<1>1. ASSUME NEW s \in Tabs
      PROVE  /\ Routed(path'[s], user'[s], loading'[s], bootError'[s]) = path'[s]
             /\ SentToLogin(s) => stored' = NoToken
  <2>1. CASE s = t
    BY <2>1, ShowOf, RoutedOnce DEF SentToLogin
  <2>2. CASE s # t
    <3>1. /\ path'[s] = path[s] /\ user'[s] = user[s]
          /\ loading'[s] = loading[s] /\ bootError'[s] = bootError[s]
      BY <2>2, ShowOf
    <3> QED
      BY <3>1 DEF Settled, SentToLogin
  <2> QED
    BY <2>1, <2>2
<1> QED
  BY <1>1 DEF Settled, Honest

LEMMA StillHonest ==
  ASSUME Settled, UNCHANGED <<path, user, loading, bootError>>
  PROVE  Settled' /\ Honest
  BY DEF Settled, Honest, SentToLogin

LEMMA HonestStep == Inv /\ Settled /\ [Next]_vars => Settled' /\ Honest
<1> SUFFICES ASSUME Inv, Settled, [Next]_vars PROVE Settled' /\ Honest
  OBVIOUS
<1>0. TypeOK /\ \A r \in requests : Fits(r, owner)
  BY InvFits DEF Inv
<1>1. ASSUME NEW t \in Tabs, ByUser(t) PROVE Settled' /\ Honest
  <2>1. ASSUME NEW p \in {"login", "app"}, Open(t, p) PROVE Settled' /\ Honest
    <3>1. Show(t, p, Nobody, stored # NoToken, FALSE, FALSE) /\ loads' = loads + 1
      BY <2>1 DEF Open
    <3>2. loads' # loads
      BY <1>0, <3>1, BoundsAssumption DEF TypeOK
    <3> QED
      BY <1>0, <3>1, <3>2, ShowHonest
  <2>2. ASSUME NEW u \in Users, OpenCallback(t, u) PROVE Settled' /\ Honest
    <3>1. Show(t, "callback", Nobody, TRUE, FALSE, FALSE)
      BY <2>2 DEF OpenCallback
    <3>2. Routed("callback", Nobody, TRUE, FALSE) # "login"
      BY DEF Routed
    <3> QED
      BY <1>0, <3>1, <3>2, ShowHonest
  <2>3. ASSUME BackToLogin(t) PROVE Settled' /\ Honest
    <3>1. path[t] = "callback" /\ Show(t, "login", user[t], loading[t], bootError[t], FALSE)
      BY <2>3 DEF BackToLogin
    <3> QED
      BY <1>0, <3>1, ShowHonest
  <2>4. ASSUME NEW kind \in {"login", "register"}, NEW u \in Users, Submit(t, kind, u)
        PROVE  Settled' /\ Honest
    <3>1. path[t] = "login" /\ Show(t, path[t], user[t], loading[t], bootError[t], TRUE)
      BY <2>4 DEF Submit
    <3> QED
      BY <1>0, <3>1, ShowHonest
  <2>5. ASSUME RetryBoot(t) PROVE Settled' /\ Honest
    <3>1. path[t] = "app" /\ Show(t, path[t], Nobody, TRUE, FALSE, FALSE)
      BY <2>5 DEF RetryBoot
    <3>2. Routed(path[t], Nobody, TRUE, FALSE) = "app"
      BY <3>1 DEF Routed
    <3> QED
      BY <1>0, <3>1, <3>2, ShowHonest
  <2>6. ASSUME AskPlaces(t) \/ AskDelete(t) PROVE Settled' /\ Honest
    BY <2>6, StillHonest DEF AskPlaces, AskDelete
  <2>7. ASSUME Logout(t) PROVE Settled' /\ Honest
    <3>1. stored' = NoToken /\ Show(t, path[t], Nobody, loading[t], FALSE, submitting[t])
      BY <2>7 DEF Logout, SignOut
    <3> QED
      BY <1>0, <3>1, ShowHonest
  <2> QED
    BY <1>1, <2>1, <2>2, <2>3, <2>4, <2>5, <2>6, <2>7 DEF ByUser
<1>2. ASSUME NEW r \in requests, Serve(r) \/ Fail(r) PROVE Settled' /\ Honest
  BY <1>2, StillHonest DEF Serve, Fail, tabState
<1>3. ASSUME NEW r \in requests, Receive(r) PROVE Settled' /\ Honest
  <2> DEFINE t == r.tab
  <2>a. Fits(r, owner) /\ t \in Tabs \cup {NoTab} /\ r.token \in DOMAIN owner \cup {NoToken}
    BY <1>0, <1>3 DEF Fits, Request
  <2> HIDE DEF t
  <2>1. ASSUME Discard(r) PROVE Settled' /\ Honest
    BY <2>1, StillHonest DEF Discard, tabState
  <2>2. ASSUME t \in Tabs, Unauthorized(r) PROVE Settled' /\ Honest
    <3>1. stored' = NoToken /\ Show(t, path[t], Nobody, loading[t] /\ r.kind # "boot",
             bootError[t], submitting[t] /\ ~(r.kind = "me" /\ r.heard))
      BY <2>2 DEF Unauthorized, t
    <3> QED
      BY <1>0, <2>2, <3>1, ShowHonest
  <2>3. ASSUME t \in Tabs, TakeUser(r) PROVE Settled' /\ Honest
    <3> DEFINE p == IF r.kind = "me" THEN "app" ELSE path[t]
               l == loading[t] /\ r.kind = "me"
               e == bootError[t] /\ ~(r.kind = "me")
    <3>1. Show(t, p, OwnerOf(r.token), l, e, submitting[t])
      BY <2>3 DEF TakeUser, t
    <3>2. OwnerOf(r.token) # Nobody
      <4>1. r.token # NoToken
        BY <2>3, <2>a DEF TakeUser, Fits
      <4> QED
        BY <1>0, <4>1, <2>a, OwnerOfType, BoundsAssumption
    <3>3. path[t] = "app" => Routed(p, OwnerOf(r.token), l, e) # "login"
      BY <3>2 DEF Routed
    <3> HIDE DEF p, l, e
    <3> QED
      BY <1>0, <2>3, <3>1, <3>3, ShowHonest
  <2>4. ASSUME t \in Tabs, BootFails(r) PROVE Settled' /\ Honest
    <3>1. Show(t, path[t], user[t], FALSE, TRUE, submitting[t])
      BY <2>4 DEF BootFails, t
    <3>2. path[t] = "app" => Routed(path[t], user[t], FALSE, TRUE) # "login"
      BY DEF Routed
    <3> QED
      BY <1>0, <2>4, <3>1, <3>2, ShowHonest
  <2>5. ASSUME t \in Tabs, SubmitFails(r) PROVE Settled' /\ Honest
    <3>1. Show(t, path[t], user[t], loading[t], bootError[t], submitting[t] /\ ~r.heard)
      BY <2>5 DEF SubmitFails, t
    <3>2. Routed(path[t], user[t], loading[t], bootError[t]) = path[t]
      BY <2>5 DEF Settled
    <3> QED
      BY <1>0, <2>5, <3>1, <3>2, ShowHonest
  <2>6. ASSUME t \in Tabs, TakeToken(r) \/ TakeAccount(r) \/ TakePlaces(r)
        PROVE  Settled' /\ Honest
    BY <2>6, StillHonest DEF TakeToken, TakeAccount, TakePlaces, tabState
  <2>7. ASSUME t \in Tabs, TakeDeleted(r) PROVE Settled' /\ Honest
    <3>1. CASE r.answer = "ok"
      <4>1. stored' = NoToken /\ Show(t, path[t], Nobody, loading[t], FALSE, submitting[t])
        BY <2>7, <3>1 DEF TakeDeleted, SignOut, t
      <4> QED
        BY <1>0, <2>7, <4>1, ShowHonest
    <3>2. CASE r.answer # "ok"
      BY <2>7, <3>2, StillHonest DEF TakeDeleted, tabState
    <3> QED
      BY <3>1, <3>2
  <2> QED
    BY <1>3, <2>a, <2>1, <2>2, <2>3, <2>4, <2>5, <2>6, <2>7 DEF Receive, t
<1>4. ASSUME NEW token \in live, Expire(token) PROVE Settled' /\ Honest
  BY <1>4, StillHonest DEF Expire, tabState
<1>5. CASE UNCHANGED vars
  BY <1>5, StillHonest DEF vars, tabState
<1> QED
  BY <1>1, <1>2, <1>3, <1>4, <1>5 DEF Next

\* Nobody is sent from a protected page to the login form while a token is
\* stored, in any interleaving of tabs and late answers.
THEOREM NobodyRedirectedInVain == Spec => RedirectIsHonest
<1>1. Init => Settled
  BY DEF Init, Settled, Routed
<1>2. Inv /\ Settled /\ [Next]_vars => Settled'
  BY HonestStep
<1>3. Inv /\ Settled /\ [Next]_vars =>
        [\A t \in Tabs : SentToLogin(t) => stored' = NoToken]_vars
  BY HonestStep DEF Honest
<1> QED
  BY InitInv, InvStep, <1>1, <1>2, <1>3, PTL DEF Spec, RedirectIsHonest

-----------------------------------------------------------------------------
(* WaitsForAnAnswer: a step that takes the awaited request away, or stops    *)
(* listening to it, takes the word away too.                               *)

FormKinds == {"login", "register", "me"}
BootAwaited(t) == \E r \in requests : r.tab = t /\ r.kind = "boot"
FormAwaited(t) == \E r \in requests : r.tab = t /\ r.kind \in FormKinds /\ r.heard
Waits(t) == (loading[t] => BootAwaited(t)) /\ (submitting[t] => FormAwaited(t))

LEMMA WaitsDef == WaitsForAnAnswer <=> \A t \in Tabs : Waits(t)
  BY DEF WaitsForAnAnswer, Waits, BootAwaited, FormAwaited, FormKinds

\* What leaving a form and clearing the queries never touch.
LEMMA UnheardKeeps ==
  ASSUME NEW t, NEW left \in SUBSET Request, NEW r \in left,
         r.tab # t \/ r.kind \notin FormKinds
  PROVE  r \in Unheard(t, left)
  BY DEF Unheard, FormKinds

LEMMA UnheardOnTheForm ==
  ASSUME NEW t, NEW left, path'[t] = "login", path[t] = "login"
  PROVE  Unheard(t, left) = left
  BY DEF Unheard

LEMMA ClearedKeeps ==
  ASSUME NEW t, NEW left \in SUBSET Request, NEW r \in left,
         r.tab # t \/ r.kind # "places"
  PROVE  r \in Cleared(t, left)
  BY DEF Cleared

\* The tabs that a step does not show, whose requests it leaves alone.
LEMMA OthersWait ==
  ASSUME TypeOK, WaitsForAnAnswer, NEW t \in Tabs, NEW p, NEW u, NEW l, NEW e, NEW b,
         Show(t, p, u, l, e, b), Waits(t)',
         \A r \in requests : r.tab # t => r \in requests'
  PROVE  WaitsForAnAnswer'
<1>1. ASSUME NEW s \in Tabs, s # t PROVE Waits(s)'
  <2>1. loading'[s] = loading[s] /\ submitting'[s] = submitting[s]
    BY <1>1, ShowOf
  <2>2. Waits(s)
    BY WaitsDef
  <2> QED
    BY <1>1, <2>1, <2>2 DEF Waits, BootAwaited, FormAwaited
<1> QED
  BY <1>1 DEF WaitsForAnAnswer, Waits, BootAwaited, FormAwaited, FormKinds

\* A request that stays in the hands of the same caller.
LEMMA ReplacedWaits ==
  ASSUME WaitsForAnAnswer, UNCHANGED <<loading, submitting>>, NEW r \in requests, NEW q,
         requests' = (requests \ {r}) \cup {q},
         q.tab = r.tab, q.heard = r.heard,
         r.kind = "boot" => q.kind = "boot",
         r.kind \in FormKinds => q.kind \in FormKinds
  PROVE  WaitsForAnAnswer'
  BY DEF WaitsForAnAnswer, FormKinds

LEMMA MoreWaits ==
  ASSUME WaitsForAnAnswer, UNCHANGED <<loading, submitting>>,
         \A r \in requests : r.kind \in FormKinds \cup {"boot"} => r \in requests'
  PROVE  WaitsForAnAnswer'
  BY DEF WaitsForAnAnswer, FormKinds

LEMMA WaitsUserStep ==
  ASSUME Inv, WaitsForAnAnswer, NEW t \in Tabs, ByUser(t)
  PROVE  WaitsForAnAnswer'
<1>0. TypeOK /\ requests \in SUBSET Request /\ Waits(t)
  BY WaitsDef DEF Inv, TypeOK
<1>1. ASSUME NEW p \in {"login", "app"}, Open(t, p) PROVE WaitsForAnAnswer'
  <2>1. Show(t, p, Nobody, stored # NoToken, FALSE, FALSE)
    BY <1>1 DEF Open
  <2>2. stored # NoToken => Sent(t, "boot", stored, Nobody) \in requests'
    BY <1>1 DEF Open
  <2>3. \A r \in requests : r.tab # t => r \in requests'
    BY <1>1 DEF Open
  <2>4. Waits(t)'
    BY <1>0, <2>1, <2>2, ShowOf DEF Waits, BootAwaited, Sent
  <2> QED
    BY <1>0, <2>1, <2>3, <2>4, OthersWait
<1>2. ASSUME NEW u \in Users, OpenCallback(t, u) PROVE WaitsForAnAnswer'
  <2>1. Show(t, "callback", Nobody, TRUE, FALSE, FALSE)
    BY <1>2 DEF OpenCallback
  <2>2. Sent(t, "boot", Len(owner) + 1, Nobody) \in requests'
    BY <1>2 DEF OpenCallback
  <2>3. \A r \in requests : r.tab # t => r \in requests'
    BY <1>2 DEF OpenCallback
  <2>4. Waits(t)'
    BY <1>0, <2>1, <2>2, ShowOf DEF Waits, BootAwaited, Sent
  <2> QED
    BY <1>0, <2>1, <2>3, <2>4, OthersWait
<1>3. ASSUME BackToLogin(t) PROVE WaitsForAnAnswer'
  <2>1. Show(t, "login", user[t], loading[t], bootError[t], FALSE)
    BY <1>3 DEF BackToLogin
  <2>2. requests' = Unheard(t, requests)
    BY <1>3 DEF BackToLogin
  <2>3. \A r \in requests : r.tab # t \/ r.kind = "boot" => r \in requests'
    BY <1>0, <2>2, UnheardKeeps DEF FormKinds
  <2>4. loading'[t] = loading[t] /\ ~submitting'[t]
    BY <1>0, <2>1 DEF Show, TypeOK
  <2>5. Waits(t)'
    BY <1>0, <2>3, <2>4 DEF Waits, BootAwaited
  <2> QED
    BY <1>0, <2>1, <2>3, <2>5, OthersWait
<1>4. ASSUME NEW kind \in {"login", "register"}, NEW u \in Users, Submit(t, kind, u)
      PROVE  WaitsForAnAnswer'
  <2>1. Show(t, path[t], user[t], loading[t], bootError[t], TRUE)
    BY <1>4 DEF Submit
  <2>2. requests \subseteq requests' /\ Sent(t, kind, stored, u) \in requests'
    BY <1>4 DEF Submit
  <2>3. FormAwaited(t)'
    <3>1. LET q == Sent(t, kind, stored, u)
          IN  q.tab = t /\ q.kind \in FormKinds /\ q.heard
      BY DEF Sent, FormKinds
    <3> QED
      BY <2>2, <3>1 DEF FormAwaited
  <2>4. loading'[t] = loading[t]
    BY <1>0, <2>1 DEF Show, TypeOK
  <2>5. Waits(t)'
    BY <1>0, <2>2, <2>3, <2>4 DEF Waits, BootAwaited
  <2> QED
    BY <1>0, <2>1, <2>2, <2>5, OthersWait
<1>5. ASSUME RetryBoot(t) PROVE WaitsForAnAnswer'
  <2>1. Show(t, path[t], Nobody, TRUE, FALSE, FALSE)
    BY <1>5 DEF RetryBoot
  <2>2. requests \subseteq requests' /\ Sent(t, "boot", stored, Nobody) \in requests'
    BY <1>5 DEF RetryBoot
  <2>a. BootAwaited(t)'
    BY <2>2 DEF BootAwaited, Sent
  <2>b. ~submitting'[t]
    BY <1>0, <2>1 DEF Show, TypeOK
  <2>3. Waits(t)'
    BY <2>a, <2>b DEF Waits
  <2> QED
    BY <1>0, <2>1, <2>2, <2>3, OthersWait
<1>6. ASSUME AskPlaces(t) \/ AskDelete(t) PROVE WaitsForAnAnswer'
  BY <1>6, MoreWaits DEF AskPlaces, AskDelete
<1>7. ASSUME Logout(t) PROVE WaitsForAnAnswer'
  <2>1. Show(t, path[t], Nobody, loading[t], FALSE, submitting[t])
    BY <1>7 DEF Logout, SignOut
  <2>2. path[t] = "app"
    BY <1>7 DEF Logout, InApp
  <2>3. requests' = Unheard(t, Cleared(t, requests))
    BY <1>7 DEF Logout, SignOut
  <2>4. Cleared(t, requests) \in SUBSET Request
    BY <1>0, ClearedAlike
  <2>5. \A r \in requests : r.tab # t \/ r.kind = "boot" => r \in requests'
    BY <1>0, <2>3, <2>4, ClearedKeeps, UnheardKeeps DEF FormKinds
  <2>a. loading'[t] = loading[t] /\ ~submitting'[t]
    BY <1>0, <2>1, <2>2 DEF Show, TypeOK
  <2>6. Waits(t)'
    BY <1>0, <2>5, <2>a DEF Waits, BootAwaited
  <2> QED
    BY <1>0, <2>1, <2>5, <2>6, OthersWait
<1> QED
  BY <1>1, <1>2, <1>3, <1>4, <1>5, <1>6, <1>7 DEF ByUser

LEMMA WaitsServerStep ==
  ASSUME Inv, WaitsForAnAnswer, NEW r \in requests, Serve(r) \/ Fail(r)
  PROVE  WaitsForAnAnswer'
<1>0. r \in Request /\ UNCHANGED <<loading, submitting>>
  BY DEF Inv, TypeOK, Serve, Fail, tabState
<1>1. ASSUME NEW a, requests' = Answered(r, a) PROVE WaitsForAnAnswer'
  <2> DEFINE q == [r EXCEPT !.answer = a]
  <2>1. q.tab = r.tab /\ q.heard = r.heard /\ q.kind = r.kind
    BY <1>0 DEF Request
  <2>2. requests' = (requests \ {r}) \cup {q}
    BY <1>1 DEF Answered
  <2> HIDE DEF q
  <2> QED
    BY <1>0, <2>1, <2>2, ReplacedWaits
<1>2. ASSUME ServeLogin(r) PROVE WaitsForAnAnswer'
  <2> DEFINE q == [r EXCEPT !.answer = "ok", !.token = Len(owner) + 1]
  <2>1. q.tab = r.tab /\ q.heard = r.heard /\ q.kind = r.kind
    BY <1>0 DEF Request
  <2>2. requests' = (requests \ {r}) \cup {q}
    BY <1>2 DEF ServeLogin
  <2> HIDE DEF q
  <2> QED
    BY <1>0, <2>1, <2>2, ReplacedWaits
<1> QED
  BY <1>1, <1>2 DEF Serve, Fail, ServeAuthenticated, ServeRegister

LEMMA WaitsAnswerStep ==
  ASSUME Inv, WaitsForAnAnswer, NEW r \in requests, Receive(r)
  PROVE  WaitsForAnAnswer'
<1> DEFINE t == r.tab
           left == requests \ {r}
<1>0. /\ TypeOK /\ r \in Request /\ t \in Tabs \cup {NoTab}
      /\ left \in SUBSET Request /\ Fits(r, owner)
  BY InvFits DEF Inv, TypeOK, Request
<1>a. t \in Tabs => Waits(t)
  BY WaitsDef
<1>b. t = NoTab => r.kind \in {"register", "delete"}
  BY <1>0 DEF Fits
<1>c. \A q \in left : q.tab # t \/ q.kind \notin FormKinds => q \in Unheard(t, left)
  BY <1>0, UnheardKeeps
<1>d. \A q \in requests : q.tab # t => q \in left
  OBVIOUS
<1> HIDE DEF t, left
<1>1. ASSUME Discard(r) PROVE WaitsForAnAnswer'
  <2>1. \A s \in Tabs : s # r.tab
    BY <1>1, BoundsAssumption DEF Discard
  <2>2. requests' = requests \ {r} /\ UNCHANGED <<loading, submitting>>
    BY <1>1 DEF Discard, tabState
  <2> QED
    BY <2>1, <2>2 DEF WaitsForAnAnswer
<1>2. ASSUME t \in Tabs, Unauthorized(r) PROVE WaitsForAnAnswer'
  <2>1. Show(t, path[t], Nobody, loading[t] /\ r.kind # "boot", bootError[t],
             submitting[t] /\ ~(r.kind = "me" /\ r.heard))
    BY <1>2 DEF Unauthorized, t
  <2>2. requests' = Unheard(t, left)
    BY <1>2 DEF Unauthorized, t, left
  <2>3. loading'[t] => BootAwaited(t)'
    <3>1. SUFFICES ASSUME loading'[t] PROVE BootAwaited(t)'
      OBVIOUS
    <3>2. loading[t] /\ r.kind # "boot"
      BY <1>0, <1>2, <2>1, <3>1, ShowOf
    <3>3. PICK q \in requests : q.tab = t /\ q.kind = "boot"
      BY <1>2, <1>a, <3>2 DEF Waits, BootAwaited
    <3>4. q \in left
      BY <3>2, <3>3 DEF left
    <3> QED
      BY <1>c, <2>2, <3>3, <3>4 DEF BootAwaited, FormKinds
  <2>4. submitting'[t] => FormAwaited(t)'
    <3>1. SUFFICES ASSUME submitting'[t] PROVE FormAwaited(t)'
      OBVIOUS
    <3>2. /\ submitting[t] /\ ~(r.kind = "me" /\ r.heard)
          /\ path'[t] = "login" /\ path[t] = "login"
      BY <1>0, <1>2, <2>1, <3>1, ShowOf
    <3>3. PICK q \in requests : q.tab = t /\ q.kind \in FormKinds /\ q.heard
      BY <1>2, <1>a, <3>2 DEF Waits, FormAwaited
    <3>4. r.kind \in {"boot", "me", "places", "delete"}
      BY <1>0, <1>2 DEF Fits, AnswerOK, Unauthorized
    <3>5. q \in left
      BY <3>2, <3>3, <3>4 DEF left, FormKinds
    <3>6. requests' = left
      BY <2>2, <3>2, UnheardOnTheForm
    <3> QED
      BY <3>3, <3>5, <3>6 DEF FormAwaited
  <2> QED
    BY <1>0, <1>2, <1>c, <1>d, <2>1, <2>2, <2>3, <2>4, OthersWait DEF Waits
<1>3. ASSUME t \in Tabs, TakeUser(r) PROVE WaitsForAnAnswer'
  <2> DEFINE p == IF r.kind = "me" THEN "app" ELSE path[t]
             l == loading[t] /\ r.kind = "me"
             e == bootError[t] /\ ~(r.kind = "me")
  <2>1. Show(t, p, OwnerOf(r.token), l, e, submitting[t])
    BY <1>3 DEF TakeUser, t
  <2>2. requests' = Unheard(t, left)
    BY <1>3 DEF TakeUser, t, left
  <2>3. loading'[t] => loading[t] /\ r.kind # "boot"
    BY <1>0, <1>3, <2>1, ShowOf
  <2>4. ~submitting'[t]
    <3>1. r.token # NoToken /\ r.token \in DOMAIN owner
      BY <1>0, <1>3 DEF Fits, TakeUser
    <3>2. OwnerOf(r.token) # Nobody
      BY <1>0, <3>1, OwnerOfType, BoundsAssumption
    <3>3. Routed(p, OwnerOf(r.token), l, e) # "login"
      BY <3>2 DEF Routed
    <3> HIDE DEF p, l, e
    <3> QED
      BY <1>0, <1>3, <2>1, <3>3 DEF Show, TypeOK
  <2> HIDE DEF p, l, e
  <2>5. loading'[t] => BootAwaited(t)'
    <3>1. SUFFICES ASSUME loading'[t] PROVE BootAwaited(t)'
      OBVIOUS
    <3>2. PICK q \in requests : q.tab = t /\ q.kind = "boot"
      BY <1>3, <1>a, <2>3, <3>1 DEF Waits, BootAwaited
    <3>3. q \in left
      BY <2>3, <3>1, <3>2 DEF left
    <3> QED
      BY <1>c, <2>2, <3>2, <3>3 DEF BootAwaited, FormKinds
  <2> QED
    BY <1>0, <1>3, <1>c, <1>d, <2>1, <2>2, <2>4, <2>5, OthersWait DEF Waits
<1>4. ASSUME t \in Tabs, BootFails(r) PROVE WaitsForAnAnswer'
  <2>1. Show(t, path[t], user[t], FALSE, TRUE, submitting[t])
    BY <1>4 DEF BootFails, t
  <2>2. requests' = Unheard(t, left) /\ r.kind = "boot"
    BY <1>4 DEF BootFails, t, left
  <2>3. ~loading'[t]
    BY <1>0, <1>4, <2>1, ShowOf
  <2>4. submitting'[t] => FormAwaited(t)'
    <3>1. SUFFICES ASSUME submitting'[t] PROVE FormAwaited(t)'
      OBVIOUS
    <3>2. submitting[t] /\ path'[t] = "login" /\ path[t] = "login"
      BY <1>0, <1>4, <2>1, <3>1, ShowOf
    <3>3. PICK q \in requests : q.tab = t /\ q.kind \in FormKinds /\ q.heard
      BY <1>4, <1>a, <3>2 DEF Waits, FormAwaited
    <3>4. q \in left
      BY <2>2, <3>3 DEF left, FormKinds
    <3>5. requests' = left
      BY <2>2, <3>2, UnheardOnTheForm
    <3> QED
      BY <3>3, <3>4, <3>5 DEF FormAwaited
  <2> QED
    BY <1>0, <1>4, <1>c, <1>d, <2>1, <2>2, <2>3, <2>4, OthersWait DEF Waits
<1>5. ASSUME TakeToken(r) PROVE WaitsForAnAnswer'
  <2>1. UNCHANGED <<loading, submitting>> /\ r.kind = "login"
    BY <1>5 DEF TakeToken, tabState
  <2> DEFINE q == [Sent(r.tab, "me", r.token, Nobody) EXCEPT !.heard = r.heard]
  <2>2. q.tab = r.tab /\ q.heard = r.heard /\ q.kind = "me"
    BY DEF Sent
  <2>3. requests' = (requests \ {r}) \cup {q}
    BY <1>5 DEF TakeToken
  <2> HIDE DEF q
  <2> QED
    BY <2>1, <2>2, <2>3, ReplacedWaits DEF FormKinds
<1>6. ASSUME TakeAccount(r) PROVE WaitsForAnAnswer'
  <2>1. UNCHANGED <<loading, submitting>> /\ r.kind = "register"
    BY <1>6 DEF TakeAccount
  <2> DEFINE q == [Sent(r.tab, "login", stored, r.who) EXCEPT !.heard = r.heard]
  <2>2. q.tab = r.tab /\ q.heard = r.heard /\ q.kind = "login"
    BY DEF Sent
  <2>3. requests' = (requests \ {r}) \cup {q}
    BY <1>6 DEF TakeAccount
  <2> HIDE DEF q
  <2> QED
    BY <2>1, <2>2, <2>3, ReplacedWaits DEF FormKinds
<1>7. ASSUME t \in Tabs, SubmitFails(r) PROVE WaitsForAnAnswer'
  <2>1. Show(t, path[t], user[t], loading[t], bootError[t], submitting[t] /\ ~r.heard)
    BY <1>7 DEF SubmitFails, t
  <2>2. requests' = left /\ r.kind \in FormKinds
    BY <1>7 DEF SubmitFails, left, FormKinds
  <2>3. loading'[t] => BootAwaited(t)'
    <3>1. loading'[t] = loading[t]
      BY <1>0, <1>7, <2>1, ShowOf
    <3> QED
      BY <1>7, <1>a, <2>2, <3>1 DEF Waits, BootAwaited, left, FormKinds
  <2>4. submitting'[t] => FormAwaited(t)'
    <3>1. SUFFICES ASSUME submitting'[t] PROVE FormAwaited(t)'
      OBVIOUS
    <3>2. submitting[t] /\ ~r.heard
      BY <1>0, <1>7, <2>1, <3>1, ShowOf
    <3>3. PICK q \in requests : q.tab = t /\ q.kind \in FormKinds /\ q.heard
      BY <1>7, <1>a, <3>2 DEF Waits, FormAwaited
    <3>4. q \in left
      BY <3>2, <3>3 DEF left
    <3> QED
      BY <2>2, <3>3, <3>4 DEF FormAwaited
  <2> QED
    BY <1>0, <1>7, <1>d, <2>1, <2>2, <2>3, <2>4, OthersWait DEF Waits
<1>8. ASSUME TakePlaces(r) PROVE WaitsForAnAnswer'
  <2>1. UNCHANGED <<loading, submitting>> /\ requests' = requests \ {r} /\ r.kind = "places"
    BY <1>8 DEF TakePlaces
  <2> QED
    BY <2>1, MoreWaits DEF FormKinds
<1>9. ASSUME t \in Tabs, TakeDeleted(r) PROVE WaitsForAnAnswer'
  <2>1. r.kind = "delete"
    BY <1>9 DEF TakeDeleted
  <2>2. CASE r.answer = "ok"
    <3>1. Show(t, path[t], Nobody, loading[t], FALSE, submitting[t])
      BY <1>9, <2>2 DEF TakeDeleted, SignOut, t
    <3>2. requests' = Unheard(t, Cleared(t, left))
      BY <1>9, <2>2 DEF TakeDeleted, SignOut, t, left
    <3>3. Cleared(t, left) \in SUBSET Request
      BY <1>0, ClearedAlike
    <3>4. \A q \in left : q.tab # t \/ q.kind = "boot" => q \in requests'
      BY <1>0, <3>2, <3>3, ClearedKeeps, UnheardKeeps DEF FormKinds
    <3>5. loading'[t] => BootAwaited(t)'
      <4>1. loading'[t] = loading[t]
        BY <1>0, <1>9, <3>1, ShowOf
      <4>2. \A q \in requests : q.kind = "boot" => q \in left
        BY <2>1 DEF left
      <4> QED
        BY <1>9, <1>a, <3>4, <4>1, <4>2 DEF Waits, BootAwaited
    <3>6. submitting'[t] => FormAwaited(t)'
      <4>1. SUFFICES ASSUME submitting'[t] PROVE FormAwaited(t)'
        OBVIOUS
      <4>2. submitting[t] /\ path'[t] = "login" /\ path[t] = "login"
        BY <1>0, <1>9, <3>1, <4>1, ShowOf
      <4>3. PICK q \in requests : q.tab = t /\ q.kind \in FormKinds /\ q.heard
        BY <1>9, <1>a, <4>2 DEF Waits, FormAwaited
      <4>4. q \in Cleared(t, left)
        BY <1>0, <2>1, <4>3, ClearedKeeps DEF left, FormKinds
      <4>5. requests' = Cleared(t, left)
        BY <3>2, <4>2, UnheardOnTheForm
      <4> QED
        BY <4>3, <4>4, <4>5 DEF FormAwaited
    <3> QED
      BY <1>0, <1>9, <1>d, <3>1, <3>4, <3>5, <3>6, OthersWait DEF Waits
  <2>3. CASE r.answer # "ok"
    <3>1. requests' = requests \ {r} /\ UNCHANGED <<loading, submitting>>
      BY <1>9, <2>3 DEF TakeDeleted, tabState
    <3> QED
      BY <2>1, <3>1, MoreWaits DEF FormKinds
  <2> QED
    BY <2>2, <2>3
<1> QED
  BY <1>0, <1>1, <1>2, <1>3, <1>4, <1>5, <1>6, <1>7, <1>8, <1>9 DEF Receive, t

\* "Loading" and "Working" are shown only while an answer is awaited that will
\* take them away.
THEOREM NothingWaitsInVain == Spec => []WaitsForAnAnswer
<1>1. Init => WaitsForAnAnswer
  BY DEF Init, WaitsForAnAnswer
<1>2. Inv /\ WaitsForAnAnswer /\ [Next]_vars => WaitsForAnAnswer'
  <2> SUFFICES ASSUME Inv, WaitsForAnAnswer, [Next]_vars PROVE WaitsForAnAnswer'
    OBVIOUS
  <2>1. ASSUME NEW token \in live, Expire(token) PROVE WaitsForAnAnswer'
    BY <2>1, MoreWaits DEF Expire, tabState
  <2>2. CASE UNCHANGED vars
    BY <2>2, MoreWaits DEF vars, tabState
  <2> QED
    BY <2>1, <2>2, WaitsUserStep, WaitsServerStep, WaitsAnswerStep DEF Next
<1> QED
  BY InitInv, InvStep, <1>1, <1>2, PTL DEF Spec

-----------------------------------------------------------------------------
(* ValidTokenKept: a refusal is for good, so that a refused request was sent *)
(* with a token that is not the accepted one in storage.                   *)

Refusals == \A r \in requests : r.answer = "refused" => r.token \notin live

\* The refusals of the next state were there before.
NoNewRefusal ==
  \A q \in requests' : q.answer = "refused" =>
    \E r \in requests : r.answer = "refused" /\ r.token = q.token

LEMMA UnheardRefusals ==
  ASSUME NEW t, NEW left \in SUBSET Request, NEW q \in Unheard(t, left), q.answer = "refused"
  PROVE  \E r \in left : r.answer = "refused" /\ r.token = q.token
  BY UnheardAlike DEF Alike

LEMMA ClearedRefusals ==
  ASSUME NEW t, NEW left \in SUBSET Request, NEW q \in Cleared(t, left), q.answer = "refused"
  PROVE  \E r \in left : r.answer = "refused" /\ r.token = q.token
  BY ClearedAlike DEF Alike

\* A token that is issued has never been refused.
LEMMA RefusalsKept ==
  ASSUME Inv, Refusals, NoNewRefusal, live' \subseteq live \cup {Len(owner) + 1}
  PROVE  Refusals'
<1>1. ASSUME NEW q \in requests', q.answer = "refused" PROVE q.token \notin live'
  <2>1. PICK r \in requests : r.answer = "refused" /\ r.token = q.token
    BY <1>1 DEF NoNewRefusal
  <2>2. r.token \notin live /\ r.token \in DOMAIN owner \cup {NoToken}
    BY <2>1 DEF Refusals, Inv, TypeOK
  <2>3. DOMAIN owner = 1 .. Len(owner) /\ Len(owner) \in Nat
    BY DEF Inv, TypeOK
  <2>4. r.token # Len(owner) + 1
    BY <2>2, <2>3 DEF NoToken
  <2> QED
    BY <2>1, <2>2, <2>4
<1> QED
  BY <1>1 DEF Refusals

LEMMA RefusalsStep == Inv /\ Refusals /\ [Next]_vars => Refusals'
<1> SUFFICES ASSUME Inv, Refusals, [Next]_vars PROVE Refusals'
  OBVIOUS
<1>0. requests \in SUBSET Request
  BY DEF Inv, TypeOK
<1>a. ASSUME NEW t, NEW kind, NEW token, NEW who PROVE Sent(t, kind, token, who).answer = "none"
  BY DEF Sent
<1>1. ASSUME NEW t \in Tabs, ByUser(t) PROVE Refusals'
  <2>1. ASSUME NEW p \in {"login", "app"}, Open(t, p) PROVE Refusals'
    <3>1. ASSUME NEW q \in requests', q.answer = "refused" PROVE q \in requests
      <4>1. \/ q \in requests
            \/ \E r \in requests : r.answer = "none" /\ q = [r EXCEPT !.tab = NoTab]
            \/ q = Sent(t, "boot", stored, Nobody)
        BY <2>1, Zenon DEF Open
      <4>2. ASSUME NEW r \in requests, r.answer = "none", q = [r EXCEPT !.tab = NoTab]
            PROVE  FALSE
        BY <1>0, <3>1, <4>2 DEF Request
      <4> QED
        BY <1>a, <3>1, <4>1, <4>2
    <3>2. live' = live
      BY <2>1 DEF Open, server
    <3> QED
      BY <3>1, <3>2, RefusalsKept DEF NoNewRefusal
  <2>2. ASSUME NEW u \in Users, OpenCallback(t, u) PROVE Refusals'
    <3>1. /\ requests' \subseteq requests \cup {Sent(t, "me", Len(owner) + 1, Nobody),
                                               Sent(t, "boot", Len(owner) + 1, Nobody)}
          /\ live' = live \cup {Len(owner) + 1}
      BY <2>2 DEF OpenCallback
    <3>2. \A q \in requests' : q.answer = "refused" => q \in requests
      BY <1>a, <3>1
    <3> QED
      BY <3>1, <3>2, RefusalsKept DEF NoNewRefusal
  <2>3. ASSUME BackToLogin(t) PROVE Refusals'
    <3>1. requests' = Unheard(t, requests) /\ live' = live
      BY <2>3 DEF BackToLogin, server
    <3>2. NoNewRefusal
      BY <1>0, <3>1, UnheardRefusals DEF NoNewRefusal
    <3> QED
      BY <3>1, <3>2, RefusalsKept
  <2>4. ASSUME NEW kind, NEW u,
               requests' = requests \cup {Sent(t, kind, stored, u)}, live' = live
        PROVE  Refusals'
    <3>1. \A q \in requests' : q.answer = "refused" => q \in requests
      BY <1>a, <2>4
    <3> QED
      BY <2>4, <3>1, RefusalsKept DEF NoNewRefusal
  <2>5. ASSUME Logout(t) PROVE Refusals'
    <3>1. requests' = Unheard(t, Cleared(t, requests)) /\ live' = live
      BY <2>5 DEF Logout, SignOut, server
    <3>2. Cleared(t, requests) \in SUBSET Request
      BY <1>0, ClearedAlike
    <3>3. NoNewRefusal
      BY <1>0, <3>1, <3>2, UnheardRefusals, ClearedRefusals DEF NoNewRefusal
    <3> QED
      BY <3>1, <3>3, RefusalsKept
  <2> QED
    BY <1>1, <2>1, <2>2, <2>3, <2>4, <2>5
    DEF ByUser, Submit, RetryBoot, AskPlaces, AskDelete, server
<1>2. ASSUME NEW r \in requests, Serve(r) \/ Fail(r) PROVE Refusals'
  <2>1. ASSUME NEW a, requests' = Answered(r, a), live' \subseteq live,
               a = "refused" => r.token \notin live
        PROVE  Refusals'
    <3>1. /\ [r EXCEPT !.answer = a].answer = a
          /\ [r EXCEPT !.answer = a].token = r.token
      BY <1>0 DEF Request
    <3>2. ASSUME NEW q \in requests', q.answer = "refused" PROVE q.token \notin live
      BY <2>1, <3>1, <3>2 DEF Answered, Refusals
    <3> QED
      BY <2>1, <3>2 DEF Refusals
  <2>2. ASSUME ServeLogin(r) PROVE Refusals'
    <3> DEFINE q == [r EXCEPT !.answer = "ok", !.token = Len(owner) + 1]
    <3>1. q.answer = "ok"
      BY <1>0 DEF Request
    <3>2. requests' = (requests \ {r}) \cup {q} /\ live' = live \cup {Len(owner) + 1}
      BY <2>2 DEF ServeLogin
    <3> HIDE DEF q
    <3>3. \A x \in requests' : x.answer = "refused" => x \in requests
      BY <3>1, <3>2
    <3> QED
      BY <3>2, <3>3, RefusalsKept DEF NoNewRefusal
  <2>3. ASSUME ServeAuthenticated(r) PROVE Refusals'
    <3>1. /\ requests' = Answered(r, IF r.token \in live THEN "ok" ELSE "refused")
          /\ live' \subseteq live
      BY <2>3 DEF ServeAuthenticated
    <3> QED
      BY <2>1, <3>1
  <2>4. ASSUME ServeRegister(r) PROVE Refusals'
    <3>1. /\ requests' = Answered(r, IF r.who \in accounts THEN "failed" ELSE "ok")
          /\ live' = live
      BY <2>4 DEF ServeRegister
    <3> QED
      BY <2>1, <3>1
  <2>5. ASSUME Fail(r) PROVE Refusals'
    BY <2>1, <2>5 DEF Fail, server
  <2> QED
    BY <1>2, <2>2, <2>3, <2>4, <2>5 DEF Serve
<1>3. ASSUME NEW r \in requests, Receive(r) PROVE Refusals'
  <2> DEFINE left == requests \ {r}
  <2>0. left \in SUBSET Request /\ \A q \in left : q \in requests
    BY <1>0
  <2> HIDE DEF left
  <2>1. ASSUME requests' = left, UNCHANGED live PROVE Refusals'
    BY <2>0, <2>1, RefusalsKept DEF NoNewRefusal
  <2>2. ASSUME NEW t, requests' = Unheard(t, left), UNCHANGED live PROVE Refusals'
    <3>1. NoNewRefusal
      BY <2>0, <2>2, UnheardRefusals DEF NoNewRefusal
    <3> QED
      BY <2>2, <3>1, RefusalsKept
  <2>3. ASSUME NEW t, requests' = Unheard(t, Cleared(t, left)), UNCHANGED live PROVE Refusals'
    <3>1. Cleared(t, left) \in SUBSET Request
      BY <2>0, ClearedAlike
    <3>2. NoNewRefusal
      BY <2>0, <2>3, <3>1, UnheardRefusals, ClearedRefusals DEF NoNewRefusal
    <3> QED
      BY <2>3, <3>2, RefusalsKept
  <2>4. ASSUME NEW kind, NEW token, NEW who,
               requests' = left \cup {[Sent(r.tab, kind, token, who) EXCEPT !.heard = r.heard]},
               UNCHANGED live
        PROVE  Refusals'
    <3>1. [Sent(r.tab, kind, token, who) EXCEPT !.heard = r.heard].answer = "none"
      BY DEF Sent
    <3>2. \A q \in requests' : q.answer = "refused" => q \in requests
      BY <2>0, <2>4, <3>1
    <3> QED
      BY <2>4, <3>2, RefusalsKept DEF NoNewRefusal
  <2>5. ASSUME TakeToken(r) PROVE Refusals'
    BY <2>4, <2>5 DEF TakeToken, server, left
  <2>6. ASSUME TakeAccount(r) PROVE Refusals'
    BY <2>4, <2>6 DEF TakeAccount, server, left
  <2>7. ASSUME Unauthorized(r) PROVE Refusals'
    BY <2>2, <2>7 DEF Unauthorized, server, left
  <2>8. ASSUME TakeUser(r) PROVE Refusals'
    BY <2>2, <2>8 DEF TakeUser, server, left
  <2>9. ASSUME BootFails(r) PROVE Refusals'
    BY <2>2, <2>9 DEF BootFails, server, left
  <2>10. ASSUME SubmitFails(r) \/ TakePlaces(r) \/ Discard(r) PROVE Refusals'
    BY <2>1, <2>10 DEF SubmitFails, TakePlaces, Discard, server, left
  <2>11. ASSUME TakeDeleted(r) PROVE Refusals'
    BY <2>1, <2>3, <2>11 DEF TakeDeleted, SignOut, server, left
  <2> QED
    BY <1>3, <2>5, <2>6, <2>7, <2>8, <2>9, <2>10, <2>11 DEF Receive
<1>4. ASSUME NEW token \in live, Expire(token) PROVE Refusals'
  BY <1>4 DEF Expire, Refusals
<1>5. CASE UNCHANGED vars
  BY <1>5 DEF vars, server, Refusals
<1> QED
  BY <1>1, <1>2, <1>3, <1>4, <1>5 DEF Next

\* The request whose answer is taken is no longer there, nor is a twin of it that
\* was heard.
LEMMA AnswerIsTaken ==
  ASSUME NEW t, NEW left \in SUBSET Request, NEW r \in Request, r \notin left
  PROVE  r \in Unheard(t, left) =>
           \E q \in left : /\ q \notin Unheard(t, left)
                           /\ q.token = r.token /\ q.answer = r.answer
<1> SUFFICES ASSUME r \in Unheard(t, left)
             PROVE  \E q \in left : /\ q \notin Unheard(t, left)
                                    /\ q.token = r.token /\ q.answer = r.answer
  OBVIOUS
<1>1. ~(path'[t] = "login" /\ path[t] = "login")
  BY DEF Unheard
<1>2. PICK q \in left : r = IF q.tab = t /\ q.kind \in {"login", "register", "me"}
                              THEN [q EXCEPT !.heard = FALSE] ELSE q
  BY <1>1 DEF Unheard
<1>3. /\ q.tab = t /\ q.kind \in {"login", "register", "me"} /\ r = [q EXCEPT !.heard = FALSE]
      /\ q # r
  BY <1>2
<1>4. q \in Request
  OBVIOUS
<1>5. q.heard # FALSE
  BY <1>3, <1>4 DEF Request
<1>6. ASSUME q \in Unheard(t, left) PROVE FALSE
  <2>1. PICK x \in left : q = IF x.tab = t /\ x.kind \in {"login", "register", "me"}
                                THEN [x EXCEPT !.heard = FALSE] ELSE x
    BY <1>1, <1>6 DEF Unheard
  <2>2. x \in Request
    OBVIOUS
  <2>3. CASE x.tab = t /\ x.kind \in {"login", "register", "me"}
    BY <1>5, <2>1, <2>2, <2>3 DEF Request
  <2>4. CASE ~(x.tab = t /\ x.kind \in {"login", "register", "me"})
    BY <1>3, <2>1, <2>4
  <2> QED
    BY <2>3, <2>4
<1>7. q.token = r.token /\ q.answer = r.answer
  BY <1>3, <1>4 DEF Request
<1> QED
  BY <1>6, <1>7

LEMMA TokenStep ==
  ASSUME Inv, Refusals, [Next]_vars, stored \in live, stored' = NoToken
  PROVE  TokenGoesForAReason
<1>0. stored' # stored /\ requests \in SUBSET Request
  BY DEF Inv, TypeOK, NoToken
<1>1. ASSUME NEW t \in Tabs, ByUser(t) PROVE TokenGoesForAReason
  <2>1. ASSUME NEW u \in Users, OpenCallback(t, u) PROVE FALSE
    <3>1. stored' = Len(owner) + 1
      BY <2>1 DEF OpenCallback
    <3> QED
      BY <3>1 DEF Inv, TypeOK, NoToken
  <2>2. ASSUME Logout(t) PROVE TokenGoesForAReason
    BY <2>2 DEF TokenGoesForAReason
  <2> QED
    BY <1>0, <1>1, <2>1, <2>2
    DEF ByUser, Open, BackToLogin, Submit, RetryBoot, AskPlaces, AskDelete
<1>2. ASSUME NEW r \in requests, Serve(r) \/ Fail(r) PROVE FALSE
  BY <1>0, <1>2 DEF Serve, Fail
<1>3. ASSUME NEW r \in requests, Receive(r) PROVE TokenGoesForAReason
  <2> DEFINE left == requests \ {r}
  <2>0. left \in SUBSET Request /\ r \in Request /\ r \notin left /\ left \subseteq requests
    BY <1>0
  <2> HIDE DEF left
  <2>1. ASSUME Unauthorized(r) PROVE TokenGoesForAReason
    <3>1. r.answer = "refused" /\ requests' = Unheard(r.tab, left)
      BY <2>1 DEF Unauthorized, left
    <3>2. \E q \in requests : q \notin requests' /\ q.token = r.token /\ q.answer = r.answer
      BY <2>0, <3>1, AnswerIsTaken
    <3>3. r.token # stored
      BY <3>1 DEF Refusals
    <3> QED
      BY <3>1, <3>2, <3>3 DEF TokenGoesForAReason
  <2>2. ASSUME TakeToken(r) PROVE FALSE
    <3>1. stored' = r.token /\ r.token # NoToken
      BY <2>2 DEF TakeToken, Inv, AnswerOK
    <3> QED
      BY <3>1
  <2>3. ASSUME TakeDeleted(r) PROVE TokenGoesForAReason
    <3>1. r.kind = "delete"
      BY <2>3 DEF TakeDeleted
    <3>2. r.answer = "ok"
      BY <1>0, <2>3 DEF TakeDeleted
    <3>3. requests' = Unheard(r.tab, Cleared(r.tab, left))
      BY <2>3, <3>2 DEF TakeDeleted, SignOut, left
    <3>4. \A q \in Cleared(r.tab, left) : q # r
      <4>1. ASSUME r \in Cleared(r.tab, left) PROVE FALSE
        <5>1. PICK x \in left : r = IF x.tab = r.tab /\ x.kind = "places"
                                      THEN [x EXCEPT !.heard = FALSE] ELSE x
          BY <4>1 DEF Cleared
        <5> QED
          BY <2>0, <3>1, <5>1 DEF Request
      <4> QED
        BY <4>1
    <3>5. Cleared(r.tab, left) \in SUBSET Request
      BY <2>0, ClearedAlike
    <3>6. r \notin requests'
      <4>1. ASSUME r \in Unheard(r.tab, Cleared(r.tab, left)) PROVE FALSE
        <5>1. CASE path'[r.tab] = "login" /\ path[r.tab] = "login"
          BY <3>4, <4>1, <5>1 DEF Unheard
        <5>2. CASE ~(path'[r.tab] = "login" /\ path[r.tab] = "login")
          <6>1. PICK x \in Cleared(r.tab, left) :
                  r = IF x.tab = r.tab /\ x.kind \in {"login", "register", "me"}
                        THEN [x EXCEPT !.heard = FALSE] ELSE x
            BY <4>1, <5>2 DEF Unheard
          <6> QED
            BY <3>1, <3>4, <3>5, <6>1 DEF Request
        <5> QED
          BY <5>1, <5>2
      <4> QED
        BY <3>3, <4>1
    <3> QED
      BY <3>1, <3>2, <3>6 DEF TokenGoesForAReason
  <2> QED
    BY <1>0, <1>3, <2>1, <2>2, <2>3
    DEF Receive, Discard, TakeUser, BootFails, TakeAccount, SubmitFails, TakePlaces
<1>4. ASSUME NEW token \in live, Expire(token) PROVE FALSE
  BY <1>0, <1>4 DEF Expire
<1>5. CASE UNCHANGED vars
  BY <1>0, <1>5 DEF vars
<1> QED
  BY <1>1, <1>2, <1>3, <1>4, <1>5 DEF Next

\* No failed request and no reload loses a session the server would accept.
THEOREM NoSessionLost == Spec => ValidTokenKept
<1>1. Init => Refusals
  BY DEF Init, Refusals
<1>2. Inv /\ Refusals /\ [Next]_vars =>
        [(stored \in live /\ stored' = NoToken) => TokenGoesForAReason]_vars
  BY TokenStep
<1> QED
  BY InitInv, InvStep, RefusalsStep, <1>1, <1>2, PTL DEF Spec, ValidTokenKept

-----------------------------------------------------------------------------
(* CacheIsOfUser: while a tab is not crossed, its cache and the queries it    *)
(* still waits for are those of the user it shows.                         *)

IsQuery(r, t) == r.tab = t /\ r.kind = "places" /\ r.heard
Clean(t) ==
  t \notin crossed =>
    /\ cache[t] \in {Nobody, user[t]}
    /\ \A r \in requests : IsQuery(r, t) =>
         user[t] # Nobody /\ OwnerOf(r.token) \in {Nobody, user[t]}
AllClean == \A t \in Tabs : Clean(t)

\* The queries of the next state were under way before.
NoNewQuery ==
  \A q \in requests', t \in Tabs : IsQuery(q, t) =>
    \E r \in requests : IsQuery(r, t) /\ r.token = q.token

OwnersKept == \A k \in DOMAIN owner \cup {NoToken} : OwnerOf(k)' = OwnerOf(k)

LEMMA SameOwners == owner' = owner => OwnersKept
  BY DEF OwnersKept, OwnerOf

LEMMA OneMoreOwner ==
  ASSUME Inv, NEW u \in Users, owner' = Append(owner, u)
  PROVE  OwnersKept
  BY Issued DEF Inv, OwnersKept, OwnerOf

LEMMA CleanKept ==
  ASSUME Inv, NEW t \in Tabs, Clean(t), NoNewQuery, OwnersKept,
         t \in crossed => t \in crossed', cache'[t] = cache[t],
         user'[t] = user[t] \/ user[t] = Nobody \/ t \in crossed'
  PROVE  Clean(t)'
<1> SUFFICES ASSUME t \notin crossed'
             PROVE  /\ cache'[t] \in {Nobody, user'[t]}
                    /\ \A q \in requests' : IsQuery(q, t) =>
                         user'[t] # Nobody /\ OwnerOf(q.token)' \in {Nobody, user'[t]}
  BY DEF Clean, IsQuery
<1>1. t \notin crossed /\ cache[t] \in {Nobody, user[t]}
  BY DEF Clean
<1>2. cache'[t] \in {Nobody, user'[t]}
  BY <1>1
<1>3. ASSUME NEW q \in requests', IsQuery(q, t)
      PROVE  user'[t] # Nobody /\ OwnerOf(q.token)' \in {Nobody, user'[t]}
  <2>1. PICK r \in requests : IsQuery(r, t) /\ r.token = q.token
    BY <1>3 DEF NoNewQuery
  <2>2. user[t] # Nobody /\ OwnerOf(r.token) \in {Nobody, user[t]}
    BY <1>1, <2>1 DEF Clean
  <2>3. OwnerOf(r.token)' = OwnerOf(r.token)
    <3>1. r.token \in DOMAIN owner \cup {NoToken}
      BY DEF Inv, TypeOK
    <3>2. \A k \in DOMAIN owner \cup {NoToken} :
            (IF k = NoToken THEN Nobody ELSE owner'[k]) = (IF k = NoToken THEN Nobody ELSE owner[k])
      BY DEF OwnersKept, OwnerOf
    <3>3. owner'[r.token] = owner[r.token] \/ r.token = NoToken
      BY <3>1, <3>2
    <3> QED
      BY <3>1, <3>3 DEF OwnerOf
  <2> QED
    BY <1>3, <2>1, <2>2, <2>3 DEF OwnerOf
<1> QED
  BY <1>2, <1>3

LEMMA AllKept ==
  ASSUME Inv, AllClean, NoNewQuery, OwnersKept, crossed \subseteq crossed', cache' = cache,
         \A t \in Tabs : user'[t] = user[t] \/ user[t] = Nobody \/ t \in crossed'
  PROVE  AllClean'
<1>1. ASSUME NEW t \in Tabs PROVE Clean(t)'
  BY CleanKept DEF AllClean
<1> QED
  BY <1>1 DEF AllClean, Clean, IsQuery, OwnerOf

\* A tab that starts anew: no cache and no query.
LEMMA CleanStart ==
  ASSUME Inv, AllClean, NEW t \in Tabs, NoNewQuery, OwnersKept,
         cache' = [cache EXCEPT ![t] = Nobody], crossed' = crossed \ {t},
         \A s \in Tabs \ {t} : user'[s] = user[s],
         \A r \in requests' : ~IsQuery(r, t)
  PROVE  AllClean'
<1>1. Clean(t)'
  BY DEF Clean, IsQuery, Inv, TypeOK
<1>2. ASSUME NEW s \in Tabs, s # t PROVE Clean(s)'
  <2>1. cache'[s] = cache[s] /\ Clean(s)
    BY <1>2 DEF AllClean, Inv, TypeOK
  <2> QED
    BY <1>2, <2>1, CleanKept
<1> QED
  BY <1>1, <1>2 DEF AllClean, Clean, IsQuery, OwnerOf

\* Unheard takes no query away and makes none, Cleared takes away those of t.
LEMMA UnheardQueries ==
  ASSUME NEW t, NEW left \in SUBSET Request, NEW q \in Unheard(t, left), NEW s, IsQuery(q, s)
  PROVE  q \in left
<1>1. CASE path'[t] = "login" /\ path[t] = "login"
  BY <1>1 DEF Unheard
<1>2. CASE ~(path'[t] = "login" /\ path[t] = "login")
  <2>1. PICK r \in left : q = IF r.tab = t /\ r.kind \in {"login", "register", "me"}
                                THEN [r EXCEPT !.heard = FALSE] ELSE r
    BY <1>2 DEF Unheard
  <2> QED
    BY <2>1 DEF Request, IsQuery
<1> QED
  BY <1>1, <1>2

LEMMA ClearedQueries ==
  ASSUME NEW t, NEW left \in SUBSET Request, NEW q \in Cleared(t, left), NEW s, IsQuery(q, s)
  PROVE  q \in left /\ s # t
<1>1. PICK r \in left : q = IF r.tab = t /\ r.kind = "places"
                              THEN [r EXCEPT !.heard = FALSE] ELSE r
  BY DEF Cleared
<1> QED
  BY <1>1 DEF Request, IsQuery

LEMMA SignOutClean ==
  ASSUME Inv, AllClean, NEW t \in Tabs, NEW left \in SUBSET requests,
         SignOut(t, left), UNCHANGED owner
  PROVE  AllClean'
<1>0. requests \in SUBSET Request /\ left \in SUBSET Request
  BY DEF Inv, TypeOK
<1>1. Cleared(t, left) \in SUBSET Request
  BY <1>0, ClearedAlike
<1>2. ASSUME NEW q \in requests', NEW s, IsQuery(q, s)
      PROVE  q \in requests /\ s # t
  <2>1. q \in Cleared(t, left)
    BY <1>1, <1>2, UnheardQueries DEF SignOut
  <2> QED
    BY <1>0, <1>2, <2>1, ClearedQueries
<1>3. NoNewQuery
  BY <1>2 DEF NoNewQuery
<1>4. \A s \in Tabs \ {t} : user'[s] = user[s]
  <2>1. user' = [user EXCEPT ![t] = Nobody]
    BY DEF SignOut, Show
  <2> QED
    BY <2>1 DEF Inv, TypeOK
<1>5. cache' = [cache EXCEPT ![t] = Nobody] /\ crossed' = crossed \ {t}
  BY DEF SignOut
<1> QED
  BY <1>2, <1>3, <1>4, <1>5, CleanStart, SameOwners

LEMMA CleanUserStep ==
  ASSUME Inv, AllClean, NEW t \in Tabs, ByUser(t)
  PROVE  AllClean'
<1>0. requests \in SUBSET Request /\ user \in [Tabs -> Users \cup {Nobody}]
  BY DEF Inv, TypeOK
<1>a. \A kind, token, who :
        /\ Sent(t, kind, token, who).kind = kind
        /\ Sent(t, kind, token, who).tab = t
        /\ Sent(t, kind, token, who).token = token
  BY DEF Sent
\* Whatever keeps every user and the queries.
<1>b. ASSUME NEW u, user' = [user EXCEPT ![t] = u], u = user[t] \/ user[t] = Nobody,
             \A q \in requests', s \in Tabs : IsQuery(q, s) => q \in requests,
             UNCHANGED <<cache, owner>>, crossed \subseteq crossed'
      PROVE  AllClean'
  <2>1. \A s \in Tabs : user'[s] = user[s] \/ user[s] = Nobody \/ s \in crossed'
    BY <1>0, <1>b
  <2>2. NoNewQuery
    BY <1>b DEF NoNewQuery
  <2> QED
    BY <1>b, <2>1, <2>2, AllKept, SameOwners
<1>1. ASSUME NEW p \in {"login", "app"}, Open(t, p) PROVE AllClean'
  <2>1. ASSUME NEW q \in requests', NEW s, IsQuery(q, s)
        PROVE  q \in requests /\ s # t
    <3>1. \/ q \in requests /\ q.tab # t
          \/ \E r \in requests : r.kind \in {"register", "delete"} /\ q = [r EXCEPT !.tab = NoTab]
          \/ q = Sent(t, "boot", stored, Nobody)
      BY <1>1, Zenon DEF Open
    <3>2. ASSUME NEW r \in requests, r.kind \in {"register", "delete"},
                 q = [r EXCEPT !.tab = NoTab]
          PROVE  FALSE
      BY <1>0, <2>1, <3>2 DEF Request, IsQuery
    <3> QED
      BY <1>a, <2>1, <3>1, <3>2 DEF IsQuery
  <2>2. user' = [user EXCEPT ![t] = Nobody]
    BY <1>1 DEF Open, Show
  <2>3. \A s \in Tabs \ {t} : user'[s] = user[s]
    BY <1>0, <2>2
  <2>4. /\ cache' = [cache EXCEPT ![t] = Nobody] /\ crossed' = crossed \ {t}
        /\ owner' = owner
    BY <1>1 DEF Open, server
  <2>5. NoNewQuery
    BY <2>1 DEF NoNewQuery
  <2> QED
    BY <2>1, <2>3, <2>4, <2>5, CleanStart, SameOwners
<1>2. ASSUME NEW u \in Users, OpenCallback(t, u) PROVE AllClean'
  <2>0. /\ requests' = {r \in requests : r.tab # t} \cup
             {Sent(t, "me", Len(owner) + 1, Nobody), Sent(t, "boot", Len(owner) + 1, Nobody)}
        /\ owner' = Append(owner, u)
        /\ cache' = [cache EXCEPT ![t] = Nobody] /\ crossed' = crossed \ {t}
    BY <1>2 DEF OpenCallback
  <2>1. ASSUME NEW q \in requests', NEW s, IsQuery(q, s)
        PROVE  q \in requests /\ s # t
    BY <1>a, <2>0, <2>1 DEF IsQuery
  <2>2. user' = [user EXCEPT ![t] = Nobody]
    BY <1>2 DEF OpenCallback, Show
  <2>3. \A s \in Tabs \ {t} : user'[s] = user[s]
    BY <1>0, <2>2
  <2>5. NoNewQuery
    BY <2>1 DEF NoNewQuery
  <2> QED
    BY <2>0, <2>1, <2>3, <2>5, CleanStart, OneMoreOwner
<1>3. ASSUME BackToLogin(t) PROVE AllClean'
  <2>1. requests' = Unheard(t, requests) /\ UNCHANGED <<cache, owner, crossed>>
    BY <1>3 DEF BackToLogin, server
  <2>2. user' = [user EXCEPT ![t] = user[t]]
    BY <1>3 DEF BackToLogin, Show
  <2>3. \A q \in requests', s \in Tabs : IsQuery(q, s) => q \in requests
    BY <1>0, <2>1, UnheardQueries
  <2> QED
    BY <1>b, <2>1, <2>2, <2>3
<1>4. ASSUME NEW kind \in {"login", "register"}, NEW u \in Users, Submit(t, kind, u)
      PROVE  AllClean'
  <2>1. requests' = requests \cup {Sent(t, kind, stored, u)} /\ UNCHANGED <<cache, owner>>
        /\ crossed \subseteq crossed'
    BY <1>4 DEF Submit, server
  <2>2. user' = [user EXCEPT ![t] = user[t]]
    BY <1>4 DEF Submit, Show
  <2>3. \A q \in requests', s \in Tabs : IsQuery(q, s) => q \in requests
    BY <1>a, <2>1 DEF IsQuery
  <2> QED
    BY <1>b, <2>1, <2>2, <2>3
<1>5. ASSUME RetryBoot(t) PROVE AllClean'
  <2>1. requests' = requests \cup {Sent(t, "boot", stored, Nobody)}
        /\ UNCHANGED <<cache, owner, crossed>> /\ user[t] = Nobody
    BY <1>5 DEF RetryBoot, server
  <2>2. user' = [user EXCEPT ![t] = Nobody]
    BY <1>5 DEF RetryBoot, Show
  <2>3. \A q \in requests', s \in Tabs : IsQuery(q, s) => q \in requests
    BY <1>a, <2>1 DEF IsQuery
  <2> QED
    BY <1>b, <2>1, <2>2, <2>3
<1>6. ASSUME AskPlaces(t) PROVE AllClean'
  <2>0. /\ requests' = requests \cup {Sent(t, "places", stored, Nobody)}
        /\ crossed' = crossed \cup Crossing(t)
        /\ UNCHANGED <<cache, owner, user>> /\ user[t] # Nobody
    BY <1>6 DEF AskPlaces, InApp, server
  <2>1. \A k : OwnerOf(k)' = OwnerOf(k)
    BY <2>0 DEF OwnerOf
  <2>2. ASSUME NEW s \in Tabs, s \notin crossed', NEW q \in requests', IsQuery(q, s)
        PROVE  user'[s] # Nobody /\ OwnerOf(q.token) \in {Nobody, user'[s]}
    <3>1. CASE q \in requests
      BY <2>0, <2>2, <3>1 DEF AllClean, Clean
    <3>2. CASE q = Sent(t, "places", stored, Nobody)
      <4>1. s = t /\ q.token = stored
        BY <1>a, <2>2, <3>2 DEF IsQuery
      <4>2. Crossing(t) = {}
        BY <2>0, <2>2, <4>1 DEF Crossing
      <4>3. stored = NoToken \/ OwnerOf(stored) = user[t]
        BY <2>0, <4>2 DEF Crossing
      <4> QED
        BY <2>0, <4>1, <4>3 DEF OwnerOf
    <3> QED
      BY <2>0, <3>1, <3>2
  <2> QED
    BY <2>0, <2>2 DEF AllClean, Clean, IsQuery, OwnerOf
<1>7. ASSUME AskDelete(t) PROVE AllClean'
  <2>1. requests' = requests \cup {Sent(t, "delete", stored, Nobody)}
        /\ UNCHANGED <<cache, owner, user>> /\ crossed \subseteq crossed'
    BY <1>7 DEF AskDelete, server
  <2>2. user' = [user EXCEPT ![t] = user[t]]
    BY <1>0, <2>1
  <2>3. \A q \in requests', s \in Tabs : IsQuery(q, s) => q \in requests
    BY <1>a, <2>1 DEF IsQuery
  <2> QED
    BY <1>b, <2>1, <2>2, <2>3
<1>8. ASSUME Logout(t) PROVE AllClean'
  BY <1>8, SignOutClean DEF Logout, server
<1> QED
  BY <1>1, <1>2, <1>3, <1>4, <1>5, <1>6, <1>7, <1>8 DEF ByUser

\* The server changes no tab; it answers a query with the token it was sent with.
LEMMA CleanServerStep ==
  ASSUME Inv, AllClean, NEW r \in requests, Serve(r) \/ Fail(r)
  PROVE  AllClean'
<1>0. r \in Request /\ AnswerOK(r)
  BY DEF Inv, TypeOK
<1>1. UNCHANGED <<user, cache, crossed>>
  BY DEF Serve, Fail, tabState
<1>2. OwnersKept
  <2>1. CASE ServeLogin(r)
    <3>1. r.who \in Users
      BY <1>0, <2>1 DEF AnswerOK, ServeLogin
    <3> QED
      BY <2>1, <3>1, OneMoreOwner DEF ServeLogin
  <2>2. CASE owner' = owner
    BY <2>2, SameOwners
  <2> QED
    BY <2>1, <2>2 DEF Serve, Fail, ServeAuthenticated, ServeRegister, server
<1>3. NoNewQuery
  <2>1. ASSUME NEW a, requests' = Answered(r, a) PROVE NoNewQuery
    <3> DEFINE x == [r EXCEPT !.answer = a]
    <3>1. x.tab = r.tab /\ x.kind = r.kind /\ x.heard = r.heard /\ x.token = r.token
      BY <1>0 DEF Request
    <3>2. requests' = (requests \ {r}) \cup {x}
      BY <2>1 DEF Answered
    <3> HIDE DEF x
    <3> QED
      BY <3>1, <3>2 DEF NoNewQuery, IsQuery
  <2>2. ASSUME ServeLogin(r) PROVE NoNewQuery
    <3> DEFINE x == [r EXCEPT !.answer = "ok", !.token = Len(owner) + 1]
    <3>1. x.kind = "login"
      BY <1>0, <2>2 DEF Request, ServeLogin
    <3>2. requests' = (requests \ {r}) \cup {x}
      BY <2>2 DEF ServeLogin
    <3> HIDE DEF x
    <3> QED
      BY <3>1, <3>2 DEF NoNewQuery, IsQuery
  <2>3. ASSUME ServeAuthenticated(r) PROVE NoNewQuery
    <3>1. requests' = Answered(r, IF r.token \in live THEN "ok" ELSE "refused")
      BY <2>3 DEF ServeAuthenticated
    <3> QED
      BY <2>1, <3>1
  <2>4. ASSUME ServeRegister(r) PROVE NoNewQuery
    <3>1. requests' = Answered(r, IF r.who \in accounts THEN "failed" ELSE "ok")
      BY <2>4 DEF ServeRegister
    <3> QED
      BY <2>1, <3>1
  <2>5. ASSUME Fail(r) PROVE NoNewQuery
    <3>1. requests' = Answered(r, "failed")
      BY <2>5 DEF Fail
    <3> QED
      BY <2>1, <3>1
  <2> QED
    BY <2>2, <2>3, <2>4, <2>5 DEF Serve
<1> QED
  BY <1>1, <1>2, <1>3, AllKept

LEMMA CleanAnswerStep ==
  ASSUME Inv, AllClean, NEW r \in requests, Receive(r)
  PROVE  AllClean'
<1> DEFINE t == r.tab
           left == requests \ {r}
<1>0. /\ left \in SUBSET Request /\ left \subseteq requests
      /\ user \in [Tabs -> Users \cup {Nobody}] /\ r \in Request
      /\ cache \in [Tabs -> Users \cup {Nobody}]
      /\ t \in Tabs \cup {NoTab}
  BY DEF Inv, TypeOK, Request
<1> HIDE DEF left, t
\* Whatever changes the user of t alone, and no query.
<1>a. ASSUME NEW u, t \in Tabs, user' = [user EXCEPT ![t] = u],
             u = user[t] \/ user[t] = Nobody \/ t \in crossed',
             \A q \in requests', s \in Tabs : IsQuery(q, s) => q \in requests,
             UNCHANGED <<cache, owner>>, crossed \subseteq crossed'
      PROVE  AllClean'
  <2>1. \A s \in Tabs : user'[s] = user[s] \/ user[s] = Nobody \/ s \in crossed'
    BY <1>0, <1>a
  <2>2. NoNewQuery
    BY <1>a DEF NoNewQuery
  <2> QED
    BY <1>a, <2>1, <2>2, AllKept, SameOwners
<1>b. ASSUME requests' = Unheard(t, left)
      PROVE  \A q \in requests', s \in Tabs : IsQuery(q, s) => q \in requests
  BY <1>0, <1>b, UnheardQueries
<1>c. ASSUME UNCHANGED <<user, cache, owner>>, crossed \subseteq crossed',
             \A q \in requests', s \in Tabs : IsQuery(q, s) => q \in requests
      PROVE  AllClean'
  <2>1. NoNewQuery
    BY <1>c DEF NoNewQuery
  <2> QED
    BY <1>c, <2>1, AllKept, SameOwners
<1>1. ASSUME Discard(r) PROVE AllClean'
  BY <1>1, <1>c, <1>0 DEF Discard, tabState, server, left
<1>2. ASSUME t \in Tabs, Unauthorized(r) PROVE AllClean'
  <2>1. user' = [user EXCEPT ![t] = Nobody] /\ requests' = Unheard(t, left)
        /\ UNCHANGED <<cache, owner>>
    BY <1>2 DEF Unauthorized, Show, server, left, t
  <2>2. crossed \subseteq crossed' /\ (user[t] = Nobody \/ t \in crossed')
    BY <1>2 DEF Unauthorized, t
  <2> QED
    BY <1>2, <1>a, <1>b, <2>1, <2>2
<1>3. ASSUME t \in Tabs, TakeUser(r) PROVE AllClean'
  <2>1. user' = [user EXCEPT ![t] = OwnerOf(r.token)] /\ requests' = Unheard(t, left)
        /\ UNCHANGED <<cache, owner>> /\ crossed' = crossed \cup Replacing(t, OwnerOf(r.token))
    BY <1>3 DEF TakeUser, Show, server, left, t
  <2>2. OwnerOf(r.token) = user[t] \/ user[t] = Nobody \/ t \in crossed'
    BY <2>1 DEF Replacing
  <2> QED
    BY <1>3, <1>a, <1>b, <2>1, <2>2
<1>4. ASSUME t \in Tabs, BootFails(r) \/ SubmitFails(r) PROVE AllClean'
  <2>1. user' = [user EXCEPT ![t] = user[t]] /\ UNCHANGED <<cache, owner, crossed>>
    BY <1>4 DEF BootFails, SubmitFails, Show, server, t
  <2>2. requests' = Unheard(t, left) \/ requests' = left
    BY <1>4 DEF BootFails, SubmitFails, left, t
  <2>3. \A q \in requests', s \in Tabs : IsQuery(q, s) => q \in requests
    BY <1>0, <1>b, <2>2
  <2> QED
    BY <1>4, <1>a, <2>1, <2>3
<1>5. ASSUME NEW kind \in {"me", "login"}, NEW token, NEW who,
             requests' = left \cup {[Sent(t, kind, token, who) EXCEPT !.heard = r.heard]}
      PROVE  \A q \in requests', s \in Tabs : IsQuery(q, s) => q \in requests
  <2> DEFINE x == [Sent(t, kind, token, who) EXCEPT !.heard = r.heard]
  <2>1. x.kind = kind
    BY DEF Sent
  <2>2. requests' = left \cup {x}
    BY <1>5
  <2> HIDE DEF x
  <2> QED
    BY <1>0, <2>1, <2>2 DEF IsQuery
<1>6. ASSUME TakeToken(r) PROVE AllClean'
  <2>1. requests' = left \cup {[Sent(t, "me", r.token, Nobody) EXCEPT !.heard = r.heard]}
        /\ UNCHANGED <<user, cache, owner, crossed>>
    BY <1>6 DEF TakeToken, tabState, server, left, t
  <2> QED
    BY <1>5, <1>c, <2>1
<1>7. ASSUME TakeAccount(r) PROVE AllClean'
  <2>1. requests' = left \cup {[Sent(t, "login", stored, r.who) EXCEPT !.heard = r.heard]}
        /\ UNCHANGED <<user, cache, owner>> /\ crossed \subseteq crossed'
    BY <1>7 DEF TakeAccount, server, left, t
  <2> QED
    BY <1>5, <1>c, <2>1
<1>8. ASSUME t \in Tabs, TakePlaces(r) PROVE AllClean'
  <2>0. requests' = left /\ UNCHANGED <<user, owner, crossed>> /\ r.kind = "places"
    BY <1>8 DEF TakePlaces, server, left
  <2>1. CASE cache' = cache
    BY <1>c, <1>0, <2>0, <2>1
  <2>2. CASE r.heard /\ cache' = [cache EXCEPT ![t] = OwnerOf(r.token)]
    <3>1. ASSUME NEW s \in Tabs, s \notin crossed
          PROVE  cache'[s] \in {Nobody, user[s]}
      <4>1. CASE s = t
        <5>1. IsQuery(r, s)
          BY <2>0, <2>2, <4>1 DEF IsQuery, t
        <5> QED
          BY <1>0, <2>2, <3>1, <4>1, <5>1 DEF AllClean, Clean
      <4>2. CASE s # t
        BY <1>0, <2>2, <3>1, <4>2 DEF AllClean, Clean
      <4> QED
        BY <4>1, <4>2
    <3>2. \A s \in Tabs : s \notin crossed =>
            \A q \in left : IsQuery(q, s) => user[s] # Nobody /\ OwnerOf(q.token) \in {Nobody, user[s]}
      BY <1>0 DEF AllClean, Clean
    <3> QED
      BY <2>0, <3>1, <3>2 DEF AllClean, Clean, IsQuery, OwnerOf
  <2> QED
    BY <1>8, <2>1, <2>2 DEF TakePlaces, t
<1>9. ASSUME t \in Tabs, TakeDeleted(r) PROVE AllClean'
  <2>1. CASE r.answer = "ok"
    <3>1. SignOut(t, left) /\ UNCHANGED owner
      BY <1>9, <2>1 DEF TakeDeleted, server, left, t
    <3> QED
      BY <1>0, <1>9, <3>1, SignOutClean
  <2>2. CASE r.answer # "ok"
    <3>1. requests' = left /\ UNCHANGED <<user, cache, owner, crossed>>
      BY <1>9, <2>2 DEF TakeDeleted, tabState, server, left
    <3> QED
      BY <1>0, <1>c, <3>1
  <2> QED
    BY <2>1, <2>2
<1> QED
  <2>1. CASE t = NoTab
    BY <2>1, <1>1 DEF Receive, t
  <2>2. CASE t # NoTab
    BY <2>2, <1>0, <1>2, <1>3, <1>4, <1>6, <1>7, <1>8, <1>9 DEF Receive, t
  <2> QED
    BY <2>1, <2>2

LEMMA CleanStep == Inv /\ AllClean /\ [Next]_vars => AllClean'
<1> SUFFICES ASSUME Inv, AllClean, [Next]_vars PROVE AllClean'
  OBVIOUS
<1>1. ASSUME NEW token \in live, Expire(token) PROVE AllClean'
  BY <1>1 DEF Expire, tabState, AllClean, Clean, IsQuery, OwnerOf
<1>2. CASE UNCHANGED vars
  BY <1>2 DEF vars, tabState, server, AllClean, Clean, IsQuery, OwnerOf
<1> QED
  BY <1>1, <1>2, CleanUserStep, CleanServerStep, CleanAnswerStep DEF Next

\* The places a tab shows are those of the user it shows, however the tabs,
\* the answers and the logouts interleave, unless the tab was crossed.
THEOREM CacheOfUser == Spec => []CacheIsOfUser
<1>1. Init => AllClean
  BY DEF Init, AllClean, Clean
<1>2. AllClean => CacheIsOfUser
  BY DEF AllClean, Clean, CacheIsOfUser
<1> QED
  BY InitInv, InvStep, CleanStep, <1>1, <1>2, PTL DEF Spec
==============================================================================
