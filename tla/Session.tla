------------------------------- MODULE Session -------------------------------
(***************************************************************************)
(* Who is signed in, as the single-page application sees it:               *)
(* api/client.ts, auth/, App.tsx, pages/AuthPage.tsx and the account       *)
(* actions of pages/SettingsPage.tsx.  Every tab of the browser has its    *)
(* own React state and query cache; the token is in localStorage, which    *)
(* all tabs share.  Requests are answered late, in any order, or never     *)
(* reach the server.                                                       *)
(***************************************************************************)
EXTENDS Naturals, Sequences, FiniteSets

CONSTANTS
  Tabs, Users,
  Nobody,      \* no user: null in user, in the cache and in a request
  NoTab,       \* the tab of a request that nobody waits for
  MaxTokens,   \* bound: tokens the server issues
  MaxLoads,    \* bound: times the page is opened or reloaded, over all tabs
  MaxRequests, \* bound: requests that are under way
  Accounts     \* the users who have an account at the start

ASSUME BoundsAssumption ==
  /\ MaxTokens \in Nat /\ MaxLoads \in Nat /\ MaxRequests \in Nat
  /\ Nobody \notin Users /\ NoTab \notin Tabs /\ Accounts \subseteq Users

VARIABLES
  stored,      \* localStorage['et_token'], NoToken when the key is absent
  path,        \* the route a tab shows
  user,        \* AuthContext: user, loading, bootError
  loading,
  bootError,
  submitting,  \* AuthPage: formState.isSubmitting
  cache,       \* whose places the query cache holds
  requests,    \* fetches under way
  owner,       \* server: the account of each token issued, in order
  live,        \* server: the tokens it accepts
  accounts,    \* server: the users who have an account
  loads,
  crossed      \* history: tabs where one account's session met another's

tabState == <<path, user, loading, bootError, submitting, cache, crossed>>
server   == <<owner, live, accounts>>
vars     == <<stored, tabState, requests, server, loads>>

NoToken == 0
Tokens  == 1 .. MaxTokens
Paths   == {"login", "callback", "app"}
Kinds   == {"boot", "login", "register", "me", "places", "delete"}
Answers == {"none", "ok", "refused", "failed"}  \* refused: a 401

\* token: what getToken() gave when the request was sent, or, in the answer
\* to a login, the access token.  heard: the component or query that sent it
\* still waits for it.
Request ==
  [tab : Tabs \cup {NoTab}, kind : Kinds, token : Tokens \cup {NoToken},
   who : Users \cup {Nobody}, heard : BOOLEAN, answer : Answers]

TypeOK ==
  /\ stored \in Tokens \cup {NoToken}
  /\ path \in [Tabs -> Paths]
  /\ user \in [Tabs -> Users \cup {Nobody}]
  /\ loading \in [Tabs -> BOOLEAN] /\ bootError \in [Tabs -> BOOLEAN]
  /\ submitting \in [Tabs -> BOOLEAN]
  /\ cache \in [Tabs -> Users \cup {Nobody}]
  /\ requests \subseteq Request
  /\ \A r \in requests :
       /\ r.kind \in {"boot", "me"} => r.token # NoToken
       /\ r.tab = NoTab => r.kind \in {"register", "delete"}
       /\ r.token \in DOMAIN owner \cup {NoToken}
  /\ owner \in Seq(Users) /\ Len(owner) <= MaxTokens
  /\ live \subseteq DOMAIN owner /\ stored \in DOMAIN owner \cup {NoToken}
  /\ accounts \subseteq Users
  /\ loads \in 0 .. MaxLoads /\ crossed \subseteq Tabs

(***************************************************************************)
(* The parts the handlers are made of                                      *)
(***************************************************************************)
OwnerOf(token) == IF token = NoToken THEN Nobody ELSE owner[token]

\* api() up to its await: the token is read when the request is sent.
Sent(t, kind, token, who) ==
  [tab |-> t, kind |-> kind, token |-> token, who |-> who,
   heard |-> TRUE, answer |-> "none"]

CanSend(n) == Cardinality(requests) + n <= MaxRequests

\* Mutant: a visitor goes to the form whatever the boot request said.
RoutedWithoutError(p, u, isLoading, hasError) ==
  IF p = "login" /\ u # Nobody THEN "app"
  ELSE IF p = "app" /\ u = Nobody /\ ~isLoading THEN "login"
  ELSE p

\* Where the router ends up once React has rendered: AuthPage sends a user
\* who is signed in home, ProtectedRoute sends a visitor to the login form
\* when it is neither waiting nor showing an error.
Routed(p, u, isLoading, hasError) ==
  IF p = "login" /\ u # Nobody THEN "app"
  ELSE IF p = "app" /\ u = Nobody /\ ~isLoading /\ ~hasError THEN "login"
  ELSE p

\* Tab t goes on with this user, these flags and this route.  A form that is
\* left takes its isSubmitting along.
Show(t, p, u, isLoading, hasError, isSubmitting) ==
  LET q == Routed(p, u, isLoading, hasError) IN
  /\ path' = [path EXCEPT ![t] = q]
  /\ user' = [user EXCEPT ![t] = u]
  /\ loading' = [loading EXCEPT ![t] = isLoading]
  /\ bootError' = [bootError EXCEPT ![t] = hasError]
  /\ submitting' = [submitting EXCEPT ![t] =
                      isSubmitting /\ q = "login" /\ path[t] = "login"]

\* The requests that are left when tab t moves on: nobody hears a form that
\* is gone from the page.
Unheard(t, left) ==
  IF path'[t] = "login" /\ path[t] = "login" THEN left
  ELSE {IF r.tab = t /\ r.kind \in {"login", "register", "me"}
          THEN [r EXCEPT !.heard = FALSE] ELSE r : r \in left}

\* qc.clear(): the queries are gone, their fetches go on unheard.
Cleared(t, left) ==
  {IF r.tab = t /\ r.kind = "places" THEN [r EXCEPT !.heard = FALSE] ELSE r :
     r \in left}

\* A request of tab t leaves with the token of an account that is not the
\* one it shows.
Crossing(t) ==
  IF stored # NoToken /\ user[t] # Nobody /\ OwnerOf(stored) # user[t]
    THEN {t} ELSE {}

(***************************************************************************)
(* What the user does in a tab                                             *)
(***************************************************************************)
\* The page is loaded at /login or anywhere behind ProtectedRoute.  The fetches
\* of the page before are dropped; the server may have got those that change
\* something.  The first effect asks who the stored token belongs to.
Open(t, p) ==
  /\ loads < MaxLoads /\ CanSend(1)
  /\ loads' = loads + 1
  /\ LET isLoading == stored # NoToken
         orphans == {[r EXCEPT !.tab = NoTab] :
                       r \in {q \in requests : q.tab = t /\ q.answer = "none"
                                /\ q.kind \in {"register", "delete"}}}
     IN
     /\ Show(t, p, Nobody, isLoading, FALSE, FALSE)
     /\ requests' = {r \in requests : r.tab # t} \cup orphans \cup
                    (IF isLoading THEN {Sent(t, "boot", stored, Nobody)} ELSE {})
  /\ cache' = [cache EXCEPT ![t] = Nobody]
  /\ crossed' = crossed \ {t}
  /\ UNCHANGED <<stored, server>>

\* The provider sends the browser back to /auth/callback with a token in the
\* fragment.  The page's effect runs before AuthProvider's, so both ask who
\* the new token belongs to.
OpenCallback(t, u) ==
  /\ loads < MaxLoads /\ CanSend(2)
  /\ Len(owner) < MaxTokens /\ u \in accounts
  /\ LET token == Len(owner) + 1 IN
     /\ loads' = loads + 1
     /\ owner' = Append(owner, u) /\ live' = live \cup {token}
     /\ stored' = token
     /\ Show(t, "callback", Nobody, TRUE, FALSE, FALSE)
     /\ requests' = {r \in requests : r.tab # t}
                    \cup {Sent(t, "me", token, Nobody), Sent(t, "boot", token, Nobody)}
  /\ cache' = [cache EXCEPT ![t] = Nobody]
  /\ crossed' = crossed \ {t}
  /\ UNCHANGED accounts

\* "Back to login" of a callback that failed.
BackToLogin(t) ==
  /\ path[t] = "callback"
  /\ \A r \in requests : ~(r.tab = t /\ r.kind = "me" /\ r.heard)
  /\ Show(t, "login", user[t], loading[t], bootError[t], FALSE)
  /\ requests' = Unheard(t, requests)
  /\ UNCHANGED <<stored, cache, server, loads, crossed>>

\* AuthPage.onSubmit, to sign in or to create an account.
Submit(t, kind, u) ==
  /\ path[t] = "login" /\ ~submitting[t] /\ CanSend(1)
  /\ kind \in {"login", "register"}
  /\ Show(t, path[t], user[t], loading[t], bootError[t], TRUE)
  /\ requests' = requests \cup {Sent(t, kind, stored, u)}
  /\ crossed' = crossed \cup Crossing(t)
  /\ UNCHANGED <<stored, cache, server, loads>>

\* Retry under a boot error.  Without a token the effect returns and leaves
\* everything as it is, the error too.
RetryBoot(t) ==
  /\ path[t] = "app" /\ user[t] = Nobody /\ bootError[t] /\ ~loading[t]
  /\ stored # NoToken /\ CanSend(1)
  /\ Show(t, path[t], Nobody, TRUE, FALSE, FALSE)
  /\ requests' = requests \cup {Sent(t, "boot", stored, Nobody)}
  /\ UNCHANGED <<stored, cache, server, loads, crossed>>

\* The outlet of ProtectedRoute is on screen.
InApp(t) == path[t] = "app" /\ user[t] # Nobody /\ ~loading[t]

\* A page asks for the places; a query has one fetch at a time.
AskPlaces(t) ==
  /\ InApp(t) /\ CanSend(1)
  /\ \A r \in requests : ~(r.tab = t /\ r.kind = "places" /\ r.heard)
  /\ requests' = requests \cup {Sent(t, "places", stored, Nobody)}
  /\ crossed' = crossed \cup Crossing(t)
  /\ UNCHANGED <<stored, path, user, loading, bootError, submitting, cache,
                 server, loads>>

\* SettingsPage.deleteAccount, confirmed.  Bound: one at a time in the browser,
\* and no second account before the first is registered again.
AskDelete(t) ==
  /\ InApp(t) /\ CanSend(1)
  /\ accounts = Accounts /\ \A r \in requests : r.kind # "delete"
  /\ requests' = requests \cup {Sent(t, "delete", stored, Nobody)}
  /\ crossed' = crossed \cup Crossing(t)
  /\ UNCHANGED <<stored, path, user, loading, bootError, submitting, cache,
                 server, loads>>

\* Mutant: logout keeps the queries.
SignOutKeepingQueries(t, left) ==
  /\ stored' = NoToken
  /\ Show(t, path[t], Nobody, loading[t], FALSE, submitting[t])
  /\ requests' = Unheard(t, left)
  /\ crossed' = crossed \ {t}
  /\ UNCHANGED cache

\* AuthContext.logout, in a tab where `left` is under way.
SignOut(t, left) ==
  /\ stored' = NoToken
  /\ Show(t, path[t], Nobody, loading[t], FALSE, submitting[t])
  /\ cache' = [cache EXCEPT ![t] = Nobody]
  /\ requests' = Unheard(t, Cleared(t, left))
  /\ crossed' = crossed \ {t}

Logout(t) ==
  /\ InApp(t)
  /\ SignOut(t, requests)
  /\ UNCHANGED <<server, loads>>

(***************************************************************************)
(* The server and the network                                              *)
(***************************************************************************)
Answered(r, answer) == (requests \ {r}) \cup {[r EXCEPT !.answer = answer]}

\* Routes that need the current user: 401 unless the token is accepted.
ServeAuthenticated(r) ==
  /\ r.kind \in {"boot", "me", "places", "delete"}
  /\ LET accepted == r.token \in live IN
     /\ requests' = Answered(r, IF accepted THEN "ok" ELSE "refused")
     /\ IF r.kind = "delete" /\ accepted
          THEN /\ accounts' = accounts \ {OwnerOf(r.token)}
               /\ live' = {k \in live : owner[k] # OwnerOf(r.token)}
          ELSE UNCHANGED <<accounts, live>>
  /\ UNCHANGED owner

\* POST /auth/jwt/login with the right password; a wrong one is a failure.
ServeLogin(r) ==
  /\ r.kind = "login"
  /\ r.who \in accounts /\ Len(owner) < MaxTokens
  /\ owner' = Append(owner, r.who)
  /\ live' = live \cup {Len(owner) + 1}
  /\ requests' = (requests \ {r}) \cup
       {[r EXCEPT !.answer = "ok", !.token = Len(owner) + 1]}
  /\ UNCHANGED accounts

\* POST /auth/register.
ServeRegister(r) ==
  /\ r.kind = "register"
  /\ requests' = Answered(r, IF r.who \in accounts THEN "failed" ELSE "ok")
  /\ accounts' = accounts \cup {r.who}
  /\ UNCHANGED <<owner, live>>

\* The request does not arrive, or the server answers with a 5xx or, to a form,
\* a 400.  The caller cannot tell the first from an answer lost after the work
\* was done, which matters where the work changes something.
Fail(r) ==
  /\ \/ r.answer = "none"
     \/ r.answer = "ok" /\ r.kind \in {"register", "delete"}
  /\ requests' = Answered(r, "failed")
  /\ UNCHANGED <<server, stored, tabState, loads>>

Serve(r) ==
  /\ r.answer = "none"
  /\ ServeAuthenticated(r) \/ ServeLogin(r) \/ ServeRegister(r)
  /\ UNCHANGED <<stored, tabState, loads>>

\* jwt_lifetime_seconds are over.
Expire(token) ==
  /\ token \in live
  /\ live' = live \ {token}
  /\ UNCHANGED <<stored, tabState, requests, owner, accounts, loads>>

(***************************************************************************)
(* An answer arrives in its tab                                            *)
(***************************************************************************)
\* api() on a 401: the stored token goes, whichever it is, and so does the
\* user.  The query cache stays.
Unauthorized(r) ==
  /\ r.answer = "refused"
  /\ stored' = NoToken
  /\ LET t == r.tab IN
     /\ Show(t, path[t], Nobody, loading[t] /\ r.kind # "boot", bootError[t],
             submitting[t] /\ ~(r.kind = "me" /\ r.heard))
     /\ requests' = Unheard(t, requests \ {r})
     /\ crossed' = IF user[t] = Nobody THEN crossed ELSE crossed \cup {t}
  /\ UNCHANGED <<cache, server, loads>>

\* The user a tab shows is replaced by another one, without a logout.
Replacing(t, u) == IF user[t] \notin {Nobody, u} THEN {t} ELSE {}

\* setUser(me), and, for a sign-in, setBootError(null) and the way home.
TakeUser(r) ==
  /\ r.kind \in {"boot", "me"} /\ r.answer = "ok"
  /\ LET t == r.tab
         u == OwnerOf(r.token)
         signIn == r.kind = "me" IN
     /\ Show(t, IF signIn THEN "app" ELSE path[t], u,
             loading[t] /\ signIn, bootError[t] /\ ~signIn, submitting[t])
     /\ requests' = Unheard(t, requests \ {r})
     /\ crossed' = crossed \cup Replacing(t, u)
  /\ UNCHANGED <<stored, cache, server, loads>>

\* Mutant: setLoading(false) only when the request succeeds.
BootFailsWithoutFinally(r) ==
  /\ r.kind = "boot" /\ r.answer = "failed"
  /\ LET t == r.tab IN
     /\ Show(t, path[t], user[t], loading[t], TRUE, submitting[t])
     /\ requests' = Unheard(t, requests \ {r})
  /\ UNCHANGED <<stored, cache, server, loads, crossed>>

\* Mutant: a failed boot request is taken for a rejected token.
BootFailsAndForgets(r) ==
  /\ r.kind = "boot" /\ r.answer = "failed"
  /\ LET t == r.tab IN
     /\ Show(t, path[t], user[t], FALSE, FALSE, submitting[t])
     /\ requests' = Unheard(t, requests \ {r})
  /\ stored' = NoToken
  /\ UNCHANGED <<cache, server, loads, crossed>>

\* The boot request fails: the error is recorded, the token is kept.
BootFails(r) ==
  /\ r.kind = "boot" /\ r.answer = "failed"
  /\ LET t == r.tab IN
     /\ Show(t, path[t], user[t], FALSE, TRUE, submitting[t])
     /\ requests' = Unheard(t, requests \ {r})
  /\ UNCHANGED <<stored, cache, server, loads, crossed>>

\* Mutant: the owner is asked for before the token is stored.
TakeTokenLate(r) ==
  /\ r.kind = "login" /\ r.answer = "ok"
  /\ stored' = r.token
  /\ requests' = (requests \ {r}) \cup
       {[Sent(r.tab, "me", stored, Nobody) EXCEPT !.heard = r.heard]}
  /\ UNCHANGED <<tabState, server, loads>>

\* login(): the token is stored and its owner asked for.
TakeToken(r) ==
  /\ r.kind = "login" /\ r.answer = "ok"
  /\ stored' = r.token
  /\ requests' = (requests \ {r}) \cup
       {[Sent(r.tab, "me", r.token, Nobody) EXCEPT !.heard = r.heard]}
  /\ UNCHANGED <<tabState, server, loads>>

\* register(): the new account is signed in.
TakeAccount(r) ==
  /\ r.kind = "register" /\ r.answer = "ok"
  /\ requests' = (requests \ {r}) \cup
       {[Sent(r.tab, "login", stored, r.who) EXCEPT !.heard = r.heard]}
  /\ crossed' = crossed \cup Crossing(r.tab)
  /\ UNCHANGED <<stored, path, user, loading, bootError, submitting, cache,
                 server, loads>>

\* onSubmit's catch: the message is shown and the button is free again.
SubmitFails(r) ==
  /\ r.kind \in {"login", "register", "me"} /\ r.answer = "failed"
  /\ LET t == r.tab IN
     Show(t, path[t], user[t], loading[t], bootError[t], submitting[t] /\ ~r.heard)
  /\ requests' = requests \ {r}
  /\ UNCHANGED <<stored, cache, server, loads, crossed>>

\* The answer to a query goes to the cache, if the query is still there.
TakePlaces(r) ==
  /\ r.kind = "places" /\ r.answer \in {"ok", "failed"}
  /\ cache' = IF r.answer = "ok" /\ r.heard
                THEN [cache EXCEPT ![r.tab] = OwnerOf(r.token)] ELSE cache
  /\ requests' = requests \ {r}
  /\ UNCHANGED <<stored, path, user, loading, bootError, submitting, server,
                 loads, crossed>>

\* deleteAccount: logout() once the account is gone, a message otherwise.
TakeDeleted(r) ==
  /\ r.kind = "delete" /\ r.answer \in {"ok", "failed"}
  /\ IF r.answer = "ok"
       THEN SignOut(r.tab, requests \ {r})
       ELSE /\ requests' = requests \ {r}
            /\ UNCHANGED <<stored, tabState>>
  /\ UNCHANGED <<server, loads>>

\* Nobody is there for the answer any more.
Discard(r) ==
  /\ r.tab = NoTab /\ r.answer # "none"
  /\ requests' = requests \ {r}
  /\ UNCHANGED <<stored, tabState, server, loads>>

Receive(r) ==
  IF r.tab = NoTab THEN Discard(r)
  ELSE \/ Unauthorized(r) \/ TakeUser(r) \/ BootFails(r) \/ TakeToken(r)
       \/ TakeAccount(r) \/ SubmitFails(r) \/ TakePlaces(r) \/ TakeDeleted(r)

(***************************************************************************)
(* The specification                                                       *)
(***************************************************************************)
\* Every tab is closed: an empty page without a session.
Init ==
  /\ stored = NoToken
  /\ path = [t \in Tabs |-> "login"]
  /\ user = [t \in Tabs |-> Nobody] /\ cache = [t \in Tabs |-> Nobody]
  /\ loading = [t \in Tabs |-> FALSE] /\ bootError = [t \in Tabs |-> FALSE]
  /\ submitting = [t \in Tabs |-> FALSE]
  /\ requests = {} /\ owner = <<>> /\ live = {} /\ accounts = Accounts
  /\ loads = 0 /\ crossed = {}

ByUser(t) ==
  \/ \E p \in {"login", "app"} : Open(t, p)
  \/ \E u \in Users : OpenCallback(t, u)
  \/ BackToLogin(t)
  \/ \E kind \in {"login", "register"}, u \in Users : Submit(t, kind, u)
  \/ RetryBoot(t) \/ AskPlaces(t) \/ AskDelete(t) \/ Logout(t)

Next ==
  \/ \E t \in Tabs : ByUser(t)
  \/ \E r \in requests : Serve(r) \/ Fail(r) \/ Receive(r)
  \/ \E token \in live : Expire(token)

Spec == Init /\ [][Next]_vars

(***************************************************************************)
(* Properties                                                              *)
(***************************************************************************)
\* The places a tab shows are those of the user it shows, unless in this tab a
\* 401 ended a session without clearing the cache, another tab signed in
\* somebody else, or a late /users/me answer replaced the user: logout() clears
\* the cache, and no fetch that was under way at the logout fills it again
\* (AuthContext.tsx logout).
CacheIsOfUser ==
  \A t \in Tabs :
    user[t] # Nobody /\ cache[t] \notin {Nobody, user[t]} => t \in crossed

\* A token the server accepts leaves localStorage only when a user signs out or
\* deletes the account, when another token takes its place, or when a request
\* that had been sent with another token is refused: no failed request, and no
\* reload, loses a session (client.ts and AuthContext.tsx, the catch).
TokenGoesForAReason ==
  \/ \E t \in Tabs : Logout(t)
  \/ \E r \in requests \ requests' :
       \/ r.answer = "refused" /\ r.token # stored
       \/ r.kind = "delete" /\ r.answer = "ok"
ValidTokenKept ==
  [][(stored \in live /\ stored' = NoToken) => TokenGoesForAReason]_vars

\* Nobody is sent from a protected page to the login form while a token is
\* still stored: a server that did not answer never looks like a sign-out
\* (ProtectedRoute.tsx).
SentToLogin(t) == path[t] = "app" /\ path'[t] = "login" /\ loads' = loads
RedirectIsHonest ==
  [][\A t \in Tabs : SentToLogin(t) => stored' = NoToken]_vars

\* "Loading" and "Working" never stay on screen for nothing: the boot request,
\* or the form's, is still under way, and its answer takes the word away
\* (AuthContext.tsx's finally, AuthPage.onSubmit).
WaitsForAnAnswer ==
  \A t \in Tabs :
    /\ loading[t] =>
         \E r \in requests : r.tab = t /\ r.kind = "boot"
    /\ submitting[t] =>
         \E r \in requests :
           r.tab = t /\ r.kind \in {"login", "register", "me"} /\ r.heard

\* What ProtectedRoute.tsx says of its error screen: a token the API rejected
\* is not this case.  The screen offers Retry, which needs a token to ask
\* about.  The code fails it: a boot error recorded beside a user outlives the
\* session of that user.
ErrorScreenCanRetry ==
  \A t \in Tabs :
    path[t] = "app" /\ user[t] = Nobody /\ bootError[t] /\ ~loading[t] =>
      stored # NoToken
==============================================================================
