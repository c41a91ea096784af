--------------------------- MODULE BrowserSession ---------------------------
(***************************************************************************)
(* The session of a browser: each tab keeps the access token and the       *)
(* refresh token of its last sign-in or refresh in memory, all tabs share  *)
(* the refresh cookie.  The server rotates: a refresh mints a new pair of  *)
(* tokens and blacklists the refresh token it was given.  A request that   *)
(* is answered 401 makes the response interceptor of its tab refresh once  *)
(* for every request that fails in the meantime, and send them again.      *)
(***************************************************************************)
EXTENDS Integers, FiniteSets

CONSTANTS
    Tab,      \* tabs of the browser
    Request,  \* requests a page may have under way
    TabOf,    \* [Request -> Tab]
    NumPairs  \* pairs of tokens the server mints: bounds the model

ASSUME BrowserAssumption == TabOf \in [Request -> Tab] /\ NumPairs \in Nat \ {0}

Pair == 1..NumPairs
Nobody == "nobody"

VARIABLES
    minted,  \* pairs minted so far
    stale,   \* pairs whose access token is past its 15 minutes
    spender, \* [Pair -> the tab that used up its refresh token, or Nobody]
    cookie,  \* the refresh cookie, 0 for none
    tab,     \* the stores and the interceptor's variables of each tab
    request  \* [Request -> step, pair of its Authorization, refresh token presented, pair granted]

browserVars == <<minted, stale, spender, cookie, tab, request>>

TabState == [phase: {"closed", "booting", "open"}, access: 0..NumPairs, refresh: 0..NumPairs,
             last: 0..NumPairs, refreshing: BOOLEAN]
RequestState == [pc: {"done", "rejected", "sent", "queued", "refreshing", "granted",
                      "denied", "lapsed", "lost"},
                 tok: 0..NumPairs, ref: 0..NumPairs, new: 0..NumPairs, retry: BOOLEAN]

BrowserTypeOK ==
    /\ minted \in 0..NumPairs /\ stale \subseteq Pair /\ cookie \in 0..NumPairs
    /\ spender \in [Pair -> Tab \cup {Nobody}]
    /\ tab \in [Tab -> TabState]
    /\ request \in [Request -> RequestState]

ClosedTab == [phase |-> "closed", access |-> 0, refresh |-> 0, last |-> 0, refreshing |-> FALSE]
NoCallYet == [pc |-> "done", tok |-> 0, ref |-> 0, new |-> 0, retry |-> FALSE]

\* The cookie of an earlier visit is there.
BrowserInit ==
    /\ minted = 1 /\ cookie = 1 /\ stale = {1}
    /\ spender = [p \in Pair |-> Nobody]
    /\ tab = [t \in Tab |-> ClosedTab]
    /\ request = [r \in Request |-> NoCallYet]

Settled(r) == request[r].pc \in {"done", "rejected"}
RefusedCall(r) == request[r].pc \in {"denied", "lapsed", "lost"}
Siblings(r) == {q \in Request : TabOf[q] = TabOf[r]}
Signed(t) == tab[t].access # 0

\* The refresh token a tab presents: the one in its memory, else the cookie.
Presented(t) == IF tab[t].refresh # 0 THEN tab[t].refresh ELSE cookie

-----------------------------------------------------------------------------
(* The page loads: bootstrapSession asks for a refresh.                    *)

LoadPage(r) ==
    LET t == TabOf[r] IN
    /\ tab[t].phase = "closed"
    /\ tab' = [tab EXCEPT ![t].phase = "booting"]
    /\ request' = [request EXCEPT ![r] = [NoCallYet EXCEPT !.pc = "refreshing", !.ref = Presented(t)]]
    /\ UNCHANGED <<minted, stale, spender, cookie>>

Booted(r) ==
    LET t == TabOf[r] IN
    /\ tab[t].phase = "booting" /\ request[r].pc = "granted"
    /\ cookie' = request[r].new
    /\ tab' = [tab EXCEPT ![t].phase = "open", ![t].access = request[r].new, ![t].refresh = request[r].new]
    /\ request' = [request EXCEPT ![r] = NoCallYet]
    /\ UNCHANGED <<minted, stale, spender>>

BootFailed(r) ==
    LET t == TabOf[r] IN
    /\ tab[t].phase = "booting" /\ RefusedCall(r)
    /\ tab' = [tab EXCEPT ![t].phase = "open", ![t].access = 0, ![t].refresh = 0]
    /\ request' = [request EXCEPT ![r] = NoCallYet]
    /\ UNCHANGED <<minted, stale, spender, cookie>>

-----------------------------------------------------------------------------
(* Requests and their answers.                                             *)

SendCall(r) ==
    LET t == TabOf[r] IN
    /\ tab[t].phase = "open" /\ Signed(t) /\ Settled(r)
    /\ request' = [request EXCEPT ![r] = [NoCallYet EXCEPT !.pc = "sent", !.tok = tab[t].access]]
    /\ UNCHANGED <<minted, stale, spender, cookie, tab>>

Answered(r) ==
    /\ request[r].pc = "sent" /\ request[r].tok \notin stale
    /\ request' = [request EXCEPT ![r] = NoCallYet]
    /\ UNCHANGED <<minted, stale, spender, cookie, tab>>

\* A 401.  A request that was sent again, or that fails while the current token is the one
\* the last refresh brought, is rejected; one that fails during a refresh waits for it; any
\* other starts one.
Unauthorized(r) ==
    LET t == TabOf[r] IN
    /\ request[r].pc = "sent" /\ request[r].tok \in stale
    /\ IF request[r].retry \/ (Signed(t) /\ tab[t].access = tab[t].last)
       THEN request' = [request EXCEPT ![r].pc = "rejected"] /\ UNCHANGED tab
       ELSE IF tab[t].refreshing
       THEN request' = [request EXCEPT ![r].pc = "queued"] /\ UNCHANGED tab
       ELSE /\ request' = [request EXCEPT ![r].pc = "refreshing", ![r].ref = Presented(t), ![r].retry = TRUE]
            /\ tab' = [tab EXCEPT ![t].refreshing = TRUE]
    /\ UNCHANGED <<minted, stale, spender, cookie>>

\* TokenRefreshView, with ROTATE_REFRESH_TOKENS and BLACKLIST_AFTER_ROTATION.  After three
\* days a refresh token lapses; the model's last pair always has.
ServeRefresh(r) ==
    LET ref == request[r].ref IN
    /\ request[r].pc = "refreshing"
    /\ IF ref = 0 \/ (ref # 0 /\ spender[ref] # Nobody)
       THEN request' = [request EXCEPT ![r].pc = "denied"] /\ UNCHANGED <<minted, spender>>
       ELSE \/ request' = [request EXCEPT ![r].pc = "lapsed"] /\ UNCHANGED <<minted, spender>>
            \/ /\ minted < NumPairs
               /\ minted' = minted + 1
               /\ spender' = [spender EXCEPT ![ref] = TabOf[r]]
               /\ request' = [request EXCEPT ![r].pc = "granted", ![r].new = minted + 1]
    /\ UNCHANGED <<stale, cookie, tab>>

\* The refresh or its answer is lost on the way.
Lose(r) ==
    /\ request[r].pc \in {"refreshing", "granted"}
    /\ request' = [request EXCEPT ![r].pc = "lost"]
    /\ UNCHANGED <<minted, stale, spender, cookie, tab>>

\* The refresh came through: the stores and the cookie hold the new pair, and the request and
\* those that waited are sent again with it.
Refreshed(r) ==
    LET t == TabOf[r]
        new == request[r].new IN
    /\ tab[t].phase = "open" /\ request[r].pc = "granted"
    /\ cookie' = new
    /\ tab' = [tab EXCEPT ![t].access = new, ![t].refresh = new, ![t].last = new, ![t].refreshing = FALSE]
    /\ request' = [q \in Request |->
                     IF q = r \/ (q \in Siblings(r) /\ request[q].pc = "queued")
                     THEN [NoCallYet EXCEPT !.pc = "sent", !.tok = new, !.retry = request[q].retry]
                     ELSE request[q]]
    /\ UNCHANGED <<minted, stale, spender>>

\* Faulty: the requests that waited are not told.
SessionExpiredQueueKept(r) ==
    LET t == TabOf[r] IN
    /\ tab[t].phase = "open" /\ RefusedCall(r)
    /\ tab' = [tab EXCEPT ![t].access = 0, ![t].refresh = 0, ![t].refreshing = FALSE]
    /\ request' = [request EXCEPT ![r].pc = "rejected"]
    /\ UNCHANGED <<minted, stale, spender, cookie>>

\* The refresh failed: everyone who waited is rejected and clearAuth ends the session.
SessionExpired(r) ==
    LET t == TabOf[r] IN
    /\ tab[t].phase = "open" /\ RefusedCall(r)
    /\ tab' = [tab EXCEPT ![t].access = 0, ![t].refresh = 0, ![t].refreshing = FALSE]
    /\ request' = [q \in Request |->
                     IF q = r \/ (q \in Siblings(r) /\ request[q].pc = "queued")
                     THEN [request[q] EXCEPT !.pc = "rejected"] ELSE request[q]]
    /\ UNCHANGED <<minted, stale, spender, cookie>>

-----------------------------------------------------------------------------
(* The user, and time.                                                     *)

\* LoginView, for a password that is right and an address that is verified (any other
\* answer changes nothing): one more pair, whose refresh token goes into the cookie.
SignIn ==
    /\ minted < NumPairs
    /\ minted' = minted + 1 /\ cookie' = minted + 1

\* LogoutView deletes the cookie and blacklists nothing, or it cannot be reached.
SignOut == cookie' \in {0, cookie}

Login(t) ==
    /\ tab[t].phase = "open" /\ ~Signed(t)
    /\ SignIn
    /\ tab' = [tab EXCEPT ![t].access = minted + 1, ![t].refresh = minted + 1]
    /\ UNCHANGED <<stale, spender, request>>

\* Whatever the server does, the tab forgets its session.
Logout(t) ==
    /\ tab[t].phase = "open" /\ Signed(t) /\ tab[t].access \notin stale
    /\ SignOut
    /\ tab' = [tab EXCEPT ![t].access = 0, ![t].refresh = 0]
    /\ UNCHANGED <<minted, stale, spender, request>>

ExpirePair(p) ==
    /\ p <= minted /\ p \notin stale
    /\ stale' = stale \cup {p}
    /\ UNCHANGED <<minted, spender, cookie, tab, request>>

RequestStep(r) ==
    \/ Booted(r) \/ BootFailed(r) \/ Answered(r) \/ Unauthorized(r)
    \/ ServeRefresh(r) \/ Refreshed(r) \/ SessionExpired(r)

BrowserNext ==
    \/ \E r \in Request : LoadPage(r) \/ SendCall(r) \/ Lose(r) \/ RequestStep(r)
    \/ \E t \in Tab : Login(t) \/ Logout(t)
    \/ \E p \in Pair : ExpirePair(p)

\* Requests are answered or lost, and the interceptor runs.
BrowserFairness == \A r \in Request : WF_browserVars(RequestStep(r))

BrowserSpec == BrowserInit /\ [][BrowserNext]_browserVars /\ BrowserFairness

-----------------------------------------------------------------------------
\* No request is left waiting: the one that refreshes, and those that queue behind it, are
\* all answered or rejected in the end.
RequestsSettle == \A r \in Request : []<>Settled(r)
=============================================================================
