--------------------------------- MODULE Login ---------------------------------
(***************************************************************************)
(* The signed-in user of one tab of the web client (auth.tsx,              *)
(* auth-policy.ts, App.tsx): the session cookie, the user the client       *)
(* believes in, the page React has rendered for them, the query cache, and *)
(* the requests under way, which are answered in any order. A step is the  *)
(* code that runs on one event: the promise callbacks it queues run before *)
(* the next event, the re-rendering of the page does not. The cookie of a  *)
(* login changes in the step that handles its answer.                      *)
(***************************************************************************)
EXTENDS FiniteSets

CONSTANTS
    Users,
    Admins,    \* the users with role ADMIN
    Roots,     \* query keys in userQueryRoots
    Monitor,   \* the key of the monitoring overview, which is not in it
    Slots,     \* requests under way at a time
    None

Keys == Roots \union {Monitor}

ASSUME UsersAssumption == {None, "auth", "blank"} \intersect Users = {} /\ Admins \subseteq Users
ASSUME KeysAssumption == Monitor \notin Roots

VARIABLES
    cookie,   \* whose session the browser's cookie is, None when there is none
    user,     \* the user of the context
    loading,  \* the session is being looked up
    cache,    \* cache[k]: whose data the query cache has under k
    page,     \* what is rendered: "blank", "auth", or the drive of a user
    request,  \* request[s]: what is under way
    alone     \* history: the sign-ins, since last none was under way, were one at a time

vars == <<cookie, user, loading, cache, page, request, alone>>

\* "as" is the user whose cookie the request carries, "about" the user who
\* logs in or the key that is queried. A "call" is a request whose answer
\* nobody reads but the interceptor: an upload, or a query that was cancelled.
Idle == [what |-> "idle", as |-> None, about |-> None]
Kinds == {"idle", "start", "session", "login", "logout", "query", "call"}
Requests == [what : Kinds, as : Users \union {None}, about : Users \union Keys \union {None}]

\* What Protected and Guest render.
ScreenAtOnce == IF user = None THEN "auth" ELSE user   \* mistake: without waiting for the lookup
Screen == IF loading THEN "blank" ELSE IF user = None THEN "auth" ELSE user

Under(kind) == {s \in Slots : request[s].what = kind}
Lookups == Under("start") \union Under("session")
SignIns == Under("login") \union Under("session")

Init ==
    /\ cookie \in Users \union {None}
    /\ user = None /\ loading = TRUE /\ page = "blank" /\ alone = TRUE
    /\ cache = [k \in Keys |-> None]
    /\ \E s \in Slots :
         request = [q \in Slots |-> IF q = s THEN [Idle EXCEPT !.what = "start", !.as = cookie]
                                    ELSE Idle]

Send(s, kind, about) ==
    /\ request[s] = Idle
    /\ request' = [request EXCEPT ![s] = [what |-> kind, as |-> cookie, about |-> about]]
    /\ UNCHANGED <<cookie, user, loading, cache, page>>

-----------------------------------------------------------------------------
(* The pages.                                                              *)

Render ==
    /\ page # Screen
    /\ page' = Screen
    /\ UNCHANGED <<cookie, user, loading, cache, request, alone>>

\* The form disables its button while its own sign-in is under way, but that
\* is state of one AuthPage: going back to a page of the drive, which redirects
\* to /login, or to /register, mounts another, whose button is enabled.
\* So nothing keeps sign-ins from overlapping.
Login(s, u) ==
    /\ page = "auth" /\ Screen = "auth"
    /\ Send(s, "login", u)
    /\ alone' = (SignIns = {})

Logout(s) == page \in Users /\ Send(s, "logout", None) /\ UNCHANGED alone

\* A rendered page fetches a key once at a time; the overview is an admin's page.
Query(s, k) ==
    /\ page \in Users /\ (k = Monitor => page \in Admins)
    /\ \A q \in Under("query") : request[q].about # k
    /\ Send(s, "query", k)
    /\ UNCHANGED alone

Call(s) == page \in Users /\ Send(s, "call", None) /\ UNCHANGED alone

-----------------------------------------------------------------------------
(* Answers.                                                                *)

CancelledOnly(k) == cache[k]   \* mistake: cancelled, and not removed
Kept(k) == IF k \in Roots THEN None ELSE cache[k]

\* clearUserQueryCache: what is being fetched is cancelled, what was fetched
\* removed; the requests of cancelled queries go on.
ClearCache(s, next) ==
    /\ cache' = [k \in Keys |-> Kept(k)]
    /\ request' = [q \in Slots |->
         IF q = s THEN next
         ELSE IF request[q].what = "query" /\ request[q].about \in Roots
              THEN [request[q] EXCEPT !.what = "call", !.about = None]
              ELSE request[q]]

Done(s) == request' = [request EXCEPT ![s] = Idle]

\* What "finally" makes of loading.
LoadedOnSuccess(ok) == loading /\ ~ok   \* mistake: only after success
Loading(ok) == FALSE
Loads(s, ok) == loading' = IF request[s].what \in {"start", "session"} THEN Loading(ok) ELSE loading

\* The interceptor and the coordinator on a 401; the caller gets an error.
\* A request has the interceptor, and so the coordinator, of the render it was
\* sent under; whether that one has handled a 401 already is left open.
Refused(s) ==
    /\ \/ Done(s) /\ UNCHANGED <<user, cache>>
       \/ user' = None /\ ClearCache(s, Idle)
    /\ Loads(s, FALSE)
    /\ UNCHANGED <<cookie, page, alone>>

Unauthorized(s) ==
    /\ request[s].what \in {"start", "session", "query", "call"} /\ request[s].as = None
    /\ Refused(s)

WrongPassword(s) == request[s].what = "login" /\ Refused(s)

\* GET /me names the user of the cookie that was sent. Any failure but a 401
\* is "nobody" at the start and leaves the user alone after a login.
Me(s) ==
    /\ request[s].what \in {"start", "session"} /\ request[s].as # None
    /\ \/ user' = request[s].as /\ Loads(s, TRUE)
       \/ user' = (IF request[s].what = "start" THEN None ELSE user) /\ Loads(s, FALSE)
    /\ Done(s)
    /\ UNCHANGED <<cookie, cache, page, alone>>

LoggedIn(s) ==
    LET u == request[s].about
    IN  /\ request[s].what = "login"
        /\ cookie' = u
        \* establishSession, up to its request
        /\ loading' = TRUE /\ user' = None
        /\ ClearCache(s, [what |-> "session", as |-> u, about |-> None])
        /\ UNCHANGED <<page, alone>>

\* The cookie goes when the server was reached, the user in any case.
LoggedOut(s) ==
    /\ request[s].what = "logout"
    /\ cookie' \in {None, cookie}
    /\ user' = None /\ ClearCache(s, Idle)
    /\ UNCHANGED <<loading, page, alone>>

Fetched(s) ==
    /\ request[s].what = "query" /\ request[s].as # None
    /\ request[s].about = Monitor => request[s].as \in Admins
    /\ cache' = [cache EXCEPT ![request[s].about] = request[s].as]
    /\ Done(s)
    /\ UNCHANGED <<cookie, user, loading, page, alone>>

\* An answer that changes nothing, or any other failure.
Ignored(s) ==
    /\ request[s].what \in {"login", "query", "call"}
    /\ Done(s)
    /\ UNCHANGED <<cookie, user, loading, cache, page, alone>>

Answer(s) ==
    \/ Unauthorized(s) \/ WrongPassword(s) \/ Me(s) \/ LoggedIn(s)
    \/ LoggedOut(s) \/ Fetched(s) \/ Ignored(s)

\* The session's time is over.
Expire ==
    /\ cookie # None
    /\ cookie' = None
    /\ UNCHANGED <<user, loading, cache, page, request, alone>>

Next ==
    \/ Render \/ Expire
    \/ \E s \in Slots :
         \/ \E u \in Users : Login(s, u)
         \/ \E k \in Keys : Query(s, k)
         \/ Logout(s) \/ Call(s) \/ Answer(s)

Spec == Init /\ [][Next]_vars

\* React renders, and the browser answers or fails every request.
FairSpec == Spec /\ WF_vars(Render) /\ \A s \in Slots : WF_vars(Answer(s))

-----------------------------------------------------------------------------
(* Properties.                                                             *)

\* Every variable has its type. While the client says that it restores the
\* session a lookup of it is under way, and exactly one, and none besides, if
\* sign-ins do not overlap (auth.tsx:39-60).
TypeOK ==
    /\ cookie \in Users \union {None} /\ user \in Users \union {None}
    /\ loading \in BOOLEAN /\ alone \in BOOLEAN
    /\ cache \in [Keys -> Users \union {None}]
    /\ page \in {"blank", "auth"} \union Users
    /\ request \in [Slots -> Requests]
    /\ loading => Lookups # {}
    /\ alone => Cardinality(Lookups) = IF loading THEN 1 ELSE 0

\* While the browser has a session, what is cached was fetched under that
\* session, however sign-ins overlap and whichever queries of an earlier user
\* were still under way; and where sign-ins do not overlap, a drive, also one
\* that outlives its session, never shows what was fetched for somebody else
\* (auth-policy.ts:16-20, auth.tsx:48-60).
OwnDataOnly == \A k \in Roots :
    /\ cookie # None => cache[k] \in {cookie, None}
    /\ alone /\ page \in Users => cache[k] \in {page, None}

\* Where sign-ins do not overlap, the user the client believes in and the one
\* whose drive is rendered are those the requests are made for, or the session
\* is over: no late answer, of a lookup, a logout or a refusal, brings back the
\* identity of an earlier login (auth.tsx:48-69).
OneIdentity == alone => \A u \in {user, page} \intersect Users : cookie \in {u, None}

\* "Restoring your session" ends, however the lookup ends (auth.tsx:41-59).
BlankEnds == page = "blank" ~> page # "blank"

-----------------------------------------------------------------------------
(* What the code does not promise.                                         *)

\* The user shown is the one the requests are made for, whatever the user
\* does. False: with two sign-ins under way, the second after a remount of
\* the form, the answer to the lookup of the first may come last.
SameUser == user # None => cookie \in {user, None}

\* Likewise a drive shows its user's data only. False for the same reason.
SameData == \A k \in Roots : page \in Users => cache[k] \in {page, None}

\* Only a refusal of the session itself ends it. False: the 401 of a request
\* sent before the login may arrive after the answer of /me.
StaysSignedIn ==
    [][\A s \in Slots : Unauthorized(s) /\ cookie = user => user' = user]_vars

\* Nothing of the first user is left for the second. False: the monitoring
\* overview is not among userQueryRoots.
NothingLeft == \A k \in Keys : alone /\ page \in Users => cache[k] \in {page, None}
=============================================================================
