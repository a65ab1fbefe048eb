----------------------------- MODULE LoginProofs -----------------------------
(***************************************************************************)
(* What holds in Login for any users, query keys and number of requests:   *)
(* its types, that the cache only holds data of the browser's session,     *)
(* and, where sign-ins do not overlap, that the user believed in and the   *)
(* one whose drive is shown are the cookie's, and that no drive shows what *)
(* was fetched for somebody else.                                          *)
(***************************************************************************)
EXTENDS Login, FiniteSetTheorems, TLAPS

Lookup(s) == request[s].what \in {"start", "session"}
Entry(s) == Lookup(s) \/ request[s].what = "login"

\* Every variable has its type.
Types ==
    /\ cookie \in Users \union {None} /\ user \in Users \union {None}
    /\ loading \in BOOLEAN /\ alone \in BOOLEAN
    /\ cache \in [Keys -> Users \union {None}]
    /\ page \in {"blank", "auth"} \union Users
    /\ request \in [Slots -> Requests]
    /\ \A s \in Slots : request[s].what = "login" => request[s].about \in Users

\* The lookup of the start goes before everything else, and the session is
\* not said to be looked up when it is not.
StartInv ==
    \A s \in Slots : request[s].what = "start" =>
        loading /\ page = "blank" /\ \A t \in Slots : Entry(t) => s = t
LookupInv == loading => \E s \in Slots : Lookup(s)

\* Whatever is cached or being fetched is a given user's.
OnlyOf(u) ==
    /\ \A k \in Roots : cache[k] \in {u, None}
    /\ \A s \in Slots :
          request[s].what = "query" /\ request[s].about \in Roots => request[s].as \in {u, None}
Clean ==
    /\ \A k \in Roots : cache[k] = None
    /\ \A s \in Slots : ~ (request[s].what = "query" /\ request[s].about \in Roots)
SessionDataInv == cookie # None => OnlyOf(cookie)

\* If sign-ins do not overlap, at most one request is about to say who the user
\* is: the form is shown when nobody is, and not during a lookup.
EntryInv ==
    /\ \A s, t \in Slots : Entry(s) /\ Entry(t) => s = t
    /\ loading <=> \E s \in Slots : Lookup(s)
    /\ loading => user = None
    /\ \A s \in Slots :
          request[s].what = "login" => user = None /\ page = "auth"

\* The identity that is believed, or about to be, is the cookie's.
IdentityInv ==
    /\ user # None => cookie \in {user, None}
    /\ \A s \in Slots :
          Lookup(s) /\ request[s].as # None => cookie \in {request[s].as, None}

\* A drive is its user's; before one is rendered, nothing is cached for it.
PageInv ==
    /\ page \in Users => /\ ~loading /\ user \in {page, None} /\ cookie \in {page, None}
                         /\ OnlyOf(page)
    /\ page \notin Users /\ (loading \/ user # None) => Clean

Single == EntryInv /\ IdentityInv /\ PageInv
LoginInv == Types /\ StartInv /\ LookupInv /\ SessionDataInv /\ (alone => Single)

\* At the start nobody is signed in and the session is being looked up.
LEMMA Initially == Init => LoginInv
<1> SUFFICES ASSUME Init PROVE LoginInv
  OBVIOUS
<1>1. PICK s \in Slots :
          request = [q \in Slots |-> IF q = s THEN [Idle EXCEPT !.what = "start", !.as = cookie]
                                     ELSE Idle]
  BY DEF Init
<1> DEFINE c == [Idle EXCEPT !.what = "start", !.as = cookie]
<1>2. c \in Requests /\ c.what = "start" /\ c.as = cookie
  <2>1. c = [[Idle EXCEPT !.what = "start"] EXCEPT !.as = cookie]
    OBVIOUS
  <2> QED  BY <2>1 DEF Idle, Requests, Kinds, Init
<1>3. Idle \in Requests /\ Idle.what = "idle"
  BY DEF Idle, Requests, Kinds
<1> HIDE DEF c
<1>4. /\ request \in [Slots -> Requests]
      /\ request[s].what = "start" /\ request[s].as = cookie
      /\ \A t \in Slots : t # s => request[t].what = "idle"
  BY <1>1, <1>2, <1>3 DEF c
<1>5. Types
  BY <1>4 DEF Init, Types
<1>6. StartInv /\ LookupInv /\ EntryInv /\ IdentityInv
  BY <1>4 DEF Init, StartInv, LookupInv, EntryInv, Entry, Lookup, IdentityInv
<1>7. PageInv /\ SessionDataInv
  BY <1>4, UsersAssumption DEF Init, PageInv, SessionDataInv, Clean, OnlyOf, Keys
<1> QED  BY <1>5, <1>6, <1>7 DEF LoginInv, Single

\* Slot s goes on as q; of the others at most queries are cancelled.
Goes(s, q) ==
    /\ request' \in [Slots -> Requests]
    /\ request'[s] = q
    /\ \A t \in Slots \ {s} :
          \/ request'[t] = request[t]
          \/ request[t].what = "query" /\ request'[t].what = "call"

LEMMA IdleRequest == Idle \in Requests /\ Idle.what = "idle"
BY DEF Idle, Requests, Kinds

LEMMA DoneGoes ==
    ASSUME Types, NEW s \in Slots, Done(s)
    PROVE  Goes(s, Idle)
BY IdleRequest DEF Types, Done, Goes

LEMMA SendGoes ==
    ASSUME Types, NEW s \in Slots, NEW kind \in Kinds, NEW about \in Users \union Keys \union {None},
           Send(s, kind, about)
    PROVE  Goes(s, [what |-> kind, as |-> cookie, about |-> about])
BY DEF Types, Send, Goes, Requests

\* Clearing the cache forgets every query of userQueryRoots, fetched or not.
LEMMA Cleared ==
    ASSUME Types, NEW s \in Slots, NEW q \in Requests, q.what # "query", ClearCache(s, q)
    PROVE  Goes(s, q) /\ Clean' /\ cache' \in [Keys -> Users \union {None}]
<1>1. cache' \in [Keys -> Users \union {None}] /\ \A k \in Roots : cache'[k] = None
  BY DEF ClearCache, Kept, Types, Keys
<1>2. ASSUME NEW t \in Slots
      PROVE  LET c == [request[t] EXCEPT !.what = "call", !.about = None]
             IN  c \in Requests /\ c.what = "call"
  <2>1. [request[t] EXCEPT !.what = "call", !.about = None]
          = [[request[t] EXCEPT !.what = "call"] EXCEPT !.about = None]
    OBVIOUS
  <2> QED  BY <2>1 DEF Types, Requests, Kinds
<1>3. Goes(s, q)
  BY <1>2 DEF ClearCache, Goes, Types
<1>4. \A t \in Slots : ~ (request'[t].what = "query" /\ request'[t].about \in Roots)
  BY <1>2 DEF ClearCache, Types
<1> QED  BY <1>1, <1>3, <1>4 DEF Clean

-----------------------------------------------------------------------------
\* Slot s goes on as a request that enters nobody, and the screen stays.
LEMMA StartKept ==
    ASSUME LoginInv, NEW s \in Slots, NEW q \in Requests, Goes(s, q), page' = page,
           q.what \notin {"start", "session", "login"},
           loading' = IF Lookup(s) THEN FALSE ELSE loading
    PROVE  StartInv' /\ LookupInv'
BY DEF LoginInv, StartInv, LookupInv, Entry, Lookup, Goes

LEMMA RenderKeeps == LoginInv /\ Render => LoginInv'
<1> SUFFICES ASSUME LoginInv, Render PROVE LoginInv'
  OBVIOUS
<1>1. Types'
  BY DEF LoginInv, Types, Render, Screen
<1>2. StartInv' /\ LookupInv' /\ SessionDataInv'
  BY DEF LoginInv, StartInv, LookupInv, SessionDataInv, OnlyOf, Entry, Lookup, Render, Screen
<1>3. ASSUME alone
      PROVE  Single'
  <2>1. EntryInv'
    BY <1>3, UsersAssumption
       DEF LoginInv, Single, EntryInv, Entry, Lookup, PageInv, Render, Screen
  <2>2. IdentityInv'
    BY <1>3 DEF LoginInv, Single, IdentityInv, Lookup, Render
  <2>3. PageInv'
    BY <1>3, UsersAssumption
       DEF LoginInv, Types, Single, EntryInv, IdentityInv, PageInv, OnlyOf, Clean, Render, Screen
  <2> QED  BY <2>1, <2>2, <2>3 DEF Single
<1> QED  BY <1>1, <1>2, <1>3 DEF LoginInv, Render

LEMMA ExpireKeeps == LoginInv /\ Expire => LoginInv'
<1> SUFFICES ASSUME LoginInv, Expire PROVE LoginInv'
  OBVIOUS
<1>1. Types' /\ StartInv' /\ LookupInv' /\ SessionDataInv'
  BY DEF LoginInv, Types, StartInv, LookupInv, SessionDataInv, Entry, Lookup, Expire
<1>2. ASSUME alone
      PROVE  Single'
  BY <1>2
     DEF LoginInv, Single, EntryInv, Entry, Lookup, IdentityInv, PageInv, OnlyOf, Clean, Expire
<1> QED  BY <1>1, <1>2 DEF LoginInv, Expire

\* Sending a request that is no login changes nothing that is known.
LEMMA SendKeeps ==
    ASSUME LoginInv, NEW s \in Slots, NEW kind \in {"logout", "query", "call"},
           NEW about \in Keys \union {None}, page \in Users, Send(s, kind, about), UNCHANGED alone
    PROVE  LoginInv'
<1> DEFINE q == [what |-> kind, as |-> cookie, about |-> about]
<1>1. Goes(s, q) /\ q \in Requests
  BY SendGoes DEF LoginInv, Types, Kinds, Requests
<1>2. UNCHANGED <<cookie, user, loading, cache, page, alone>> /\ request[s].what = "idle"
  BY IdleRequest DEF Send
<1>3. Types'
  BY <1>1, <1>2 DEF LoginInv, Types, Goes
<1>4. StartInv' /\ LookupInv'
  BY <1>1, <1>2, StartKept DEF Lookup
<1>5. SessionDataInv'
  BY <1>1, <1>2 DEF LoginInv, SessionDataInv, OnlyOf, Goes
<1>6. ASSUME alone
      PROVE  Single'
  <2>1. EntryInv'
    BY <1>1, <1>2, <1>6 DEF LoginInv, Single, EntryInv, Entry, Lookup, Goes
  <2>2. IdentityInv'
    BY <1>1, <1>2, <1>6 DEF LoginInv, Single, IdentityInv, Lookup, Goes
  <2>3. PageInv'
    BY <1>1, <1>2, <1>6 DEF LoginInv, Single, PageInv, OnlyOf, Goes
  <2> QED  BY <2>1, <2>2, <2>3 DEF Single
<1> QED  BY <1>2, <1>3, <1>4, <1>5, <1>6 DEF LoginInv

\* A sign-in that begins while none is under way is alone, whatever was before:
\* nobody is signed in then, and no lookup is left that could change that.
LEMMA LoginKeeps ==
    ASSUME LoginInv, NEW s \in Slots, NEW u \in Users, Login(s, u)
    PROVE  LoginInv'
<1> DEFINE q == [what |-> "login", as |-> cookie, about |-> u]
<1>1. Goes(s, q) /\ request[s].what = "idle"
  BY SendGoes, IdleRequest DEF LoginInv, Login, Send, Kinds
<1>2. UNCHANGED <<cookie, user, loading, cache, page>> /\ alone' = (SignIns = {})
  BY DEF Login, Send
<1>3. page = "auth" /\ ~loading /\ user = None
  BY UsersAssumption DEF Login, Screen, LoginInv, Types
<1>4. \A t \in Slots : request[t].what # "start"
  BY <1>3 DEF LoginInv, StartInv
<1>5. Types'
  BY <1>1, <1>2 DEF LoginInv, Types, Goes
<1>6. StartInv' /\ LookupInv'
  BY <1>1, <1>2, <1>3, <1>4 DEF StartInv, LookupInv, Goes
<1>7. SessionDataInv'
  BY <1>1, <1>2 DEF LoginInv, SessionDataInv, OnlyOf, Goes
<1>8. ASSUME SignIns = {}
      PROVE  Single'
  <2>1. \A t \in Slots : ~Entry(t)
    BY <1>4, <1>8 DEF SignIns, Under, Entry, Lookup
  <2>2. EntryInv'
    BY <1>1, <1>2, <1>3, <2>1 DEF EntryInv, Entry, Lookup, Goes
  <2>3. IdentityInv'
    BY <1>1, <1>2, <1>3, <2>1 DEF IdentityInv, Entry, Lookup, Goes
  <2>4. PageInv'
    BY <1>2, <1>3, UsersAssumption DEF PageInv
  <2> QED  BY <2>2, <2>3, <2>4 DEF Single
<1> QED  BY <1>2, <1>5, <1>6, <1>7, <1>8 DEF LoginInv

\* A refusal leaves nobody who was not there, and ends a lookup.
LEMMA RefusedKeeps ==
    ASSUME LoginInv, NEW s \in Slots, Refused(s)
    PROVE  LoginInv'
<1>1. UNCHANGED <<cookie, page, alone>>
  BY DEF Refused
<1>2. loading' = IF Lookup(s) THEN FALSE ELSE loading
  BY DEF Refused, Loads, Loading, Lookup
<1>3. Goes(s, Idle) /\ cache' \in [Keys -> Users \union {None}]
      /\ \/ UNCHANGED <<user, cache>>
         \/ user' = None /\ Clean'
  BY DoneGoes, IdleRequest, Cleared DEF Refused, LoginInv, Types
<1>4. Types'
  BY <1>1, <1>2, <1>3, IdleRequest DEF LoginInv, Types, Goes
<1>5. StartInv' /\ LookupInv'
  BY <1>1, <1>2, <1>3, IdleRequest, StartKept
<1>6. SessionDataInv'
  BY <1>1, <1>3, IdleRequest DEF LoginInv, SessionDataInv, OnlyOf, Clean, Goes
<1>7. ASSUME alone
      PROVE  Single'
  <2>1. EntryInv'
    BY <1>1, <1>2, <1>3, <1>7, IdleRequest DEF LoginInv, Single, EntryInv, Entry, Lookup, Goes
  <2>2. IdentityInv'
    BY <1>1, <1>3, <1>7, IdleRequest DEF LoginInv, Single, IdentityInv, Lookup, Goes
  <2>3. PageInv'
    BY <1>1, <1>2, <1>3, <1>7, IdleRequest
       DEF LoginInv, Types, Single, PageInv, OnlyOf, Clean, Goes
  <2> QED  BY <2>1, <2>2, <2>3 DEF Single
<1> QED  BY <1>1, <1>4, <1>5, <1>6, <1>7 DEF LoginInv

LEMMA MeKeeps ==
    ASSUME LoginInv, NEW s \in Slots, Me(s)
    PROVE  LoginInv'
<1>1. UNCHANGED <<cookie, cache, page, alone>> /\ loading' = FALSE /\ Goes(s, Idle)
  BY DoneGoes DEF Me, Loads, Loading, LoginInv
<1>2. Lookup(s) /\ request[s].as \in Users
      /\ user' \in {request[s].as, user, None}
  BY DEF Me, Lookup, LoginInv, Types, Requests
<1>3. Types'
  BY <1>1, <1>2, IdleRequest DEF LoginInv, Types, Goes
<1>4. StartInv' /\ LookupInv'
  BY <1>1, <1>2, IdleRequest, StartKept
<1>5. SessionDataInv'
  BY <1>1, IdleRequest DEF LoginInv, SessionDataInv, OnlyOf, Goes
<1>6. ASSUME alone
      PROVE  Single'
  <2>1. user = None
    BY <1>2, <1>6 DEF LoginInv, Single, EntryInv
  <2>2. EntryInv'
    BY <1>1, <1>2, <1>6, IdleRequest DEF LoginInv, Single, EntryInv, Entry, Lookup, Goes
  <2>3. IdentityInv'
    BY <1>1, <1>2, <1>6, <2>1, IdleRequest DEF LoginInv, Single, IdentityInv, Lookup, Goes
  <2>4. PageInv'
    BY <1>1, <1>2, <1>6, IdleRequest DEF LoginInv, Single, EntryInv, PageInv, Clean, Goes
  <2> QED  BY <2>2, <2>3, <2>4 DEF Single
<1> QED  BY <1>1, <1>3, <1>4, <1>5, <1>6 DEF LoginInv

\* The new session begins with an empty cache, also where it is not alone.
LEMMA LoggedInKeeps ==
    ASSUME LoginInv, NEW s \in Slots, LoggedIn(s)
    PROVE  LoginInv'
<1> DEFINE u == request[s].about
           q == [what |-> "session", as |-> u, about |-> None]
<1>1. request[s].what = "login" /\ u \in Users
  BY DEF LoggedIn, LoginInv, Types
<1>2. q \in Requests
  BY <1>1 DEF Requests, Kinds
<1>3. Goes(s, q) /\ Clean' /\ cache' \in [Keys -> Users \union {None}]
  BY <1>2, Cleared DEF LoggedIn, LoginInv
<1>4. cookie' = u /\ loading' = TRUE /\ user' = None /\ UNCHANGED <<page, alone>>
  BY DEF LoggedIn
<1>5. Types'
  BY <1>1, <1>3, <1>4 DEF LoginInv, Types, Goes
<1>6. StartInv' /\ LookupInv'
  <2>1. \A t \in Slots : request[t].what # "start"
    BY <1>1 DEF LoginInv, StartInv, Entry
  <2> QED  BY <1>3, <2>1 DEF StartInv, LookupInv, Lookup, Goes
<1>7. SessionDataInv'
  BY <1>3 DEF SessionDataInv, OnlyOf, Clean
<1>8. ASSUME alone
      PROVE  Single'
  <2>1. page \notin Users /\ \A t \in Slots : t # s => ~Entry(t)
    BY <1>1, <1>8, UsersAssumption DEF LoginInv, Single, EntryInv, Entry
  <2>2. EntryInv'
    BY <1>3, <1>4, <2>1 DEF EntryInv, Entry, Lookup, Goes
  <2>3. IdentityInv'
    BY <1>3, <1>4, <2>1 DEF IdentityInv, Entry, Lookup, Goes
  <2>4. PageInv'
    BY <1>3, <1>4, <2>1 DEF PageInv
  <2> QED  BY <2>2, <2>3, <2>4 DEF Single
<1> QED  BY <1>4, <1>5, <1>6, <1>7, <1>8 DEF LoginInv

LEMMA LoggedOutKeeps ==
    ASSUME LoginInv, NEW s \in Slots, LoggedOut(s)
    PROVE  LoginInv'
<1>1. Goes(s, Idle) /\ Clean' /\ cache' \in [Keys -> Users \union {None}]
  BY IdleRequest, Cleared DEF LoggedOut, LoginInv
<1>2. cookie' \in {None, cookie} /\ user' = None /\ UNCHANGED <<loading, page, alone>>
      /\ request[s].what = "logout"
  BY DEF LoggedOut
<1>3. Types'
  BY <1>1, <1>2, IdleRequest DEF LoginInv, Types, Goes
<1>4. StartInv' /\ LookupInv'
  BY <1>1, <1>2, IdleRequest, StartKept DEF Lookup
<1>5. SessionDataInv'
  BY <1>1 DEF SessionDataInv, OnlyOf, Clean
<1>6. ASSUME alone
      PROVE  Single'
  <2>1. EntryInv'
    BY <1>1, <1>2, <1>6, IdleRequest DEF LoginInv, Single, EntryInv, Entry, Lookup, Goes
  <2>2. IdentityInv'
    BY <1>1, <1>2, <1>6, IdleRequest DEF LoginInv, Single, IdentityInv, Lookup, Goes
  <2>3. PageInv'
    BY <1>1, <1>2, <1>6 DEF LoginInv, Single, PageInv, OnlyOf, Clean
  <2> QED  BY <2>1, <2>2, <2>3 DEF Single
<1> QED  BY <1>2, <1>3, <1>4, <1>5, <1>6 DEF LoginInv

LEMMA FetchedKeeps ==
    ASSUME LoginInv, NEW s \in Slots, Fetched(s)
    PROVE  LoginInv'
<1> DEFINE k == request[s].about
<1>1. Goes(s, Idle) /\ UNCHANGED <<cookie, user, loading, page, alone>>
  BY DoneGoes DEF Fetched, LoginInv
<1>2. request[s].what = "query" /\ request[s].as \in Users
      /\ cache' = [cache EXCEPT ![k] = request[s].as]
  BY DEF Fetched, LoginInv, Types, Requests
<1>3. Types'
  BY <1>1, <1>2, IdleRequest DEF LoginInv, Types, Goes
<1>4. StartInv' /\ LookupInv'
  BY <1>1, <1>2, IdleRequest, StartKept DEF Lookup
<1>5. SessionDataInv'
  BY <1>1, <1>2, IdleRequest DEF LoginInv, Types, SessionDataInv, OnlyOf, Goes, Keys
<1>6. ASSUME alone
      PROVE  Single'
  <2>1. EntryInv'
    BY <1>1, <1>2, <1>6, IdleRequest DEF LoginInv, Single, EntryInv, Entry, Lookup, Goes
  <2>2. IdentityInv'
    BY <1>1, <1>2, <1>6, IdleRequest DEF LoginInv, Single, IdentityInv, Lookup, Goes
  <2>3. PageInv'
    BY <1>1, <1>2, <1>6, IdleRequest
       DEF LoginInv, Types, Single, PageInv, OnlyOf, Clean, Goes, Keys
  <2> QED  BY <2>1, <2>2, <2>3 DEF Single
<1> QED  BY <1>1, <1>3, <1>4, <1>5, <1>6 DEF LoginInv

LEMMA IgnoredKeeps ==
    ASSUME LoginInv, NEW s \in Slots, Ignored(s)
    PROVE  LoginInv'
<1>1. Goes(s, Idle) /\ UNCHANGED <<cookie, user, loading, cache, page, alone>>
      /\ ~Lookup(s)
  BY DoneGoes DEF Ignored, Lookup, LoginInv
<1>2. Types'
  BY <1>1, IdleRequest DEF LoginInv, Types, Goes
<1>3. StartInv' /\ LookupInv'
  BY <1>1, IdleRequest, StartKept
<1>4. SessionDataInv'
  BY <1>1, IdleRequest DEF LoginInv, SessionDataInv, OnlyOf, Goes
<1>5. ASSUME alone
      PROVE  Single'
  <2>1. EntryInv'
    BY <1>1, <1>5, IdleRequest DEF LoginInv, Single, EntryInv, Entry, Lookup, Goes
  <2>2. IdentityInv'
    BY <1>1, <1>5, IdleRequest DEF LoginInv, Single, IdentityInv, Lookup, Goes
  <2>3. PageInv'
    BY <1>1, <1>5, IdleRequest DEF LoginInv, Single, PageInv, OnlyOf, Clean, Goes
  <2> QED  BY <2>1, <2>2, <2>3 DEF Single
<1> QED  BY <1>1, <1>2, <1>3, <1>4, <1>5 DEF LoginInv

LEMMA StepKeeps == LoginInv /\ [Next]_vars => LoginInv'
<1> SUFFICES ASSUME LoginInv, [Next]_vars PROVE LoginInv'
  OBVIOUS
<1>1. CASE UNCHANGED vars
  BY <1>1 DEF vars, LoginInv, Types, StartInv, LookupInv, SessionDataInv, Single, EntryInv, Entry,
              Lookup, IdentityInv, PageInv, OnlyOf, Clean
<1>2. CASE Render \/ Expire
  BY <1>2, RenderKeeps, ExpireKeeps
<1>3. ASSUME NEW s \in Slots, NEW u \in Users, Login(s, u)
      PROVE  LoginInv'
  BY <1>3, LoginKeeps
<1>4. ASSUME NEW s \in Slots, Logout(s) \/ Call(s) \/ \E k \in Keys : Query(s, k)
      PROVE  LoginInv'
  BY <1>4, SendKeeps DEF Logout, Call, Query
<1>5. ASSUME NEW s \in Slots, Answer(s)
      PROVE  LoginInv'
  BY <1>5, RefusedKeeps, MeKeeps, LoggedInKeeps, LoggedOutKeeps, FetchedKeeps, IgnoredKeeps
     DEF Answer, Unauthorized, WrongPassword
<1> QED  BY <1>1, <1>2, <1>3, <1>4, <1>5 DEF Next

\* In every behaviour the invariant holds in every state.
LEMMA AlwaysLoginInv == Spec => []LoginInv
BY Initially, StepKeeps, PTL DEF Spec

\* One lookup, when the session is being looked up, makes a set of one request.
LEMMA InvariantImpliesTypes == LoginInv => TypeOK
<1> SUFFICES ASSUME LoginInv PROVE TypeOK
  OBVIOUS
<1>1. Lookups = {s \in Slots : Lookup(s)}
  BY DEF Lookups, Under, Lookup
<1>2. loading => Lookups # {}
  BY <1>1 DEF LoginInv, LookupInv
<1>3. ASSUME alone
      PROVE  Cardinality(Lookups) = IF loading THEN 1 ELSE 0
  <2>1. CASE loading
    <3>1. PICK s \in Slots : Lookups = {s}
      BY <1>1, <1>3, <2>1 DEF LoginInv, Single, EntryInv, Entry
    <3> QED  BY <2>1, <3>1, FS_Singleton
  <2>2. CASE ~loading
    <3>1. Lookups = {}
      BY <1>1, <1>3, <2>2 DEF LoginInv, Single, EntryInv
    <3> QED  BY <2>2, <3>1, FS_EmptySet
  <2> QED  BY <2>1, <2>2
<1> QED  BY <1>2, <1>3 DEF LoginInv, Types, TypeOK

\* Every variable has its type, and while the client says that it restores the
\* session a lookup of it is under way, the only one unless sign-ins overlap
\* (auth.tsx:39-60).
THEOREM TypeCorrect == Spec => []TypeOK
BY AlwaysLoginInv, InvariantImpliesTypes, PTL

\* Where sign-ins do not overlap, no answer that comes late makes the client
\* believe in, or show the drive of, a user the cookie is not of, however
\* refusals, logouts and further logins follow (auth.tsx:48-69). Overlapping
\* sign-ins are forgotten as soon as one begins while none is under way.
THEOREM IdentityCorrect == Spec => []OneIdentity
<1>1. LoginInv => OneIdentity
  BY UsersAssumption DEF LoginInv, Single, IdentityInv, PageInv, OneIdentity
<1> QED  BY <1>1, AlwaysLoginInv, PTL

\* Under the keys that signing in and out clears, nothing is cached that was
\* fetched under another session than the browser's, however sign-ins overlap,
\* and where they do not no drive shows what was fetched for another user,
\* whatever was under way (auth-policy.ts:16-20).
THEOREM DataCorrect == Spec => []OwnDataOnly
<1>1. LoginInv => OwnDataOnly
  BY DEF LoginInv, Single, SessionDataInv, PageInv, OnlyOf, OwnDataOnly
<1> QED  BY <1>1, AlwaysLoginInv, PTL
=============================================================================
