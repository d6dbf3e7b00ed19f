------------------------------- MODULE Sessions -------------------------------
(***************************************************************************)
(* How the tabs of a browser stay logged in.  They share the local storage *)
(* and so the pair of an access and a refresh token that the last login or *)
(* refresh gave.  Each request first makes sure that the access token is    *)
(* valid, one request of a tab at a time: the mutex of Ajax.ts is of the    *)
(* tab.  The server takes each refresh token once.                          *)
(*                                                                         *)
(* A request is a record in queries; it holds the mutex of its tab while   *)
(* `at' is in Refreshing.                                                  *)
(***************************************************************************)
EXTENDS Integers, FiniteSets

CONSTANTS Tabs, NoPair,
          MaxSessions,             \* MaxSessionsPerUser of the server
          MaxQueries, MaxPairs     \* bounds

ASSUME SessionsAssumption ==
    /\ {MaxSessions, MaxPairs} \subseteq Nat \ {0} /\ MaxQueries \in Nat
    /\ NoPair \notin [session : Nat, no : Nat]

VARIABLES storage,      \* [pair, expired] of the browser
          sessions,     \* the user's sessions on the server
          refreshTokens,\* the pairs whose refresh token the server takes
          issued,       \* the pairs issued
          queries, asked,
          appLoading,   \* isLoading of the app in each tab
          happened      \* what has happened: see SessionsTypeOK

sessionVars == <<storage, sessions, refreshTokens, issued, queries, asked, appLoading, happened>>
sessionServer == <<sessions, refreshTokens, issued>>

Pairs == [session : 1 .. MaxPairs, no : 1 .. MaxPairs]
\* Mutant of Query: numbers start one too high.
QueryNumbered(t, kind, at) ==
    [id |-> asked + 2, tab |-> t, kind |-> kind, at |-> at, token |-> NoPair, got |-> NoPair]

Query(t, kind, at) ==
    [id |-> asked + 1, tab |-> t, kind |-> kind, at |-> at, token |-> NoPair, got |-> NoPair]
Put(q, at) == queries' = (queries \ {q}) \cup {[q EXCEPT !.at = at]}
Ends(q) == queries' = queries \ {q}
Refreshing == {"refresh", "read", "refused", "renewed"}
\* Mutant of MutexFree: nothing is waited for.
MutexIgnored(t) == TRUE

MutexFree(t) == \A q \in queries : q.tab = t => q.at \notin Refreshing
Happens(causes) == happened' = happened \cup causes

\* The browser is logged out, or it was logged in when it was closed.
SessionsInit ==
    /\ \/ /\ storage = [pair |-> NoPair, expired |-> TRUE]
          /\ sessions = {} /\ refreshTokens = {} /\ issued = 0
       \/ \E p \in {[session |-> 1, no |-> 1]}, e \in BOOLEAN :
            /\ storage = [pair |-> p, expired |-> e]
            /\ sessions = {p.session} /\ refreshTokens = {p} /\ issued = p.no
    /\ queries = {} /\ asked = 0
    /\ appLoading = [t \in Tabs |-> FALSE]
    /\ happened = {}

updateCredentials(p) == storage' = [pair |-> p, expired |-> FALSE]
deleteCredentials == storage' = [pair |-> NoPair, expired |-> TRUE]

-----------------------------------------------------------------------------
\* Ajax.query: the refresh token is read at once, the mutex is waited for.
AjaxQuery(q) ==
    IF storage.pair # NoPair THEN [q EXCEPT !.at = "wait", !.token = storage.pair]
                             ELSE [q EXCEPT !.at = "ready"]
StartsQuery(t, kind) ==
    /\ asked < MaxQueries /\ asked' = asked + 1
    /\ queries' = queries \cup {AjaxQuery(Query(t, kind, "ready"))}

\* A page asks for something, or the user logs out.
query(t) ==
    /\ ~appLoading[t] /\ \E kind \in {"page", "logout"} : StartsQuery(t, kind)
    /\ UNCHANGED <<storage, sessionServer, appLoading, happened>>

\* A tab is opened or reloaded, which drops what its page was waiting for, whether the
\* server has dealt with it or not; verifyToken asks for the user if there are tokens.
verifyToken(t) ==
    LET dropped == {q \in queries : q.tab = t}
        out == {q \in dropped : q.at \in {"refresh", "read"}}
    IN /\ asked < MaxQueries
       /\ \E done \in SUBSET out :
            refreshTokens' = refreshTokens \ {q.token : q \in done}
       /\ Happens(IF \E q \in dropped : q.at \in Refreshing THEN {"excuse"} ELSE {})
       /\ IF storage.pair # NoPair
          THEN /\ appLoading' = [appLoading EXCEPT ![t] = TRUE] /\ asked' = asked + 1
               /\ queries' = (queries \ dropped) \cup {AjaxQuery(Query(t, "user", "ready"))}
          ELSE /\ appLoading' = [appLoading EXCEPT ![t] = FALSE]
               /\ queries' = queries \ dropped /\ UNCHANGED asked
       /\ UNCHANGED <<storage, sessions, issued>>

\* The first to wait gets the mutex, and refreshes unless the token of the browser is
\* valid by now: with the refresh token it has read before it waited.
acquire(q) ==
    /\ q.at = "wait" /\ MutexFree(q.tab)
    /\ \A r \in queries : r.tab = q.tab /\ r.at = "wait" => q.id <= r.id
    /\ \/ ~storage.expired /\ Put(q, "ready") /\ UNCHANGED happened
       \/ /\ storage.expired /\ Put(q, "refresh")
          /\ Happens(IF \E r \in queries : r.tab # q.tab /\ r.token = q.token
                                            /\ r.at \in {"refresh", "read", "renewed"}
                     THEN {"excuse"} ELSE {})
    /\ UNCHANGED <<storage, sessionServer, asked, appLoading>>

\* The server reads the token and the session ...
refreshRead(q) ==
    /\ q.at = "refresh"
    /\ Put(q, IF q.token \in refreshTokens /\ q.token.session \in sessions
              THEN "read" ELSE "refused")
    /\ UNCHANGED <<storage, sessionServer, asked, appLoading, happened>>

\* ... and writes a new one, and deletes the old one, whoever has done so since.
refreshWritten(q) ==
    LET p == [session |-> q.token.session, no |-> issued + 1]
    IN /\ q.at = "read" /\ issued < MaxPairs
       /\ issued' = issued + 1
       /\ refreshTokens' = (refreshTokens \cup {p}) \ {q.token}
       /\ queries' = (queries \ {q}) \cup {[q EXCEPT !.at = "renewed", !.got = p]}
       /\ UNCHANGED <<storage, sessions, asked, appLoading, happened>>

refreshAnswered(q) ==
    /\ q.at \in {"refused", "renewed"} /\ Put(q, "ready")
    /\ IF q.at = "renewed" THEN updateCredentials(q.got) ELSE deleteCredentials
    /\ UNCHANGED <<sessionServer, asked, appLoading, happened>>

-----------------------------------------------------------------------------
\* verifyToken gives the login up without the user, whatever the reason; the promise of
\* loadSettings is never settled; logOut goes on as if it had been answered.
Fails(q) ==
    /\ Ends(q)
    /\ IF q.kind \in {"user", "logout"} THEN deleteCredentials ELSE UNCHANGED storage
    /\ appLoading' = [appLoading EXCEPT ![q.tab] = @ /\ q.kind # "user"]
    /\ Happens((IF q.at \in Refreshing \/ q.kind = "user" THEN {"excuse"} ELSE {})
               \cup (IF q.kind = "settings" THEN {"stuck"} ELSE {})
               \cup (IF q.kind = "logout" THEN {"excuse"} ELSE {}))

\* performRequest: with the token that is stored by now.  The server looks for its session.
requestAnswered(q) ==
    LET served == storage.pair # NoPair /\ storage.pair.session \in sessions
    IN /\ q.at = "ready"
       /\ \/ ~served /\ Fails(q) /\ UNCHANGED <<sessionServer, asked>>
          \/ /\ served /\ q.kind \in {"page", "settings"} /\ Ends(q)
             /\ appLoading' = [appLoading EXCEPT ![q.tab] = @ /\ q.kind # "settings"]
             /\ UNCHANGED <<storage, sessionServer, asked, happened>>
          \/ /\ served /\ q.kind = "user"
             /\ queries' = (queries \ {q}) \cup {AjaxQuery([q EXCEPT !.kind = "settings"])}
             /\ UNCHANGED <<storage, sessionServer, asked, appLoading, happened>>
          \/ /\ served /\ q.kind = "logout" /\ Ends(q) /\ deleteCredentials
             /\ sessions' = sessions \ {storage.pair.session}
             /\ refreshTokens' = {p \in refreshTokens : p.session # storage.pair.session}
             /\ Happens({"excuse"})
             /\ UNCHANGED <<issued, asked, appLoading>>

\* The connection breaks; what the server was asked it has done or not.
connectionLost(q) ==
    /\ q.at \in Refreshing \cup {"ready"} /\ q.kind # "login"
    /\ \/ q.at # "refresh" /\ UNCHANGED refreshTokens
       \/ q.at = "refresh" /\ refreshTokens' \in {refreshTokens, refreshTokens \ {q.token}}
    /\ Fails(q)
    /\ UNCHANGED <<sessions, issued, asked>>

-----------------------------------------------------------------------------
\* The login page logs in: the server counts the sessions, makes room for one, ...
logIn(t) ==
    /\ storage.pair = NoPair /\ ~appLoading[t] /\ asked < MaxQueries
    /\ asked' = asked + 1
    /\ queries' = queries \cup {Query(t, "login", "count")}
    /\ UNCHANGED <<storage, sessionServer, appLoading, happened>>

\* Mutant of loginCounted: room is made only once there are too many.
loginCountedLater(q) ==
    /\ q.at = "count" /\ Put(q, "create")
    /\ IF Cardinality(sessions) > MaxSessions
       THEN \E s \in sessions : sessions' = sessions \ {s} /\ Happens({"excuse"})
       ELSE UNCHANGED <<sessions, happened>>
    /\ UNCHANGED <<storage, refreshTokens, issued, asked, appLoading>>

loginCounted(q) ==
    /\ q.at = "count" /\ Put(q, "create")
    /\ IF Cardinality(sessions) >= MaxSessions
       THEN \E s \in sessions : sessions' = sessions \ {s} /\ Happens({"excuse"})
       ELSE UNCHANGED <<sessions, happened>>
    /\ UNCHANGED <<storage, refreshTokens, issued, asked, appLoading>>

\* ... and adds it.
CreateSession(q) ==
    LET p == [session |-> issued + 1, no |-> issued + 1]
    IN /\ q.at = "create" /\ issued < MaxPairs
       /\ issued' = issued + 1
       /\ sessions' = sessions \cup {p.session}
       /\ refreshTokens' = refreshTokens \cup {p}
       /\ queries' = (queries \ {q}) \cup {[q EXCEPT !.at = "created", !.got = p]}
       /\ Happens(IF \E r \in queries : r # q /\ r.at = "create" THEN {"together"} ELSE {})
       /\ UNCHANGED <<storage, asked, appLoading>>

credentialsStored(q) ==
    /\ q.at = "created" /\ updateCredentials(q.got) /\ Ends(q)
    /\ UNCHANGED <<sessionServer, asked, appLoading, happened>>

\* The access token is over after a quarter of an hour, by the clock of the browser, which
\* no request waits for unless that clock is fast.
accessTokenExpires ==
    /\ ~storage.expired /\ storage' = [storage EXCEPT !.expired = TRUE]
    /\ Happens(IF \E q \in queries : q.at = "wait" THEN {"excuse"} ELSE {})
    /\ UNCHANGED <<sessionServer, queries, asked, appLoading>>

\* The session is ended from elsewhere, by time, an administrator or another device.
sessionEnds(s) ==
    /\ sessions' = sessions \ {s}
    /\ refreshTokens' = {p \in refreshTokens : p.session # s}
    /\ Happens({"excuse"})
    /\ UNCHANGED <<storage, issued, queries, asked, appLoading>>

QueryStep(q) ==
    \/ acquire(q) \/ refreshRead(q) \/ refreshWritten(q) \/ refreshAnswered(q)
    \/ requestAnswered(q) \/ connectionLost(q)
    \/ loginCounted(q) \/ CreateSession(q) \/ credentialsStored(q)

QuerySteps == \E q \in queries : QueryStep(q)

SessionsNext ==
    \/ \E t \in Tabs : query(t) \/ verifyToken(t) \/ logIn(t)
    \/ QuerySteps
    \/ accessTokenExpires
    \/ \E s \in sessions : sessionEnds(s)

SessionsSpec == SessionsInit /\ [][SessionsNext]_sessionVars /\ WF_sessionVars(QuerySteps)

-----------------------------------------------------------------------------
SessionsTypeOK ==
    /\ storage \in [pair : Pairs \cup {NoPair}, expired : BOOLEAN]
    /\ sessions \subseteq 1 .. MaxPairs /\ refreshTokens \subseteq Pairs
    /\ issued \in 0 .. MaxPairs /\ asked \in 0 .. MaxQueries
    /\ queries \subseteq [id : 1 .. MaxQueries, tab : Tabs,
                          kind : {"page", "user", "settings", "logout", "login"},
                          at : Refreshing \cup {"wait", "ready", "count", "create", "created"},
                          token : Pairs \cup {NoPair}, got : Pairs \cup {NoPair}]
    /\ appLoading \in [Tabs -> BOOLEAN]
    \* something that may end a login; sessions created at the same time; settings of which
    \* the app never heard
    /\ happened \subseteq {"excuse", "together", "stuck"}

\* A browser that was logged in stays so, however many requests its tabs send, unless it
\* logs out, the session ends, an answer is lost (on reloading, too), two tabs refresh at
\* the same time, or the token expires before the requests that waited for it are sent.
StaysLoggedIn ==
    [][storage.pair # NoPair /\ storage'.pair = NoPair =>
         "excuse" \in happened']_sessionVars

\* The user has more sessions than the limit only if logins were created together.
SessionLimit == Cardinality(sessions) > MaxSessions => "together" \in happened

\* The mutex is given back on every path: in the end whatever was asked has ended, and the app is up,
\* unless the settings could not be loaded.
QueriesEnded ==
    issued = MaxPairs \/ /\ queries = {}
                         /\ (\E t \in Tabs : appLoading[t]) => "stuck" \in happened
=============================================================================
