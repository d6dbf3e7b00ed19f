----------------------------- MODULE LoginProofs -----------------------------
(***************************************************************************)
(* Theorems about how a browser is logged in, for every value of the       *)
(* constants: the tabs that share its tokens and the sessions they are of, *)
(* the page on which one logs in, and the second factor that it asks for.  *)
(* Each section has an inductive invariant, one step per action, and the   *)
(* theorems that follow.                                                   *)
(***************************************************************************)
EXTENDS Sessions, LoginPage, SecondFactor, FiniteSetTheorems, TLAPS

-----------------------------------------------------------------------------
(* The tabs and their sessions                                             *)
Excused == "excuse" \in happened
Holds(q) == q.at \in {"refresh", "read", "renewed"}
Pending(q) == q.at \in {"created", "renewed"}
Accepted(p) == p \in refreshTokens /\ p.session \in sessions

\* Whoever waits or refreshes has a token, whoever was given a pair has that.
TokensAreThere == \A q \in queries :
    /\ q.at \in Refreshing \cup {"wait"} => q.token \in Pairs
    /\ Pending(q) => q.got \in Pairs

\* The pairs are numbered as they are issued.
NumbersAreIssued ==
    /\ storage.pair # NoPair => storage.pair.no <= issued
    /\ \A q \in queries : /\ q.token \in Pairs => q.token.no <= issued
                          /\ q.got \in Pairs => q.got.no <= issued

\* A pair that is on its way to the browser is known to nobody else.
PendingIsNew == \A q \in queries : Pending(q) =>
    /\ storage.pair # q.got
    /\ \A r \in queries : /\ r.token # q.got
                          /\ Pending(r) /\ r # q => r.got # q.got

\* Unless there was an excuse: those that wait know the pair of the browser, if they will
\* need it; no two refresh with the same token; the server takes the tokens with which
\* somebody refreshes, those on their way and that of the browser, if that is not being
\* renewed; and none was refused.
WaitersKnow == \A q \in queries : q.at = "wait" /\ storage.expired => q.token = storage.pair
HoldersDiffer == \A q, r \in queries : Holds(q) /\ Holds(r) /\ q # r => q.token # r.token
RefreshersAccepted == \A q \in queries : q.at \in {"refresh", "read"} => Accepted(q.token)
PendingAccepted == \A q \in queries : Pending(q) => Accepted(q.got)
BrowserAccepted ==
    storage.pair # NoPair =>
        /\ storage.pair.session \in sessions
        /\ \/ storage.pair \in refreshTokens
           \/ \E q \in queries : q.at = "renewed" /\ q.token = storage.pair
NoneRefused == \A q \in queries : q.at # "refused"

Undisturbed == /\ WaitersKnow /\ HoldersDiffer /\ RefreshersAccepted
               /\ PendingAccepted /\ BrowserAccepted /\ NoneRefused

\* A login that is about to add its session has left room for it, if it is alone.
RoomIsLeft ==
    "together" \notin happened =>
        /\ Cardinality(sessions) <= MaxSessions
        /\ (\E q \in queries : q.at = "create") => Cardinality(sessions) < MaxSessions

BrowserInv == /\ SessionsTypeOK /\ TokensAreThere /\ NumbersAreIssued /\ PendingIsNew
            /\ (~Excused => Undisturbed)

QueryRecords == [id : 1 .. MaxQueries, tab : Tabs,
                 kind : {"page", "user", "settings", "logout", "login"},
                 at : Refreshing \cup {"wait", "ready", "count", "create", "created"},
                 token : Pairs \cup {NoPair}, got : Pairs \cup {NoPair}]

-----------------------------------------------------------------------------
(* The records of the requests, and how they change.                       *)

LEMMA TypesOfLogin ==
    ASSUME BrowserInv
    PROVE  /\ storage.pair \in Pairs \cup {NoPair} /\ storage.expired \in BOOLEAN
           /\ storage = [pair |-> storage.pair, expired |-> storage.expired]
           /\ queries \subseteq QueryRecords /\ happened \subseteq {"excuse", "together", "stuck"}
           /\ NoPair \notin Pairs /\ issued \in Nat /\ MaxPairs \in Nat
           /\ \A p \in Pairs : p.no \in Nat /\ p.session \in 1 .. MaxPairs
<1>1. \A p \in Pairs : p \in [session : Nat, no : Nat]
  BY SessionsAssumption DEF Pairs
<1>2. \A p \in Pairs : p.no \in Nat /\ p.session \in 1 .. MaxPairs
  BY SessionsAssumption DEF Pairs
<1>3. issued \in Nat /\ MaxPairs \in Nat
  BY SessionsAssumption DEF BrowserInv, SessionsTypeOK
<1>4. /\ storage.pair \in Pairs \cup {NoPair} /\ storage.expired \in BOOLEAN
      /\ storage = [pair |-> storage.pair, expired |-> storage.expired]
      /\ queries \subseteq QueryRecords /\ happened \subseteq {"excuse", "together", "stuck"}
  BY DEF BrowserInv, SessionsTypeOK, QueryRecords
<1> QED
  BY <1>1, <1>2, <1>3, <1>4, SessionsAssumption

LEMMA PutChanges ==
    ASSUME BrowserInv, NEW q \in queries,
           NEW at \in Refreshing \cup {"wait", "ready", "create"}, Put(q, at)
    PROVE  \E n \in QueryRecords :
               /\ queries' = (queries \ {q}) \cup {n} /\ queries' \subseteq QueryRecords
               /\ n.at = at /\ n.token = q.token /\ n.got = q.got /\ n.tab = q.tab
               /\ n.kind = q.kind
<1> DEFINE n == [q EXCEPT !.at = at]
<1>1. q \in QueryRecords
  BY TypesOfLogin
<1>2. /\ n \in QueryRecords /\ n.at = at /\ n.token = q.token /\ n.got = q.got
      /\ n.tab = q.tab /\ n.kind = q.kind
  BY <1>1 DEF QueryRecords
<1>3. queries' = (queries \ {q}) \cup {n}
  BY DEF Put
<1> HIDE DEF n
<1> QED
  BY <1>2, <1>3, TypesOfLogin

\* A request that starts, or starts its next one: it waits with the pair of the browser.
LEMMA AjaxQueryStarts ==
    ASSUME BrowserInv, NEW x \in QueryRecords, x.at = "ready"
    PROVE  /\ AjaxQuery(x) \in QueryRecords /\ AjaxQuery(x).at \in {"wait", "ready"}
           /\ AjaxQuery(x).at = "wait" => AjaxQuery(x).token = storage.pair
                                          /\ storage.pair \in Pairs
           /\ AjaxQuery(x).token \in {x.token, storage.pair}
           /\ AjaxQuery(x).got = x.got
BY TypesOfLogin DEF AjaxQuery, QueryRecords

LEMMA NewQuery ==
    ASSUME BrowserInv, asked < MaxQueries, NEW t \in Tabs,
           NEW kind \in {"page", "user", "logout", "login"},
           NEW at \in {"ready", "count"}
    PROVE  /\ Query(t, kind, at) \in QueryRecords /\ Query(t, kind, at).at = at
           /\ Query(t, kind, at).token = NoPair /\ Query(t, kind, at).got = NoPair
           /\ asked + 1 \in 0 .. MaxQueries
<1>1. asked + 1 \in 1 .. MaxQueries
  BY SessionsAssumption DEF BrowserInv, SessionsTypeOK
<1> QED
  BY <1>1 DEF Query, QueryRecords

LEMMA ExcuseStays ==
    ASSUME NEW causes, Happens(causes)
    PROVE  /\ Excused => Excused'
           /\ "excuse" \in causes => Excused'
           /\ "together" \in happened => "together" \in happened'
BY DEF Happens, Excused

-----------------------------------------------------------------------------
(* Requests that start.                                                    *)

\* A record n that takes the place of those in gone, with no pair on its way, and the
\* server and the browser stay as they are.
LEMMA StartKeeps ==
    ASSUME BrowserInv, NEW n \in QueryRecords, NEW gone \in SUBSET queries,
           queries' = (queries \ gone) \cup {n},
           n.at \in {"wait", "ready", "count", "create"},
           n.at = "wait" => n.token \in Pairs,
           n.at = "wait" /\ storage.expired => n.token = storage.pair,
           n.token \in Pairs =>
               n.token = storage.pair \/ \E q \in gone : n.token = q.token,
           n.got \in Pairs => \E q \in gone : n.got = q.got,
           ~Excused' => \A q \in gone : q.at \notin Refreshing,
           UNCHANGED <<storage, issued>>,
           ~Excused' => UNCHANGED <<sessions, refreshTokens>>,
           Excused => Excused'
    PROVE  /\ TokensAreThere' /\ NumbersAreIssued' /\ PendingIsNew'
           /\ ~Excused' => Undisturbed'
<1>1. TokensAreThere'
  BY DEF BrowserInv, TokensAreThere, Refreshing, Pending
<1>2. NumbersAreIssued'
  BY TypesOfLogin DEF BrowserInv, NumbersAreIssued
<1>3. PendingIsNew'
  <2>1. ~Pending(n)
    BY DEF Pending
  <2>2. \A q \in queries : Pending(q) => n.token # q.got
    BY TypesOfLogin DEF BrowserInv, PendingIsNew, TokensAreThere
  <2> QED
    BY <2>1, <2>2 DEF BrowserInv, PendingIsNew, Pending
<1>4. ASSUME ~Excused' PROVE Undisturbed'
  <2>1. Undisturbed /\ UNCHANGED <<sessions, refreshTokens>>
    BY <1>4 DEF BrowserInv
  <2>2. ~Holds(n) /\ ~Pending(n) /\ n.at \notin Refreshing
    BY DEF Holds, Pending, Refreshing
  <2>3. BrowserAccepted'
    BY <1>4, <2>1 DEF Undisturbed, BrowserAccepted, Refreshing
  <2>4. WaitersKnow' /\ HoldersDiffer' /\ NoneRefused'
    BY <2>1, <2>2 DEF Undisturbed, WaitersKnow, HoldersDiffer, NoneRefused, Refreshing, Holds
  <2>5. RefreshersAccepted' /\ PendingAccepted'
    BY <2>1, <2>2 DEF Undisturbed, RefreshersAccepted, PendingAccepted, Accepted, Refreshing,
       Pending
  <2> QED
    BY <2>3, <2>4, <2>5 DEF Undisturbed
<1> QED
  BY <1>1, <1>2, <1>3, <1>4

\* Requests that end, the tokens and the browser's pair at most going away.
LEMMA EndKeeps ==
    ASSUME BrowserInv, queries' \subseteq queries, UNCHANGED issued,
           storage'.pair \in {storage.pair, NoPair},
           ~Excused' => \A q \in queries \ queries' : q.at \notin Refreshing,
           ~Excused' => UNCHANGED <<storage, sessions, refreshTokens>>,
           Excused => Excused'
    PROVE  /\ TokensAreThere' /\ NumbersAreIssued' /\ PendingIsNew'
           /\ ~Excused' => Undisturbed'
<1>1. TokensAreThere'
  BY DEF BrowserInv, TokensAreThere
<1>2. NumbersAreIssued'
  BY DEF BrowserInv, NumbersAreIssued
<1>3. PendingIsNew'
  BY TypesOfLogin DEF BrowserInv, PendingIsNew, TokensAreThere
<1>4. ASSUME ~Excused' PROVE Undisturbed'
  <2>1. Undisturbed /\ UNCHANGED <<storage, sessions, refreshTokens>>
    BY <1>4 DEF BrowserInv
  <2>2. BrowserAccepted'
    BY <1>4, <2>1 DEF Undisturbed, BrowserAccepted, Refreshing
  <2>3. WaitersKnow' /\ HoldersDiffer' /\ NoneRefused'
    BY <2>1 DEF Undisturbed, WaitersKnow, HoldersDiffer, NoneRefused
  <2>4. RefreshersAccepted' /\ PendingAccepted'
    BY <2>1 DEF Undisturbed, RefreshersAccepted, PendingAccepted, Accepted
  <2> QED
    BY <2>2, <2>3, <2>4 DEF Undisturbed
<1> QED
  BY <1>1, <1>2, <1>3, <1>4

LEMMA QueryKeeps ==
    ASSUME BrowserInv, NEW t \in Tabs, query(t) \/ logIn(t)
    PROVE  BrowserInv'
<1>1. \E kind \in {"page", "user", "logout", "login"}, at \in {"ready", "count"} :
          \E n \in {AjaxQuery(Query(t, kind, at)), Query(t, kind, at)} :
             /\ queries' = queries \cup {n}
             /\ at # "ready" => n = Query(t, kind, at)
  BY DEF query, logIn, StartsQuery
<1>2. asked < MaxQueries /\ asked' = asked + 1
      /\ UNCHANGED <<storage, sessions, refreshTokens, issued, appLoading, happened>>
  BY DEF query, logIn, StartsQuery, sessionServer
<1>3. PICK n \in QueryRecords :
          /\ queries' = queries \cup {n} /\ n.at \in {"wait", "ready", "count"}
          /\ n.at = "wait" => n.token = storage.pair /\ storage.pair \in Pairs
          /\ n.token \in {NoPair, storage.pair} /\ n.got = NoPair
          /\ asked' \in 0 .. MaxQueries
  <2>1. PICK kind \in {"page", "user", "logout", "login"}, at \in {"ready", "count"} :
            \E n \in {AjaxQuery(Query(t, kind, at)), Query(t, kind, at)} :
               /\ queries' = queries \cup {n}
               /\ at # "ready" => n = Query(t, kind, at)
    BY <1>1
  <2> DEFINE x == Query(t, kind, at)
  <2>2. /\ x \in QueryRecords /\ x.at = at /\ x.token = NoPair /\ x.got = NoPair
        /\ asked' \in 0 .. MaxQueries
    BY <1>2, NewQuery
  <2>3. CASE queries' = queries \cup {x}
    BY <2>2, <2>3
  <2>4. CASE at = "ready" /\ queries' = queries \cup {AjaxQuery(x)}
    BY <2>2, <2>4, AjaxQueryStarts
  <2> QED
    BY <2>1, <2>3, <2>4
<1>4. queries' = (queries \ {}) \cup {n} /\ (Excused => Excused')
  BY <1>2, <1>3 DEF Excused
<1>5. /\ TokensAreThere' /\ NumbersAreIssued' /\ PendingIsNew'
      /\ ~Excused' => Undisturbed'
  <2>1. /\ n.token \in Pairs => n.token = storage.pair
        /\ n.got \notin Pairs /\ {} \in SUBSET queries
        /\ n.at = "wait" => n.token \in Pairs
    BY <1>2, <1>3, TypesOfLogin
  <2>2. \A q \in {} : q.at \notin Refreshing
    OBVIOUS
  <2> QED
    BY <1>2, <1>3, <1>4, <2>1, <2>2, StartKeeps
<1>6. SessionsTypeOK'
  BY <1>2, <1>3, <1>4 DEF BrowserInv, SessionsTypeOK, QueryRecords
<1> QED
  BY <1>5, <1>6 DEF BrowserInv

LEMMA VerifyKeeps ==
    ASSUME BrowserInv, NEW t \in Tabs, verifyToken(t)
    PROVE  BrowserInv'
<1> DEFINE dropped == {q \in queries : q.tab = t}
<1> DEFINE out == {q \in dropped : q.at \in {"refresh", "read"}}
<1> DEFINE x == Query(t, "user", "ready")
<1>1. PICK done \in SUBSET out : refreshTokens' = refreshTokens \ {q.token : q \in done}
  BY DEF verifyToken
<1>2. /\ Happens(IF \E q \in dropped : q.at \in Refreshing THEN {"excuse"} ELSE {})
      /\ asked < MaxQueries /\ UNCHANGED <<storage, sessions, issued>>
  BY DEF verifyToken
<1>3. /\ Excused => Excused'
      /\ ~Excused' => \A q \in dropped : q.at \notin Refreshing
      /\ happened' \subseteq {"excuse", "together", "stuck"}
  BY <1>2, TypesOfLogin DEF Happens, Excused
<1>4. ~Excused' => refreshTokens' = refreshTokens
  <2>1. ~Excused' => out = {}
    BY <1>3 DEF Refreshing
  <2> QED
    BY <1>1, <2>1
<1>5. refreshTokens' \subseteq Pairs
  BY <1>1 DEF BrowserInv, SessionsTypeOK
<1>6. x \in QueryRecords /\ x.at = "ready" /\ x.token = NoPair /\ x.got = NoPair
      /\ asked + 1 \in 0 .. MaxQueries
  BY <1>2, NewQuery
<1>7. dropped \in SUBSET queries
  OBVIOUS
<1> HIDE DEF x, dropped, out
<1>8. CASE /\ appLoading' = [appLoading EXCEPT ![t] = TRUE] /\ asked' = asked + 1
           /\ queries' = (queries \ dropped) \cup {AjaxQuery(x)}
  <2> DEFINE n == AjaxQuery(x)
  <2>1. /\ n \in QueryRecords /\ n.at \in {"wait", "ready", "count", "create"}
        /\ n.at = "wait" => n.token \in Pairs
        /\ n.at = "wait" => n.token = storage.pair
        /\ n.token \in Pairs => n.token = storage.pair
        /\ n.got \notin Pairs
    BY <1>6, AjaxQueryStarts, TypesOfLogin
  <2>2. queries' = (queries \ dropped) \cup {n}
    BY <1>8
  <2> HIDE DEF n
  <2>3. /\ TokensAreThere' /\ NumbersAreIssued' /\ PendingIsNew'
        /\ ~Excused' => Undisturbed'
    BY <1>2, <1>3, <1>4, <1>7, <2>1, <2>2, StartKeeps
  <2>4. appLoading' \in [Tabs -> BOOLEAN]
    BY <1>8 DEF BrowserInv, SessionsTypeOK
  <2>5. queries' \subseteq QueryRecords
    BY <2>1, <2>2, TypesOfLogin
  <2>6. SessionsTypeOK'
    BY <1>2, <1>3, <1>5, <1>6, <1>8, <2>4, <2>5 DEF BrowserInv, SessionsTypeOK, QueryRecords
  <2> QED
    BY <2>3, <2>6 DEF BrowserInv
<1>9. CASE /\ appLoading' = [appLoading EXCEPT ![t] = FALSE]
           /\ queries' = queries \ dropped /\ UNCHANGED asked
  <2>1. /\ TokensAreThere' /\ NumbersAreIssued' /\ PendingIsNew'
        /\ ~Excused' => Undisturbed'
    BY <1>2, <1>3, <1>4, <1>9, EndKeeps
  <2>2. appLoading' \in [Tabs -> BOOLEAN]
    BY <1>9 DEF BrowserInv, SessionsTypeOK
  <2>3. queries' \subseteq QueryRecords
    BY <1>9, TypesOfLogin
  <2>4. SessionsTypeOK'
    BY <1>2, <1>3, <1>5, <1>9, <2>2, <2>3 DEF BrowserInv, SessionsTypeOK, QueryRecords
  <2> QED
    BY <2>1, <2>4 DEF BrowserInv
<1> QED
  BY <1>8, <1>9 DEF verifyToken, x, dropped

-----------------------------------------------------------------------------
(* The mutex and the refresh.                                              *)

\* The one that gets the mutex is alone in its tab, and knows the pair of the browser: if
\* that is not accepted, it is being renewed by another tab, which is an excuse.
LEMMA AcquireKeeps ==
    ASSUME BrowserInv, NEW q \in queries, acquire(q)
    PROVE  BrowserInv'
<1>1. UNCHANGED <<storage, sessions, refreshTokens, issued, asked, appLoading>>
  BY DEF acquire, sessionServer
<1>2. q.at = "wait" /\ MutexFree(q.tab) /\ q.token \in Pairs
  BY DEF acquire, BrowserInv, TokensAreThere
<1>3. CASE ~storage.expired /\ Put(q, "ready") /\ UNCHANGED happened
  <2>1. PICK n \in QueryRecords :
             /\ queries' = (queries \ {q}) \cup {n} /\ queries' \subseteq QueryRecords
             /\ n.at = "ready" /\ n.token = q.token /\ n.got = q.got
    BY <1>3, PutChanges DEF Refreshing
  <2>2. /\ n.token \in Pairs =>
              n.token = storage.pair \/ \E r \in {q} : n.token = r.token
        /\ n.got \in Pairs => \E r \in {q} : n.got = r.got
        /\ \A r \in {q} : r.at \notin Refreshing
        /\ {q} \in SUBSET queries
        /\ Excused => Excused'
    BY <1>2, <1>3, <2>1 DEF Refreshing, Excused
  <2>3. /\ TokensAreThere' /\ NumbersAreIssued' /\ PendingIsNew'
        /\ ~Excused' => Undisturbed'
    BY <1>1, <2>1, <2>2, StartKeeps
  <2>4. SessionsTypeOK'
    BY <1>1, <1>3, <2>1 DEF BrowserInv, SessionsTypeOK, QueryRecords
  <2> QED
    BY <2>3, <2>4 DEF BrowserInv
<1>4. CASE /\ storage.expired /\ Put(q, "refresh")
           /\ Happens(IF \E r \in queries : r.tab # q.tab /\ r.token = q.token
                                             /\ r.at \in {"refresh", "read", "renewed"}
                      THEN {"excuse"} ELSE {})
  <2>1. PICK n \in QueryRecords :
             /\ queries' = (queries \ {q}) \cup {n} /\ queries' \subseteq QueryRecords
             /\ n.at = "refresh" /\ n.token = q.token /\ n.got = q.got /\ n.tab = q.tab
    BY <1>4, PutChanges DEF Refreshing
  <2>2. /\ Excused => Excused'
        /\ happened' \subseteq {"excuse", "together", "stuck"}
        /\ ~Excused' => \A r \in queries : Holds(r) /\ r.token = q.token => r.tab = q.tab
    BY <1>4, TypesOfLogin DEF Happens, Excused, Holds
  <2>3. SessionsTypeOK'
    BY <1>1, <2>1, <2>2 DEF BrowserInv, SessionsTypeOK, QueryRecords
  <2>4. TokensAreThere' /\ NumbersAreIssued'
    BY <1>1, <1>2, <2>1 DEF BrowserInv, TokensAreThere, NumbersAreIssued, Pending
  <2>5. PendingIsNew'
    BY <1>1, <2>1 DEF BrowserInv, PendingIsNew, Pending
  <2>6. ASSUME ~Excused' PROVE Undisturbed'
    <3>1. Undisturbed
      BY <2>2, <2>6 DEF BrowserInv
    <3>2. \A r \in queries : Holds(r) => r.token # q.token
      BY <1>2, <2>2, <2>6 DEF MutexFree, Holds, Refreshing
    <3>3. q.token = storage.pair /\ storage.pair # NoPair
      BY <1>2, <1>4, <3>1, TypesOfLogin DEF Undisturbed, WaitersKnow
    <3>4. Accepted(q.token)
      BY <3>1, <3>2, <3>3 DEF Undisturbed, BrowserAccepted, Accepted, Holds
    <3>5. HoldersDiffer'
      BY <2>1, <3>1, <3>2 DEF Undisturbed, HoldersDiffer, Holds
    <3>6. WaitersKnow' /\ NoneRefused'
      BY <1>1, <2>1, <3>1 DEF Undisturbed, WaitersKnow, NoneRefused
    <3>7. RefreshersAccepted' /\ PendingAccepted'
      BY <1>1, <2>1, <3>1, <3>4 DEF Undisturbed, RefreshersAccepted, PendingAccepted, Accepted,
         Pending
    <3>8. BrowserAccepted'
      BY <1>1, <3>3, <3>4 DEF BrowserAccepted, Accepted
    <3> QED
      BY <3>5, <3>6, <3>7, <3>8 DEF Undisturbed
  <2> QED
    BY <2>3, <2>4, <2>5, <2>6 DEF BrowserInv
<1> QED
  BY <1>3, <1>4 DEF acquire

LEMMA RefreshReadKeeps ==
    ASSUME BrowserInv, NEW q \in queries, refreshRead(q)
    PROVE  BrowserInv'
<1>1. /\ UNCHANGED <<storage, sessions, refreshTokens, issued, asked, appLoading, happened>>
      /\ q.at = "refresh"
  BY DEF refreshRead, sessionServer
<1>2. PICK n \in QueryRecords :
           /\ queries' = (queries \ {q}) \cup {n} /\ queries' \subseteq QueryRecords
           /\ n.at = IF Accepted(q.token) THEN "read" ELSE "refused"
           /\ n.token = q.token /\ n.got = q.got
  BY PutChanges DEF refreshRead, Refreshing, Accepted
<1>3. SessionsTypeOK'
  BY <1>1, <1>2 DEF BrowserInv, SessionsTypeOK, QueryRecords
<1>4. q.token \in Pairs
  BY <1>1 DEF BrowserInv, TokensAreThere, Refreshing
<1>5. TokensAreThere' /\ NumbersAreIssued'
  BY <1>1, <1>2, <1>4 DEF BrowserInv, TokensAreThere, NumbersAreIssued, Pending
<1>6. PendingIsNew'
  BY <1>1, <1>2 DEF BrowserInv, PendingIsNew, Pending
<1>7. ASSUME ~Excused' PROVE Undisturbed'
  <2>1. Undisturbed
    BY <1>1, <1>7 DEF BrowserInv, Excused
  <2>2. n.at = "read" /\ Accepted(q.token)
    BY <1>1, <1>2, <2>1 DEF Undisturbed, RefreshersAccepted
  <2>3. HoldersDiffer'
    BY <1>1, <1>2, <2>1, <2>2 DEF Undisturbed, HoldersDiffer, Holds
  <2>4. WaitersKnow' /\ NoneRefused'
    BY <1>1, <1>2, <2>1, <2>2 DEF Undisturbed, WaitersKnow, NoneRefused
  <2>5. RefreshersAccepted' /\ PendingAccepted'
    BY <1>1, <1>2, <2>1, <2>2 DEF Undisturbed, RefreshersAccepted, PendingAccepted, Accepted,
       Pending
  <2>6. BrowserAccepted'
    BY <1>1, <1>2, <2>1 DEF Undisturbed, BrowserAccepted
  <2> QED
    BY <2>3, <2>4, <2>5, <2>6 DEF Undisturbed
<1> QED
  BY <1>3, <1>5, <1>6, <1>7 DEF BrowserInv

\* The number of a pair that is issued now has been given to none.
LEMMA NextIsNew ==
    ASSUME BrowserInv, NEW p \in Pairs, p.no = issued + 1
    PROVE  /\ storage.pair # p
           /\ \A q \in queries : q.token # p /\ q.got # p
<1>1. ~(p.no <= issued)
  BY TypesOfLogin
<1>2. NoPair \notin Pairs
  BY TypesOfLogin
<1> QED
  BY <1>1, <1>2 DEF BrowserInv, NumbersAreIssued

\* A pair is issued to q: the numbers and what is on its way.
LEMMA IssuedKeeps ==
    ASSUME BrowserInv, NEW q \in queries, NEW n \in QueryRecords, NEW p \in Pairs,
           p.no = issued + 1, issued' = issued + 1, UNCHANGED storage,
           queries' = (queries \ {q}) \cup {n},
           n.at \in {"created", "renewed"}, n.token = q.token, n.got = p,
           n.at = "renewed" => q.token \in Pairs
    PROVE  TokensAreThere' /\ NumbersAreIssued' /\ PendingIsNew'
<1>1. TokensAreThere'
  BY DEF BrowserInv, TokensAreThere, Refreshing, Pending
<1>2. NumbersAreIssued'
  <2>1. /\ issued <= issued' /\ p.no <= issued'
        /\ \A r \in Pairs : r.no <= issued => r.no <= issued'
    BY TypesOfLogin
  <2>2. storage.pair \in Pairs \cup {NoPair}
    BY TypesOfLogin
  <2> QED
    BY <2>1, <2>2 DEF BrowserInv, NumbersAreIssued
<1>3. PendingIsNew'
  BY NextIsNew DEF BrowserInv, PendingIsNew, Pending
<1> QED
  BY <1>1, <1>2, <1>3

LEMMA RefreshWrittenKeeps ==
    ASSUME BrowserInv, NEW q \in queries, refreshWritten(q)
    PROVE  BrowserInv'
<1> DEFINE p == [session |-> q.token.session, no |-> issued + 1]
<1>1. /\ q.at = "read" /\ issued < MaxPairs /\ issued' = issued + 1
      /\ refreshTokens' = (refreshTokens \cup {p}) \ {q.token}
      /\ queries' = (queries \ {q}) \cup {[q EXCEPT !.at = "renewed", !.got = p]}
      /\ UNCHANGED <<storage, sessions, asked, appLoading, happened>>
  BY DEF refreshWritten
<1>2. q.token \in Pairs
  BY <1>1 DEF BrowserInv, TokensAreThere, Refreshing
<1>3. p \in Pairs /\ p.no = issued + 1 /\ p.session = q.token.session
      /\ issued' \in 0 .. MaxPairs
  <2>1. issued + 1 \in 1 .. MaxPairs /\ issued + 1 \in 0 .. MaxPairs
        /\ q.token.session \in 1 .. MaxPairs
    BY <1>1, <1>2, TypesOfLogin
  <2> QED
    BY <1>1, <2>1 DEF Pairs
<1> HIDE DEF p
<1> DEFINE n == [q EXCEPT !.at = "renewed", !.got = p]
<1>4. /\ n \in QueryRecords /\ n.at = "renewed" /\ n.token = q.token /\ n.got = p
      /\ queries' = (queries \ {q}) \cup {n} /\ queries' \subseteq QueryRecords
  <2>1. q \in QueryRecords
    BY TypesOfLogin
  <2>2. /\ n \in QueryRecords /\ n.at = "renewed" /\ n.token = q.token /\ n.got = p
    BY <1>3, <2>1 DEF QueryRecords, Refreshing
  <2> QED
    BY <1>1, <2>2, TypesOfLogin
<1> HIDE DEF n
<1>5. SessionsTypeOK'
  BY <1>1, <1>3, <1>4 DEF BrowserInv, SessionsTypeOK, QueryRecords
<1>6. TokensAreThere' /\ NumbersAreIssued' /\ PendingIsNew'
  BY <1>1, <1>2, <1>3, <1>4, IssuedKeeps
<1>7. ASSUME ~Excused' PROVE Undisturbed'
  <2>1. Undisturbed
    BY <1>1, <1>7 DEF BrowserInv, Excused
  <2>2. p # q.token /\ q.token.session \in sessions
    BY <1>1, <1>3, <2>1, NextIsNew DEF Undisturbed, RefreshersAccepted, Accepted
  <2>3. HoldersDiffer'
    BY <1>1, <1>4, <2>1 DEF Undisturbed, HoldersDiffer, Holds
  <2>4. WaitersKnow' /\ NoneRefused'
    BY <1>1, <1>4, <2>1 DEF Undisturbed, WaitersKnow, NoneRefused
  <2>5. RefreshersAccepted'
    BY <1>1, <1>4, <2>1 DEF Undisturbed, RefreshersAccepted, HoldersDiffer, Holds, Accepted
  <2>6. PendingAccepted'
    <3>1. p \in refreshTokens' /\ p.session \in sessions'
      BY <1>1, <1>3, <2>2
    <3>2. \A r \in queries \ {q} : Pending(r) => Accepted(r.got) /\ r.got # q.token
      BY <2>1 DEF Undisturbed, PendingAccepted, BrowserInv, PendingIsNew
    <3> QED
      BY <1>1, <1>4, <3>1, <3>2 DEF PendingAccepted, Accepted, Pending
  <2>7. BrowserAccepted'
    BY <1>1, <1>4, <2>1 DEF Undisturbed, BrowserAccepted
  <2> QED
    BY <2>3, <2>4, <2>5, <2>6, <2>7 DEF Undisturbed
<1> QED
  BY <1>5, <1>6, <1>7 DEF BrowserInv

\* The pair of q comes to the browser and q goes on, or ends: nobody has to wait any more.
LEMMA StoredKeeps ==
    ASSUME BrowserInv, NEW q \in queries, Pending(q), updateCredentials(q.got),
           UNCHANGED <<issued, sessions, refreshTokens, happened>>,
           \/ queries' = queries \ {q}
           \/ \E n \in QueryRecords :
                 /\ queries' = (queries \ {q}) \cup {n}
                 /\ n.at = "ready" /\ n.token = q.token /\ n.got = q.got
    PROVE  /\ storage' \in [pair : Pairs \cup {NoPair}, expired : BOOLEAN]
           /\ TokensAreThere' /\ NumbersAreIssued' /\ PendingIsNew'
           /\ ~Excused' => Undisturbed'
<1>1. q.got \in Pairs
  BY DEF BrowserInv, TokensAreThere
<1>2. storage'.pair = q.got /\ storage'.expired = FALSE
      /\ storage' \in [pair : Pairs \cup {NoPair}, expired : BOOLEAN]
  BY <1>1 DEF updateCredentials
<1>3. \A r \in queries' \ queries :
          r.at = "ready" /\ r.token = q.token /\ r.got = q.got /\ ~Pending(r)
  BY DEF Pending
<1>4. \A r \in queries' : (r \in queries /\ r # q) \/ r \in queries' \ queries \/ r.at = "ready"
  BY DEF Pending
<1>5. TokensAreThere' /\ NumbersAreIssued'
  BY <1>1, <1>2, <1>3 DEF BrowserInv, TokensAreThere, NumbersAreIssued, Refreshing, Pending
<1>6. PendingIsNew'
  BY <1>2, <1>3, <1>4 DEF BrowserInv, PendingIsNew, Pending
<1>7. ASSUME ~Excused' PROVE Undisturbed'
  <2>1. Undisturbed
    BY <1>7 DEF BrowserInv, Excused
  <2>2. WaitersKnow'
    BY <1>2 DEF WaitersKnow
  <2>3. HoldersDiffer' /\ NoneRefused'
    BY <1>3, <2>1 DEF Undisturbed, HoldersDiffer, NoneRefused, Holds
  <2>4. RefreshersAccepted' /\ PendingAccepted'
    BY <1>3, <2>1 DEF Undisturbed, RefreshersAccepted, PendingAccepted, Accepted
  <2>5. BrowserAccepted'
    BY <1>2, <2>1 DEF Undisturbed, PendingAccepted, BrowserAccepted, Accepted
  <2> QED
    BY <2>2, <2>3, <2>4, <2>5 DEF Undisturbed
<1> QED
  BY <1>2, <1>5, <1>6, <1>7

LEMMA RefreshAnsweredKeeps ==
    ASSUME BrowserInv, NEW q \in queries, refreshAnswered(q)
    PROVE  BrowserInv'
<1>1. UNCHANGED <<sessions, refreshTokens, issued, asked, appLoading, happened>>
  BY DEF refreshAnswered, sessionServer
<1>2. PICK n \in QueryRecords :
           /\ queries' = (queries \ {q}) \cup {n} /\ queries' \subseteq QueryRecords
           /\ n.at = "ready" /\ n.token = q.token /\ n.got = q.got
  BY PutChanges DEF refreshAnswered, Refreshing
<1>3. /\ storage' \in [pair : Pairs \cup {NoPair}, expired : BOOLEAN]
      /\ TokensAreThere' /\ NumbersAreIssued' /\ PendingIsNew'
      /\ ~Excused' => Undisturbed'
  <2>1. CASE q.at = "renewed"
    <3>1. updateCredentials(q.got) /\ Pending(q)
      BY <2>1 DEF refreshAnswered, Pending
    <3> QED
      BY <1>1, <1>2, <3>1, StoredKeeps
  <2>2. CASE q.at = "refused"
    <3>1. storage' = [pair |-> NoPair, expired |-> TRUE]
      BY <2>2 DEF refreshAnswered, deleteCredentials
    <3>2. Excused /\ Excused'
      BY <1>1, <2>2 DEF BrowserInv, Undisturbed, NoneRefused, Excused
    <3>3. TokensAreThere' /\ NumbersAreIssued'
      BY <1>1, <1>2, <3>1 DEF BrowserInv, TokensAreThere, NumbersAreIssued, Pending, Refreshing
    <3>4. PendingIsNew'
      BY <1>2, <3>1, TypesOfLogin DEF BrowserInv, PendingIsNew, TokensAreThere, Pending
    <3> QED
      BY <3>1, <3>2, <3>3, <3>4
  <2> QED
    BY <2>1, <2>2 DEF refreshAnswered
<1>4. SessionsTypeOK'
  BY <1>1, <1>2, <1>3 DEF BrowserInv, SessionsTypeOK, QueryRecords
<1> QED
  BY <1>3, <1>4 DEF BrowserInv

-----------------------------------------------------------------------------
(* Answers and failures.                                                   *)

\* A request that fails with a login at stake, or while it refreshes, is an excuse.
LEMMA FailsKeeps ==
    ASSUME BrowserInv, NEW q \in queries, Fails(q), UNCHANGED <<sessions, issued, asked>>,
           refreshTokens' \subseteq refreshTokens,
           q.at \notin Refreshing => UNCHANGED refreshTokens,
           q.kind = "logout" => q.at \in Refreshing \cup {"ready"}
    PROVE  BrowserInv'
<1>1. queries' = queries \ {q} /\ queries' \subseteq QueryRecords /\ q.tab \in Tabs
  BY TypesOfLogin DEF Fails, Ends, QueryRecords
<1>2. storage' \in {storage, [pair |-> NoPair, expired |-> TRUE]}
      /\ (q.kind \notin {"user", "logout"} => storage' = storage)
  BY DEF Fails, deleteCredentials
<1>3. /\ Excused => Excused'
      /\ happened' \subseteq {"excuse", "together", "stuck"}
      /\ q.at \in Refreshing \/ q.kind \in {"user", "logout"} => Excused'
  BY TypesOfLogin DEF Fails, Happens, Excused
<1>4. appLoading' \in [Tabs -> BOOLEAN]
  BY <1>1 DEF BrowserInv, SessionsTypeOK, Fails
<1>5. storage'.pair \in {storage.pair, NoPair}
      /\ storage' \in [pair : Pairs \cup {NoPair}, expired : BOOLEAN]
  <2>1. CASE storage' = storage
    BY <2>1 DEF BrowserInv, SessionsTypeOK
  <2>2. CASE storage' = [pair |-> NoPair, expired |-> TRUE]
    BY <2>2
  <2> QED
    BY <1>2, <2>1, <2>2
<1>6. /\ ~Excused' => \A r \in queries \ queries' : r.at \notin Refreshing
      /\ ~Excused' => UNCHANGED <<storage, sessions, refreshTokens>>
  BY <1>1, <1>2, <1>3
<1>7. /\ TokensAreThere' /\ NumbersAreIssued' /\ PendingIsNew'
      /\ ~Excused' => Undisturbed'
  BY <1>1, <1>3, <1>5, <1>6, EndKeeps
<1>8. refreshTokens' \subseteq Pairs /\ UNCHANGED <<sessions, issued, asked>>
  BY DEF BrowserInv, SessionsTypeOK
<1>9. SessionsTypeOK'
  BY <1>1, <1>3, <1>4, <1>5, <1>8 DEF BrowserInv, SessionsTypeOK, QueryRecords
<1> QED
  BY <1>7, <1>9 DEF BrowserInv

LEMMA AnsweredKeeps ==
    ASSUME BrowserInv, NEW q \in queries, requestAnswered(q)
    PROVE  BrowserInv'
<1>0. q.at = "ready" /\ q.at \notin Refreshing
  BY DEF requestAnswered, Refreshing
<1>1. CASE Fails(q) /\ UNCHANGED <<sessionServer, asked>>
  BY <1>0, <1>1, FailsKeeps DEF sessionServer
<1>2. CASE /\ Ends(q) /\ appLoading' = [appLoading EXCEPT ![q.tab] = @ /\ q.kind # "settings"]
           /\ UNCHANGED <<storage, sessionServer, asked, happened>>
  <2>1. queries' = queries \ {q} /\ queries' \subseteq QueryRecords /\ q.tab \in Tabs
    BY <1>2, TypesOfLogin DEF Ends, QueryRecords
  <2>2. UNCHANGED <<storage, sessions, refreshTokens, issued, asked, happened>>
        /\ (Excused => Excused')
    BY <1>2 DEF sessionServer, Excused
  <2>3. appLoading' \in [Tabs -> BOOLEAN]
    BY <1>2, <2>1 DEF BrowserInv, SessionsTypeOK
  <2>4. /\ TokensAreThere' /\ NumbersAreIssued' /\ PendingIsNew'
        /\ ~Excused' => Undisturbed'
    BY <1>0, <2>1, <2>2, EndKeeps
  <2>5. SessionsTypeOK'
    BY <2>1, <2>2, <2>3 DEF BrowserInv, SessionsTypeOK, QueryRecords
  <2> QED
    BY <2>4, <2>5 DEF BrowserInv
<1>3. CASE /\ queries' = (queries \ {q}) \cup {AjaxQuery([q EXCEPT !.kind = "settings"])}
           /\ UNCHANGED <<storage, sessionServer, asked, appLoading, happened>>
  <2> DEFINE x == [q EXCEPT !.kind = "settings"]
  <2> DEFINE n == AjaxQuery(x)
  <2>1. q \in QueryRecords
    BY TypesOfLogin
  <2>2. x \in QueryRecords /\ x.at = "ready" /\ x.token = q.token /\ x.got = q.got
    BY <1>0, <2>1 DEF QueryRecords
  <2> HIDE DEF x
  <2>3. /\ n \in QueryRecords /\ n.at \in {"wait", "ready", "count", "create"}
        /\ n.at = "wait" => n.token \in Pairs
        /\ n.at = "wait" => n.token = storage.pair
        /\ n.token \in Pairs => n.token = storage.pair \/ \E r \in {q} : n.token = r.token
        /\ n.got \in Pairs => \E r \in {q} : n.got = r.got
    BY <2>2, AjaxQueryStarts
  <2>4. queries' = (queries \ {q}) \cup {n} /\ {q} \in SUBSET queries
        /\ \A r \in {q} : r.at \notin Refreshing
    BY <1>0, <1>3 DEF x
  <2> HIDE DEF n
  <2>5. UNCHANGED <<storage, sessions, refreshTokens, issued, asked, appLoading, happened>>
        /\ (Excused => Excused')
    BY <1>3 DEF sessionServer, Excused
  <2>6. /\ TokensAreThere' /\ NumbersAreIssued' /\ PendingIsNew'
        /\ ~Excused' => Undisturbed'
    BY <2>3, <2>4, <2>5, StartKeeps
  <2>7. queries' \subseteq QueryRecords
    BY <2>3, <2>4, TypesOfLogin
  <2>8. SessionsTypeOK'
    BY <2>5, <2>7 DEF BrowserInv, SessionsTypeOK, QueryRecords
  <2> QED
    BY <2>6, <2>8 DEF BrowserInv
<1>4. CASE /\ Ends(q) /\ deleteCredentials
           /\ sessions' = sessions \ {storage.pair.session}
           /\ refreshTokens' = {p \in refreshTokens : p.session # storage.pair.session}
           /\ Happens({"excuse"}) /\ UNCHANGED <<issued, asked, appLoading>>
  <2>1. queries' = queries \ {q} /\ queries' \subseteq QueryRecords
    BY <1>4, TypesOfLogin DEF Ends
  <2>2. storage' = [pair |-> NoPair, expired |-> TRUE]
    BY <1>4 DEF deleteCredentials
  <2>3. Excused' /\ happened' \subseteq {"excuse", "together", "stuck"}
    BY <1>4, TypesOfLogin DEF Happens, Excused
  <2>4. /\ TokensAreThere' /\ NumbersAreIssued' /\ PendingIsNew'
        /\ ~Excused' => Undisturbed'
    BY <1>4, <2>1, <2>2, <2>3, EndKeeps
  <2>5. SessionsTypeOK'
    BY <1>4, <2>1, <2>2, <2>3 DEF BrowserInv, SessionsTypeOK, QueryRecords
  <2> QED
    BY <2>4, <2>5 DEF BrowserInv
<1> QED
  BY <1>1, <1>2, <1>3, <1>4 DEF requestAnswered

LEMMA LostKeeps ==
    ASSUME BrowserInv, NEW q \in queries, connectionLost(q)
    PROVE  BrowserInv'
<1>1. /\ Fails(q) /\ UNCHANGED <<sessions, issued, asked>>
      /\ q.at \in Refreshing \cup {"ready"}
      /\ refreshTokens' \subseteq refreshTokens
  BY DEF connectionLost
<1>2. q.at \notin Refreshing => UNCHANGED refreshTokens
  BY DEF connectionLost, Refreshing
<1> QED
  BY <1>1, <1>2, FailsKeeps

LEMMA ExpiresKeeps ==
    ASSUME BrowserInv, accessTokenExpires
    PROVE  BrowserInv'
<1>1. /\ storage'.pair = storage.pair
      /\ storage' \in [pair : Pairs \cup {NoPair}, expired : BOOLEAN]
  BY DEF accessTokenExpires, BrowserInv, SessionsTypeOK
<1>2. UNCHANGED <<sessions, refreshTokens, issued, queries, asked, appLoading>>
  BY DEF accessTokenExpires, sessionServer
<1>3. /\ Excused => Excused'
      /\ happened' \subseteq {"excuse", "together", "stuck"}
      /\ ~Excused' => \A q \in queries : q.at # "wait"
  BY TypesOfLogin DEF accessTokenExpires, Happens, Excused
<1>4. SessionsTypeOK'
  BY <1>1, <1>2, <1>3 DEF BrowserInv, SessionsTypeOK
<1>5. TokensAreThere' /\ NumbersAreIssued' /\ PendingIsNew'
  BY <1>1, <1>2 DEF BrowserInv, TokensAreThere, NumbersAreIssued, PendingIsNew
<1>6. ASSUME ~Excused' PROVE Undisturbed'
  <2>1. Undisturbed
    BY <1>3, <1>6 DEF BrowserInv
  <2>2. WaitersKnow'
    BY <1>2, <1>3, <1>6 DEF WaitersKnow
  <2> QED
    BY <1>1, <1>2, <2>1, <2>2 DEF Undisturbed, HoldersDiffer, RefreshersAccepted,
       PendingAccepted, BrowserAccepted, NoneRefused, Accepted
<1> QED
  BY <1>4, <1>5, <1>6 DEF BrowserInv

LEMMA SessionEndsKeeps ==
    ASSUME BrowserInv, NEW s \in sessions, sessionEnds(s)
    PROVE  BrowserInv'
<1>1. Excused' /\ happened' \subseteq {"excuse", "together", "stuck"}
  BY TypesOfLogin DEF sessionEnds, Happens, Excused
<1>2. /\ TokensAreThere' /\ NumbersAreIssued' /\ PendingIsNew'
      /\ ~Excused' => Undisturbed'
  BY <1>1, EndKeeps DEF sessionEnds
<1>3. SessionsTypeOK'
  BY <1>1 DEF BrowserInv, SessionsTypeOK, sessionEnds
<1> QED
  BY <1>2, <1>3 DEF BrowserInv

-----------------------------------------------------------------------------
(* Logins.                                                                 *)

LEMMA CountedKeeps ==
    ASSUME BrowserInv, NEW q \in queries, loginCounted(q)
    PROVE  BrowserInv'
<1>1. PICK n \in QueryRecords :
           /\ queries' = (queries \ {q}) \cup {n} /\ queries' \subseteq QueryRecords
           /\ n.at = "create" /\ n.token = q.token /\ n.got = q.got
  BY PutChanges DEF loginCounted
<1>2. /\ UNCHANGED <<storage, refreshTokens, issued, asked, appLoading>>
      /\ q.at = "count" /\ sessions' \subseteq sessions
      /\ (sessions' = sessions /\ happened' = happened) \/ Happens({"excuse"})
  BY DEF loginCounted
<1>3. /\ Excused => Excused'
      /\ ~Excused' => sessions' = sessions
      /\ happened' \subseteq {"excuse", "together", "stuck"}
  BY <1>2, TypesOfLogin DEF Happens, Excused
<1>4. SessionsTypeOK'
  BY <1>1, <1>2, <1>3 DEF BrowserInv, SessionsTypeOK, QueryRecords
<1>5. /\ n.token \in Pairs => n.token = storage.pair \/ \E r \in {q} : n.token = r.token
      /\ n.got \in Pairs => \E r \in {q} : n.got = r.got
      /\ \A r \in {q} : r.at \notin Refreshing
      /\ {q} \in SUBSET queries
  BY <1>1, <1>2 DEF Refreshing
<1>6. /\ TokensAreThere' /\ NumbersAreIssued' /\ PendingIsNew'
      /\ ~Excused' => Undisturbed'
  BY <1>1, <1>2, <1>3, <1>5, StartKeeps
<1> QED
  BY <1>4, <1>6 DEF BrowserInv

LEMMA CreateKeeps ==
    ASSUME BrowserInv, NEW q \in queries, CreateSession(q)
    PROVE  BrowserInv'
<1> DEFINE p == [session |-> issued + 1, no |-> issued + 1]
<1> DEFINE n == [q EXCEPT !.at = "created", !.got = p]
<1>1. /\ q.at = "create" /\ issued < MaxPairs /\ issued' = issued + 1
      /\ sessions' = sessions \cup {p.session}
      /\ refreshTokens' = refreshTokens \cup {p}
      /\ queries' = (queries \ {q}) \cup {n}
      /\ \E causes \in SUBSET {"together"} : Happens(causes)
      /\ UNCHANGED <<storage, asked, appLoading>>
  BY DEF CreateSession
<1>2. p \in Pairs /\ p.no = issued + 1 /\ p.session \in 1 .. MaxPairs
      /\ issued' \in 0 .. MaxPairs
  <2>1. issued + 1 \in 1 .. MaxPairs /\ issued + 1 \in 0 .. MaxPairs
    BY <1>1, TypesOfLogin
  <2> QED
    BY <1>1, <2>1 DEF Pairs
<1> HIDE DEF p
<1>3. /\ n \in QueryRecords /\ n.at = "created" /\ n.token = q.token /\ n.got = p
      /\ queries' \subseteq QueryRecords
  <2>1. q \in QueryRecords
    BY TypesOfLogin
  <2>2. /\ n \in QueryRecords /\ n.at = "created" /\ n.token = q.token /\ n.got = p
    BY <1>2, <2>1 DEF QueryRecords
  <2> QED
    BY <1>1, <2>2, TypesOfLogin
<1>4. /\ Excused <=> Excused'
      /\ happened' \subseteq {"excuse", "together", "stuck"}
  BY <1>1, TypesOfLogin DEF Happens, Excused
<1> HIDE DEF n
<1>5. SessionsTypeOK'
  BY <1>1, <1>2, <1>3, <1>4 DEF BrowserInv, SessionsTypeOK, QueryRecords
<1>6. TokensAreThere' /\ NumbersAreIssued' /\ PendingIsNew'
  BY <1>1, <1>2, <1>3, IssuedKeeps
<1>7. ASSUME ~Excused' PROVE Undisturbed'
  <2>1. Undisturbed
    BY <1>4, <1>7 DEF BrowserInv
  <2>2. WaitersKnow' /\ HoldersDiffer' /\ NoneRefused'
    BY <1>1, <1>3, <2>1 DEF Undisturbed, WaitersKnow, HoldersDiffer, NoneRefused, Holds
  <2>3. RefreshersAccepted' /\ PendingAccepted'
    BY <1>1, <1>3, <2>1 DEF Undisturbed, RefreshersAccepted, PendingAccepted, Accepted, Pending
  <2>4. BrowserAccepted'
    BY <1>1, <2>1 DEF Undisturbed, BrowserAccepted
  <2> QED
    BY <2>1, <2>2, <2>3, <2>4 DEF Undisturbed
<1> QED
  BY <1>5, <1>6, <1>7 DEF BrowserInv

LEMMA StoredCredentialsKeep ==
    ASSUME BrowserInv, NEW q \in queries, credentialsStored(q)
    PROVE  BrowserInv'
<1>1. /\ updateCredentials(q.got) /\ Pending(q) /\ queries' = queries \ {q}
      /\ UNCHANGED <<sessions, refreshTokens, issued, asked, appLoading, happened>>
  BY DEF credentialsStored, Pending, sessionServer, Ends
<1>2. /\ storage' \in [pair : Pairs \cup {NoPair}, expired : BOOLEAN]
      /\ TokensAreThere' /\ NumbersAreIssued' /\ PendingIsNew'
      /\ ~Excused' => Undisturbed'
  BY <1>1, StoredKeeps
<1>3. queries' \subseteq QueryRecords
  BY <1>1, TypesOfLogin
<1>4. SessionsTypeOK'
  BY <1>1, <1>2, <1>3 DEF BrowserInv, SessionsTypeOK, QueryRecords
<1> QED
  BY <1>2, <1>4 DEF BrowserInv

-----------------------------------------------------------------------------
LEMMA BrowserGoesOn == BrowserInv /\ [SessionsNext]_sessionVars => BrowserInv'
<1> SUFFICES ASSUME BrowserInv, [SessionsNext]_sessionVars PROVE BrowserInv'
  OBVIOUS
<1>1. CASE SessionsNext
  <2>1. ASSUME NEW q \in queries, QueryStep(q) PROVE BrowserInv'
    BY <2>1, AcquireKeeps, RefreshReadKeeps, RefreshWrittenKeeps, RefreshAnsweredKeeps,
       AnsweredKeeps, LostKeeps, CountedKeeps, CreateKeeps, StoredCredentialsKeep
       DEF QueryStep
  <2> QED
    BY <1>1, <2>1, QueryKeeps, VerifyKeeps, ExpiresKeeps, SessionEndsKeeps
       DEF SessionsNext, QuerySteps
<1>2. CASE UNCHANGED sessionVars
  BY <1>2 DEF sessionVars, BrowserInv, SessionsTypeOK, TokensAreThere, NumbersAreIssued,
     PendingIsNew, Excused, Undisturbed, WaitersKnow, HoldersDiffer, RefreshersAccepted,
     PendingAccepted, BrowserAccepted, NoneRefused, Accepted
<1> QED
  BY <1>1, <1>2

LEMMA BrowserBegins == SessionsInit => BrowserInv
<1> SUFFICES ASSUME SessionsInit PROVE BrowserInv
  OBVIOUS
<1>1. /\ 1 \in 1 .. MaxPairs /\ 0 \in 0 .. MaxPairs /\ 1 \in 0 .. MaxPairs
      /\ 0 \in 0 .. MaxQueries /\ 1 <= 1
  BY SessionsAssumption
<1> DEFINE p == [session |-> 1, no |-> 1]
<1>2. p \in Pairs /\ p.no = 1 /\ p.session = 1
  BY <1>1 DEF Pairs
<1>3. \/ /\ storage = [pair |-> NoPair, expired |-> TRUE]
         /\ sessions = {} /\ refreshTokens = {} /\ issued = 0
      \/ /\ \E e \in BOOLEAN : storage = [pair |-> p, expired |-> e]
         /\ sessions = {1} /\ refreshTokens = {p} /\ issued = 1
  BY DEF SessionsInit
<1> HIDE DEF p
<1>4. SessionsTypeOK
  <2>1. /\ storage \in [pair : Pairs \cup {NoPair}, expired : BOOLEAN]
        /\ refreshTokens \subseteq Pairs
    <3>1. CASE storage = [pair |-> NoPair, expired |-> TRUE] /\ refreshTokens = {}
      BY <3>1
    <3>2. CASE /\ \E e \in BOOLEAN : storage = [pair |-> p, expired |-> e]
               /\ refreshTokens = {p}
      BY <1>2, <3>2
    <3> QED
      BY <1>3, <3>1, <3>2
  <2>2. sessions \subseteq 1 .. MaxPairs /\ issued \in 0 .. MaxPairs
    BY <1>1, <1>3
  <2> QED
    BY <1>1, <2>1, <2>2 DEF SessionsInit, SessionsTypeOK
<1>5. TokensAreThere /\ PendingIsNew
  BY DEF SessionsInit, TokensAreThere, PendingIsNew
<1>6. NumbersAreIssued
  BY <1>1, <1>2, <1>3 DEF SessionsInit, NumbersAreIssued
<1>7. Undisturbed
  BY <1>2, <1>3 DEF SessionsInit, Undisturbed, WaitersKnow, HoldersDiffer, RefreshersAccepted,
     PendingAccepted, BrowserAccepted, NoneRefused
<1> QED
  BY <1>4, <1>5, <1>6, <1>7 DEF BrowserInv

LEMMA BrowserInvariant == SessionsSpec => []BrowserInv
BY BrowserBegins, BrowserGoesOn, PTL DEF SessionsSpec

\* The variables of Sessions have their types, whatever its tabs do.
THEOREM SessionsTypeCorrect == SessionsSpec => []SessionsTypeOK
<1>1. BrowserInv => SessionsTypeOK
  BY DEF BrowserInv
<1> QED
  BY <1>1, BrowserInvariant, PTL

\* Nobody is logged out without an excuse.
LEMMA LoggedOutExcused ==
    ASSUME BrowserInv, SessionsNext, storage.pair # NoPair, storage'.pair = NoPair
    PROVE  Excused'
<1>1. storage' # storage
  OBVIOUS
<1>2. ASSUME NEW q \in queries, QueryStep(q) PROVE Excused'
  <2>1. CASE refreshAnswered(q)
    <3>1. CASE q.at = "renewed"
      <4>1. storage'.pair = q.got /\ q.got \in Pairs
        BY <2>1, <3>1
           DEF refreshAnswered, updateCredentials, BrowserInv, TokensAreThere, Pending
      <4> QED
        BY <4>1, TypesOfLogin
    <3>2. CASE q.at = "refused"
      BY <2>1, <3>2 DEF refreshAnswered, BrowserInv, Undisturbed, NoneRefused, Excused
    <3> QED
      BY <2>1, <3>1, <3>2 DEF refreshAnswered
  <2>2. CASE requestAnswered(q) \/ connectionLost(q)
    <3>1. CASE Fails(q)
      BY <1>1, <3>1 DEF Fails, Happens, Excused
    <3>2. CASE Happens({"excuse"})
      BY <3>2 DEF Happens, Excused
    <3> QED
      BY <1>1, <2>2, <3>1, <3>2 DEF requestAnswered, connectionLost
  <2>3. CASE credentialsStored(q)
    <3>1. storage'.pair = q.got /\ q.got \in Pairs
      BY <2>3 DEF credentialsStored, updateCredentials, BrowserInv, TokensAreThere, Pending
    <3> QED
      BY <3>1, TypesOfLogin
  <2>4. CASE acquire(q) \/ refreshRead(q) \/ refreshWritten(q) \/ loginCounted(q)
             \/ CreateSession(q)
    BY <1>1, <2>4 DEF acquire, refreshRead, refreshWritten, loginCounted, CreateSession
  <2> QED
    BY <1>2, <2>1, <2>2, <2>3, <2>4 DEF QueryStep
<1>3. CASE accessTokenExpires
  <2>1. storage'.pair = storage.pair
    BY <1>3 DEF accessTokenExpires, BrowserInv, SessionsTypeOK
  <2> QED
    BY <2>1
<1>4. CASE \/ \E t \in Tabs : query(t) \/ verifyToken(t) \/ logIn(t)
           \/ \E s \in sessions : sessionEnds(s)
  BY <1>1, <1>4 DEF query, verifyToken, logIn, sessionEnds
<1> QED
  BY <1>2, <1>3, <1>4 DEF SessionsNext, QuerySteps

\* The mutex of Ajax.ts does what it is there for: without an excuse nobody who refreshes is
\* refused, so that no request of any tab logs the browser out.
THEOREM SessionsStayLoggedIn == SessionsSpec => StaysLoggedIn
<1>1. BrowserInv /\ [SessionsNext]_sessionVars =>
          [storage.pair # NoPair /\ storage'.pair = NoPair =>
             "excuse" \in happened']_sessionVars
  BY LoggedOutExcused DEF Excused
<1> QED
  BY <1>1, BrowserInvariant, PTL DEF SessionsSpec, StaysLoggedIn

-----------------------------------------------------------------------------
(* The limit on sessions.                                                  *)

LEMMA SessionsFinite ==
    ASSUME BrowserInv
    PROVE  /\ IsFiniteSet(sessions) /\ Cardinality(sessions) \in Nat
           /\ MaxSessions \in Nat /\ MaxSessions >= 1
<1>1. IsFiniteSet(1 .. MaxPairs)
  BY FS_Interval, SessionsAssumption
<1>2. IsFiniteSet(sessions)
  BY <1>1, FS_Subset DEF BrowserInv, SessionsTypeOK
<1>3. MaxSessions \in Nat /\ MaxSessions >= 1
  BY SessionsAssumption
<1> QED
  BY <1>2, <1>3, FS_CardinalityType

\* Steps that add neither a session nor a login that is about to add one.
LEMMA NoLoginKeepsRoom ==
    ASSUME BrowserInv, RoomIsLeft, sessions' \subseteq sessions,
           \A q \in queries' \ queries : q.at # "create",
           "together" \in happened => "together" \in happened'
    PROVE  RoomIsLeft'
<1>1. Cardinality(sessions') <= Cardinality(sessions) /\ Cardinality(sessions') \in Nat
  BY SessionsFinite, FS_Subset, FS_CardinalityType
<1>2. (\E q \in queries' : q.at = "create") => \E q \in queries : q.at = "create"
  OBVIOUS
<1>3. SUFFICES ASSUME "together" \notin happened'
               PROVE  /\ Cardinality(sessions') <= MaxSessions
                      /\ (\E q \in queries' : q.at = "create") =>
                            Cardinality(sessions') < MaxSessions
  BY DEF RoomIsLeft
<1>4. /\ Cardinality(sessions) <= MaxSessions
      /\ (\E q \in queries : q.at = "create") => Cardinality(sessions) < MaxSessions
  BY <1>3 DEF RoomIsLeft
<1> QED
  BY <1>1, <1>2, <1>4, SessionsFinite

LEMMA CountedKeepsRoom ==
    ASSUME BrowserInv, RoomIsLeft, NEW q \in queries, loginCounted(q)
    PROVE  RoomIsLeft'
<1>1. CASE Cardinality(sessions) >= MaxSessions
  <2>1. PICK s \in sessions : sessions' = sessions \ {s} /\ Happens({"excuse"})
    BY <1>1 DEF loginCounted
  <2>2. Cardinality(sessions') = Cardinality(sessions) - 1
    BY <2>1, SessionsFinite, FS_RemoveElement
  <2>3. "together" \notin happened' => Cardinality(sessions) <= MaxSessions
    BY <2>1 DEF RoomIsLeft, Happens
  <2>4. "together" \notin happened' => Cardinality(sessions') < MaxSessions
    BY <2>2, <2>3, SessionsFinite
  <2>5. Cardinality(sessions') < MaxSessions => Cardinality(sessions') <= MaxSessions
    BY <2>2, SessionsFinite
  <2> QED
    BY <2>4, <2>5 DEF RoomIsLeft
<1>2. CASE ~(Cardinality(sessions) >= MaxSessions)
  <2>1. sessions' = sessions
    BY <1>2 DEF loginCounted
  <2>2. Cardinality(sessions') < MaxSessions /\ Cardinality(sessions') <= MaxSessions
    BY <1>2, <2>1, SessionsFinite
  <2> QED
    BY <2>2 DEF RoomIsLeft
<1> QED
  BY <1>1, <1>2

LEMMA CreateKeepsRoom ==
    ASSUME BrowserInv, RoomIsLeft, NEW q \in queries, CreateSession(q)
    PROVE  RoomIsLeft'
<1> SUFFICES ASSUME "together" \notin happened' PROVE RoomIsLeft'
  BY DEF RoomIsLeft
<1>1. "together" \notin happened /\ \A r \in queries : r # q => r.at # "create"
  BY DEF CreateSession, Happens
<1>2. Cardinality(sessions) < MaxSessions
  BY <1>1 DEF RoomIsLeft, CreateSession
<1>3. Cardinality(sessions') <= Cardinality(sessions) + 1 /\ Cardinality(sessions') \in Nat
  <2>1. PICK s : sessions' = sessions \cup {s}
    BY DEF CreateSession
  <2>2. /\ Cardinality(sessions') \in {Cardinality(sessions), Cardinality(sessions) + 1}
    BY <2>1, SessionsFinite, FS_AddElement
  <2> QED
    BY <2>2, SessionsFinite
<1>4. Cardinality(sessions') <= MaxSessions
  BY <1>2, <1>3, SessionsFinite
<1>5. \A r \in queries' : r.at # "create"
  <2> DEFINE p == [session |-> issued + 1, no |-> issued + 1]
  <2> DEFINE n == [q EXCEPT !.at = "created", !.got = p]
  <2>1. queries' = (queries \ {q}) \cup {n}
    BY DEF CreateSession
  <2>2. n.at = "created"
    BY TypesOfLogin DEF QueryRecords
  <2> HIDE DEF n
  <2> QED
    BY <1>1, <2>1, <2>2
<1> QED
  BY <1>4, <1>5 DEF RoomIsLeft

LEMMA QueryStepKeepsRoom ==
    ASSUME BrowserInv, RoomIsLeft, NEW q \in queries, QueryStep(q)
    PROVE  RoomIsLeft'
<1>1. CASE acquire(q)
  <2>1. PICK at \in {"ready", "refresh"} : Put(q, at)
    BY <1>1 DEF acquire
  <2>2. \A n \in queries' \ queries : n.at # "create"
    BY <2>1, PutChanges DEF Refreshing
  <2> QED
    BY <1>1, <2>2, NoLoginKeepsRoom DEF acquire, sessionServer, Happens
<1>2. CASE refreshRead(q) \/ refreshAnswered(q)
  <2>1. PICK at \in {"ready", "read", "refused"} : Put(q, at)
    BY <1>2 DEF refreshRead, refreshAnswered
  <2>2. \A n \in queries' \ queries : n.at # "create"
    BY <2>1, PutChanges DEF Refreshing
  <2> QED
    BY <1>2, <2>2, NoLoginKeepsRoom DEF refreshRead, refreshAnswered, sessionServer
<1>3. CASE refreshWritten(q)
  <2> DEFINE p == [session |-> q.token.session, no |-> issued + 1]
  <2> DEFINE n == [q EXCEPT !.at = "renewed", !.got = p]
  <2>1. queries' = (queries \ {q}) \cup {n}
    BY <1>3 DEF refreshWritten
  <2>2. n.at = "renewed"
    BY TypesOfLogin DEF QueryRecords
  <2> HIDE DEF n
  <2> QED
    BY <1>3, <2>1, <2>2, NoLoginKeepsRoom DEF refreshWritten
<1>4. CASE requestAnswered(q)
  <2> DEFINE x == [q EXCEPT !.kind = "settings"]
  <2>1. q.at = "ready" /\ q \in QueryRecords
    BY <1>4, TypesOfLogin DEF requestAnswered
  <2>2. x \in QueryRecords /\ x.at = "ready"
    BY <2>1 DEF QueryRecords
  <2>3. AjaxQuery(x).at # "create"
    BY <2>2, AjaxQueryStarts
  <2>4. queries' = queries \ {q} \/ queries' = (queries \ {q}) \cup {AjaxQuery(x)}
    BY <1>4 DEF requestAnswered, Ends, Fails
  <2> HIDE DEF x
  <2>5. \A n \in queries' \ queries : n.at # "create"
    BY <2>3, <2>4
  <2>6. sessions' \subseteq sessions /\ happened \subseteq happened'
    BY <1>4 DEF requestAnswered, Fails, Happens, sessionServer
  <2> QED
    BY <2>5, <2>6, NoLoginKeepsRoom
<1>5. CASE connectionLost(q) \/ credentialsStored(q)
  BY <1>5, NoLoginKeepsRoom DEF connectionLost, credentialsStored, Fails, Ends, Happens,
     sessionServer
<1> QED
  BY <1>1, <1>2, <1>3, <1>4, <1>5, CountedKeepsRoom, CreateKeepsRoom DEF QueryStep

LEMMA OtherStepsKeepRoom ==
    ASSUME BrowserInv, RoomIsLeft,
           \/ \E t \in Tabs : query(t) \/ verifyToken(t) \/ logIn(t)
           \/ accessTokenExpires
           \/ \E s \in sessions : sessionEnds(s)
    PROVE  RoomIsLeft'
<1>1. ASSUME NEW t \in Tabs, query(t) \/ verifyToken(t) \/ logIn(t)
      PROVE  \A n \in queries' \ queries : n.at # "create"
  <2>1. PICK kind \in {"page", "user", "logout", "login"}, at \in {"ready", "count"} :
            \A n \in queries' \ queries :
                \/ n = Query(t, kind, at)
                \/ at = "ready" /\ n = AjaxQuery(Query(t, kind, at))
    BY <1>1 DEF query, verifyToken, logIn, StartsQuery
  <2>2. Query(t, kind, at) \in QueryRecords /\ Query(t, kind, at).at = at
    BY <1>1, NewQuery DEF query, verifyToken, logIn, StartsQuery
  <2>3. at = "ready" => AjaxQuery(Query(t, kind, at)).at \in {"wait", "ready"}
    BY <2>2, AjaxQueryStarts
  <2> QED
    BY <2>1, <2>2, <2>3
<1>2. CASE \E t \in Tabs : query(t) \/ verifyToken(t) \/ logIn(t)
  BY <1>1, <1>2, NoLoginKeepsRoom DEF query, verifyToken, logIn, sessionServer, Happens
<1>3. CASE accessTokenExpires \/ \E s \in sessions : sessionEnds(s)
  BY <1>3, NoLoginKeepsRoom DEF accessTokenExpires, sessionEnds, sessionServer, Happens
<1> QED
  BY <1>2, <1>3

LEMMA RoomBegins ==
    ASSUME SessionsInit
    PROVE  RoomIsLeft
<1>1. sessions = {} \/ sessions = {1}
  BY DEF SessionsInit
<1>2. Cardinality(sessions) <= MaxSessions
  <2>1. Cardinality({}) = 0 /\ Cardinality({1}) = 1
    BY FS_EmptySet, FS_Singleton
  <2>2. Cardinality(sessions) = 0 \/ Cardinality(sessions) = 1
    BY <1>1, <2>1
  <2> QED
    BY <2>2, SessionsAssumption
<1> QED
  BY <1>2 DEF SessionsInit, RoomIsLeft

LEMMA RoomGoesOn ==
    ASSUME BrowserInv, RoomIsLeft, [SessionsNext]_sessionVars
    PROVE  RoomIsLeft'
<1>1. CASE UNCHANGED sessionVars
  BY <1>1 DEF sessionVars, RoomIsLeft
<1> QED
  BY <1>1, QueryStepKeepsRoom, OtherStepsKeepRoom DEF SessionsNext, QuerySteps

LEMMA RoomPromise ==
    ASSUME BrowserInv, RoomIsLeft
    PROVE  SessionLimit
BY SessionsFinite DEF RoomIsLeft, SessionLimit

\* The limit of the server holds, if no two logins of the user are between counting the
\* sessions and adding one when the first of them adds.
THEOREM SessionsLimited == SessionsSpec => []SessionLimit
<1>1. SessionsInit => RoomIsLeft
  BY RoomBegins
<1>2. BrowserInv /\ RoomIsLeft /\ [SessionsNext]_sessionVars => RoomIsLeft'
  BY RoomGoesOn
<1>3. BrowserInv /\ RoomIsLeft => SessionLimit
  BY RoomPromise
<1> QED
  BY <1>1, <1>2, <1>3, BrowserInvariant, PTL DEF SessionsSpec

-----------------------------------------------------------------------------
(* The login                                                               *)
LoginForms == [form : {"loading", "nodomain", "providers", "disabled", "password", "gone"},
               typed : {"nothing", "right", "wrong"}, code : {"nothing", "right", "wrong"},
               requireTotp : BOOLEAN, requirePasskey : BOOLEAN, challenge : 0 .. MaxAttempts,
               allowTotpFallback : BOOLEAN, requirePasswordUpdate : BOOLEAN,
               invalid : BOOLEAN, inPasswordSubmit : BOOLEAN, inPasskeyLogin : BOOLEAN,
               hasAccessToken : BOOLEAN]
Attempts == [no : 0 .. MaxAttempts,
             at : {"org", "singleorg", "login", "updatepw", "assertion", "assert",
                   "begin", "dialog", "finish", "settings"},
             typed : {"nothing", "right", "wrong"}, code : {"nothing", "right", "wrong"},
             challenge : 0 .. MaxAttempts]
Requires(f) == f.requireTotp \/ f.requirePasskey \/ f.requirePasswordUpdate

LoginTypes ==
    /\ loginForm \in LoginForms /\ attempts \subseteq Attempts /\ attempted \in 0 .. MaxAttempts
    /\ account \in [totp : BOOLEAN, passkey : BOOLEAN, update : BOOLEAN]
    /\ loginSeen \subseteq {"together", "twice", "stuck"}

\* A challenge is the number of an attempt that was made.
ChallengesAreMade ==
    /\ asserted \subseteq 1 .. attempted
    /\ \A a \in attempts :
          /\ a.no \in 0 .. attempted
          /\ a.at \notin {"org", "singleorg"} => a.no \in 1 .. attempted
          /\ a.at = "assertion" => a.challenge \in 1 .. attempted
    /\ loginForm.form # "gone" /\ loginForm.requirePasskey => loginForm.challenge \in 1 .. attempted

\* As long as nothing is sent while an attempt is out, the form is that of the attempt.
OneAttempt ==
    "together" \notin loginSeen =>
    /\ \A a, b \in attempts : a = b
    /\ "twice" \notin loginSeen
    /\ \A a \in attempts : /\ a.at \in {"login", "assertion"} => a.no \notin asserted
                           /\ a.at = "assertion" => a.challenge = a.no
    /\ loginForm.form # "gone" =>
          /\ Requires(loginForm) => loginForm.typed = "right"
          /\ loginForm.requirePasskey => loginForm.inPasskeyLogin
          /\ \A a \in attempts :
                /\ a.at = "login" => /\ a.typed = loginForm.typed /\ loginForm.inPasswordSubmit
                                     /\ PasswordForm \/ TotpForm
                /\ a.at \in {"begin", "dialog", "finish"} => ~loginForm.requirePasskey
                /\ a.at \in {"assertion", "assert"} => loginForm.requirePasskey

LoginInv == LoginTypes /\ ChallengesAreMade /\ OneAttempt

LEMMA LoginPromise ==
    ASSUME LoginInv
    PROVE  LoginTypeOK /\ FactorIsOfTheAttempt
<1>1. attempted \in 0 .. MaxAttempts /\ MaxAttempts \in Nat
  BY LoginAssumption DEF LoginInv, LoginTypes
<1>2. 1 .. attempted \subseteq 1 .. MaxAttempts
  BY <1>1
<1>3. LoginTypeOK
  <2>1. loginForm \in LoginForms /\ attempts \subseteq Attempts
    BY DEF LoginInv, LoginTypes
  <2>2. asserted \subseteq 1 .. MaxAttempts /\ \A a \in attempts : a.no \in 0 .. attempted
    BY <1>2 DEF LoginInv, ChallengesAreMade
  <2> QED
    BY <2>1, <2>2 DEF LoginTypeOK, LoginForms, Attempts, LoginInv, LoginTypes
<1>4. FactorIsOfTheTyped
  BY DEF LoginInv, OneAttempt, FactorIsOfTheTyped, Requires
<1>5. ChallengeUsedOnce
  BY DEF LoginInv, OneAttempt, ChallengeUsedOnce
<1> QED
  BY <1>3, <1>4, <1>5 DEF FactorIsOfTheAttempt

LEMMA LoginBegins ==
    ASSUME LoginInit
    PROVE  LoginInv
<1>1. MaxAttempts \in Nat
  BY LoginAssumption
<1>2. attempts = {[no |-> 0, at |-> "org", typed |-> "nothing", code |-> "nothing", challenge |-> 0]}
  BY DEF LoginInit, Attempt
<1>3. LoginTypes
  BY <1>1, <1>2 DEF LoginInit, LoginTypes, LoginForms, Attempts
<1>4. ChallengesAreMade
  BY <1>1, <1>2 DEF LoginInit, ChallengesAreMade
<1>5. OneAttempt
  BY <1>1, <1>2 DEF LoginInit, OneAttempt, Requires
<1> QED
  BY <1>3, <1>4, <1>5 DEF LoginInv

\* What the page does without an attempt.
LEMMA LoginFormKeeps ==
    ASSUME LoginInv, useProvider \/ TypesPassword \/ backToPassword \/ useTotpInstead
                     \/ UNCHANGED loginVars
    PROVE  LoginInv'
<1>1. loginForm \in LoginForms
  BY DEF LoginInv, LoginTypes
<1>2. CASE useProvider
  <2>1. /\ loginForm' \in LoginForms /\ loginForm.form = "providers"
        /\ \A x \in {"typed", "requireTotp", "requirePasskey", "requirePasswordUpdate", "challenge",
                     "inPasswordSubmit", "inPasskeyLogin"} : loginForm'[x] = loginForm[x]
        /\ UNCHANGED <<account, attempts, attempted, asserted, loginSeen>>
    BY <1>1, <1>2 DEF useProvider, LoginForms, attemptVars
  <2> QED
    BY <2>1 DEF LoginInv, LoginTypes, ChallengesAreMade, OneAttempt, Requires, PasswordForm, TotpForm
<1>3. CASE TypesPassword
  <2>1. /\ loginForm' \in LoginForms /\ PasswordForm /\ ~loginForm.inPasswordSubmit
        /\ \A x \in {"requireTotp", "requirePasskey", "requirePasswordUpdate", "challenge",
                     "inPasswordSubmit", "inPasskeyLogin"} : loginForm'[x] = loginForm[x]
        /\ UNCHANGED <<account, attempts, attempted, asserted, loginSeen>>
    BY <1>1, <1>3 DEF TypesPassword, Renders, LoginForms, attemptVars
  <2> QED
    BY <2>1 DEF LoginInv, LoginTypes, ChallengesAreMade, OneAttempt, Requires, PasswordForm, TotpForm
<1>4. CASE backToPassword
  <2>1. /\ loginForm' \in LoginForms /\ UpdateForm
        /\ \A x \in {"requireTotp", "requirePasskey", "challenge",
                     "inPasswordSubmit", "inPasskeyLogin"} : loginForm'[x] = loginForm[x]
        /\ loginForm'.form = "gone" \/ ~loginForm'.requirePasswordUpdate
        /\ UNCHANGED <<account, attempts, attempted, asserted, loginSeen>>
    BY <1>1, <1>4 DEF backToPassword, Renders, LoginForms, attemptVars
  <2> QED
    BY <2>1 DEF LoginInv, LoginTypes, ChallengesAreMade, OneAttempt, Requires, PasswordForm, TotpForm,
       UpdateForm
<1>5. CASE useTotpInstead
  <2>1. /\ loginForm' \in LoginForms /\ PasskeyForm /\ ~loginForm.inPasskeyLogin
        /\ \A x \in {"requirePasswordUpdate", "challenge", "typed",
                     "inPasswordSubmit", "inPasskeyLogin"} : loginForm'[x] = loginForm[x]
        /\ loginForm'.form = "gone" \/ (loginForm'.form = loginForm.form
              /\ ~loginForm'.requirePasskey /\ loginForm'.requireTotp)
        /\ UNCHANGED <<account, attempts, attempted, asserted, loginSeen>>
    BY <1>1, <1>5 DEF useTotpInstead, Renders, LoginForms, attemptVars
  <2> QED
    BY <2>1 DEF LoginInv, LoginTypes, ChallengesAreMade, OneAttempt, Requires, PasswordForm, TotpForm,
       PasskeyForm
<1>6. CASE UNCHANGED loginVars
  BY <1>6 DEF LoginInv, LoginTypes, ChallengesAreMade, OneAttempt, Requires, PasswordForm, TotpForm,
     loginVars
<1> QED
  BY <1>2, <1>3, <1>4, <1>5, <1>6

\* An attempt begins.
LEMMA AttemptBegins ==
    ASSUME LoginInv, attempted < MaxAttempts, attempted' = attempted + 1,
           NEW a \in Attempts, a.no = attempted + 1, attempts' = attempts \cup {a},
           loginSeen' = loginSeen \cup (IF attempts # {} THEN {"together"} ELSE {}),
           UNCHANGED <<account, asserted>>, loginForm' \in LoginForms,
           \/ loginForm'.form = "gone"
           \/ \A x \in {"form", "typed", "requireTotp", "requirePasskey", "requirePasswordUpdate",
                        "challenge"} : loginForm'[x] = loginForm[x],
           loginForm'.form = "gone" \/ (loginForm.inPasskeyLogin => loginForm'.inPasskeyLogin),
           a.at \in {"login", "updatepw", "begin", "assertion"},
           a.at = "login" => /\ PasswordForm \/ TotpForm
                             /\ a.typed = loginForm.typed
                             /\ loginForm'.form = "gone" \/ loginForm'.inPasswordSubmit,
           a.at = "begin" => ~loginForm.requirePasskey,
           a.at = "assertion" => /\ "together" \in loginSeen'
                                 /\ a.challenge \in 1 .. attempted
    PROVE  LoginInv'
<1>1. attempted \in 0 .. MaxAttempts /\ MaxAttempts \in Nat
  BY LoginAssumption DEF LoginInv, LoginTypes
<1>2. /\ attempted' \in 0 .. MaxAttempts /\ attempted + 1 \in 1 .. attempted'
      /\ attempted + 1 \notin 1 .. attempted
      /\ 1 .. attempted \subseteq 1 .. attempted' /\ 0 .. attempted \subseteq 0 .. attempted'
      /\ 1 .. attempted' \subseteq 0 .. attempted'
  BY <1>1
<1>3. LoginTypes'
  BY <1>2 DEF LoginInv, LoginTypes
<1>4. ChallengesAreMade'
  BY <1>2 DEF LoginInv, ChallengesAreMade
<1>5. OneAttempt'
  <2> SUFFICES ASSUME "together" \notin loginSeen'
               PROVE  OneAttempt'
    BY DEF OneAttempt
  <2>1. attempts = {} /\ loginSeen' = loginSeen /\ attempts' = {a} /\ a.at # "assertion"
    OBVIOUS
  <2>2. a.no \notin asserted
    BY <1>2 DEF LoginInv, ChallengesAreMade
  <2> QED
    BY <2>1, <2>2 DEF LoginInv, OneAttempt, Requires, PasswordForm, TotpForm
<1> QED
  BY <1>3, <1>4, <1>5 DEF LoginInv

LEMMA LoginSubmitsKeep ==
    ASSUME LoginInv,
           onPasswordSubmit \/ onNewPasswordSubmit \/ loginWithPasskey \/ performPasskeyAssertion
    PROVE  LoginInv'
<1>1. loginForm \in LoginForms /\ attempted \in 0 .. MaxAttempts /\ MaxAttempts \in Nat
  BY LoginAssumption DEF LoginInv, LoginTypes
<1>2. attempted < MaxAttempts => attempted + 1 \in 0 .. MaxAttempts
  BY <1>1
<1>3. ASSUME NEW at \in {"login", "updatepw", "begin"}, SendsLogin(at), loginForm' \in LoginForms
      PROVE  /\ attempted < MaxAttempts /\ attempted' = attempted + 1
             /\ loginSeen' = loginSeen \cup (IF attempts # {} THEN {"together"} ELSE {})
             /\ \E a \in Attempts : /\ attempts' = attempts \cup {a} /\ a.no = attempted + 1
                                    /\ a.at = at /\ a.typed = loginForm.typed
  <2> DEFINE a == [Attempt(attempted + 1, at) EXCEPT !.code = loginForm'.code]
  <2>1. attempted < MaxAttempts /\ attempted' = attempted + 1 /\ attempts' = attempts \cup {a}
        /\ loginSeen' = loginSeen \cup (IF attempts # {} THEN {"together"} ELSE {})
    BY <1>3 DEF SendsLogin, Notes
  <2>2. a \in Attempts /\ a.no = attempted + 1 /\ a.at = at /\ a.typed = loginForm.typed
    BY <1>1, <1>2, <1>3, <2>1 DEF Attempt, Attempts, LoginForms
  <2> HIDE DEF a
  <2> QED
    BY <2>1, <2>2
<1>4. CASE onPasswordSubmit
  <2>1. /\ loginForm' \in LoginForms
        /\ PasswordForm \/ TotpForm
        /\ \/ loginForm'.form = "gone"
           \/ /\ \A x \in {"form", "typed", "requireTotp", "requirePasskey", "requirePasswordUpdate",
                           "challenge", "inPasskeyLogin"} : loginForm'[x] = loginForm[x]
              /\ loginForm'.inPasswordSubmit
        /\ SendsLogin("login") /\ UNCHANGED <<account, asserted>>
    BY <1>1, <1>4 DEF onPasswordSubmit, TypesCode, Renders, LoginForms
  <2>2. PICK a \in Attempts : /\ attempts' = attempts \cup {a} /\ a.no = attempted + 1
                              /\ a.at = "login" /\ a.typed = loginForm.typed
    BY <1>3, <2>1
  <2> QED
    BY <1>3, <2>1, <2>2, AttemptBegins
<1>5. CASE onNewPasswordSubmit
  <2>1. /\ loginForm' \in LoginForms
        /\ \/ loginForm'.form = "gone"
           \/ \A x \in {"form", "typed", "requireTotp", "requirePasskey", "requirePasswordUpdate",
                        "challenge", "inPasskeyLogin"} : loginForm'[x] = loginForm[x]
        /\ SendsLogin("updatepw") /\ UNCHANGED <<account, asserted>>
    BY <1>1, <1>5 DEF onNewPasswordSubmit, Renders, LoginForms
  <2>2. PICK a \in Attempts : /\ attempts' = attempts \cup {a} /\ a.no = attempted + 1
                              /\ a.at = "updatepw"
    BY <1>3, <2>1
  <2> QED
    BY <1>3, <2>1, <2>2, AttemptBegins
<1>6. CASE loginWithPasskey
  <2>1. /\ loginForm' \in LoginForms /\ ~loginForm.requirePasskey
        /\ \/ loginForm'.form = "gone"
           \/ /\ \A x \in {"form", "typed", "requireTotp", "requirePasskey", "requirePasswordUpdate",
                           "challenge"} : loginForm'[x] = loginForm[x]
              /\ loginForm'.inPasskeyLogin
        /\ SendsLogin("begin") /\ UNCHANGED <<account, asserted>>
    BY <1>1, <1>6 DEF loginWithPasskey, Renders, LoginForms, PasswordForm
  <2>2. PICK a \in Attempts : /\ attempts' = attempts \cup {a} /\ a.no = attempted + 1
                              /\ a.at = "begin"
    BY <1>3, <2>1
  <2> QED
    BY <1>3, <2>1, <2>2, AttemptBegins
<1>7. CASE performPasskeyAssertion
  <2>1. /\ loginForm' \in LoginForms /\ PasskeyForm /\ ~loginForm.inPasskeyLogin
        /\ \/ loginForm'.form = "gone"
           \/ /\ \A x \in {"form", "typed", "requireTotp", "requirePasskey", "requirePasswordUpdate",
                           "challenge"} : loginForm'[x] = loginForm[x]
              /\ loginForm'.inPasskeyLogin
        /\ attempted < MaxAttempts /\ attempted' = attempted + 1
        /\ loginSeen' = loginSeen \cup (IF attempts # {} THEN {"together"} ELSE {})
        /\ UNCHANGED <<account, asserted>>
    BY <1>1, <1>7 DEF performPasskeyAssertion, Renders, LoginForms, Notes
  <2>2. PICK a \in Attempts : /\ attempts' = attempts \cup {a} /\ a.no = attempted + 1
                              /\ a.at = "assertion" /\ a.challenge = loginForm.challenge
    <3> DEFINE a == [Attempt(attempted + 1, "assertion") EXCEPT !.challenge = loginForm.challenge]
    <3>1. attempts' = attempts \cup {a}
      BY <1>7 DEF performPasskeyAssertion
    <3>2. a \in Attempts /\ a.no = attempted + 1 /\ a.at = "assertion" /\ a.challenge = loginForm.challenge
      BY <1>1, <1>2, <2>1 DEF Attempt, Attempts, LoginForms
    <3> HIDE DEF a
    <3> QED
      BY <3>1, <3>2
  <2>3. "together" \in loginSeen'
    BY <2>1 DEF LoginInv, OneAttempt, PasskeyForm
  <2>4. a.challenge \in 1 .. attempted
    BY <2>1, <2>2 DEF LoginInv, ChallengesAreMade, PasskeyForm
  <2> QED
    BY <2>1, <2>2, <2>3, <2>4, AttemptBegins
<1> QED
  BY <1>4, <1>5, <1>6, <1>7

-----------------------------------------------------------------------------
\* An attempt comes to an end: what it has opened was asked for what is in the form.
LEMMA AttemptEnds ==
    ASSUME LoginInv, NEW a \in attempts, attempts' = attempts \ {a},
           UNCHANGED <<attempted, asserted>>,
           account' \in [totp : BOOLEAN, passkey : BOOLEAN, update : BOOLEAN],
           loginSeen' \in {loginSeen, loginSeen \cup {"stuck"}},
           loginForm' \in LoginForms,
           \/ loginForm'.form = "gone"
           \/ /\ loginForm.form # "gone"
              /\ loginForm'.typed = loginForm.typed /\ loginForm'.challenge = loginForm.challenge
              /\ Requires(loginForm') =>
                     \/ Requires(loginForm)
                     \/ loginForm.typed = "right" \/ "together" \in loginSeen
              /\ loginForm'.requirePasskey =>
                     /\ loginForm.requirePasskey
                     /\ \/ loginForm'.inPasskeyLogin = loginForm.inPasskeyLogin
                        \/ "together" \in loginSeen
    PROVE  LoginInv'
<1>1. LoginTypes'
  BY DEF LoginInv, LoginTypes
<1>2. ChallengesAreMade'
  BY DEF LoginInv, ChallengesAreMade
<1>3. OneAttempt'
  <2> SUFFICES ASSUME "together" \notin loginSeen'
               PROVE  OneAttempt'
    BY DEF OneAttempt
  <2>1. attempts' = {} /\ "together" \notin loginSeen
    BY DEF LoginInv, OneAttempt
  <2> QED
    BY <2>1 DEF LoginInv, OneAttempt
<1> QED
  BY <1>1, <1>2, <1>3 DEF LoginInv

\* An attempt goes on to the next step.
LEMMA AttemptGoesOn ==
    ASSUME LoginInv, NEW a \in attempts, NEW b \in Attempts, b.no = a.no,
           attempts' = (attempts \ {a}) \cup {b}, attempted' = attempted,
           account' \in [totp : BOOLEAN, passkey : BOOLEAN, update : BOOLEAN],
           loginForm' \in LoginForms,
           \/ loginForm'.form = "gone"
           \/ \A x \in {"form", "typed", "requireTotp", "requirePasskey", "requirePasswordUpdate",
                        "challenge", "inPasskeyLogin"} : loginForm'[x] = loginForm[x],
           b.at \in {"singleorg", "dialog", "finish", "assert", "settings"},
           b.at = "singleorg" <=> a.at = "org",
           b.at \in {"dialog", "finish"} => a.at \in {"begin", "dialog"},
           IF b.at = "assert"
           THEN /\ a.at = "assertion" /\ asserted' = asserted \cup {a.challenge}
                /\ loginSeen' = loginSeen \cup (IF a.challenge \in asserted THEN {"twice"} ELSE {})
           ELSE UNCHANGED <<asserted, loginSeen>>,
           a.at = "singleorg" => b.at # "settings"
    PROVE  LoginInv'
<1>1. LoginTypes'
  BY DEF LoginInv, LoginTypes
<1>2. ChallengesAreMade'
  <2>1. /\ \A x \in attempts : x.no \in 0 .. attempted
        /\ \A x \in attempts : x.at \notin {"org", "singleorg"} => x.no \in 1 .. attempted
        /\ \A x \in attempts : x.at = "assertion" => x.challenge \in 1 .. attempted
        /\ asserted \subseteq 1 .. attempted
    BY DEF LoginInv, ChallengesAreMade
  <2>2. asserted' \subseteq 1 .. attempted
    BY <2>1
  <2>3. \A x \in attempts' : x \in attempts \/ x = b
    OBVIOUS
  <2>4. /\ b.no \in 0 .. attempted /\ b.at # "assertion"
        /\ b.at \notin {"org", "singleorg"} => b.no \in 1 .. attempted
    BY <2>1
  <2>5. loginForm'.form # "gone" /\ loginForm'.requirePasskey => loginForm'.challenge \in 1 .. attempted
    BY DEF LoginInv, ChallengesAreMade
  <2> QED
    BY <2>1, <2>2, <2>3, <2>4, <2>5 DEF ChallengesAreMade
<1>3. OneAttempt'
  <2> SUFFICES ASSUME "together" \notin loginSeen'
               PROVE  OneAttempt'
    BY DEF OneAttempt
  <2>1. "together" \notin loginSeen /\ attempts' = {b}
    BY DEF LoginInv, OneAttempt
  <2>2. "twice" \notin loginSeen'
    BY <2>1 DEF LoginInv, OneAttempt
  <2> QED
    BY <2>1, <2>2 DEF LoginInv, OneAttempt, Requires
<1> QED
  BY <1>1, <1>2, <1>3 DEF LoginInv

LEMMA AttemptMoves ==
    ASSUME LoginInv, NEW a \in attempts,
           NEW at \in {"singleorg", "dialog", "finish", "assert", "settings"}, Continues(a, at)
    PROVE  \E b \in Attempts : /\ attempts' = (attempts \ {a}) \cup {b} /\ b.no = a.no /\ b.at = at
<1> DEFINE b == [a EXCEPT !.at = at]
<1>1. attempts' = (attempts \ {a}) \cup {b}
  BY DEF Continues
<1>2. b \in Attempts /\ b.no = a.no /\ b.at = at
  BY DEF LoginInv, LoginTypes, Attempts
<1> HIDE DEF b
<1> QED
  BY <1>1, <1>2

\* The login has succeeded.
LEMMA SuccessKeeps ==
    ASSUME LoginInv, NEW a \in attempts, onSuccessfulLogin(a), a.at \notin {"org", "singleorg"},
           UNCHANGED <<attempted, asserted, loginSeen>>,
           account' \in [totp : BOOLEAN, passkey : BOOLEAN, update : BOOLEAN]
    PROVE  LoginInv'
<1>1. PICK b \in Attempts :
         attempts' = (attempts \ {a}) \cup {b} /\ b.no = a.no /\ b.at = "settings"
  BY AttemptMoves DEF onSuccessfulLogin
<1>2. loginForm' \in LoginForms
      /\ \A x \in {"form", "typed", "requireTotp", "requirePasskey", "requirePasswordUpdate",
                   "challenge", "inPasskeyLogin"} : loginForm'[x] = loginForm[x]
  BY DEF LoginInv, LoginTypes, onSuccessfulLogin, LoginForms
<1> QED
  BY <1>1, <1>2, AttemptGoesOn

LEMMA AssertionFailedKeeps ==
    ASSUME LoginInv, NEW a \in attempts, loginForm.form # "gone", assertionFailed(a),
           a.at \in {"assertion", "assert"},
           UNCHANGED <<account, attempted, asserted, loginSeen>>
    PROVE  LoginInv'
<1>1. loginForm \in LoginForms /\ attempts' = attempts \ {a}
  BY DEF LoginInv, LoginTypes, assertionFailed, Over
<1>2. /\ loginForm' \in LoginForms
      /\ loginForm'.typed = loginForm.typed /\ loginForm'.challenge = loginForm.challenge
      /\ loginForm'.form = "gone" \/ ~loginForm'.requirePasskey
  BY <1>1 DEF assertionFailed, Renders, LoginForms
<1>3. Requires(loginForm) \/ "together" \in loginSeen
  BY DEF LoginInv, OneAttempt, Requires
<1>4. account' \in [totp : BOOLEAN, passkey : BOOLEAN, update : BOOLEAN]
  BY DEF LoginInv, LoginTypes
<1> QED
  BY <1>1, <1>2, <1>3, <1>4, AttemptEnds

LEMMA LoginAnswersKeep ==
    ASSUME LoginInv, NEW a \in attempts, loginForm.form # "gone",
           applyOrg(a) \/ checkSingleOrg(a) \/ assertionMade(a)
           \/ assertionAnswered(a) \/ passkeyAnswered(a) \/ settingsLoaded(a)
    PROVE  LoginInv'
<1>1. /\ loginForm \in LoginForms /\ a \in Attempts
      /\ account \in [totp : BOOLEAN, passkey : BOOLEAN, update : BOOLEAN]
  BY DEF LoginInv, LoginTypes
<1>2. CASE applyOrg(a) \/ (checkSingleOrg(a) /\ a.at = "singleorg")
  <2>1. /\ loginForm' \in LoginForms /\ attempts' = attempts \ {a}
        /\ \A x \in {"typed", "requireTotp", "requirePasskey", "requirePasswordUpdate",
                     "challenge", "inPasskeyLogin"} : loginForm'[x] = loginForm[x]
        /\ UNCHANGED <<account, attempted, asserted, loginSeen>>
    BY <1>1, <1>2 DEF applyOrg, checkSingleOrg, Over, LoginForms
  <2>2. Requires(loginForm') => Requires(loginForm)
    BY <2>1 DEF Requires
  <2> QED
    BY <1>1, <2>1, <2>2, AttemptEnds
<1>3. CASE checkSingleOrg(a) /\ a.at # "singleorg"
  <2>1. /\ a.at = "org" /\ Continues(a, "singleorg")
        /\ UNCHANGED <<loginForm, account, attempted, asserted, loginSeen>>
    BY <1>3 DEF checkSingleOrg
  <2>2. PICK b \in Attempts :
           attempts' = (attempts \ {a}) \cup {b} /\ b.no = a.no /\ b.at = "singleorg"
    BY <2>1, AttemptMoves
  <2> QED
    BY <1>1, <2>1, <2>2, AttemptGoesOn
<1>4. CASE assertionMade(a)
  <2>1. CASE Continues(a, "assert") /\ asserted' = asserted \cup {a.challenge}
             /\ Notes(IF a.challenge \in asserted THEN {"twice"} ELSE {}) /\ UNCHANGED loginForm
    <3>1. PICK b \in Attempts :
             attempts' = (attempts \ {a}) \cup {b} /\ b.no = a.no /\ b.at = "assert"
      BY <2>1, AttemptMoves
    <3>2. /\ a.at = "assertion" /\ UNCHANGED <<account, attempted>>
          /\ loginSeen' = loginSeen \cup (IF a.challenge \in asserted THEN {"twice"} ELSE {})
      BY <1>4, <2>1 DEF assertionMade, Notes
    <3> QED
      BY <1>1, <2>1, <3>1, <3>2, AttemptGoesOn
  <2>2. CASE assertionFailed(a) /\ UNCHANGED <<asserted, loginSeen>>
    BY <1>4, <2>2, AssertionFailedKeeps DEF assertionMade
  <2> QED
    BY <1>4, <2>1, <2>2 DEF assertionMade
<1>5. CASE assertionAnswered(a)
  BY <1>1, <1>5, SuccessKeeps, AssertionFailedKeeps DEF assertionAnswered
<1>6. CASE passkeyAnswered(a)
  <2>1. a.at \in {"begin", "dialog", "finish"} /\ UNCHANGED <<account, attempted, asserted, loginSeen>>
    BY <1>6 DEF passkeyAnswered
  <2>2. CASE \E at \in {"dialog", "finish"} : Continues(a, at) /\ UNCHANGED loginForm
                                              /\ a.at \in {"begin", "dialog"}
    <3>1. PICK at \in {"dialog", "finish"} : Continues(a, at) /\ UNCHANGED loginForm
                                              /\ a.at \in {"begin", "dialog"}
      BY <2>2
    <3>2. PICK b \in Attempts :
             attempts' = (attempts \ {a}) \cup {b} /\ b.no = a.no /\ b.at = at
      BY <3>1, AttemptMoves
    <3> QED
      BY <1>1, <2>1, <3>1, <3>2, AttemptGoesOn
  <2>3. CASE onSuccessfulLogin(a)
    BY <1>1, <2>1, <2>3, SuccessKeeps
  <2>4. CASE Over(a) /\ Renders([loginForm EXCEPT !.inPasskeyLogin = FALSE])
    <3>1. /\ loginForm' \in LoginForms /\ attempts' = attempts \ {a}
          /\ loginForm'.form = "gone" \/ \A x \in {"form", "typed", "requireTotp", "requirePasskey",
                "requirePasswordUpdate", "challenge"} : loginForm'[x] = loginForm[x]
      BY <1>1, <2>4 DEF Renders, Over, LoginForms
    <3>2. ~loginForm.requirePasskey \/ "together" \in loginSeen
      BY <2>1 DEF LoginInv, OneAttempt
    <3>3. loginForm'.form = "gone" \/ (Requires(loginForm') => Requires(loginForm))
      BY <3>1 DEF Requires
    <3> QED
      BY <1>1, <2>1, <3>1, <3>2, <3>3, AttemptEnds
  <2> QED
    BY <1>6, <2>2, <2>3, <2>4 DEF passkeyAnswered
<1>7. CASE settingsLoaded(a)
  <2>1. /\ loginForm' \in LoginForms /\ attempts' = attempts \ {a}
        /\ \/ loginForm'.form = "gone" /\ loginSeen' = loginSeen
           \/ loginForm' = loginForm /\ loginSeen' = loginSeen \cup {"stuck"}
        /\ UNCHANGED <<account, attempted, asserted>>
    BY <1>1, <1>7 DEF settingsLoaded, Over, LoginForms, Notes
  <2> QED
    BY <1>1, <2>1, AttemptEnds
<1> QED
  BY <1>2, <1>3, <1>4, <1>5, <1>6, <1>7

LEMMA PasswordAnswersKeep ==
    ASSUME LoginInv, NEW a \in attempts, loginForm.form # "gone", passwordAnswered(a)
    PROVE  LoginInv'
<1>1. /\ loginForm \in LoginForms /\ a \in Attempts
      /\ account \in [totp : BOOLEAN, passkey : BOOLEAN, update : BOOLEAN]
      /\ a.at \in {"login", "updatepw"} /\ UNCHANGED <<attempted, asserted, loginSeen>>
  BY DEF LoginInv, LoginTypes, passwordAnswered
<1>2. CASE passwordRefused(a) /\ UNCHANGED account
  <2>1. /\ loginForm' \in LoginForms /\ attempts' = attempts \ {a}
        /\ loginForm'.form = "gone" \/ \A x \in {"form", "typed", "requireTotp", "requirePasskey",
              "requirePasswordUpdate", "challenge", "inPasskeyLogin"} : loginForm'[x] = loginForm[x]
    BY <1>1, <1>2 DEF passwordRefused, Renders, Over, LoginForms
  <2>2. loginForm'.form = "gone" \/ (Requires(loginForm') => Requires(loginForm))
    BY <2>1 DEF Requires
  <2> QED
    BY <1>1, <1>2, <2>1, <2>2, AttemptEnds
<1>3. CASE onSuccessfulLogin(a) /\ account' = [account EXCEPT !.update = @ /\ a.at # "updatepw"]
  <2>1. account' \in [totp : BOOLEAN, passkey : BOOLEAN, update : BOOLEAN]
    BY <1>1, <1>3
  <2> QED
    BY <1>1, <1>3, <2>1, SuccessKeeps
<1>4. ASSUME loginPassword(a) \in {"update", "totp", "passkey"}
      PROVE  /\ a.at = "login" /\ a.typed = "right"
             /\ loginForm.typed = "right" \/ "together" \in loginSeen
  BY <1>1, <1>4 DEF loginPassword, LoginInv, OneAttempt
<1>5. CASE /\ loginPassword(a) \in {"update", "totp"} /\ Over(a) /\ UNCHANGED account
           /\ \E totp, update \in BOOLEAN :
                 Renders([loginForm EXCEPT !.invalid = FALSE, !.inPasswordSubmit = FALSE,
                            !.requirePasswordUpdate = update, !.requireTotp = totp])
  <2>1. /\ loginForm' \in LoginForms /\ attempts' = attempts \ {a}
        /\ loginForm'.form = "gone" \/ \A x \in {"form", "typed", "requirePasskey",
              "challenge", "inPasskeyLogin"} : loginForm'[x] = loginForm[x]
    <3>0. PICK totp \in BOOLEAN, update \in BOOLEAN :
              Renders([loginForm EXCEPT !.invalid = FALSE, !.inPasswordSubmit = FALSE,
                         !.requirePasswordUpdate = update, !.requireTotp = totp])
      BY <1>5
    <3>1. PICK c : c = [loginForm EXCEPT !.invalid = FALSE, !.inPasswordSubmit = FALSE,
                          !.requirePasswordUpdate = update, !.requireTotp = totp]
      OBVIOUS
    <3>2. /\ c \in LoginForms
          /\ \A x \in {"form", "typed", "requirePasskey", "challenge", "inPasskeyLogin"} :
                c[x] = loginForm[x]
      BY <1>1, <3>1 DEF LoginForms
    <3>3. loginForm' \in {[loginForm EXCEPT !.form = "gone"], c}
      BY <3>0, <3>1 DEF Renders
    <3>4. CASE loginForm' = c
      BY <1>5, <3>2, <3>4 DEF Over
    <3>5. CASE loginForm' = [loginForm EXCEPT !.form = "gone"]
      BY <1>1, <1>5, <3>5 DEF Over, LoginForms
    <3> QED
      BY <3>3, <3>4, <3>5
  <2> QED
    BY <1>1, <1>4, <1>5, <2>1, AttemptEnds
<1>6. CASE /\ loginPassword(a) = "passkey" /\ UNCHANGED account
           /\ attempts' = (attempts \ {a}) \cup {[a EXCEPT !.at = "assertion", !.challenge = a.no]}
           /\ Renders([loginForm EXCEPT !.invalid = FALSE, !.inPasswordSubmit = FALSE,
                          !.requirePasskey = TRUE, !.challenge = a.no,
                          !.allowTotpFallback = account.totp, !.inPasskeyLogin = TRUE])
  <2>1. PICK b \in Attempts : /\ attempts' = (attempts \ {a}) \cup {b} /\ b.no = a.no
                              /\ b.at = "assertion" /\ b.challenge = a.no
    <3> DEFINE b == [a EXCEPT !.at = "assertion", !.challenge = a.no]
    <3>1. attempts' = (attempts \ {a}) \cup {b}
      BY <1>6
    <3>2. b \in Attempts /\ b.no = a.no /\ b.at = "assertion" /\ b.challenge = a.no
      BY <1>1 DEF Attempts
    <3> HIDE DEF b
    <3> QED
      BY <3>1, <3>2
  <2>2. /\ loginForm' \in LoginForms
        /\ loginForm'.form = "gone" \/
              /\ \A x \in {"form", "typed", "requireTotp", "requirePasswordUpdate"} :
                    loginForm'[x] = loginForm[x]
              /\ loginForm'.requirePasskey /\ loginForm'.inPasskeyLogin
              /\ loginForm'.challenge = a.no
    <3>1. a.no \in 0 .. MaxAttempts /\ account.totp \in BOOLEAN
      BY <1>1 DEF Attempts
    <3> QED
      BY <1>1, <1>6, <3>1 DEF Renders, LoginForms
  <2>3. a.no \in 1 .. attempted /\ a.at = "login"
    BY <1>1, <1>4, <1>6 DEF LoginInv, ChallengesAreMade
  <2>4. LoginTypes'
    BY <1>1, <1>6, <2>1, <2>2 DEF LoginInv, LoginTypes
  <2>5. ChallengesAreMade'
    BY <1>1, <2>1, <2>2, <2>3 DEF LoginInv, ChallengesAreMade
  <2>6. OneAttempt'
    <3> SUFFICES ASSUME "together" \notin loginSeen'
                 PROVE  OneAttempt'
      BY DEF OneAttempt
    <3>1. "together" \notin loginSeen /\ attempts' = {b}
      BY <1>1, <2>1 DEF LoginInv, OneAttempt
    <3>2. a.no \notin asserted /\ "twice" \notin loginSeen /\ loginForm.typed = "right"
      BY <1>4, <1>6, <2>3, <3>1 DEF LoginInv, OneAttempt
    <3> QED
      BY <1>1, <2>1, <2>2, <2>3, <3>1, <3>2 DEF OneAttempt, Requires
  <2> QED
    BY <2>4, <2>5, <2>6 DEF LoginInv
<1>7. /\ [[loginForm EXCEPT !.invalid = FALSE, !.inPasswordSubmit = FALSE]
              EXCEPT !.requirePasswordUpdate = TRUE]
            = [loginForm EXCEPT !.invalid = FALSE, !.inPasswordSubmit = FALSE,
                  !.requirePasswordUpdate = TRUE, !.requireTotp = loginForm.requireTotp]
      /\ [[loginForm EXCEPT !.invalid = FALSE, !.inPasswordSubmit = FALSE]
              EXCEPT !.requireTotp = TRUE]
            = [loginForm EXCEPT !.invalid = FALSE, !.inPasswordSubmit = FALSE,
                  !.requirePasswordUpdate = loginForm.requirePasswordUpdate, !.requireTotp = TRUE]
      /\ [[loginForm EXCEPT !.invalid = FALSE, !.inPasswordSubmit = FALSE]
              EXCEPT !.requirePasskey = TRUE, !.challenge = a.no,
                     !.allowTotpFallback = account.totp, !.inPasskeyLogin = TRUE]
            = [loginForm EXCEPT !.invalid = FALSE, !.inPasswordSubmit = FALSE,
                  !.requirePasskey = TRUE, !.challenge = a.no,
                  !.allowTotpFallback = account.totp, !.inPasskeyLogin = TRUE]
      /\ loginForm.requireTotp \in BOOLEAN /\ loginForm.requirePasswordUpdate \in BOOLEAN
  BY <1>1 DEF LoginForms
<1> QED
  BY <1>2, <1>3, <1>5, <1>6, <1>7 DEF passwordAnswered

LEMMA LoginGoesOn ==
    ASSUME LoginInv, [LoginNext]_loginVars
    PROVE  LoginInv'
BY LoginFormKeeps, LoginSubmitsKeep, LoginAnswersKeep, PasswordAnswersKeep
   DEF LoginNext, LoginAnswers, LoginAnswer

LEMMA LoginInvHolds == LoginSpec => []LoginInv
<1>1. LoginInit => LoginInv
  BY LoginBegins
<1>2. LoginInv /\ [LoginNext]_loginVars => LoginInv'
  BY LoginGoesOn
<1> QED
  BY <1>1, <1>2, PTL DEF LoginSpec

\* Whatever is typed, sent, tried again and given up on the login page, the second step of a
\* login belongs to the first, and no challenge is answered twice, unless something was sent
\* while an attempt was out.
THEOREM SecondStepIsOfTheFirst == LoginSpec => []FactorIsOfTheAttempt
<1>1. LoginInv => FactorIsOfTheAttempt
  BY LoginPromise
<1> QED
  BY <1>1, LoginInvHolds, PTL
-----------------------------------------------------------------------------
(* The second factor                                                       *)
AppStates == [isLoading : BOOLEAN, totpEnabled : BOOLEAN, hasPasskeys : BOOLEAN,
              showMfaEncouragement : BOOLEAN, dismissed : BOOLEAN]
Modals == [show : BOOLEAN, setup : Nat, secret : Nat, secretLoading : BOOLEAN,
           submitting : BOOLEAN]
FactorAsks == [no : Nat, kind : RequestKinds, owner : Owners \cup {"gone"},
               x : SUBSET (Nat \cup Passkeys), code : Nat,
               at : {"sent", "counted", "done", "refused"}]
SetupKinds == {"generate", "secret", "validate"}
AskIsTyped(q) ==
    /\ q \in FactorAsks
    /\ q.kind \in SetupKinds => q.x \subseteq 0 .. setups /\ q.code \in 0 .. setups
    /\ q.kind = "generate" => q.x \subseteq 1 .. setups
    /\ q.kind \notin SetupKinds => q.x \subseteq Passkeys
    /\ q.at = "counted" => q.kind = "delete"
    /\ q.kind = "delete" => \E k \in Passkeys : q.x = {k}
ModalsAreTyped ==
    /\ setupModal \in [Owners -> Modals]
    /\ \A o \in Owners : /\ setupModal[o].setup <= setups /\ setupModal[o].secret <= setups
                         /\ setupModal[o].show => setupModal[o].setup # NoSetup
Securities == [open : BOOLEAN, totpEnabled : BOOLEAN, listed : SUBSET Passkeys,
               loading : BOOLEAN, registering : BOOLEAN]
FactorTypes ==
    /\ setups \in Nat /\ factorSent \in Nat
    /\ factor \in [enforced : BOOLEAN, secret : Nat, passkeys : SUBSET Passkeys, begun : SUBSET Nat]
    /\ factor.secret <= setups /\ factor.begun \subseteq 1 .. setups
    /\ INFOS \in [enforceTOTP : BOOLEAN, totpEnabled : BOOLEAN, hasPasskeys : BOOLEAN]
    /\ app \in AppStates /\ ModalsAreTyped /\ security \in Securities
    /\ \A q \in factorRequests : AskIsTyped(q) /\ q.no <= factorSent
    /\ \A q, r \in factorRequests : q.no = r.no => q = r
    /\ factorSeen \subseteq {"together", "reopened", "lost"}

\* The codes that are sent are of secrets that the authenticator has.
CodesAreScanned ==
    /\ NotLockedOut
    /\ \A q \in factorRequests : q.kind = "validate" => q.code \in scanned \cup {NoSetup}

OneFactorChange ==
    "together" \notin factorSeen =>
        \A q, r \in factorRequests : q.kind \in ChangeKinds /\ r.kind \in ChangeKinds => q = r

\* Where one is enforced, no deletion that is under way takes the last factor, and what an
\* answer is about to tell of a factor is so.
FactorStays ==
    factor.enforced /\ "together" \notin factorSeen =>
        /\ EverHadFactor => HasFactor
        /\ \A q \in factorRequests :
              /\ q.at = "done" /\ (q.kind \in {"validate", "register"} \/ (q.kind = "relist" /\ q.x # {}))
                    => HasFactor
              /\ q.at = "counted" => factor.secret # NoSetup \/ factor.passkeys \ q.x # {}

\* INFOS is that of the server, but for what an answer is about to tell it.
TellsTotp(q) == q.at = "done" /\ q.kind \in {"validate", "disable"}
TellsPasskeys(q) == (q.at = "done" /\ q.kind \in {"register", "delete"}) \/ q.kind = "relist"
InfosWait ==
    factorSeen = {} =>
        /\ (\A q \in factorRequests : ~TellsTotp(q)) => (INFOS.totpEnabled <=> factor.secret # NoSetup)
        /\ (\A q \in factorRequests : ~TellsPasskeys(q)) => (INFOS.hasPasskeys <=> factor.passkeys # {})
        /\ \A q \in factorRequests : q.at = "done" =>
              /\ q.kind = "validate" => factor.secret # NoSetup
              /\ q.kind = "disable" => factor.secret = NoSetup
              /\ q.kind = "register" => factor.passkeys # {}
              /\ q.kind = "relist" => (q.x # {} <=> factor.passkeys # {})
FactorWaits == CodesAreScanned /\ OneFactorChange /\ FactorStays /\ InfosWait

\* The list of the preferences is that of the server, but for what an answer is about to add
\* to it or to take from it.
ListIsAsked(q) == q.kind = "list" /\ q.owner = "preferences"
OneListing ==
    /\ ~security.open => \A q \in factorRequests : q.owner # "preferences"
    /\ \A q, r \in factorRequests : ListIsAsked(q) /\ ListIsAsked(r) => q = r
    /\ security.open => (security.loading <=> \E q \in factorRequests : ListIsAsked(q))
Adds(q, k) == q.kind = "register" /\ q.at = "done" /\ k \in q.x
Drops(q, k) == q.kind = "delete" /\ q.at = "done" /\ k \in q.x
ListWaits ==
    /\ \A k \in factor.passkeys \ security.listed : \E q \in factorRequests : Adds(q, k)
    /\ \A k \in security.listed \ factor.passkeys : \E q \in factorRequests : Drops(q, k)
    /\ \A k \in Passkeys, q \in factorRequests :
          /\ Drops(q, k) => k \notin factor.passkeys
          /\ Adds(q, k) =>
                /\ k \in factor.passkeys /\ k \notin security.listed
                /\ \A r \in factorRequests : /\ r.kind = "delete" => k \notin r.x
                                             /\ Adds(r, k) => r = q
ListingWaits ==
    security.open /\ factorSeen \subseteq {"together"} =>
        /\ \A q \in factorRequests :
              /\ q.kind \in {"register", "delete"} => q.owner = "preferences" /\ ~security.loading
              /\ ListIsAsked(q) /\ q.at = "done" => q.x = factor.passkeys
        /\ ~security.loading => ListWaits

FactorInv == FactorTypes /\ FactorWaits /\ OneListing /\ ListingWaits

LEMMA FactorPromise ==
    ASSUME FactorInv
    PROVE  SecondFactorTypeOK /\ FactorsKept
<1>1. SecondFactorTypeOK
  <2>1. /\ setups \in Nat /\ factor.secret \in 0 .. setups /\ factor.begun \subseteq 0 .. setups
        /\ \A o \in Owners : setupModal[o].setup \in 0 .. setups /\ setupModal[o].secret \in 0 .. setups
    BY DEF FactorInv, FactorTypes, ModalsAreTyped, Modals
  <2>2. factor \in [enforced : BOOLEAN, secret : Setups, passkeys : SUBSET Passkeys, begun : SUBSET Setups]
    BY <2>1 DEF FactorInv, FactorTypes, Setups
  <2>3. setupModal \in [Owners -> [show : BOOLEAN, setup : Setups, secret : Setups,
                                   secretLoading : BOOLEAN, submitting : BOOLEAN]]
    BY <2>1 DEF FactorInv, FactorTypes, ModalsAreTyped, Setups, Modals
  <2>4. security.listed \subseteq Passkeys
    BY DEF FactorInv, FactorTypes, Securities
  <2>5. \A o \in Owners : setupModal[o].show => setupModal[o].setup # NoSetup
    BY DEF FactorInv, FactorTypes, ModalsAreTyped
  <2> QED
    BY <2>2, <2>3, <2>4, <2>5 DEF FactorInv, FactorTypes, SecondFactorTypeOK, AppStates
<1>2. NotLockedOut
  BY DEF FactorInv, FactorWaits, CodesAreScanned
<1>3. LastFactorStays
  BY DEF FactorInv, FactorWaits, FactorStays, LastFactorStays
<1>4. FactorsAgree
  <2> SUFFICES ASSUME factorSeen = {}, \A q \in factorRequests : q.kind \notin ChangeKinds
               PROVE  /\ INFOS.totpEnabled = (factor.secret # NoSetup)
                      /\ INFOS.hasPasskeys = (factor.passkeys # {})
    BY DEF FactorsAgree
  <2>1. \A q \in factorRequests : ~TellsTotp(q) /\ ~TellsPasskeys(q)
    BY DEF TellsTotp, TellsPasskeys, ChangeKinds
  <2>2. INFOS.totpEnabled \in BOOLEAN /\ INFOS.hasPasskeys \in BOOLEAN
    BY DEF FactorInv, FactorTypes
  <2>3. /\ INFOS.totpEnabled <=> factor.secret # NoSetup
        /\ INFOS.hasPasskeys <=> factor.passkeys # {}
    BY <2>1 DEF FactorInv, FactorWaits, InfosWait
  <2> QED
    BY <2>2, <2>3
<1>5. PasskeysListed
  <2> SUFFICES ASSUME security.open, factorSeen \subseteq {"together"},
                      \A q \in factorRequests : q.kind \notin {"register", "delete", "list"}
               PROVE  security.listed = factor.passkeys
    BY DEF PasskeysListed
  <2>1. \A q \in factorRequests : ~ListIsAsked(q) /\ \A k : ~Adds(q, k) /\ ~Drops(q, k)
    BY DEF ListIsAsked, Adds, Drops
  <2>2. ~security.loading
    BY <2>1 DEF FactorInv, OneListing
  <2>3. /\ \A k \in factor.passkeys \ security.listed : \E q \in factorRequests : Adds(q, k)
        /\ \A k \in security.listed \ factor.passkeys : \E q \in factorRequests : Drops(q, k)
    BY <2>2 DEF FactorInv, ListingWaits, ListWaits
  <2> QED
    BY <2>1, <2>3
<1> QED
  BY <1>1, <1>2, <1>3, <1>4, <1>5 DEF FactorsKept

LEMMA FactorBegins ==
    ASSUME SecondFactorInit
    PROVE  FactorInv
<1>1. PICK enforce \in BOOLEAN, totp \in BOOLEAN, keys \in SUBSET Passkeys :
        /\ factor = [enforced |-> enforce, secret |-> IF totp THEN 1 ELSE NoSetup,
                     passkeys |-> keys, begun |-> {}]
        /\ setups = (IF totp THEN 1 ELSE 0) /\ scanned = (IF totp THEN {1} ELSE {})
        /\ INFOS = [enforceTOTP |-> enforce, totpEnabled |-> totp, hasPasskeys |-> keys # {}]
        /\ app = [isLoading |-> TRUE, totpEnabled |-> FALSE, hasPasskeys |-> FALSE,
                  showMfaEncouragement |-> FALSE, dismissed |-> FALSE]
        /\ setupModal = [o \in Owners |-> HiddenModal] /\ security = NoSettings
        /\ factorRequests = {} /\ factorSent = 0 /\ factorSeen = {}
  BY DEF SecondFactorInit
<1>2. /\ factor.enforced = enforce /\ factor.passkeys = keys /\ factor.begun = {}
      /\ factor.secret = setups /\ setups \in Nat /\ setups \in {0, 1} /\ (setups = 1 <=> totp)
      /\ INFOS.totpEnabled = totp /\ (INFOS.hasPasskeys <=> keys # {}) /\ ~security.open
      /\ factor \in [enforced : BOOLEAN, secret : Nat, passkeys : SUBSET Passkeys, begun : SUBSET Nat]
      /\ scanned = IF totp THEN {1} ELSE {}
  <2>1. PICK secret \in {0, 1} : secret = (IF totp THEN 1 ELSE NoSetup)
    BY DEF NoSetup
  <2>2. factor = [enforced |-> enforce, secret |-> secret, passkeys |-> keys, begun |-> {}]
    BY <1>1, <2>1
  <2>3. setups = secret /\ (secret = 1 <=> totp)
    BY <1>1, <2>1 DEF NoSetup
  <2>4. /\ factor.enforced = enforce /\ factor.passkeys = keys /\ factor.begun = {}
        /\ factor.secret = secret
        /\ factor \in [enforced : BOOLEAN, secret : Nat, passkeys : SUBSET Passkeys, begun : SUBSET Nat]
    BY <2>2
  <2>5. INFOS.totpEnabled = totp /\ (INFOS.hasPasskeys <=> keys # {})
    BY <1>1
  <2>6. ~security.open /\ scanned = IF totp THEN {1} ELSE {}
    BY <1>1 DEF NoSettings
  <2> QED
    BY <2>3, <2>4, <2>5, <2>6
<1>3. FactorTypes
  <2>1. HiddenModal \in Modals /\ ~HiddenModal.show /\ HiddenModal.setup = 0 /\ HiddenModal.secret = 0
    BY DEF HiddenModal, Modals, NoSetup
  <2>2. setupModal \in [Owners -> Modals] /\ \A o \in Owners : setupModal[o] = HiddenModal
    BY <1>1, <2>1
  <2>3. INFOS \in [enforceTOTP : BOOLEAN, totpEnabled : BOOLEAN, hasPasskeys : BOOLEAN]
    <3>1. (keys # {}) \in BOOLEAN
      OBVIOUS
    <3> QED
      BY <1>1, <3>1
  <2>4. security \in Securities
    BY <1>1 DEF NoSettings, Securities
  <2>5. app \in AppStates
    BY <1>1 DEF AppStates
  <2>6. 0 <= setups
    BY <1>2
  <2>7. factor.secret <= setups /\ factor.begun \subseteq 1 .. setups
    BY <1>2
  <2>8. \A o \in Owners : /\ setupModal[o].setup <= setups /\ setupModal[o].secret <= setups
                          /\ setupModal[o].show => setupModal[o].setup # NoSetup
    BY <2>1, <2>2, <2>6
  <2> QED
    BY <1>1, <1>2, <2>2, <2>3, <2>4, <2>5, <2>7, <2>8 DEF FactorTypes, ModalsAreTyped
<1>4. FactorWaits
  <2>1. NotLockedOut
    BY <1>2 DEF NotLockedOut, NoSetup
  <2>2. EverHadFactor => HasFactor
    BY <1>2 DEF EverHadFactor, HasFactor, NoSetup
  <2>3. INFOS.totpEnabled <=> factor.secret # NoSetup
    BY <1>2 DEF NoSetup
  <2> QED
    BY <1>1, <1>2, <2>1, <2>2, <2>3
       DEF FactorWaits, CodesAreScanned, OneFactorChange, FactorStays, InfosWait
<1> QED
  BY <1>1, <1>2, <1>3, <1>4 DEF FactorInv, OneListing, ListingWaits

-----------------------------------------------------------------------------
\* What says nothing of a factor leaves alone what is said of them.
Alike(q, p) == /\ q.no = p.no /\ q.kind = p.kind /\ q.x = p.x /\ q.code = p.code
               /\ q.at = p.at \/ (q.at = "refused" /\ p.at # "done")
SameChanges ==
    /\ \A q \in factorRequests' : q.kind \in ChangeKinds => \E p \in factorRequests : Alike(q, p)
    /\ \A p \in factorRequests : p.kind \in ChangeKinds => \E q \in factorRequests' : Alike(q, p)

LEMMA FactorWaitsOn ==
    ASSUME FactorInv, FactorTypes', SameChanges, INFOS' = INFOS, scanned \subseteq scanned',
           \A x \in {"enforced", "secret", "passkeys"} : factor'[x] = factor[x],
           factorSeen \subseteq factorSeen'
    PROVE  FactorWaits'
<1>1. \A q \in factorRequests' : q.kind \in ChangeKinds => \E p \in factorRequests : Alike(q, p)
  BY DEF SameChanges
<1>2. CodesAreScanned'
  <2>1. NotLockedOut'
    BY DEF FactorInv, FactorWaits, CodesAreScanned, NotLockedOut
  <2>2. ASSUME NEW q \in factorRequests', q.kind = "validate"
        PROVE  q.code \in scanned' \cup {NoSetup}
    <3>1. PICK p \in factorRequests : Alike(q, p)
      BY <1>1, <2>2 DEF ChangeKinds
    <3> QED
      BY <2>2, <3>1 DEF FactorInv, FactorWaits, CodesAreScanned, Alike
  <2> QED
    BY <2>1, <2>2 DEF CodesAreScanned
<1>3. OneFactorChange'
  <2> SUFFICES ASSUME "together" \notin factorSeen', NEW q \in factorRequests', NEW r \in factorRequests',
                      q.kind \in ChangeKinds, r.kind \in ChangeKinds
               PROVE  q = r
    BY DEF OneFactorChange
  <2>1. PICK p \in factorRequests : Alike(q, p)
    BY <1>1
  <2>2. PICK s \in factorRequests : Alike(r, s)
    BY <1>1
  <2>3. p = s
    BY <2>1, <2>2 DEF FactorInv, FactorWaits, OneFactorChange, Alike
  <2>4. q.no = r.no
    BY <2>1, <2>2, <2>3 DEF Alike
  <2> QED
    BY <2>4 DEF FactorTypes
<1>4. FactorStays'
  <2> SUFFICES ASSUME factor.enforced, "together" \notin factorSeen'
               PROVE  FactorStays'
    BY DEF FactorStays
  <2>1. EverHadFactor' = EverHadFactor /\ HasFactor' = HasFactor
    BY DEF EverHadFactor, HasFactor
  <2>2. ASSUME NEW q \in factorRequests'
        PROVE  /\ q.at = "done" /\ (q.kind \in {"validate", "register"} \/ (q.kind = "relist" /\ q.x # {}))
                    => HasFactor
               /\ q.at = "counted" => factor.secret # NoSetup \/ factor.passkeys \ q.x # {}
    <3>1. q.at = "counted" => q.kind = "delete"
      BY DEF FactorTypes, AskIsTyped
    <3>2. CASE q.kind \in ChangeKinds
      <4>1. PICK p \in factorRequests : Alike(q, p)
        BY <1>1, <3>2
      <4> QED
        BY <4>1 DEF FactorInv, FactorWaits, FactorStays, Alike
    <3> QED
      BY <3>1, <3>2 DEF ChangeKinds
  <2>3. EverHadFactor => HasFactor
    BY DEF FactorInv, FactorWaits, FactorStays
  <2> HIDE DEF EverHadFactor, HasFactor
  <2> QED
    BY <2>1, <2>2, <2>3 DEF FactorStays
<1>5. InfosWait'
  <2> SUFFICES ASSUME factorSeen' = {}
               PROVE  InfosWait'
    BY DEF InfosWait
  <2>1. ASSUME \A q \in factorRequests' : ~TellsTotp(q)
        PROVE  INFOS.totpEnabled <=> factor.secret # NoSetup
    <3>1. \A p \in factorRequests : ~TellsTotp(p)
      BY <2>1 DEF SameChanges, TellsTotp, Alike, ChangeKinds
    <3> QED
      BY <3>1 DEF FactorInv, FactorWaits, InfosWait
  <2>2. ASSUME \A q \in factorRequests' : ~TellsPasskeys(q)
        PROVE  INFOS.hasPasskeys <=> factor.passkeys # {}
    <3>1. \A p \in factorRequests : ~TellsPasskeys(p)
      BY <2>2 DEF SameChanges, TellsPasskeys, Alike, ChangeKinds
    <3> QED
      BY <3>1 DEF FactorInv, FactorWaits, InfosWait
  <2>3. ASSUME NEW q \in factorRequests', q.at = "done"
        PROVE  /\ q.kind = "validate" => factor.secret # NoSetup
               /\ q.kind = "disable" => factor.secret = NoSetup
               /\ q.kind = "register" => factor.passkeys # {}
               /\ q.kind = "relist" => (q.x # {} <=> factor.passkeys # {})
    <3>1. CASE q.kind \in ChangeKinds
      <4>1. PICK p \in factorRequests : Alike(q, p)
        BY <1>1, <3>1
      <4> QED
        BY <2>3, <4>1 DEF FactorInv, FactorWaits, InfosWait, Alike
    <3> QED
      BY <3>1 DEF ChangeKinds
  <2>4. /\ factor'.secret = factor.secret /\ factor'.passkeys = factor.passkeys
    OBVIOUS
  <2>5. /\ (\A q \in factorRequests' : ~TellsTotp(q)') => \A q \in factorRequests' : ~TellsTotp(q)
        /\ (\A q \in factorRequests' : ~TellsPasskeys(q)') => \A q \in factorRequests' : ~TellsPasskeys(q)
    BY DEF TellsTotp, TellsPasskeys
  <2> HIDE DEF TellsTotp, TellsPasskeys
  <2> QED
    BY <2>1, <2>2, <2>3, <2>4, <2>5 DEF InfosWait
<1> QED
  BY <1>2, <1>3, <1>4, <1>5 DEF FactorWaits

-----------------------------------------------------------------------------
\* The app renders: what it asks for beyond what is left is a setup of its own.
LEMMA NumbersGrow ==
    \A s, own, n \in Nat : /\ s + own + n \in Nat /\ s + own <= s + own + n
                           /\ \A i \in 1 .. n : /\ s + own + i \in Nat /\ s + own + i <= s + own + n
                                                /\ ~(s + own + i <= s + own)
                           /\ \A i, j \in 1 .. n : s + own + i = s + own + j => i = j
                           /\ \A m \in Nat : m <= s + own => m <= s + own + n
OBVIOUS

AskedByApp(q) == q.kind = "generate" /\ q.owner = "app" /\ q.at = "sent"

LEMMA FactorRenders ==
    ASSUME FactorTypes, NEW a \in AppStates, NEW checks \in Nat, NEW left, NEW own \in {0, 1},
           AppRenders(a, checks, left),
           INFOS' \in [enforceTOTP : BOOLEAN, totpEnabled : BOOLEAN, hasPasskeys : BOOLEAN],
           setups' \in Nat,
           \A q \in left : AskIsTyped(q)' /\ q.no <= factorSent + own,
           \A q, r \in left : q.no = r.no => q = r,
           own = 1 <=> \E q \in left : q.no = factorSent + 1
    PROVE  /\ app' \in AppStates /\ factorSent' \in Nat
           /\ \A q \in factorRequests' : AskIsTyped(q)' /\ q.no <= factorSent'
           /\ \A q, r \in factorRequests' : q.no = r.no => q = r
           /\ left \subseteq factorRequests'
           /\ \A q \in factorRequests' : q \in left \/ AskedByApp(q)
<1> DEFINE stale == <<a.totpEnabled, a.hasPasskeys>> # <<INFOS'.totpEnabled, INFOS'.hasPasskeys>>
<1>1. PICK n \in Nat : n = checks + IF stale THEN 1 ELSE 0
  OBVIOUS
<1>2. PICK more \in Nat : more = IF NeedsSetup' THEN n ELSE 0
  BY <1>1
<1>3. own = IF \E q \in left : q.no = factorSent + 1 THEN 1 ELSE 0
  OBVIOUS
<1> DEFINE Later(i) == FactorRequest(factorSent + own + i, "generate", "app", {})
<1>4. /\ app' = [a EXCEPT !.totpEnabled = INFOS'.totpEnabled,
                          !.hasPasskeys = INFOS'.hasPasskeys,
                          !.showMfaEncouragement = @ \/ (n > 0 /\ Encourages' /\ ~a.dismissed)]
      /\ factorRequests' = left \cup {Later(i) : i \in 1 .. more}
      /\ factorSent' = factorSent + own + more
  BY <1>1, <1>2, <1>3, Zenon DEF AppRenders
<1>5. app' \in AppStates
  <2>1. PICK encouraged \in BOOLEAN :
           encouraged = (a.showMfaEncouragement \/ (n > 0 /\ Encourages' /\ ~a.dismissed))
    OBVIOUS
  <2>2. app' = [a EXCEPT !.totpEnabled = INFOS'.totpEnabled, !.hasPasskeys = INFOS'.hasPasskeys,
                         !.showMfaEncouragement = encouraged]
    BY <1>4, <2>1
  <2> QED
    BY <2>2 DEF AppStates
<1>6. factorSent \in Nat /\ own \in Nat
  BY DEF FactorTypes
<1>7. factorSent' \in Nat
  BY <1>2, <1>4, <1>6
<1>8. \A i \in 1 .. more : \A r : r = Later(i) =>
         r.no = factorSent + own + i /\ AskedByApp(r) /\ AskIsTyped(r)'
  <2> SUFFICES ASSUME NEW i \in 1 .. more, NEW r, r = Later(i)
               PROVE  r.no = factorSent + own + i /\ AskedByApp(r) /\ AskIsTyped(r)'
    OBVIOUS
  <2>1. factorSent + own + i \in Nat
    BY <1>2, <1>6, NumbersGrow
  <2>2. PICK no \in Nat : no = factorSent + own + i
    BY <2>1
  <2>3. r = [no |-> no, kind |-> "generate", owner |-> "app", x |-> {}, code |-> 0, at |-> "sent"]
    BY <2>2 DEF FactorRequest, NoSetup
  <2>4. r \in FactorAsks
    BY <2>2, <2>3 DEF FactorAsks, RequestKinds, Owners
  <2>5. 0 \in 0 .. setups'
    OBVIOUS
  <2>6. AskIsTyped(r)'
    BY <2>3, <2>4, <2>5 DEF AskIsTyped
  <2>7. r.no = no /\ AskedByApp(r)
    BY <2>3 DEF AskedByApp
  <2> HIDE DEF Later
  <2> QED
    BY <2>2, <2>6, <2>7
<1> HIDE DEF Later, stale
<1>9. \A q \in left : q.no \in Nat
  BY DEF AskIsTyped, FactorAsks
<1>10. \A q \in factorRequests' : AskIsTyped(q)' /\ q.no <= factorSent'
  BY <1>2, <1>4, <1>6, <1>8, <1>9, NumbersGrow
<1>11. \A q, r \in factorRequests' : q.no = r.no => q = r
  <2> SUFFICES ASSUME NEW q \in factorRequests', NEW r \in factorRequests', q.no = r.no
               PROVE  q = r
    OBVIOUS
  <2>1. ASSUME NEW i \in 1 .. more, NEW s \in left
        PROVE  Later(i).no # s.no
    BY <1>2, <1>6, <1>8, <1>9, NumbersGrow
  <2>2. ASSUME NEW i \in 1 .. more, NEW j \in 1 .. more, Later(i).no = Later(j).no
        PROVE  i = j
    BY <1>2, <1>6, <1>8, <2>2, NumbersGrow
  <2> QED
    BY <1>4, <2>1, <2>2
<1> QED
  BY <1>4, <1>5, <1>7, <1>8, <1>10, <1>11


\* What leaves the requests of the preferences as they are leaves its list as it is.
Listed(q) == q.kind \in {"register", "delete"} \/ ListIsAsked(q)
SameFor(q, p) == /\ q.no = p.no /\ q.kind = p.kind /\ q.owner = p.owner /\ q.x = p.x
                 /\ q.at = "done" <=> p.at = "done"
SameLists ==
    /\ \A q \in factorRequests' : Listed(q) => \E p \in factorRequests : SameFor(q, p)
    /\ \A p \in factorRequests : Listed(p) => \E q \in factorRequests' : SameFor(q, p)

LEMMA ListsWaitOn ==
    ASSUME FactorTypes', OneListing, ListingWaits, factor'.passkeys = factor.passkeys,
           \A x \in {"open", "listed", "loading"} : security'[x] = security[x],
           factorSeen \subseteq factorSeen', SameLists,
           \A q \in factorRequests' : q.owner = "preferences" => security.open
    PROVE  OneListing' /\ ListingWaits'
<1>1. \A q \in factorRequests' : Listed(q) => \E p \in factorRequests : SameFor(q, p)
  BY DEF SameLists
<1>2. \A p \in factorRequests : Listed(p) => \E q \in factorRequests' : SameFor(q, p)
  BY DEF SameLists
<1>3. \A q, r \in factorRequests' : q.no = r.no => q = r
  BY DEF FactorTypes
<1>4. /\ security'.open = security.open /\ security'.listed = security.listed
      /\ security'.loading = security.loading
  OBVIOUS
<1>5. OneListing'
  <2>1. ASSUME NEW q \in factorRequests', NEW r \in factorRequests', ListIsAsked(q), ListIsAsked(r)
        PROVE  q = r
    <3>1. PICK p \in factorRequests : SameFor(q, p)
      BY <1>1, <2>1 DEF ListIsAsked, Listed
    <3>2. PICK s \in factorRequests : SameFor(r, s)
      BY <1>1, <2>1 DEF ListIsAsked, Listed
    <3>3. p = s
      BY <2>1, <3>1, <3>2 DEF OneListing, ListIsAsked, SameFor
    <3> QED
      BY <1>3, <3>1, <3>2, <3>3 DEF SameFor
  <2>2. (\E q \in factorRequests' : ListIsAsked(q)) => (\E q \in factorRequests : ListIsAsked(q))
    BY <1>1 DEF ListIsAsked, Listed, SameFor
  <2>3. (\E q \in factorRequests : ListIsAsked(q)) => (\E q \in factorRequests' : ListIsAsked(q))
    BY <1>2 DEF ListIsAsked, Listed, SameFor
  <2>4. ~security.open => \A q \in factorRequests' : q.owner # "preferences"
    OBVIOUS
  <2> QED
    BY <1>4, <2>1, <2>2, <2>3, <2>4 DEF OneListing, ListIsAsked
<1>6. ListingWaits'
  <2> SUFFICES ASSUME security.open, factorSeen' \subseteq {"together"}
               PROVE  ListingWaits'
    BY DEF ListingWaits
  <2>1. \A q \in factorRequests' :
           /\ q.kind \in {"register", "delete"} => q.owner = "preferences" /\ ~security.loading
           /\ ListIsAsked(q) /\ q.at = "done" => q.x = factor.passkeys
    BY <1>1 DEF ListingWaits, ListIsAsked, Listed, SameFor
  <2>2. ASSUME ~security.loading
        PROVE  ListWaits'
    <3>1. ListWaits
      BY <2>2 DEF ListingWaits
    <3>2. ASSUME NEW k \in factor.passkeys \ security.listed
          PROVE  \E q \in factorRequests' : Adds(q, k)
      <4>1. PICK q \in factorRequests : Adds(q, k)
        BY <3>1 DEF ListWaits
      <4> QED
        BY <1>2, <4>1 DEF Adds, Listed, SameFor
    <3>3. ASSUME NEW k \in security.listed \ factor.passkeys
          PROVE  \E q \in factorRequests' : Drops(q, k)
      <4>1. PICK q \in factorRequests : Drops(q, k)
        BY <3>1 DEF ListWaits
      <4> QED
        BY <1>2, <4>1 DEF Drops, Listed, SameFor
    <3>4. ASSUME NEW k \in Passkeys, NEW q \in factorRequests', Drops(q, k)
          PROVE  k \notin factor.passkeys
      <4>1. PICK p \in factorRequests : SameFor(q, p)
        BY <1>1, <3>4 DEF Drops, Listed
      <4>2. Drops(p, k)
        BY <3>4, <4>1 DEF Drops, SameFor
      <4> QED
        BY <3>1, <4>2 DEF ListWaits
    <3>5. ASSUME NEW k \in Passkeys, NEW q \in factorRequests', Adds(q, k)
          PROVE  /\ k \in factor.passkeys /\ k \notin security.listed
                 /\ \A r \in factorRequests' : /\ r.kind = "delete" => k \notin r.x
                                               /\ Adds(r, k) => r = q
      <4>1. PICK p \in factorRequests : SameFor(q, p)
        BY <1>1, <3>5 DEF Adds, Listed
      <4>2. Adds(p, k)
        BY <3>5, <4>1 DEF Adds, SameFor
      <4>3. /\ k \in factor.passkeys /\ k \notin security.listed
            /\ \A r \in factorRequests : /\ r.kind = "delete" => k \notin r.x
                                         /\ Adds(r, k) => r = p
        BY <3>1, <4>2 DEF ListWaits
      <4>4. ASSUME NEW r \in factorRequests', r.kind = "delete"
            PROVE  k \notin r.x
        BY <1>1, <4>3, <4>4 DEF Listed, SameFor
      <4>5. ASSUME NEW r \in factorRequests', Adds(r, k)
            PROVE  r = q
        <5>1. PICK s \in factorRequests : SameFor(r, s)
          BY <1>1, <4>5 DEF Adds, Listed
        <5>2. s = p
          BY <4>3, <4>5, <5>1 DEF Adds, SameFor
        <5> QED
          BY <1>3, <4>1, <5>1, <5>2 DEF SameFor
      <4> QED
        BY <4>3, <4>4, <4>5
    <3> QED
      BY <1>4, <3>2, <3>3, <3>4, <3>5 DEF ListWaits, Adds, Drops
  <2> QED
    BY <1>4, <2>1, <2>2 DEF ListingWaits, ListIsAsked
<1> QED
  BY <1>5, <1>6

-----------------------------------------------------------------------------
\* A step that neither changes a factor nor tells of one, nor touches the list.
Quiet == /\ \A x \in {"enforced", "secret", "passkeys"} : factor'[x] = factor[x]
         /\ INFOS' = INFOS /\ scanned \subseteq scanned' /\ factorSeen \subseteq factorSeen'
         /\ \A x \in {"open", "listed", "loading"} : security'[x] = security[x]

LEMMA QuietStep ==
    ASSUME FactorInv, FactorTypes', Quiet, SameChanges, SameLists,
           \A q \in factorRequests' : q.owner = "preferences" => security.open
    PROVE  FactorInv'
<1>1. FactorWaits'
  BY FactorWaitsOn DEF Quiet
<1>2. OneListing' /\ ListingWaits'
  <2>1. factor'.passkeys = factor.passkeys
    BY DEF Quiet
  <2> QED
    BY <2>1, ListsWaitOn DEF Quiet, FactorInv
<1> QED
  BY <1>1, <1>2 DEF FactorInv

\* The requests of another kind do not matter.
LEMMA OtherRequests ==
    ASSUME \A q : q \in factorRequests' /\ q \notin factorRequests =>
                      q.kind \in {"generate", "secret", "list"},
           \A q : q \in factorRequests /\ q \notin factorRequests' =>
                      q.kind \in {"generate", "secret", "list"}
    PROVE  SameChanges
BY DEF SameChanges, Alike, ChangeKinds

LEMMA OtherThanListed ==
    ASSUME \A q : q \in factorRequests' /\ q \notin factorRequests => ~Listed(q),
           \A q : q \in factorRequests /\ q \notin factorRequests' => ~Listed(q)
    PROVE  SameLists
BY DEF SameLists, SameFor

LEMMA SettledOwners ==
    ASSUME FactorInv
    PROVE  \A q \in factorRequests : q.owner = "preferences" => security.open
BY DEF FactorInv, OneListing

LEMMA NotYetSent ==
    ASSUME FactorTypes
    PROVE  /\ ~\E q \in factorRequests : q.no = factorSent + 1
           /\ \A q \in factorRequests : q.no <= factorSent + 0 /\ q.no <= factorSent + 1
           /\ factorSent + 1 \in Nat
<1>1. \A q \in factorRequests : q.no \in Nat /\ q.no <= factorSent
  BY DEF FactorTypes, AskIsTyped, FactorAsks
<1>2. factorSent \in Nat
  BY DEF FactorTypes
<1> QED
  BY <1>1, <1>2

\* The app renders and asks for nothing but setups of its own.
LEMMA RendersQuietly ==
    ASSUME FactorInv, NEW a \in AppStates, NEW checks \in Nat,
           AppRenders(a, checks, factorRequests),
           UNCHANGED <<factorServer, INFOS, setupModal, security, scanned, factorSeen>>
    PROVE  FactorInv'
<1>1. FactorTypes
  BY DEF FactorInv
<1>2. /\ factor' = factor /\ setups' = setups /\ INFOS' = INFOS /\ setupModal' = setupModal
      /\ security' = security /\ scanned' = scanned /\ factorSeen' = factorSeen
  BY DEF factorServer
<1>3. \A q \in factorRequests : AskIsTyped(q)'
  BY <1>1, <1>2 DEF FactorTypes, AskIsTyped
<1>4. /\ app' \in AppStates /\ factorSent' \in Nat
      /\ \A q \in factorRequests' : AskIsTyped(q)' /\ q.no <= factorSent'
      /\ \A q, r \in factorRequests' : q.no = r.no => q = r
      /\ factorRequests \subseteq factorRequests'
      /\ \A q \in factorRequests' : q \in factorRequests \/ AskedByApp(q)
  <2>1. INFOS' \in [enforceTOTP : BOOLEAN, totpEnabled : BOOLEAN, hasPasskeys : BOOLEAN] /\ setups' \in Nat
    BY <1>1, <1>2 DEF FactorTypes
  <2>2. \A q, r \in factorRequests : q.no = r.no => q = r
    BY <1>1 DEF FactorTypes
  <2>3. 0 \in {0, 1} /\ (0 = 1 <=> \E q \in factorRequests : q.no = factorSent + 1)
    BY <1>1, NotYetSent
  <2>4. \A q \in factorRequests : AskIsTyped(q)' /\ q.no <= factorSent + 0
    BY <1>1, <1>3, NotYetSent
  <2> QED
    BY <1>1, <2>1, <2>2, <2>3, <2>4, FactorRenders
<1>5. FactorTypes'
  BY <1>1, <1>2, <1>4 DEF FactorTypes, ModalsAreTyped
<1>6. SameChanges /\ SameLists
  BY <1>4, OtherRequests, OtherThanListed DEF AskedByApp, Listed, ListIsAsked
<1>7. \A q \in factorRequests' : q.owner = "preferences" => security.open
  BY <1>4, SettledOwners DEF AskedByApp
<1> QED
  BY <1>2, <1>5, <1>6, <1>7, QuietStep DEF Quiet

-----------------------------------------------------------------------------
\* What is sent next.
LEMMA NextIsTyped ==
    ASSUME FactorTypes, setups' \in Nat, NEW kind \in RequestKinds, NEW owner \in Owners \cup {"gone"},
           NEW x \in SUBSET (Nat \cup Passkeys), NEW code \in 0 .. setups', NEW r,
           r = [no |-> factorSent + 1, kind |-> kind, owner |-> owner, x |-> x, code |-> code,
                at |-> "sent"],
           kind \in SetupKinds => x \subseteq 0 .. setups',
           kind = "generate" => x \subseteq 1 .. setups',
           kind \notin SetupKinds => x \subseteq Passkeys,
           kind = "delete" => \E k \in Passkeys : x = {k}
    PROVE  /\ r.no = factorSent + 1 /\ r.kind = kind /\ r.owner = owner /\ r.x = x
           /\ r.code = code /\ r.at = "sent" /\ AskIsTyped(r)'
<1>1. PICK no \in Nat : no = factorSent + 1
  BY NotYetSent
<1>2. r = [no |-> no, kind |-> kind, owner |-> owner, x |-> x, code |-> code, at |-> "sent"]
  BY <1>1
<1>3. code \in Nat
  OBVIOUS
<1>4. r \in FactorAsks
  BY <1>2, <1>3 DEF FactorAsks
<1>5. /\ r.no = no /\ r.kind = kind /\ r.owner = owner /\ r.x = x /\ r.code = code /\ r.at = "sent"
  BY <1>2
<1>6. AskIsTyped(r)'
  BY <1>4, <1>5 DEF AskIsTyped
<1> QED
  BY <1>1, <1>5, <1>6

LEMMA RequestIsThis ==
    \A kind, owner, x : NextRequest(kind, owner, x) =
        [no |-> factorSent + 1, kind |-> kind, owner |-> owner, x |-> x, code |-> 0, at |-> "sent"]
BY DEF NextRequest, FactorRequest, NoSetup

\* The preferences open: nothing waits for them, and the list is asked for.
LEMMA OpensRendering ==
    ASSUME FactorInv, ~security.open, OpensPreferences, NEW a \in AppStates, NEW checks \in Nat,
           AppRenders(a, checks, factorRequests \cup {Lists}), UNCHANGED <<factorServer, INFOS, scanned>>
    PROVE  FactorInv'
<1>1. FactorTypes
  BY DEF FactorInv
<1>2. /\ factor' = factor /\ setups' = setups /\ INFOS' = INFOS /\ scanned' = scanned
      /\ setups' \in Nat
  BY <1>1 DEF factorServer, FactorTypes
<1>3. PICK r : /\ r = Lists /\ r.no = factorSent + 1 /\ r.kind = "list" /\ r.owner = "preferences"
               /\ r.at = "sent" /\ AskIsTyped(r)'
  <2>1. PICK r : r = Lists
    OBVIOUS
  <2>2. r = [no |-> factorSent + 1, kind |-> "list", owner |-> "preferences", x |-> {}, code |-> 0,
             at |-> "sent"]
    BY <2>1, RequestIsThis DEF Lists
  <2>3. "list" \in RequestKinds /\ "list" \notin SetupKinds /\ "preferences" \in Owners \cup {"gone"}
    BY DEF RequestKinds, SetupKinds, Owners
  <2>4. 0 \in 0 .. setups' /\ {} \in SUBSET (Nat \cup Passkeys) /\ {} \subseteq Passkeys
    BY <1>2
  <2>5. /\ r.no = factorSent + 1 /\ r.kind = "list" /\ r.owner = "preferences"
        /\ r.at = "sent" /\ AskIsTyped(r)'
    BY <1>1, <1>2, <2>2, <2>3, <2>4, NextIsTyped
  <2> QED
    BY <2>1, <2>5
<1>4. AppRenders(a, checks, factorRequests \cup {r})
  BY <1>3
<1>5. /\ app' \in AppStates /\ factorSent' \in Nat
      /\ \A q \in factorRequests' : AskIsTyped(q)' /\ q.no <= factorSent'
      /\ \A q, s \in factorRequests' : q.no = s.no => q = s
      /\ factorRequests \cup {r} \subseteq factorRequests'
      /\ \A q \in factorRequests' : q \in factorRequests \cup {r} \/ AskedByApp(q)
  <2>1. INFOS' \in [enforceTOTP : BOOLEAN, totpEnabled : BOOLEAN, hasPasskeys : BOOLEAN]
    BY <1>1, <1>2 DEF FactorTypes
  <2>2. \A q, s \in factorRequests \cup {r} : q.no = s.no => q = s
    BY <1>1, <1>3, NotYetSent DEF FactorTypes
  <2>3. 1 \in {0, 1} /\ (1 = 1 <=> \E q \in factorRequests \cup {r} : q.no = factorSent + 1)
    BY <1>3
  <2>4. \A q \in factorRequests \cup {r} : AskIsTyped(q)' /\ q.no <= factorSent + 1
    <3>1. \A q \in factorRequests : AskIsTyped(q)'
      BY <1>1, <1>2 DEF FactorTypes, AskIsTyped
    <3>2. factorSent + 1 <= factorSent + 1
      BY <1>1, NotYetSent
    <3> QED
      BY <1>1, <1>3, <3>1, <3>2, NotYetSent
  <2> QED
    BY <1>1, <1>2, <1>4, <2>1, <2>2, <2>3, <2>4, FactorRenders
<1>6. security' \in Securities /\ security'.open /\ security'.loading
  <2>1. INFOS.totpEnabled \in BOOLEAN
    BY <1>1 DEF FactorTypes
  <2> QED
    BY <2>1 DEF OpensPreferences, NoSettings, Securities
<1>7. ModalsAreTyped'
  <2>1. HiddenModal \in Modals /\ ~HiddenModal.show /\ HiddenModal.setup = 0 /\ HiddenModal.secret = 0
    BY DEF HiddenModal, Modals, NoSetup
  <2>2. /\ setupModal' \in [Owners -> Modals]
        /\ \A o \in Owners : setupModal'[o] = setupModal[o] \/ setupModal'[o] = HiddenModal
    BY <1>1, <2>1 DEF FactorTypes, ModalsAreTyped, OpensPreferences
  <2>3. 0 <= setups'
    BY <1>2
  <2> QED
    BY <1>1, <1>2, <2>1, <2>2, <2>3 DEF FactorTypes, ModalsAreTyped
<1>8. FactorTypes'
  <2>1. factorSeen' \subseteq {"together", "reopened", "lost"}
    BY <1>1 DEF FactorTypes, OpensPreferences
  <2> QED
    BY <1>1, <1>2, <1>5, <1>6, <1>7, <2>1 DEF FactorTypes
<1>9. FactorWaits'
  <2>1. SameChanges
    BY <1>3, <1>5, OtherRequests DEF AskedByApp
  <2>2. factorSeen \subseteq factorSeen'
    BY DEF OpensPreferences
  <2> QED
    BY <1>2, <1>8, <2>1, <2>2, FactorWaitsOn
<1>10. \A q \in factorRequests : q.owner # "preferences"
  BY DEF FactorInv, OneListing
<1>11. \A q \in factorRequests' : ListIsAsked(q) <=> q = r
  BY <1>3, <1>5, <1>10 DEF ListIsAsked, AskedByApp
<1>12. OneListing'
  BY <1>5, <1>6, <1>11 DEF OneListing, ListIsAsked
<1>13. ListingWaits'
  <2> SUFFICES ASSUME factorSeen' \subseteq {"together"}
               PROVE  ListingWaits'
    BY DEF ListingWaits
  <2>1. \A q \in factorRequests : q.kind \notin ChangeKinds
    BY DEF OpensPreferences, ChangeOut
  <2>2. \A q \in factorRequests' : q.kind \notin {"register", "delete"}
    BY <1>3, <1>5, <2>1 DEF AskedByApp, ChangeKinds
  <2>3. \A q \in factorRequests' : ListIsAsked(q) => q.at # "done"
    BY <1>3, <1>11
  <2> QED
    BY <1>6, <2>2, <2>3 DEF ListingWaits, ListIsAsked
<1> QED
  BY <1>8, <1>9, <1>12, <1>13 DEF FactorInv

-----------------------------------------------------------------------------
\* The preferences close: nothing waits for them any more.
LEMMA OrphanedIs ==
    ASSUME NEW owner, NEW kinds
    PROVE  /\ \A q \in Orphaned(owner, kinds) : \E p \in factorRequests :
                 IF p.owner = owner /\ p.kind \in kinds THEN q = [p EXCEPT !.owner = "gone"] ELSE q = p
           /\ \A p \in factorRequests : \E q \in Orphaned(owner, kinds) :
                 IF p.owner = owner /\ p.kind \in kinds THEN q = [p EXCEPT !.owner = "gone"] ELSE q = p
BY DEF Orphaned

LEMMA OrphanedAsks ==
    ASSUME FactorTypes, setups' = setups, NEW owner, NEW kinds
    PROVE  /\ \A q \in Orphaned(owner, kinds) : AskIsTyped(q)'
           /\ \A q \in Orphaned(owner, kinds) : \E p \in factorRequests :
                 /\ Alike(q, p) /\ q.at = p.at
                 /\ IF p.owner = owner /\ p.kind \in kinds THEN q.owner = "gone" ELSE q = p
           /\ \A p \in factorRequests : \E q \in Orphaned(owner, kinds) :
                 /\ Alike(q, p) /\ q.at = p.at
                 /\ IF p.owner = owner /\ p.kind \in kinds THEN q.owner = "gone" ELSE q = p
           /\ \A q, r \in Orphaned(owner, kinds) : q.no = r.no => q = r
<1>1. \A p \in factorRequests : AskIsTyped(p)'
  BY DEF FactorTypes, AskIsTyped
<1>2. ASSUME NEW p \in factorRequests, NEW q, q = [p EXCEPT !.owner = "gone"]
      PROVE  /\ AskIsTyped(q)' /\ Alike(q, p) /\ q.at = p.at /\ q.owner = "gone"
  <2>1. p \in FactorAsks
    BY <1>1 DEF AskIsTyped
  <2>2. /\ q \in FactorAsks /\ q.no = p.no /\ q.kind = p.kind /\ q.x = p.x /\ q.code = p.code
        /\ q.at = p.at /\ q.owner = "gone"
    BY <1>2, <2>1 DEF FactorAsks
  <2> QED
    BY <1>1, <2>2 DEF AskIsTyped, Alike
<1>3. \A p \in factorRequests : Alike(p, p)
  BY DEF Alike
<1>4. \A q \in Orphaned(owner, kinds) : \E p \in factorRequests :
                 /\ AskIsTyped(q)' /\ Alike(q, p) /\ q.at = p.at
                 /\ IF p.owner = owner /\ p.kind \in kinds
                    THEN q = [p EXCEPT !.owner = "gone"] /\ q.owner = "gone" ELSE q = p
  <2> SUFFICES ASSUME NEW q \in Orphaned(owner, kinds)
               PROVE  \E p \in factorRequests :
                 /\ AskIsTyped(q)' /\ Alike(q, p) /\ q.at = p.at
                 /\ IF p.owner = owner /\ p.kind \in kinds
                    THEN q = [p EXCEPT !.owner = "gone"] /\ q.owner = "gone" ELSE q = p
    OBVIOUS
  <2>1. PICK p \in factorRequests :
           IF p.owner = owner /\ p.kind \in kinds THEN q = [p EXCEPT !.owner = "gone"] ELSE q = p
    BY OrphanedIs
  <2>2. CASE p.owner = owner /\ p.kind \in kinds
    <3>1. q = [p EXCEPT !.owner = "gone"]
      BY <2>1, <2>2
    <3>2. /\ AskIsTyped(q)' /\ Alike(q, p) /\ q.at = p.at /\ q.owner = "gone"
      BY <1>2, <3>1
    <3> HIDE DEF Alike, AskIsTyped
    <3> QED
      BY <2>2, <3>1, <3>2
  <2>3. CASE ~(p.owner = owner /\ p.kind \in kinds)
    BY <1>1, <1>3, <2>1, <2>3
  <2> QED
    BY <2>2, <2>3
<1>5. \A p \in factorRequests : \E q \in Orphaned(owner, kinds) :
                 /\ Alike(q, p) /\ q.at = p.at
                 /\ IF p.owner = owner /\ p.kind \in kinds THEN q.owner = "gone" ELSE q = p
  <2> SUFFICES ASSUME NEW p \in factorRequests
               PROVE  \E q \in Orphaned(owner, kinds) :
                 /\ Alike(q, p) /\ q.at = p.at
                 /\ IF p.owner = owner /\ p.kind \in kinds THEN q.owner = "gone" ELSE q = p
    OBVIOUS
  <2>1. PICK q \in Orphaned(owner, kinds) :
           IF p.owner = owner /\ p.kind \in kinds THEN q = [p EXCEPT !.owner = "gone"] ELSE q = p
    BY OrphanedIs
  <2>2. CASE p.owner = owner /\ p.kind \in kinds
    <3>1. q = [p EXCEPT !.owner = "gone"]
      BY <2>1, <2>2
    <3> QED
      BY <1>2, <2>2, <3>1
  <2>3. CASE ~(p.owner = owner /\ p.kind \in kinds)
    BY <1>3, <2>1, <2>3
  <2> QED
    BY <2>2, <2>3
<1>6. \A q, r \in Orphaned(owner, kinds) : q.no = r.no => q = r
  <2> SUFFICES ASSUME NEW q \in Orphaned(owner, kinds), NEW r \in Orphaned(owner, kinds), q.no = r.no
               PROVE  q = r
    OBVIOUS
  <2>1. PICK p \in factorRequests :
                 /\ Alike(q, p)
                 /\ IF p.owner = owner /\ p.kind \in kinds
                    THEN q = [p EXCEPT !.owner = "gone"] ELSE q = p
    BY <1>4
  <2>2. PICK s \in factorRequests :
                 /\ Alike(r, s)
                 /\ IF s.owner = owner /\ s.kind \in kinds
                    THEN r = [s EXCEPT !.owner = "gone"] ELSE r = s
    BY <1>4
  <2>3. p.no = s.no
    BY <2>1, <2>2 DEF Alike
  <2>4. p = s
    BY <2>3 DEF FactorTypes
  <2> QED
    BY <2>1, <2>2, <2>4
<1> QED
  BY <1>4, <1>5, <1>6

-----------------------------------------------------------------------------
HiddenIsTyped == HiddenModal \in Modals /\ ~HiddenModal.show /\ HiddenModal.setup = 0
                 /\ HiddenModal.secret = 0
LEMMA HiddenTypes == HiddenIsTyped
BY DEF HiddenModal, Modals, NoSetup, HiddenIsTyped

LEMMA PreferencesClose ==
    ASSUME FactorInv, security' = NoSettings, UNCHANGED <<factorServer, INFOS, scanned, factorSeen>>,
           setupModal' = [setupModal EXCEPT !["preferences"] = HiddenModal],
           AppRenders(app, 1, Orphaned("preferences", RequestKinds))
    PROVE  FactorInv'
<1>1. FactorTypes
  BY DEF FactorInv
<1>2. /\ factor' = factor /\ setups' = setups /\ INFOS' = INFOS /\ scanned' = scanned
      /\ setups' \in Nat /\ factorSeen' = factorSeen
  BY <1>1 DEF factorServer, FactorTypes
<1>3. PICK left : left = Orphaned("preferences", RequestKinds)
  OBVIOUS
<1>4. /\ \A q \in left : AskIsTyped(q)'
      /\ \A q \in left : \E p \in factorRequests :
                 /\ Alike(q, p) /\ q.at = p.at
                 /\ IF p.owner = "preferences" /\ p.kind \in RequestKinds THEN q.owner = "gone" ELSE q = p
      /\ \A p \in factorRequests : \E q \in left : Alike(q, p)
      /\ \A q, r \in left : q.no = r.no => q = r
  BY <1>1, <1>2, <1>3, OrphanedAsks
<1>5. \A q \in left : q.owner # "preferences"
  BY <1>1, <1>4 DEF FactorTypes, AskIsTyped, FactorAsks
<1>6. \A q \in left : q.no <= factorSent + 0 /\ q.no # factorSent + 1
  BY <1>1, <1>4, NotYetSent DEF Alike
<1>7. AppRenders(app, 1, left)
  BY <1>3
<1>8. /\ app' \in AppStates /\ factorSent' \in Nat
      /\ \A q \in factorRequests' : AskIsTyped(q)' /\ q.no <= factorSent'
      /\ \A q, s \in factorRequests' : q.no = s.no => q = s
      /\ left \subseteq factorRequests'
      /\ \A q \in factorRequests' : q \in left \/ AskedByApp(q)
  <2>1. INFOS' \in [enforceTOTP : BOOLEAN, totpEnabled : BOOLEAN, hasPasskeys : BOOLEAN]
    BY <1>1, <1>2 DEF FactorTypes
  <2>2. 0 \in {0, 1} /\ (0 = 1 <=> \E q \in left : q.no = factorSent + 1)
    BY <1>6
  <2>3. app \in AppStates /\ 1 \in Nat
    BY <1>1 DEF FactorTypes
  <2> QED
    BY <1>1, <1>2, <1>4, <1>6, <1>7, <2>1, <2>2, <2>3, FactorRenders
<1>9. FactorTypes'
  <2>1. security' \in Securities
    BY DEF NoSettings, Securities
  <2>2. ModalsAreTyped'
    <3>1. /\ setupModal' \in [Owners -> Modals]
          /\ \A o \in Owners : setupModal'[o] = setupModal[o] \/ setupModal'[o] = HiddenModal
      BY <1>1, HiddenTypes DEF FactorTypes, ModalsAreTyped, HiddenIsTyped
    <3>2. 0 <= setups'
      BY <1>2
    <3> QED
      BY <1>1, <1>2, <3>1, <3>2, HiddenTypes DEF FactorTypes, ModalsAreTyped, HiddenIsTyped
  <2> QED
    BY <1>1, <1>2, <1>8, <2>1, <2>2 DEF FactorTypes
<1>10. FactorWaits'
  <2>1. SameChanges
    BY <1>4, <1>8 DEF SameChanges, AskedByApp, ChangeKinds
  <2> QED
    BY <1>2, <1>9, <2>1, FactorWaitsOn
<1>11. ~security'.open
  BY DEF NoSettings
<1>12. \A q \in factorRequests' : q.owner # "preferences"
  BY <1>5, <1>8 DEF AskedByApp
<1> QED
  BY <1>9, <1>10, <1>11, <1>12 DEF FactorInv, OneListing, ListingWaits, ListIsAsked

-----------------------------------------------------------------------------
\* A request is sent.
SentNow(r) == /\ factorRequests' = factorRequests \cup {r} /\ factorSent' = factorSent + 1
              /\ factorSeen' = factorSeen \cup Overlaps(r)

LEMMA AskTypes ==
    ASSUME FactorInv, NEW r, SentNow(r), r.no = factorSent + 1, AskIsTyped(r)', setups' = setups,
           UNCHANGED <<factor, INFOS, app>>, security' \in Securities, ModalsAreTyped'
    PROVE  FactorTypes'
<1>1. FactorTypes
  BY DEF FactorInv
<1>2. factorSent \in Nat /\ factorSent' \in Nat /\ r.no <= factorSent' /\ factorSent <= factorSent'
  BY <1>1, NotYetSent DEF SentNow, FactorTypes
<1>3. \A q \in factorRequests' : AskIsTyped(q)' /\ q.no <= factorSent'
  <2>1. \A q \in factorRequests : AskIsTyped(q)'
    BY <1>1 DEF FactorTypes, AskIsTyped
  <2>2. \A q \in factorRequests : q.no <= factorSent'
    BY <1>1, NotYetSent DEF SentNow
  <2> QED
    BY <1>2, <2>1, <2>2 DEF SentNow
<1>4. \A q, s \in factorRequests' : q.no = s.no => q = s
  BY <1>1, NotYetSent DEF SentNow, FactorTypes
<1>5. factorSeen' \subseteq {"together", "reopened", "lost"}
  BY <1>1 DEF FactorTypes, SentNow, Overlaps
<1> QED
  BY <1>1, <1>2, <1>3, <1>4, <1>5 DEF FactorTypes

LEMMA AskWaits ==
    ASSUME FactorInv, NEW r, SentNow(r), r.at = "sent", r.kind # "relist",
           r.kind = "validate" => r.code \in scanned' \cup {NoSetup},
           UNCHANGED <<factor, INFOS>>, scanned \subseteq scanned'
    PROVE  FactorWaits'
<1>1. factorSeen \subseteq factorSeen' /\ factorRequests' = factorRequests \cup {r}
  BY DEF SentNow
<1>2. CodesAreScanned'
  BY <1>1 DEF FactorInv, FactorWaits, CodesAreScanned, NotLockedOut
<1>3. OneFactorChange'
  <2> SUFFICES ASSUME "together" \notin factorSeen', NEW p \in factorRequests', NEW q \in factorRequests',
                      p.kind \in ChangeKinds, q.kind \in ChangeKinds
               PROVE  p = q
    BY DEF OneFactorChange
  <2>1. r.kind \in ChangeKinds => \A s \in factorRequests : s.kind \notin ChangeKinds
    BY DEF SentNow, Overlaps, ChangeOut
  <2> QED
    BY <1>1, <2>1 DEF FactorInv, FactorWaits, OneFactorChange
<1>4. FactorStays'
  <2>1. EverHadFactor' = EverHadFactor /\ HasFactor' = HasFactor
    BY DEF EverHadFactor, HasFactor
  <2> HIDE DEF EverHadFactor, HasFactor
  <2> QED
    BY <1>1, <2>1 DEF FactorInv, FactorWaits, FactorStays
<1>5. InfosWait'
  <2>1. ~TellsTotp(r) /\ ~TellsPasskeys(r)
    BY DEF TellsTotp, TellsPasskeys
  <2> QED
    BY <1>1, <2>1 DEF FactorInv, FactorWaits, InfosWait, TellsTotp, TellsPasskeys
<1> QED
  BY <1>2, <1>3, <1>4, <1>5 DEF FactorWaits

LEMMA AskLists ==
    ASSUME FactorInv, FactorTypes', NEW r, SentNow(r), r.kind # "list", r.at = "sent",
           r.owner = "preferences" => security.open,
           Listed(r) => r.owner = "preferences" /\ ~security.loading /\ r.x \subseteq security.listed,
           factor' = factor, \A x \in {"open", "listed", "loading"} : security'[x] = security[x]
    PROVE  OneListing' /\ ListingWaits'
<1>1. factorSeen \subseteq factorSeen' /\ factorRequests' = factorRequests \cup {r}
  BY DEF SentNow
<1>2. \A q \in factorRequests' : q.owner = "preferences" => security.open
  BY <1>1, SettledOwners
<1>3. CASE ~Listed(r)
  <2>1. SameLists
    BY <1>1, <1>3, OtherThanListed
  <2> QED
    BY <1>1, <1>2, <2>1, ListsWaitOn DEF FactorInv
<1>4. CASE Listed(r)
  <2>1. /\ security'.open = security.open /\ security'.listed = security.listed
        /\ security'.loading = security.loading /\ security.open /\ ~security.loading
    BY <1>4
  <2>2. ~ListIsAsked(r)
    BY DEF ListIsAsked
  <2>3. OneListing'
    BY <1>1, <2>1, <2>2 DEF FactorInv, OneListing, ListIsAsked
  <2>4. ASSUME factorSeen' \subseteq {"together"}
        PROVE  ListWaits'
    <3>1. ListWaits
      BY <1>1, <2>1, <2>4 DEF FactorInv, ListingWaits
    <3>2. \A k : ~Adds(r, k) /\ ~Drops(r, k)
      BY DEF Adds, Drops
    <3>3. \A k \in factor.passkeys \ security.listed : \E q \in factorRequests' : Adds(q, k)
      BY <1>1, <3>1 DEF ListWaits
    <3>4. \A k \in security.listed \ factor.passkeys : \E q \in factorRequests' : Drops(q, k)
      BY <1>1, <3>1 DEF ListWaits
    <3>5. ASSUME NEW k \in Passkeys, NEW q \in factorRequests'
          PROVE  /\ Drops(q, k) => k \notin factor.passkeys
                 /\ Adds(q, k) =>
                       /\ k \in factor.passkeys /\ k \notin security.listed
                       /\ \A s \in factorRequests' : /\ s.kind = "delete" => k \notin s.x
                                                     /\ Adds(s, k) => s = q
      <4>1. q \in factorRequests \/ (~Adds(q, k) /\ ~Drops(q, k))
        BY <1>1, <3>2
      <4>2. Adds(q, k) => k \notin r.x
        BY <1>4, <3>1, <4>1 DEF ListWaits
      <4> QED
        BY <1>1, <3>1, <3>2, <4>1, <4>2 DEF ListWaits
    <3> QED
      BY <2>1, <3>3, <3>4, <3>5 DEF ListWaits, Adds, Drops
  <2>5. ListingWaits'
    BY <1>1, <1>4, <2>1, <2>2, <2>4 DEF FactorInv, ListingWaits, ListIsAsked, Listed
  <2> QED
    BY <2>3, <2>5
<1> QED
  BY <1>3, <1>4

-----------------------------------------------------------------------------
\* The actions of the user.
LEMMA AskStep ==
    ASSUME FactorInv, NEW kind \in RequestKinds \ {"generate", "list", "relist"},
           NEW owner \in Owners, NEW x \in SUBSET (Nat \cup Passkeys), NEW code \in 0 .. setups, NEW r,
           r = [no |-> factorSent + 1, kind |-> kind, owner |-> owner, x |-> x, code |-> code,
                at |-> "sent"],
           SentNow(r), UNCHANGED <<factor, setups, INFOS, app>>, security' \in Securities, ModalsAreTyped',
           kind \in SetupKinds => x \subseteq 0 .. setups,
           kind \notin SetupKinds => x \subseteq Passkeys,
           kind = "delete" => \E k \in Passkeys : x = {k},
           kind = "validate" => code \in scanned' \cup {NoSetup}, scanned \subseteq scanned',
           owner = "preferences" => security.open,
           kind \in {"register", "delete"} =>
               owner = "preferences" /\ ~security.loading /\ x \subseteq security.listed,
           \A f \in {"open", "listed", "loading"} : security'[f] = security[f]
    PROVE  FactorInv'
<1>1. FactorTypes /\ setups' \in Nat /\ setups' = setups
  BY DEF FactorInv, FactorTypes
<1>2. kind \in RequestKinds /\ owner \in Owners \cup {"gone"} /\ code \in 0 .. setups' /\ kind # "list"
      /\ kind # "relist"
  BY <1>1
<1>3. /\ r.no = factorSent + 1 /\ r.kind = kind /\ r.owner = owner /\ r.x = x
      /\ r.code = code /\ r.at = "sent" /\ AskIsTyped(r)'
  BY <1>1, <1>2, NextIsTyped
<1>4. FactorTypes'
  BY <1>1, <1>3, AskTypes
<1>5. FactorWaits'
  BY <1>2, <1>3, AskWaits
<1>6. OneListing' /\ ListingWaits'
  <2>1. Listed(r) => r.owner = "preferences" /\ ~security.loading /\ r.x \subseteq security.listed
    BY <1>2, <1>3 DEF Listed, ListIsAsked
  <2> QED
    BY <1>2, <1>3, <1>4, <2>1, AskLists
<1> QED
  BY <1>4, <1>5, <1>6 DEF FactorInv

LEMMA SetupTotpStep ==
    ASSUME FactorInv, setupTotp
    PROVE  FactorInv'
<1>1. FactorTypes /\ setups' \in Nat /\ setups' = setups /\ factor' = factor
  BY DEF FactorInv, FactorTypes, setupTotp, AsksOf, factorServer
<1>2. PICK r : r = NextRequest("generate", "preferences", {})
  OBVIOUS
<1>3. r = [no |-> factorSent + 1, kind |-> "generate", owner |-> "preferences", x |-> {}, code |-> 0,
           at |-> "sent"]
  BY <1>2, RequestIsThis
<1>4. /\ r.no = factorSent + 1 /\ r.kind = "generate" /\ r.owner = "preferences"
      /\ r.at = "sent" /\ AskIsTyped(r)'
  <2>1. "generate" \in RequestKinds /\ "preferences" \in Owners \cup {"gone"}
        /\ {} \in SUBSET (Nat \cup Passkeys) /\ 0 \in 0 .. setups'
    BY <1>1 DEF RequestKinds, Owners
  <2> QED
    BY <1>1, <1>3, <2>1, NextIsTyped
<1>5. SentNow(r) /\ UNCHANGED <<factor, INFOS, app, scanned, setupModal, security>>
  BY <1>2 DEF setupTotp, AsksOf, Asking, SentNow, factorServer
<1>6. FactorTypes'
  <2>1. security' \in Securities /\ ModalsAreTyped'
    BY <1>1, <1>5 DEF FactorTypes, ModalsAreTyped
  <2> QED
    BY <1>1, <1>4, <1>5, <2>1, AskTypes
<1>7. SameChanges /\ SameLists
  BY <1>4, <1>5, OtherRequests, OtherThanListed DEF SentNow, Listed, ListIsAsked
<1>8. \A q \in factorRequests' : q.owner = "preferences" => security.open
  BY <1>5, SettledOwners DEF SentNow, setupTotp, OnPage
<1> QED
  BY <1>5, <1>6, <1>7, <1>8, QuietStep DEF Quiet, SentNow

LEMMA AskedBySecurity ==
    ASSUME FactorInv, NEW kind \in {"disable", "register", "delete"}, NEW x \in SUBSET security.listed,
           OnPage, AsksOf(kind, "preferences", x), setupModal' = setupModal, security' \in Securities,
           kind # "disable" => ~security.loading,
           kind = "delete" => \E k \in Passkeys : x = {k},
           \A f \in {"open", "listed", "loading"} : security'[f] = security[f]
    PROVE  FactorInv'
<1>1. PICK r : r = NextRequest(kind, "preferences", x)
  OBVIOUS
<1>2. r = [no |-> factorSent + 1, kind |-> kind, owner |-> "preferences", x |-> x, code |-> 0,
           at |-> "sent"]
  BY <1>1, RequestIsThis
<1>3. SentNow(r) /\ UNCHANGED <<factor, setups, INFOS, app, scanned>>
  BY <1>1 DEF AsksOf, Asking, SentNow, factorServer
<1>4. ModalsAreTyped'
  BY <1>3 DEF FactorInv, FactorTypes, ModalsAreTyped
<1>5. x \in SUBSET Passkeys /\ x \in SUBSET (Nat \cup Passkeys) /\ 0 \in 0 .. setups
  BY DEF FactorInv, FactorTypes, Securities
<1>6. /\ kind \in RequestKinds \ {"generate", "list", "relist"} /\ "preferences" \in Owners
      /\ kind \notin SetupKinds /\ kind # "validate"
  BY DEF RequestKinds, ChangeKinds, Owners, SetupKinds
<1>7. security.open
  BY DEF OnPage
<1>8. scanned \subseteq scanned'
  BY <1>3
<1>9. kind \in {"register", "delete"} =>
          "preferences" = "preferences" /\ ~security.loading /\ x \subseteq security.listed
  OBVIOUS
<1> QED
  BY <1>2, <1>3, <1>4, <1>5, <1>6, <1>7, <1>8, <1>9, AskStep

LEMMA SecurityTypes ==
    ASSUME FactorInv
    PROVE  /\ security \in Securities
           /\ \A v \in BOOLEAN : /\ [security EXCEPT !.registering = v] \in Securities
                                 /\ [security EXCEPT !.totpEnabled = v] \in Securities
BY DEF FactorInv, FactorTypes, Securities

LEMMA DisableTotpStep ==
    ASSUME FactorInv, disableTotp
    PROVE  FactorInv'
BY AskedBySecurity, SecurityTypes DEF disableTotp

LEMMA RegisterPasskeyStep ==
    ASSUME FactorInv, registerPasskey
    PROVE  FactorInv'
<1>1. security' \in Securities /\ setupModal' = setupModal
      /\ OnPage /\ AsksOf("register", "preferences", {}) /\ ~security.loading
  BY SecurityTypes DEF registerPasskey
<1>2. \A f \in {"open", "listed", "loading"} : security'[f] = security[f]
  BY SecurityTypes DEF registerPasskey, Securities
<1> QED
  BY <1>1, <1>2, AskedBySecurity

LEMMA DeletePasskeyStep ==
    ASSUME FactorInv, NEW k \in Passkeys, deletePasskey(k)
    PROVE  FactorInv'
<1>1. security' \in Securities /\ setupModal' = setupModal /\ {k} \in SUBSET security.listed /\ (\E j \in Passkeys : {k} = {j})
      /\ OnPage /\ AsksOf("delete", "preferences", {k}) /\ ~security.loading /\ security' = security
  BY SecurityTypes DEF deletePasskey
<1> QED
  BY <1>1, AskedBySecurity

-----------------------------------------------------------------------------
LEMMA ModalTypes ==
    ASSUME FactorInv, NEW o \in Owners
    PROVE  /\ setupModal[o] \in Modals
           /\ setupModal[o].setup \in 0 .. setups /\ setupModal[o].secret \in 0 .. setups
<1>1. /\ setupModal[o] \in Modals /\ setups \in Nat
      /\ setupModal[o].setup <= setups /\ setupModal[o].secret <= setups
  BY DEF FactorInv, FactorTypes, ModalsAreTyped
<1>2. setupModal[o].setup \in Nat /\ setupModal[o].secret \in Nat
  BY <1>1 DEF Modals
<1> QED
  BY <1>1, <1>2

\* A modal that is written keeps its type when what is written is of its type.
LEMMA ModalsStayTyped ==
    ASSUME FactorInv, NEW o \in Owners, NEW m \in Modals, setupModal' = [setupModal EXCEPT ![o] = m],
           setups' \in Nat, setups <= setups', m.setup <= setups', m.secret <= setups',
           m.show => m.setup # NoSetup
    PROVE  ModalsAreTyped'
<1>1. ModalsAreTyped /\ setups \in Nat
  BY DEF FactorInv, FactorTypes
<1>2. /\ setupModal' \in [Owners -> Modals] /\ setupModal'[o] = m
      /\ \A p \in Owners : p # o => setupModal'[p] = setupModal[p]
  BY <1>1 DEF ModalsAreTyped
<1>3. \A p \in Owners : setupModal[p].setup <= setups' /\ setupModal[p].secret <= setups'
  <2> SUFFICES ASSUME NEW p \in Owners
               PROVE  setupModal[p].setup <= setups' /\ setupModal[p].secret <= setups'
    OBVIOUS
  <2>1. setupModal[p].setup \in 0 .. setups /\ setupModal[p].secret \in 0 .. setups
    BY ModalTypes
  <2> QED
    BY <1>1, <2>1
<1> QED
  BY <1>1, <1>2, <1>3 DEF ModalsAreTyped

LEMMA HideModalStep ==
    ASSUME FactorInv, hideModal
    PROVE  FactorInv'
<1>1. /\ setupModal' = [setupModal EXCEPT !["preferences"].show = FALSE]
      /\ UNCHANGED <<factor, setups, factorRequests, factorSent, INFOS, app, security, scanned, factorSeen>>
  BY DEF hideModal, factorServer, factorSending
<1>2. PICK m : m = [setupModal["preferences"] EXCEPT !.show = FALSE]
  OBVIOUS
<1>3. "preferences" \in Owners
  BY DEF Owners
<1>4. /\ m \in Modals /\ ~m.show /\ m.setup = setupModal["preferences"].setup
      /\ m.secret = setupModal["preferences"].secret
  BY <1>2, <1>3, ModalTypes DEF Modals
<1>5. setupModal' = [setupModal EXCEPT !["preferences"] = m]
  BY <1>1, <1>2
<1>6. /\ setups \in Nat /\ setups' = setups /\ setupModal["preferences"].setup <= setups
      /\ setupModal["preferences"].secret <= setups /\ setups <= setups
  BY <1>1, <1>3 DEF FactorInv, FactorTypes, ModalsAreTyped
<1>7. ModalsAreTyped'
  BY <1>3, <1>4, <1>5, <1>6, ModalsStayTyped
<1>8. FactorTypes'
  BY <1>1, <1>7 DEF FactorInv, FactorTypes, AskIsTyped
<1>9. SameChanges /\ SameLists
  BY <1>1, OtherRequests, OtherThanListed
<1> QED
  BY <1>1, <1>8, <1>9, QuietStep, SettledOwners DEF Quiet

LEMMA LoadSecretStep ==
    ASSUME FactorInv, NEW o \in Owners, loadSecret(o)
    PROVE  FactorInv'
<1>1. PICK x : x = {setupModal[o].setup}
  OBVIOUS
<1>2. PICK r : r = NextRequest("secret", o, x)
  OBVIOUS
<1>3. r = [no |-> factorSent + 1, kind |-> "secret", owner |-> o, x |-> x, code |-> 0, at |-> "sent"]
  BY <1>2, RequestIsThis
<1>4. /\ SentNow(r) /\ UNCHANGED <<factor, setups, INFOS, app, scanned, security>>
      /\ setupModal' = [setupModal EXCEPT ![o].secretLoading = TRUE] /\ ModalUsable(o)
  BY <1>1, <1>2 DEF loadSecret, AsksOf, Asking, SentNow, factorServer
<1>5. PICK m : m = [setupModal[o] EXCEPT !.secretLoading = TRUE]
  OBVIOUS
<1>6. /\ m \in Modals /\ m.show = setupModal[o].show /\ m.setup = setupModal[o].setup
      /\ m.secret = setupModal[o].secret
  BY <1>5, ModalTypes DEF Modals
<1>7. /\ setups \in Nat /\ setups' = setups /\ setupModal[o].setup <= setups
      /\ setupModal[o].secret <= setups /\ setups <= setups
      /\ setupModal[o].show => setupModal[o].setup # NoSetup
  BY <1>4 DEF FactorInv, FactorTypes, ModalsAreTyped
<1>8. ModalsAreTyped'
  BY <1>4, <1>5, <1>6, <1>7, ModalsStayTyped
<1>9. x \in SUBSET (Nat \cup Passkeys) /\ x \subseteq 0 .. setups /\ 0 \in 0 .. setups
  BY <1>1, <1>7, ModalTypes
<1>10. /\ "secret" \in RequestKinds \ {"generate", "list", "relist"} /\ "secret" \in SetupKinds
  BY DEF RequestKinds, SetupKinds
<1>11. o = "preferences" => security.open
  BY <1>4 DEF ModalUsable
<1>12. security' \in Securities /\ \A f \in {"open", "listed", "loading"} : security'[f] = security[f]
  BY <1>4, SecurityTypes
<1>13. scanned \subseteq scanned'
  BY <1>4
<1> QED
  BY <1>3, <1>4, <1>8, <1>9, <1>10, <1>11, <1>12, <1>13, AskStep

LEMMA SubmitCodeStep ==
    ASSUME FactorInv, NEW o \in Owners, onSubmitCode(o)
    PROVE  FactorInv'
<1>1. PICK x : x = {setupModal[o].setup}
  OBVIOUS
<1>2. PICK code \in Typed(setupModal[o]) :
         /\ Asking([NextRequest("validate", o, x) EXCEPT !.code = code])
         /\ scanned' = scanned \cup ({code} \ {NoSetup})
  BY <1>1 DEF onSubmitCode
<1>3. PICK r : r = [NextRequest("validate", o, x) EXCEPT !.code = code]
  OBVIOUS
<1>4. r = [no |-> factorSent + 1, kind |-> "validate", owner |-> o, x |-> x, code |-> code, at |-> "sent"]
  <2>1. NextRequest("validate", o, x) = [no |-> factorSent + 1, kind |-> "validate", owner |-> o, x |-> x,
                                         code |-> 0, at |-> "sent"]
    BY RequestIsThis
  <2> QED
    BY <1>3, <2>1
<1>5. /\ SentNow(r) /\ UNCHANGED <<factor, setups, INFOS, app, security>>
      /\ setupModal' = [setupModal EXCEPT ![o].submitting = TRUE] /\ ModalUsable(o)
  BY <1>2, <1>3 DEF onSubmitCode, Asking, SentNow, factorServer
<1>6. PICK m : m = [setupModal[o] EXCEPT !.submitting = TRUE]
  OBVIOUS
<1>7. /\ m \in Modals /\ m.show = setupModal[o].show /\ m.setup = setupModal[o].setup
      /\ m.secret = setupModal[o].secret
  BY <1>6, ModalTypes DEF Modals
<1>8. /\ setups \in Nat /\ setups' = setups /\ setupModal[o].setup <= setups
      /\ setupModal[o].secret <= setups /\ setups <= setups
      /\ setupModal[o].show => setupModal[o].setup # NoSetup
  BY <1>5 DEF FactorInv, FactorTypes, ModalsAreTyped
<1>9. ModalsAreTyped'
  BY <1>5, <1>6, <1>7, <1>8, ModalsStayTyped
<1>10. /\ x \in SUBSET (Nat \cup Passkeys) /\ x \subseteq 0 .. setups /\ code \in 0 .. setups
  BY <1>1, <1>2, <1>8, ModalTypes DEF Typed, NoSetup
<1>11. /\ "validate" \in RequestKinds \ {"generate", "list", "relist"} /\ "validate" \in SetupKinds
  BY DEF RequestKinds, ChangeKinds, SetupKinds
<1>12. o = "preferences" => security.open
  BY <1>5 DEF ModalUsable
<1>13. security' \in Securities /\ \A f \in {"open", "listed", "loading"} : security'[f] = security[f]
  BY <1>5, SecurityTypes
<1>14. scanned \subseteq scanned' /\ code \in scanned' \cup {NoSetup}
  BY <1>2
<1> QED
  BY <1>4, <1>5, <1>9, <1>10, <1>11, <1>12, <1>13, <1>14, AskStep

-----------------------------------------------------------------------------
\* The actions of the app.
LEMMA AppTypes ==
    ASSUME FactorInv
    PROVE  /\ app \in AppStates
           /\ [app EXCEPT !.showMfaEncouragement = FALSE, !.dismissed = TRUE] \in AppStates
           /\ [app EXCEPT !.isLoading = FALSE, !.totpEnabled = INFOS.totpEnabled,
                          !.hasPasskeys = INFOS.hasPasskeys] \in AppStates
           /\ \A v \in BOOLEAN : [app EXCEPT !.totpEnabled = v] \in AppStates
BY DEF FactorInv, FactorTypes, AppStates

LEMMA PageStep ==
    ASSUME FactorInv, \/ userLoaded \/ onRouteChangeComplete
                      \/ onMfaEncouragementDismiss \/ onMfaEncouragementSetup
    PROVE  FactorInv'
<1>1. CASE userLoaded
  <2>1. 2 \in Nat
    OBVIOUS
  <2> QED
    BY <1>1, <2>1, AppTypes, RendersQuietly DEF userLoaded
<1>2. CASE onRouteChangeComplete
  <2>1. 1 \in Nat
    OBVIOUS
  <2>2. UNCHANGED <<factorServer, INFOS, scanned>>
    BY <1>2 DEF onRouteChangeComplete
  <2>3. CASE /\ security.open /\ security' = NoSettings /\ UNCHANGED factorSeen
             /\ setupModal' = [setupModal EXCEPT !["preferences"] = HiddenModal]
             /\ AppRenders(app, 1, Orphaned("preferences", RequestKinds))
    BY <2>2, <2>3, PreferencesClose
  <2>4. CASE ~security.open /\ OpensPreferences /\ AppRenders(app, 1, factorRequests \cup {Lists})
    BY <2>1, <2>2, <2>4, AppTypes, OpensRendering
  <2> QED
    BY <1>2, <2>3, <2>4 DEF onRouteChangeComplete
<1>3. CASE onMfaEncouragementDismiss
  <2>1. 0 \in Nat
    OBVIOUS
  <2> QED
    BY <1>3, <2>1, AppTypes, RendersQuietly DEF onMfaEncouragementDismiss
<1>4. CASE onMfaEncouragementSetup
  <2>1. 1 \in Nat
    OBVIOUS
  <2> QED
    BY <1>4, <2>1, AppTypes, OpensRendering DEF onMfaEncouragementSetup
<1> QED
  BY <1>1, <1>2, <1>3, <1>4

-----------------------------------------------------------------------------
\* The server.  What is handled takes the place of what was sent.
FactorStates == [enforced : BOOLEAN, secret : Nat, passkeys : SUBSET Passkeys, begun : SUBSET Nat]
LEMMA ServedTypes ==
    ASSUME FactorInv, NEW q \in factorRequests, NEW r, HandledAs(q, r), OnServer, r.no = q.no,
           AskIsTyped(r)', setups' \in Nat, setups <= setups', factor' \in FactorStates,
           factor'.secret <= setups', factor'.begun \subseteq 1 .. setups'
    PROVE  FactorTypes'
<1>1. FactorTypes /\ setups \in Nat
  BY DEF FactorInv, FactorTypes
<1>2. UNCHANGED <<INFOS, app, setupModal, security, factorSent, scanned, factorSeen>>
  BY DEF OnServer
<1>3. \A n \in Nat : n <= setups => n <= setups'
  BY <1>1
<1>4. \A p \in factorRequests : AskIsTyped(p)'
  <2> SUFFICES ASSUME NEW p \in factorRequests
               PROVE  AskIsTyped(p)'
    OBVIOUS
  <2>1. 0 .. setups \subseteq 0 .. setups' /\ 1 .. setups \subseteq 1 .. setups'
    BY <1>1
  <2>2. AskIsTyped(p)
    BY <1>1 DEF FactorTypes
  <2> QED
    BY <2>1, <2>2 DEF AskIsTyped
<1>5. /\ \A p \in factorRequests' : AskIsTyped(p)' /\ p.no <= factorSent'
      /\ \A p, s \in factorRequests' : p.no = s.no => p = s
  BY <1>1, <1>2, <1>4 DEF HandledAs, FactorTypes
<1>6. ModalsAreTyped'
  <2>1. \A o \in Owners : setupModal[o].setup \in 0 .. setups /\ setupModal[o].secret \in 0 .. setups
    BY ModalTypes
  <2>2. \A o \in Owners : setupModal[o].setup <= setups' /\ setupModal[o].secret <= setups'
    BY <1>1, <2>1
  <2> QED
    BY <1>1, <1>2, <2>2 DEF FactorTypes, ModalsAreTyped
<1> QED
  BY <1>1, <1>2, <1>5, <1>6 DEF FactorTypes, FactorStates

LEMMA AskFacts ==
    ASSUME FactorInv, NEW q \in factorRequests
    PROVE  AskIsTyped(q) /\ q \in FactorAsks /\ setups \in Nat /\ factor \in FactorStates
           /\ factor.secret <= setups /\ factor.begun \subseteq 1 .. setups /\ FactorTypes
BY DEF FactorInv, FactorTypes, AskIsTyped, FactorStates

LEMMA AtIs ==
    ASSUME FactorInv, NEW q \in factorRequests, NEW at \in {"done", "refused", "counted"},
           NEW r, r = At(q, at)
    PROVE  /\ r \in FactorAsks /\ r.no = q.no /\ r.kind = q.kind /\ r.owner = q.owner
           /\ r.x = q.x /\ r.code = q.code /\ r.at = at
BY AskFacts DEF At, FactorAsks

\* What is served keeps its owner.
LEMMA ServedOwners ==
    ASSUME FactorInv, NEW q \in factorRequests, NEW r, HandledAs(q, r), r.owner = q.owner
    PROVE  \A p \in factorRequests' : p.owner = "preferences" => security.open
BY SettledOwners DEF HandledAs

LEMMA RefusedStep ==
    ASSUME FactorInv, NEW q \in factorRequests, factorRefused(q)
    PROVE  FactorInv'
<1>1. PICK r : r = At(q, "refused")
  OBVIOUS
<1>2. /\ r \in FactorAsks /\ r.no = q.no /\ r.kind = q.kind /\ r.owner = q.owner
      /\ r.x = q.x /\ r.code = q.code /\ r.at = "refused"
  BY <1>1, AtIs
<1>3. HandledAs(q, r) /\ OnServer /\ factor' = factor /\ setups' = setups /\ q.at \in {"sent", "counted"}
  BY <1>1 DEF factorRefused, factorServer
<1>4. AskIsTyped(r)'
  BY <1>2, <1>3, AskFacts DEF AskIsTyped
<1>5. FactorTypes'
  <2>1. setups' \in Nat /\ setups <= setups'
    BY <1>3, AskFacts
  <2> QED
    BY <1>2, <1>3, <1>4, <2>1, AskFacts, ServedTypes
<1>6. Alike(r, q) /\ SameFor(r, q)
  BY <1>2, <1>3 DEF Alike, SameFor
<1>7. \A p \in factorRequests : Alike(p, p) /\ SameFor(p, p)
  BY DEF Alike, SameFor
<1>8. SameChanges /\ SameLists
  <2> HIDE DEF Alike, SameFor
  <2> QED
    BY <1>3, <1>6, <1>7 DEF SameChanges, SameLists, HandledAs
<1> QED
  BY <1>2, <1>3, <1>5, <1>8, QuietStep, ServedOwners DEF Quiet, OnServer

LEMMA SetupServed ==
    ASSUME FactorInv, NEW q \in factorRequests, generateTotp(q) \/ getTotpSecret(q)
    PROVE  FactorInv'
<1>1. CASE generateTotp(q)
  <2>1. PICK n : n = setups + 1
    OBVIOUS
  <2>2. setups' = n /\ n \in Nat /\ setups <= n /\ n \in 1 .. n /\ 1 .. setups \subseteq 1 .. n
        /\ 0 .. setups \subseteq 0 .. n /\ \A k \in Nat : k <= setups => k <= n
    BY <1>1, <2>1, AskFacts DEF generateTotp
  <2>3. PICK r : r = [At(q, "done") EXCEPT !.x = {n}]
    OBVIOUS
  <2>4. /\ r \in FactorAsks /\ r.no = q.no /\ r.kind = q.kind /\ r.owner = q.owner
        /\ r.x = {n} /\ r.code = q.code /\ r.at = "done"
    <3>1. PICK x \in SUBSET (Nat \cup Passkeys) : x = {n}
      BY <2>2
    <3>2. r = [At(q, "done") EXCEPT !.x = x]
      BY <2>3, <3>1
    <3> QED
      BY <3>1, <3>2, AskFacts DEF At, FactorAsks
  <2>5. HandledAs(q, r) /\ OnServer /\ q.kind = "generate" /\ factor' = [factor EXCEPT !.begun = @ \cup {n}]
    BY <1>1, <2>2, <2>3 DEF generateTotp
  <2>6. AskIsTyped(r)'
    <3>1. q.code \in 0 .. n /\ {n} \subseteq 0 .. n
      BY <2>2, <2>5, AskFacts DEF AskIsTyped, SetupKinds
    <3> QED
      BY <2>2, <2>4, <2>5, <3>1 DEF AskIsTyped, SetupKinds
  <2>7. factor' \in FactorStates /\ factor'.secret <= setups' /\ factor'.begun \subseteq 1 .. setups'
        /\ \A x \in {"enforced", "secret", "passkeys"} : factor'[x] = factor[x]
    BY <2>2, <2>5, AskFacts DEF FactorStates
  <2>8. FactorTypes'
    BY <2>2, <2>4, <2>5, <2>6, <2>7, ServedTypes
  <2>9. SameChanges /\ SameLists
    BY <2>4, <2>5, OtherRequests, OtherThanListed DEF HandledAs, Listed, ListIsAsked
  <2> QED
    BY <2>4, <2>5, <2>7, <2>8, <2>9, QuietStep, ServedOwners DEF Quiet, OnServer
<1>2. CASE getTotpSecret(q)
  <2>1. PICK r : r = At(q, "done")
    OBVIOUS
  <2>2. /\ r \in FactorAsks /\ r.no = q.no /\ r.kind = q.kind /\ r.owner = q.owner
        /\ r.x = q.x /\ r.code = q.code /\ r.at = "done"
    BY <2>1, AtIs
  <2>3. HandledAs(q, r) /\ OnServer /\ factor' = factor /\ setups' = setups /\ q.kind = "secret"
    BY <1>2, <2>1 DEF getTotpSecret, factorServer
  <2>4. AskIsTyped(r)'
    BY <2>2, <2>3, AskFacts DEF AskIsTyped
  <2>5. FactorTypes'
    <3>1. setups' \in Nat /\ setups <= setups'
      BY <2>3, AskFacts
    <3> QED
      BY <2>2, <2>3, <2>4, <3>1, AskFacts, ServedTypes
  <2>6. SameChanges /\ SameLists
    BY <2>2, <2>3, OtherRequests, OtherThanListed DEF HandledAs, Listed, ListIsAsked
  <2> QED
    BY <2>2, <2>3, <2>5, <2>6, QuietStep, ServedOwners DEF Quiet, OnServer
<1> QED
  BY <1>1, <1>2

LEMMA ExpiresStep ==
    ASSUME FactorInv, setupExpires
    PROVE  FactorInv'
<1>1. PICK n \in factor.begun : factor' = [factor EXCEPT !.begun = @ \ {n}]
  BY DEF setupExpires
<1>2. UNCHANGED <<setups, factorRequests, factorSent, INFOS, app, setupModal, security, scanned, factorSeen>>
  BY DEF setupExpires, OnServer, factorSending
<1>3. FactorTypes'
  <2>1. factor' \in FactorStates /\ factor'.secret = factor.secret /\ factor'.begun \subseteq factor.begun
    BY <1>1 DEF FactorInv, FactorTypes, FactorStates
  <2> QED
    BY <1>2, <2>1 DEF FactorInv, FactorTypes, FactorStates, ModalsAreTyped, AskIsTyped
<1>4. \A x \in {"enforced", "secret", "passkeys"} : factor'[x] = factor[x]
  BY <1>1 DEF FactorInv, FactorTypes
<1>5. SameChanges /\ SameLists
  BY <1>2, OtherRequests, OtherThanListed
<1> QED
  BY <1>2, <1>3, <1>4, <1>5, QuietStep, SettledOwners DEF Quiet

\* The passkeys are read: what the answer will tell of them is so.
LEMMA PasskeysReadStep ==
    ASSUME FactorInv, NEW q \in factorRequests, passkeysRead(q)
    PROVE  FactorInv'
<1>1. PICK r : r = [At(q, "done") EXCEPT !.x = factor.passkeys]
  OBVIOUS
<1>2. HandledAs(q, r) /\ OnServer /\ factor' = factor /\ setups' = setups /\ q.kind \in {"list", "relist"}
      /\ q.at = "sent"
  BY <1>1 DEF passkeysRead, factorServer
<1>3. factor.passkeys \in SUBSET Passkeys /\ factor.passkeys \in SUBSET (Nat \cup Passkeys)
  BY AskFacts DEF FactorStates
<1>4. /\ r \in FactorAsks /\ r.no = q.no /\ r.kind = q.kind /\ r.owner = q.owner
      /\ r.x = factor.passkeys /\ r.code = q.code /\ r.at = "done"
  <2>1. PICK x \in SUBSET (Nat \cup Passkeys) : x = factor.passkeys
    BY <1>3
  <2>2. r = [At(q, "done") EXCEPT !.x = x]
    BY <1>1, <2>1
  <2> QED
    BY <2>1, <2>2, AskFacts DEF At, FactorAsks
<1>5. AskIsTyped(r)'
  BY <1>2, <1>3, <1>4, AskFacts DEF AskIsTyped, SetupKinds
<1>6. FactorTypes'
  <2>1. setups' \in Nat /\ setups <= setups'
    BY <1>2, AskFacts
  <2> QED
    BY <1>2, <1>4, <1>5, <2>1, AskFacts, ServedTypes
<1>7. /\ factorRequests' = (factorRequests \ {q}) \cup {r} /\ factorSeen' = factorSeen
      /\ INFOS' = INFOS /\ scanned' = scanned /\ security' = security
  BY <1>2 DEF HandledAs, OnServer
<1>8. CASE q.kind = "relist"
  <2>1. SameLists
    BY <1>4, <1>7, <1>8, OtherThanListed DEF Listed, ListIsAsked
  <2>2. OneListing' /\ ListingWaits'
    BY <1>2, <1>4, <1>6, <1>7, <2>1, ListsWaitOn, ServedOwners DEF FactorInv
  <2>3. CodesAreScanned'
    BY <1>2, <1>4, <1>7, <1>8 DEF FactorInv, FactorWaits, CodesAreScanned, NotLockedOut
  <2>4. OneFactorChange'
    BY <1>4, <1>7, <1>8 DEF FactorInv, FactorWaits, OneFactorChange, ChangeKinds
  <2>5. FactorStays'
    <3>1. EverHadFactor' = EverHadFactor /\ HasFactor' = HasFactor
      BY <1>2, <1>7 DEF EverHadFactor, HasFactor
    <3>2. r.x # {} => HasFactor
      BY <1>4 DEF HasFactor
    <3> HIDE DEF EverHadFactor, HasFactor
    <3> QED
      BY <1>2, <1>4, <1>7, <1>8, <3>1, <3>2 DEF FactorInv, FactorWaits, FactorStays
  <2>6. InfosWait'
    <3>1. TellsPasskeys(r) /\ ~TellsTotp(r) /\ TellsPasskeys(q) /\ ~TellsTotp(q)
      BY <1>4, <1>8 DEF TellsPasskeys, TellsTotp
    <3>2. ASSUME factorSeen = {}
          PROVE  /\ (\A p \in factorRequests' : ~TellsTotp(p)) => (INFOS.totpEnabled <=> factor.secret # NoSetup)
                 /\ (\A p \in factorRequests' : ~TellsPasskeys(p)) => (INFOS.hasPasskeys <=> factor.passkeys # {})
      BY <1>7, <3>1, <3>2 DEF FactorInv, FactorWaits, InfosWait
    <3>3. ASSUME factorSeen = {}, NEW p \in factorRequests', p.at = "done"
          PROVE  /\ p.kind = "validate" => factor.secret # NoSetup
                 /\ p.kind = "disable" => factor.secret = NoSetup
                 /\ p.kind = "register" => factor.passkeys # {}
                 /\ p.kind = "relist" => (p.x # {} <=> factor.passkeys # {})
      BY <1>4, <1>7, <1>8, <3>3 DEF FactorInv, FactorWaits, InfosWait
    <3> QED
      BY <1>2, <1>7, <3>2, <3>3 DEF InfosWait, TellsTotp, TellsPasskeys
  <2> QED
    BY <1>6, <2>2, <2>3, <2>4, <2>5, <2>6 DEF FactorInv, FactorWaits
<1>9. CASE q.kind = "list"
  <2>1. SameChanges
    BY <1>4, <1>7, <1>9, OtherRequests
  <2>2. FactorWaits'
    BY <1>2, <1>6, <1>7, <2>1, FactorWaitsOn
  <2>3. ListIsAsked(r) <=> ListIsAsked(q)
    BY <1>4 DEF ListIsAsked
  <2>4. OneListing'
    <3>1. /\ ~security.open => \A p \in factorRequests' : p.owner # "preferences"
          /\ \A p, s \in factorRequests' : ListIsAsked(p) /\ ListIsAsked(s) => p = s
          /\ (\E p \in factorRequests' : ListIsAsked(p)) <=> (\E p \in factorRequests : ListIsAsked(p))
      <4> HIDE DEF ListIsAsked
      <4> QED
        BY <1>4, <1>7, <2>3 DEF FactorInv, OneListing
    <3> QED
      BY <1>7, <3>1 DEF FactorInv, OneListing, ListIsAsked
  <2>5. ASSUME security.open, factorSeen \subseteq {"together"}
        PROVE  /\ \A p \in factorRequests' :
                     /\ p.kind \in {"register", "delete"} => p.owner = "preferences" /\ ~security.loading
                     /\ ListIsAsked(p) /\ p.at = "done" => p.x = factor.passkeys
               /\ ~security.loading => ListWaits'
    <3>1. \A p \in factorRequests' :
             /\ p.kind \in {"register", "delete"} => p.owner = "preferences" /\ ~security.loading
             /\ ListIsAsked(p) /\ p.at = "done" => p.x = factor.passkeys
      BY <1>4, <1>7, <1>9, <2>5 DEF FactorInv, ListingWaits
    <3>2. ASSUME ~security.loading
          PROVE  ListWaits'
      <4>1. ListWaits
        BY <2>5, <3>2 DEF FactorInv, ListingWaits
      <4>2. \A k : ~Adds(r, k) /\ ~Drops(r, k) /\ ~Adds(q, k) /\ ~Drops(q, k)
        BY <1>4, <1>9 DEF Adds, Drops
      <4>3. r.kind # "delete"
        BY <1>4, <1>9
      <4>4. /\ \A k \in factor.passkeys \ security.listed : \E p \in factorRequests' : Adds(p, k)
            /\ \A k \in security.listed \ factor.passkeys : \E p \in factorRequests' : Drops(p, k)
            /\ \A k \in Passkeys, p \in factorRequests' :
                  /\ Drops(p, k) => k \notin factor.passkeys
                  /\ Adds(p, k) =>
                        /\ k \in factor.passkeys /\ k \notin security.listed
                        /\ \A s \in factorRequests' : /\ s.kind = "delete" => k \notin s.x
                                                      /\ Adds(s, k) => s = p
        BY <1>7, <4>1, <4>2, <4>3 DEF ListWaits
      <4> QED
        BY <1>2, <1>7, <4>4 DEF ListWaits, Adds, Drops
    <3> QED
      BY <3>1, <3>2
  <2>6. ListingWaits'
    BY <1>2, <1>7, <2>5 DEF ListingWaits, ListIsAsked
  <2> QED
    BY <1>6, <2>2, <2>4, <2>6 DEF FactorInv
<1> QED
  BY <1>2, <1>8, <1>9

-----------------------------------------------------------------------------
\* A factor changes: the one change that is under way is done.
LEMMA NoOtherChange ==
    ASSUME FactorInv, NEW q \in factorRequests, q.kind \in ChangeKinds, NEW r, HandledAs(q, r),
           OnServer, "together" \notin factorSeen
    PROVE  \A p \in factorRequests' : p.kind \in ChangeKinds => p = r
BY DEF FactorInv, FactorWaits, OneFactorChange, HandledAs

LEMMA ChangeServed ==
    ASSUME FactorInv, NEW q \in factorRequests, NEW r, HandledAs(q, r), OnServer, r.kind = q.kind,
           r.code = q.code, r.kind \in ChangeKinds, r.at = "done",
           factor'.enforced = factor.enforced,
           factor.enforced /\ "together" \notin factorSeen => HasFactor',
           r.kind # "relist", NotLockedOut',
           r.kind \in {"validate", "disable"} => factor'.passkeys = factor.passkeys,
           r.kind \in {"register", "delete"} => factor'.secret = factor.secret,
           r.kind = "validate" => factor'.secret # NoSetup,
           r.kind = "disable" => factor'.secret = NoSetup,
           r.kind = "register" => factor'.passkeys # {}
    PROVE  FactorWaits'
<1>1. /\ factorRequests' = (factorRequests \ {q}) \cup {r} /\ factorSeen' = factorSeen
      /\ INFOS' = INFOS /\ scanned' = scanned
  BY DEF HandledAs, OnServer
<1>2. "together" \notin factorSeen => \A p \in factorRequests' : p.kind \in ChangeKinds => p = r
  BY NoOtherChange
<1>3. CodesAreScanned'
  BY <1>1 DEF FactorInv, FactorWaits, CodesAreScanned
<1>4. OneFactorChange'
  BY <1>1, <1>2 DEF OneFactorChange
<1>5. FactorStays'
  <2> SUFFICES ASSUME factor.enforced, "together" \notin factorSeen
               PROVE  FactorStays'
    BY <1>1 DEF FactorStays
  <2>1. EverHadFactor' = EverHadFactor
    BY <1>1 DEF EverHadFactor
  <2>2. \A p \in factorRequests' : p.kind \in {"validate", "register", "relist"} => p = r
    BY <1>2 DEF ChangeKinds
  <2>3. \A p \in factorRequests' : p.at # "counted"
    <3>1. \A p \in factorRequests' : p.kind = "delete" => p = r
      BY <1>2 DEF ChangeKinds
    <3>2. \A p \in factorRequests : p.at = "counted" => p.kind = "delete"
      BY AskFacts DEF AskIsTyped
    <3> QED
      BY <1>1, <3>1, <3>2
  <2> HIDE DEF EverHadFactor, HasFactor
  <2> QED
    BY <1>1, <2>1, <2>2, <2>3 DEF FactorStays
<1>6. InfosWait'
  <2> SUFFICES ASSUME factorSeen = {}
               PROVE  InfosWait'
    BY <1>1 DEF InfosWait
  <2>1. \A p \in factorRequests' : p.kind \in ChangeKinds => p = r
    BY <1>2
  <2>2. \A p \in factorRequests : p.kind \in ChangeKinds => p = q
    BY DEF FactorInv, FactorWaits, OneFactorChange
  <2>3. \A p \in factorRequests : (TellsTotp(p) \/ TellsPasskeys(p)) => p = q
    BY <2>2 DEF TellsTotp, TellsPasskeys, ChangeKinds
  <2>4. r \in factorRequests'
    BY <1>1
  <2>5. r.kind \in {"validate", "disable", "register", "delete"}
    BY DEF ChangeKinds
  <2>6. /\ (\A p \in factorRequests' : ~TellsTotp(p)) => (INFOS.totpEnabled <=> factor'.secret # NoSetup)
        /\ (\A p \in factorRequests' : ~TellsPasskeys(p)) => (INFOS.hasPasskeys <=> factor'.passkeys # {})
    <3>1. CASE r.kind \in {"validate", "disable"}
      <4>1. TellsTotp(r) /\ ~TellsPasskeys(r) /\ ~TellsPasskeys(q)
        BY <3>1 DEF TellsTotp, TellsPasskeys
      <4>2. INFOS.hasPasskeys <=> factor.passkeys # {}
        BY <2>3, <4>1 DEF FactorInv, FactorWaits, InfosWait
      <4> QED
        BY <2>4, <3>1, <4>1, <4>2
    <3>2. CASE r.kind \in {"register", "delete"}
      <4>1. ~TellsTotp(r) /\ TellsPasskeys(r) /\ ~TellsTotp(q)
        BY <3>2 DEF TellsTotp, TellsPasskeys
      <4>2. INFOS.totpEnabled <=> factor.secret # NoSetup
        BY <2>3, <4>1 DEF FactorInv, FactorWaits, InfosWait
      <4> QED
        BY <2>4, <3>2, <4>1, <4>2
    <3> QED
      BY <2>5, <3>1, <3>2
  <2>7. ASSUME NEW p \in factorRequests', p.at = "done"
        PROVE  /\ p.kind = "validate" => factor'.secret # NoSetup
               /\ p.kind = "disable" => factor'.secret = NoSetup
               /\ p.kind = "register" => factor'.passkeys # {}
               /\ p.kind = "relist" => (p.x # {} <=> factor'.passkeys # {})
    BY <2>1 DEF ChangeKinds
  <2> QED
    BY <1>1, <2>6, <2>7 DEF InfosWait, TellsTotp, TellsPasskeys
<1> QED
  BY <1>3, <1>4, <1>5, <1>6 DEF FactorWaits

LEMMA TotpServed ==
    ASSUME FactorInv, NEW q \in factorRequests, validateTotp(q) \/ disableServed(q)
    PROVE  FactorInv'
<1>1. PICK r : r = At(q, "done")
  OBVIOUS
<1>2. /\ r \in FactorAsks /\ r.no = q.no /\ r.kind = q.kind /\ r.owner = q.owner
      /\ r.x = q.x /\ r.code = q.code /\ r.at = "done"
  BY <1>1, AtIs
<1>3. HandledAs(q, r) /\ OnServer /\ setups' = setups /\ q.kind \in {"validate", "disable"}
  BY <1>1 DEF validateTotp, disableServed
<1>4. AskIsTyped(r)'
  BY <1>2, <1>3, AskFacts DEF AskIsTyped
<1>5. /\ factor' \in FactorStates /\ factor'.passkeys = factor.passkeys
      /\ factor'.enforced = factor.enforced /\ factor'.begun \subseteq factor.begun
      /\ factor'.secret <= setups
      /\ NotLockedOut' /\ (factor.enforced => HasFactor')
      /\ q.kind = "validate" => factor'.secret # NoSetup
      /\ q.kind = "disable" => factor'.secret = NoSetup
  <2>1. CASE validateTotp(q)
    <3>1. /\ factor' = [factor EXCEPT !.begun = @ \ q.x, !.secret = q.code]
          /\ q.code \in factor.begun /\ q.kind = "validate"
      BY <2>1 DEF validateTotp
    <3>2. q.code \in 1 .. setups /\ q.code \in Nat /\ q.code <= setups /\ q.code # NoSetup
      BY <3>1, AskFacts DEF NoSetup
    <3>3. factor' \in FactorStates /\ factor'.passkeys = factor.passkeys
          /\ factor'.enforced = factor.enforced /\ factor'.begun \subseteq factor.begun
          /\ factor'.secret = q.code
      BY <3>1, <3>2, AskFacts DEF FactorStates
    <3>4. q.code \in scanned /\ scanned' = scanned
      BY <1>3, <3>1, <3>2 DEF FactorInv, FactorWaits, CodesAreScanned, OnServer
    <3> QED
      BY <3>1, <3>2, <3>3, <3>4 DEF NotLockedOut, HasFactor
  <2>2. CASE disableServed(q)
    <3>1. /\ factor' = [factor EXCEPT !.secret = 0] /\ ~factor.enforced /\ q.kind = "disable"
      BY <2>2 DEF disableServed, NoSetup
    <3>2. factor' \in FactorStates /\ factor'.passkeys = factor.passkeys
          /\ factor'.enforced = factor.enforced /\ factor'.begun = factor.begun
          /\ factor'.secret = 0
      BY <3>1, AskFacts DEF FactorStates
    <3>3. 0 <= setups
      BY AskFacts
    <3> QED
      BY <3>1, <3>2, <3>3 DEF NotLockedOut, NoSetup
  <2> QED
    BY <2>1, <2>2
<1>6. FactorTypes'
  <2>1. setups' \in Nat /\ setups <= setups'
    BY <1>3, AskFacts
  <2>2. factor'.begun \subseteq 1 .. setups' /\ factor'.secret <= setups'
    BY <1>3, <1>5, AskFacts
  <2> QED
    BY <1>2, <1>3, <1>4, <1>5, <2>1, <2>2, ServedTypes
<1>7. FactorWaits'
  <2>1. /\ r.kind \in ChangeKinds /\ r.kind # "relist" /\ r.kind \notin {"register", "delete"}
        /\ r.kind # "register"
    BY <1>2, <1>3 DEF ChangeKinds
  <2> QED
    BY <1>2, <1>3, <1>5, <2>1, ChangeServed
<1>8. SameLists
  BY <1>2, <1>3, OtherThanListed DEF HandledAs, Listed, ListIsAsked
<1>9. OneListing' /\ ListingWaits'
  BY <1>2, <1>3, <1>5, <1>6, <1>8, ListsWaitOn, ServedOwners DEF FactorInv, OnServer
<1> QED
  BY <1>6, <1>7, <1>9 DEF FactorInv

-----------------------------------------------------------------------------
\* The list and the requests that are out about it, when a passkey is added or taken away.
LEMMA OneListingServed ==
    ASSUME FactorInv, NEW q \in factorRequests, NEW r, HandledAs(q, r), OnServer, r.owner = q.owner,
           r.kind = q.kind, r.kind # "list"
    PROVE  OneListing'
<1>1. /\ factorRequests' = (factorRequests \ {q}) \cup {r} /\ security' = security
  BY DEF HandledAs, OnServer
<1>2. ~ListIsAsked(r) /\ ~ListIsAsked(q)
  BY DEF ListIsAsked
<1>3. /\ ~security.open => \A p \in factorRequests' : p.owner # "preferences"
      /\ \A p, s \in factorRequests' : ListIsAsked(p) /\ ListIsAsked(s) => p = s
      /\ (\E p \in factorRequests' : ListIsAsked(p)) <=> (\E p \in factorRequests : ListIsAsked(p))
  <2> HIDE DEF ListIsAsked
  <2> QED
    BY <1>1, <1>2 DEF FactorInv, OneListing
<1> QED
  BY <1>1, <1>3 DEF FactorInv, OneListing, ListIsAsked

LEMMA ListingServed ==
    ASSUME FactorInv, NEW q \in factorRequests, NEW r, HandledAs(q, r), OnServer, r.owner = q.owner,
           r.kind = q.kind, r.kind \in {"register", "delete"},
           security.open /\ factorSeen \subseteq {"together"} /\ ~security.loading /\ ListWaits => ListWaits'
    PROVE  ListingWaits'
<1>1. /\ factorRequests' = (factorRequests \ {q}) \cup {r} /\ security' = security /\ factorSeen' = factorSeen
  BY DEF HandledAs, OnServer
<1> SUFFICES ASSUME security.open, factorSeen \subseteq {"together"}
             PROVE  ListingWaits'
  BY <1>1 DEF ListingWaits
<1>2. ~security.loading /\ ListWaits /\ q.owner = "preferences"
  BY DEF FactorInv, ListingWaits
<1>3. \A p \in factorRequests : ~ListIsAsked(p)
  BY <1>2 DEF FactorInv, OneListing
<1>4. \A p \in factorRequests' : ~ListIsAsked(p)
  BY <1>1, <1>3 DEF ListIsAsked
<1>5. \A p \in factorRequests' : p.kind \in {"register", "delete"} => p.owner = "preferences"
  BY <1>1, <1>2 DEF FactorInv, ListingWaits
<1> QED
  BY <1>1, <1>2, <1>4, <1>5 DEF ListingWaits, ListIsAsked

LEMMA RegisteredStep ==
    ASSUME FactorInv, NEW q \in factorRequests, finishPasskeyRegistration(q)
    PROVE  FactorInv'
<1>1. PICK k \in Passkeys \ Known :
        /\ factor' = [factor EXCEPT !.passkeys = @ \cup {k}]
        /\ HandledAs(q, [At(q, "done") EXCEPT !.x = {k}])
  BY DEF finishPasskeyRegistration
<1>2. PICK x \in SUBSET (Nat \cup Passkeys) : x = {k}
  OBVIOUS
<1>3. PICK r : r = [At(q, "done") EXCEPT !.x = x]
  OBVIOUS
<1>4. /\ r \in FactorAsks /\ r.no = q.no /\ r.kind = q.kind /\ r.owner = q.owner
      /\ r.x = {k} /\ r.code = q.code /\ r.at = "done"
  BY <1>2, <1>3, AskFacts DEF At, FactorAsks
<1>5. HandledAs(q, r) /\ OnServer /\ setups' = setups /\ q.kind = "register" /\ q.at = "sent"
  BY <1>1, <1>2, <1>3 DEF finishPasskeyRegistration
<1>6. AskIsTyped(r)'
  BY <1>4, <1>5, AskFacts DEF AskIsTyped, SetupKinds
<1>7. /\ factor' \in FactorStates /\ factor'.passkeys = factor.passkeys \cup {k}
      /\ factor'.enforced = factor.enforced /\ factor'.begun = factor.begun
      /\ factor'.secret = factor.secret
  BY <1>1, AskFacts DEF FactorStates
<1>8. FactorTypes'
  <2>1. setups' \in Nat /\ setups <= setups' /\ factor'.secret <= setups' /\ factor'.begun \subseteq 1 .. setups'
    BY <1>5, <1>7, AskFacts
  <2> QED
    BY <1>4, <1>5, <1>6, <1>7, <2>1, ServedTypes
<1>9. FactorWaits'
  <2>1. /\ r.kind \in ChangeKinds /\ r.kind # "relist" /\ r.kind \notin {"validate", "disable"}
        /\ r.kind # "validate" /\ r.kind # "disable"
    BY <1>4, <1>5 DEF ChangeKinds
  <2>2. HasFactor'
    BY <1>7 DEF HasFactor
  <2>3. NotLockedOut'
    BY <1>5, <1>7 DEF FactorInv, FactorWaits, CodesAreScanned, NotLockedOut, OnServer
  <2>4. factor'.passkeys # {}
    BY <1>7
  <2> QED
    BY <1>4, <1>5, <1>7, <2>1, <2>2, <2>3, <2>4, ChangeServed
<1>10. OneListing'
  <2>1. r.kind # "list"
    BY <1>4, <1>5
  <2> QED
    BY <1>4, <1>5, <2>1, OneListingServed
<1>11. ASSUME ListWaits
       PROVE  ListWaits'
  <2>1. /\ factorRequests' = (factorRequests \ {q}) \cup {r} /\ security' = security
    BY <1>5 DEF HandledAs, OnServer
  <2>2. k \notin factor.passkeys /\ k \notin security.listed /\ \A p \in factorRequests : k \notin p.x
    BY DEF Known
  <2>3. \A j : (Adds(r, j) <=> j = k) /\ ~Drops(r, j) /\ ~Adds(q, j) /\ ~Drops(q, j)
    BY <1>4, <1>5 DEF Adds, Drops
  <2>4. \A p \in factorRequests : ~Adds(p, k) /\ ~Drops(p, k)
    BY <2>2 DEF Adds, Drops
  <2>5. r \in factorRequests' /\ r.kind # "delete"
    BY <1>4, <1>5, <2>1
  <2>6. ASSUME NEW j \in factor'.passkeys \ security.listed
        PROVE  \E p \in factorRequests' : Adds(p, j)
    <3>1. CASE j = k
      BY <2>3, <2>5, <3>1
    <3>2. CASE j # k
      BY <1>7, <1>11, <2>1, <2>3, <3>2 DEF ListWaits
    <3> QED
      BY <3>1, <3>2
  <2>7. ASSUME NEW j \in security.listed \ factor'.passkeys
        PROVE  \E p \in factorRequests' : Drops(p, j)
    BY <1>7, <1>11, <2>1, <2>3 DEF ListWaits
  <2>8. ASSUME NEW j \in Passkeys, NEW p \in factorRequests', Drops(p, j)
        PROVE  j \notin factor'.passkeys
    BY <1>7, <1>11, <2>1, <2>3, <2>4, <2>8 DEF ListWaits
  <2>9. ASSUME NEW j \in Passkeys, NEW p \in factorRequests', Adds(p, j)
        PROVE  /\ j \in factor'.passkeys /\ j \notin security.listed
               /\ \A s \in factorRequests' : /\ s.kind = "delete" => j \notin s.x
                                             /\ Adds(s, j) => s = p
    <3>1. CASE p = r
      <4>1. j = k
        BY <2>3, <2>9, <3>1
      <4>2. j \in factor'.passkeys /\ j \notin security.listed
        BY <1>7, <2>2, <4>1
      <4>3. \A s \in factorRequests' : s.kind = "delete" => j \notin s.x
        BY <2>1, <2>2, <2>5, <4>1
      <4>4. \A s \in factorRequests' : Adds(s, j) => s = p
        BY <2>1, <2>4, <3>1, <4>1
      <4> QED
        BY <4>2, <4>3, <4>4
    <3>2. CASE p # r
      <4>1. p \in factorRequests /\ j # k
        BY <2>1, <2>4, <2>9, <3>2
      <4>2. /\ j \in factor.passkeys /\ j \notin security.listed
            /\ \A s \in factorRequests : /\ s.kind = "delete" => j \notin s.x
                                         /\ Adds(s, j) => s = p
        BY <1>11, <2>9, <4>1 DEF ListWaits
      <4> QED
        BY <1>7, <2>1, <2>3, <2>5, <4>1, <4>2
    <3> QED
      BY <3>1, <3>2
  <2> QED
    BY <2>1, <2>6, <2>7, <2>8, <2>9 DEF ListWaits, Adds, Drops
<1>12. ListingWaits'
  <2>1. r.kind \in {"register", "delete"}
    BY <1>4, <1>5
  <2> QED
    BY <1>4, <1>5, <1>11, <2>1, ListingServed
<1> QED
  BY <1>8, <1>9, <1>10, <1>12 DEF FactorInv

-----------------------------------------------------------------------------
\* A deletion leaves a factor where one is enforced.
LEMMA CountedLeaves ==
    ASSUME FactorInv, NEW q \in factorRequests, passkeysCounted(q), factor.enforced
    PROVE  factor.secret # NoSetup \/ factor.passkeys \ q.x # {}
<1>1. PICK k : q.x = {k}
  BY AskFacts DEF passkeysCounted, AskIsTyped
<1>2. Cardinality({k}) = 1 /\ Cardinality({}) = 0
  BY FS_Singleton, FS_EmptySet
<1>3. ASSUME factor.secret = NoSetup, factor.passkeys \subseteq {k}
      PROVE  FALSE
  <2>1. factor.passkeys = {} \/ factor.passkeys = {k}
    BY <1>3
  <2>2. Cardinality(factor.passkeys) > 1
    BY <1>3 DEF passkeysCounted
  <2>3. CASE factor.passkeys = {}
    <3>1. Cardinality(factor.passkeys) = 0
      BY <1>2, <2>3
    <3> QED
      BY <2>2, <3>1
  <2>4. CASE factor.passkeys = {k}
    <3>1. Cardinality(factor.passkeys) = 1
      BY <1>2, <2>4
    <3> QED
      BY <2>2, <3>1
  <2> QED
    BY <2>1, <2>3, <2>4
<1> QED
  BY <1>1, <1>3

LEMMA CountedStep ==
    ASSUME FactorInv, NEW q \in factorRequests, passkeysCounted(q)
    PROVE  FactorInv'
<1>1. PICK r : r = At(q, "counted")
  OBVIOUS
<1>2. /\ r \in FactorAsks /\ r.no = q.no /\ r.kind = q.kind /\ r.owner = q.owner
      /\ r.x = q.x /\ r.code = q.code /\ r.at = "counted"
  BY <1>1, AtIs
<1>3. HandledAs(q, r) /\ OnServer /\ factor' = factor /\ setups' = setups /\ q.kind = "delete" /\ q.at = "sent"
  BY <1>1 DEF passkeysCounted, factorServer
<1>4. AskIsTyped(r)'
  BY <1>2, <1>3, AskFacts DEF AskIsTyped
<1>5. FactorTypes'
  <2>1. setups' \in Nat /\ setups <= setups'
    BY <1>3, AskFacts
  <2> QED
    BY <1>2, <1>3, <1>4, <2>1, AskFacts, ServedTypes
<1>6. /\ factorRequests' = (factorRequests \ {q}) \cup {r} /\ factorSeen' = factorSeen
      /\ INFOS' = INFOS /\ scanned' = scanned /\ security' = security
  BY <1>3 DEF HandledAs, OnServer
<1>7. FactorWaits'
  <2>1. CodesAreScanned'
    BY <1>2, <1>3, <1>6 DEF FactorInv, FactorWaits, CodesAreScanned, NotLockedOut
  <2>2. OneFactorChange'
    BY <1>2, <1>3, <1>6 DEF FactorInv, FactorWaits, OneFactorChange, ChangeKinds
  <2>3. FactorStays'
    <3>1. EverHadFactor' = EverHadFactor /\ HasFactor' = HasFactor
      BY <1>3, <1>6 DEF EverHadFactor, HasFactor
    <3>2. factor.enforced => factor.secret # NoSetup \/ factor.passkeys \ r.x # {}
      BY <1>2, CountedLeaves
    <3> HIDE DEF EverHadFactor, HasFactor
    <3> QED
      BY <1>2, <1>3, <1>6, <3>1, <3>2 DEF FactorInv, FactorWaits, FactorStays
  <2>4. InfosWait'
    <3>1. ~TellsPasskeys(r) /\ ~TellsTotp(r) /\ ~TellsPasskeys(q) /\ ~TellsTotp(q)
      BY <1>2, <1>3 DEF TellsPasskeys, TellsTotp
    <3>2. ASSUME factorSeen = {}
          PROVE  /\ (\A p \in factorRequests' : ~TellsTotp(p)) => (INFOS.totpEnabled <=> factor.secret # NoSetup)
                 /\ (\A p \in factorRequests' : ~TellsPasskeys(p)) => (INFOS.hasPasskeys <=> factor.passkeys # {})
      BY <1>6, <3>1, <3>2 DEF FactorInv, FactorWaits, InfosWait
    <3>3. ASSUME factorSeen = {}, NEW p \in factorRequests', p.at = "done"
          PROVE  /\ p.kind = "validate" => factor.secret # NoSetup
                 /\ p.kind = "disable" => factor.secret = NoSetup
                 /\ p.kind = "register" => factor.passkeys # {}
                 /\ p.kind = "relist" => (p.x # {} <=> factor.passkeys # {})
      BY <1>2, <1>6, <3>3 DEF FactorInv, FactorWaits, InfosWait
    <3> QED
      BY <1>3, <1>6, <3>2, <3>3 DEF InfosWait, TellsTotp, TellsPasskeys
  <2> QED
    BY <2>1, <2>2, <2>3, <2>4 DEF FactorWaits
<1>8. SameLists
  <2>1. SameFor(r, q) /\ \A p \in factorRequests : SameFor(p, p)
    BY <1>2, <1>3 DEF SameFor
  <2> HIDE DEF SameFor
  <2> QED
    BY <1>6, <2>1 DEF SameLists
<1>9. OneListing' /\ ListingWaits'
  BY <1>2, <1>3, <1>5, <1>6, <1>8, ListsWaitOn, ServedOwners DEF FactorInv
<1> QED
  BY <1>5, <1>7, <1>9 DEF FactorInv

LEMMA DeletedStep ==
    ASSUME FactorInv, NEW q \in factorRequests, passkeyDeleted(q)
    PROVE  FactorInv'
<1>1. PICK r : r = At(q, "done")
  OBVIOUS
<1>2. /\ r \in FactorAsks /\ r.no = q.no /\ r.kind = q.kind /\ r.owner = q.owner
      /\ r.x = q.x /\ r.code = q.code /\ r.at = "done"
  BY <1>1, AtIs
<1>3. /\ HandledAs(q, r) /\ OnServer /\ setups' = setups /\ q.kind = "delete" /\ q.at = "counted"
      /\ factor' = [factor EXCEPT !.passkeys = @ \ q.x]
  BY <1>1 DEF passkeyDeleted
<1>4. AskIsTyped(r)'
  BY <1>2, <1>3, AskFacts DEF AskIsTyped
<1>5. /\ factor' \in FactorStates /\ factor'.passkeys = factor.passkeys \ q.x
      /\ factor'.enforced = factor.enforced /\ factor'.begun = factor.begun
      /\ factor'.secret = factor.secret
  BY <1>3, AskFacts DEF FactorStates
<1>6. FactorTypes'
  <2>1. setups' \in Nat /\ setups <= setups' /\ factor'.secret <= setups' /\ factor'.begun \subseteq 1 .. setups'
    BY <1>3, <1>5, AskFacts
  <2> QED
    BY <1>2, <1>3, <1>4, <1>5, <2>1, ServedTypes
<1>7. FactorWaits'
  <2>1. /\ r.kind \in ChangeKinds /\ r.kind # "relist" /\ r.kind \notin {"validate", "disable"}
        /\ r.kind # "validate" /\ r.kind # "disable" /\ r.kind # "register"
    BY <1>2, <1>3 DEF ChangeKinds
  <2>2. factor.enforced /\ "together" \notin factorSeen => HasFactor'
    BY <1>3, <1>5 DEF FactorInv, FactorWaits, FactorStays, HasFactor
  <2>3. NotLockedOut'
    BY <1>3, <1>5 DEF FactorInv, FactorWaits, CodesAreScanned, NotLockedOut, OnServer
  <2> QED
    BY <1>2, <1>3, <1>5, <2>1, <2>2, <2>3, ChangeServed
<1>8. OneListing'
  <2>1. r.kind # "list"
    BY <1>2, <1>3
  <2> QED
    BY <1>2, <1>3, <2>1, OneListingServed
<1>9. ASSUME ListWaits
      PROVE  ListWaits'
  <2>1. /\ factorRequests' = (factorRequests \ {q}) \cup {r} /\ security' = security
    BY <1>3 DEF HandledAs, OnServer
  <2>2. \A j : (Drops(r, j) <=> j \in q.x) /\ ~Adds(r, j) /\ ~Adds(q, j) /\ ~Drops(q, j)
    BY <1>2, <1>3 DEF Adds, Drops
  <2>3. r \in factorRequests' /\ r.x = q.x
    BY <1>2, <2>1
  <2>4. ASSUME NEW j \in factor'.passkeys \ security.listed
        PROVE  \E p \in factorRequests' : Adds(p, j)
    BY <1>5, <1>9, <2>1, <2>2 DEF ListWaits
  <2>5. ASSUME NEW j \in security.listed \ factor'.passkeys
        PROVE  \E p \in factorRequests' : Drops(p, j)
    BY <1>5, <1>9, <2>1, <2>2, <2>3 DEF ListWaits
  <2>6. ASSUME NEW j \in Passkeys, NEW p \in factorRequests', Drops(p, j)
        PROVE  j \notin factor'.passkeys
    BY <1>5, <1>9, <2>1, <2>2, <2>6 DEF ListWaits
  <2>7. ASSUME NEW j \in Passkeys, NEW p \in factorRequests', Adds(p, j)
        PROVE  /\ j \in factor'.passkeys /\ j \notin security.listed
               /\ \A s \in factorRequests' : /\ s.kind = "delete" => j \notin s.x
                                             /\ Adds(s, j) => s = p
    <3>1. p \in factorRequests
      BY <2>1, <2>2, <2>7
    <3>2. /\ j \in factor.passkeys /\ j \notin security.listed
          /\ \A s \in factorRequests : /\ s.kind = "delete" => j \notin s.x
                                       /\ Adds(s, j) => s = p
      BY <1>9, <2>7, <3>1 DEF ListWaits
    <3>3. j \notin q.x
      BY <1>3, <3>2
    <3> QED
      BY <1>5, <2>1, <2>2, <2>3, <3>2, <3>3
  <2> QED
    BY <2>1, <2>4, <2>5, <2>6, <2>7 DEF ListWaits, Adds, Drops
<1>10. ListingWaits'
  <2>1. r.kind \in {"register", "delete"}
    BY <1>2, <1>3
  <2> QED
    BY <1>2, <1>3, <1>9, <2>1, ListingServed
<1> QED
  BY <1>6, <1>7, <1>8, <1>10 DEF FactorInv

LEMMA ServedStep ==
    ASSUME FactorInv, NEW q \in factorRequests, factorServed(q)
    PROVE  FactorInv'
BY SetupServed, TotpServed, RegisteredStep, CountedStep, DeletedStep, PasskeysReadStep, RefusedStep
   DEF factorServed

-----------------------------------------------------------------------------
\* The answers.
LEMMA TakenTypes ==
    ASSUME FactorInv, NEW q \in factorRequests, Taken(q), UNCHANGED factorServer,
           INFOS' \in [enforceTOTP : BOOLEAN, totpEnabled : BOOLEAN, hasPasskeys : BOOLEAN],
           security' \in Securities, ModalsAreTyped', factorSeen' \subseteq factorSeen \cup {"lost"}
    PROVE  FactorTypes'
<1>1. /\ factor' = factor /\ setups' = setups /\ app' = app /\ factorSent' = factorSent
      /\ factorRequests' \subseteq factorRequests
  BY DEF Taken, Rest, factorServer
<1>2. FactorTypes
  BY DEF FactorInv
<1>3. \A p \in factorRequests' : AskIsTyped(p)' /\ p.no <= factorSent'
  BY <1>1, <1>2 DEF FactorTypes, AskIsTyped
<1>4. \A p, s \in factorRequests' : p.no = s.no => p = s
  BY <1>1, <1>2 DEF FactorTypes
<1>5. factorSeen' \subseteq {"together", "reopened", "lost"}
  BY <1>2 DEF FactorTypes
<1> QED
  BY <1>1, <1>2, <1>3, <1>4, <1>5 DEF FactorTypes

LEMMA TakenOwners ==
    ASSUME FactorInv, NEW q \in factorRequests, Taken(q)
    PROVE  /\ \A p \in factorRequests' : p.owner = "preferences" => security.open
           /\ factorRequests' = factorRequests \ {q}
BY SettledOwners DEF Taken, Rest

LEMMA ModalsUnchanged ==
    ASSUME FactorInv, setupModal' = setupModal, setups' = setups
    PROVE  ModalsAreTyped'
BY DEF FactorInv, FactorTypes, ModalsAreTyped

\* What INFOS is told of a factor is so.
LEMMA ToldWaits ==
    ASSUME FactorInv, FactorTypes', NEW q \in factorRequests, q.at = "done",
           q.kind \in {"validate", "disable", "register", "relist"},
           factor' = factor, scanned' = scanned, factorSeen' = factorSeen,
           \A p \in factorRequests' : p.kind \in ChangeKinds => p \in factorRequests /\ p # q,
           IF q.kind \in {"validate", "disable"}
           THEN (INFOS'.totpEnabled <=> q.kind = "validate") /\ INFOS'.hasPasskeys = INFOS.hasPasskeys
           ELSE /\ INFOS'.totpEnabled = INFOS.totpEnabled
                /\ INFOS'.hasPasskeys <=> (q.kind = "register" \/ q.x # {})
    PROVE  FactorWaits'
<1>1. q.kind \in ChangeKinds
  BY DEF ChangeKinds
<1>2. CodesAreScanned'
  BY DEF FactorInv, FactorWaits, CodesAreScanned, NotLockedOut, ChangeKinds
<1>3. OneFactorChange'
  BY DEF FactorInv, FactorWaits, OneFactorChange
<1>4. "together" \notin factorSeen => \A p \in factorRequests' : p.kind \notin ChangeKinds
  BY <1>1 DEF FactorInv, FactorWaits, OneFactorChange
<1>5. FactorStays'
  <2> SUFFICES ASSUME factor.enforced, "together" \notin factorSeen
               PROVE  FactorStays'
    BY DEF FactorStays
  <2>1. \A p \in factorRequests' : p.kind \notin {"validate", "register", "relist"}
    BY <1>4 DEF ChangeKinds
  <2>2. \A p \in factorRequests' : p.at # "counted"
    BY <1>4 DEF FactorTypes, AskIsTyped, ChangeKinds
  <2>3. EverHadFactor' => HasFactor
    <3>1. EverHadFactor => HasFactor
      BY DEF FactorInv, FactorWaits, FactorStays
    <3>2. q.kind \in {"validate", "register"} \/ (q.kind = "relist" /\ q.x # {}) => HasFactor
      BY DEF FactorInv, FactorWaits, FactorStays
    <3>3. EverHadFactor' => EverHadFactor \/ q.kind \in {"validate", "register"}
                            \/ (q.kind = "relist" /\ q.x # {})
      BY DEF EverHadFactor
    <3> QED
      BY <3>1, <3>2, <3>3
  <2>4. HasFactor' = HasFactor
    BY DEF HasFactor
  <2> HIDE DEF EverHadFactor, HasFactor
  <2> QED
    BY <2>1, <2>2, <2>3, <2>4 DEF FactorStays
<1>6. InfosWait'
  <2> SUFFICES ASSUME factorSeen = {}
               PROVE  InfosWait'
    BY DEF InfosWait
  <2>1. \A p \in factorRequests' : p.kind \notin ChangeKinds
    BY <1>4
  <2>2. \A p \in factorRequests : p.kind \in ChangeKinds => p = q
    BY <1>1 DEF FactorInv, FactorWaits, OneFactorChange
  <2>3. /\ q.kind = "validate" => factor.secret # NoSetup
        /\ q.kind = "disable" => factor.secret = NoSetup
        /\ q.kind = "register" => factor.passkeys # {}
        /\ q.kind = "relist" => (q.x # {} <=> factor.passkeys # {})
    BY DEF FactorInv, FactorWaits, InfosWait
  <2>4. q.kind \in {"validate", "disable"} => (INFOS.hasPasskeys <=> factor.passkeys # {})
    <3>1. q.kind \in {"validate", "disable"} => \A p \in factorRequests : ~TellsPasskeys(p)
      BY <2>2 DEF TellsPasskeys, ChangeKinds
    <3> QED
      BY <3>1 DEF FactorInv, FactorWaits, InfosWait
  <2>5. q.kind \in {"register", "relist"} => (INFOS.totpEnabled <=> factor.secret # NoSetup)
    <3>1. q.kind \in {"register", "relist"} => \A p \in factorRequests : ~TellsTotp(p)
      BY <2>2 DEF TellsTotp, ChangeKinds
    <3> QED
      BY <3>1 DEF FactorInv, FactorWaits, InfosWait
  <2>6. /\ INFOS'.totpEnabled <=> factor.secret # NoSetup
        /\ INFOS'.hasPasskeys <=> factor.passkeys # {}
    BY <2>3, <2>4, <2>5
  <2> QED
    BY <2>1, <2>6 DEF InfosWait, ChangeKinds
<1> QED
  BY <1>2, <1>3, <1>5, <1>6 DEF FactorWaits

\* The answers that a dialog waits for.
LEMMA SetupAnswered ==
    ASSUME FactorInv, NEW q \in factorRequests, generateAnswered(q) \/ secretAnswered(q),
           UNCHANGED <<factorServer, scanned, factorSeen>>
    PROVE  FactorInv'
<1>1. /\ factor' = factor /\ setups' = setups /\ scanned' = scanned /\ factorSeen' = factorSeen
      /\ INFOS' = INFOS /\ security' = security /\ q.kind \in {"generate", "secret"}
  BY DEF factorServer, generateAnswered, secretAnswered
<1>2. /\ security' \in Securities /\ setups \in Nat
      /\ INFOS' \in [enforceTOTP : BOOLEAN, totpEnabled : BOOLEAN, hasPasskeys : BOOLEAN]
  BY <1>1 DEF FactorInv, FactorTypes
<1>3. ASSUME Taken(q), ModalsAreTyped'
      PROVE  FactorInv'
  <2>1. FactorTypes'
    BY <1>1, <1>2, <1>3, TakenTypes
  <2>2. factorRequests' = factorRequests \ {q}
    BY <1>3, TakenOwners
  <2>3. SameChanges /\ SameLists
    BY <1>1, <2>2, OtherRequests, OtherThanListed DEF Listed, ListIsAsked
  <2> QED
    BY <1>1, <1>3, <2>1, <2>3, QuietStep, TakenOwners DEF Quiet
<1>4. CASE generateAnswered(q)
  <2>1. PICK n \in q.x :
        \/ /\ q.owner = "app" /\ AppRenders(app, 0, Rest(q))
           /\ LET m == IF setupModal["app"].show THEN setupModal["app"] ELSE HiddenModal
              IN  ModalAfter("app", [m EXCEPT !.show = TRUE, !.setup = n])
        \/ /\ q.owner = "preferences" /\ Taken(q)
           /\ ModalAfter("preferences", [setupModal["preferences"] EXCEPT !.show = TRUE, !.setup = n])
        \/ q.owner = "gone" /\ Taken(q) /\ UNCHANGED setupModal
    BY <1>4 DEF generateAnswered
  <2>2. n \in 1 .. setups /\ n \in Nat /\ n <= setups /\ n # NoSetup
    <3>1. q.kind = "generate"
      BY <1>4 DEF generateAnswered
    <3>2. q.x \subseteq 1 .. setups
      BY <3>1, AskFacts DEF AskIsTyped
    <3> QED
      BY <1>2, <3>2 DEF NoSetup
  <2>3. "app" \in Owners /\ "preferences" \in Owners
    BY DEF Owners
  <2>4. \A m \in Modals : \A c : c = [m EXCEPT !.show = TRUE, !.setup = n] =>
           c \in Modals /\ c.setup = n /\ c.secret = m.secret
    BY <2>2 DEF Modals
  <2>5. ASSUME NEW o \in Owners, NEW m \in Modals, m.secret <= setups,
               setupModal' = [setupModal EXCEPT ![o] = [m EXCEPT !.show = TRUE, !.setup = n]]
        PROVE  ModalsAreTyped'
    <3>1. PICK c : c = [m EXCEPT !.show = TRUE, !.setup = n]
      OBVIOUS
    <3>2. c \in Modals /\ c.setup = n /\ c.secret = m.secret
      BY <2>4, <3>1
    <3>3. setupModal' = [setupModal EXCEPT ![o] = c]
      BY <2>5, <3>1
    <3>4. setups' \in Nat /\ setups <= setups' /\ c.setup <= setups' /\ c.secret <= setups'
          /\ c.setup # NoSetup
      BY <1>1, <1>2, <2>2, <2>5, <3>2
    <3> QED
      BY <3>2, <3>3, <3>4, ModalsStayTyped
  <2>6. CASE /\ q.owner = "app" /\ AppRenders(app, 0, Rest(q))
             /\ LET m == IF setupModal["app"].show THEN setupModal["app"] ELSE HiddenModal
                IN  ModalAfter("app", [m EXCEPT !.show = TRUE, !.setup = n])
    <3>1. PICK m : m = IF setupModal["app"].show THEN setupModal["app"] ELSE HiddenModal
      OBVIOUS
    <3>2. m \in Modals /\ m.secret <= setups
      <4>1. setupModal["app"] \in Modals /\ setupModal["app"].secret \in 0 .. setups
        BY <2>3, ModalTypes
      <4>2. HiddenModal \in Modals /\ HiddenModal.secret = 0 /\ 0 <= setups
        BY <1>2, HiddenTypes DEF HiddenIsTyped
      <4> QED
        BY <1>2, <3>1, <4>1, <4>2
    <3>3. setupModal' = [setupModal EXCEPT !["app"] = [m EXCEPT !.show = TRUE, !.setup = n]]
      BY <2>3, <2>6, <3>1 DEF ModalAfter
    <3>4. ModalsAreTyped'
      BY <2>3, <2>5, <3>2, <3>3
    <3>5. PICK left : left = Rest(q)
      OBVIOUS
    <3>6. left = factorRequests \ {q}
      BY <3>5 DEF Rest
    <3>7. /\ app' \in AppStates /\ factorSent' \in Nat
          /\ \A p \in factorRequests' : AskIsTyped(p)' /\ p.no <= factorSent'
          /\ \A p, s \in factorRequests' : p.no = s.no => p = s
          /\ left \subseteq factorRequests'
          /\ \A p \in factorRequests' : p \in left \/ AskedByApp(p)
      <4>1. AppRenders(app, 0, left) /\ 0 \in Nat
        BY <2>6, <3>5
      <4>2. \A p \in left : AskIsTyped(p)' /\ p.no <= factorSent + 0
        <5>1. \A p \in factorRequests : AskIsTyped(p)'
          BY <1>1, AskFacts DEF AskIsTyped
        <5> QED
          BY <3>6, <5>1, NotYetSent, AskFacts
      <4>3. \A p, s \in left : p.no = s.no => p = s
        BY <3>6, AskFacts DEF FactorTypes
      <4>4. 0 \in {0, 1} /\ (0 = 1 <=> \E p \in left : p.no = factorSent + 1)
        BY <3>6, NotYetSent, AskFacts
      <4>5. setups' \in Nat /\ FactorTypes /\ app \in AppStates
        BY <1>1, <1>2, AppTypes DEF FactorInv
      <4> QED
        BY <1>2, <4>1, <4>2, <4>3, <4>4, <4>5, FactorRenders
    <3>8. FactorTypes'
      BY <1>1, <1>2, <3>4, <3>7, AskFacts DEF FactorTypes, FactorStates
    <3>9. SameChanges /\ SameLists
      BY <1>1, <3>6, <3>7, OtherRequests, OtherThanListed DEF Listed, ListIsAsked, AskedByApp
    <3>10. \A p \in factorRequests' : p.owner = "preferences" => security.open
      BY <3>6, <3>7, SettledOwners DEF AskedByApp
    <3> QED
      BY <1>1, <3>8, <3>9, <3>10, QuietStep DEF Quiet
  <2>7. CASE /\ q.owner = "preferences" /\ Taken(q)
             /\ ModalAfter("preferences", [setupModal["preferences"] EXCEPT !.show = TRUE, !.setup = n])
    <3>1. setupModal["preferences"] \in Modals /\ setupModal["preferences"].secret <= setups
      BY <1>2, <2>3, ModalTypes
    <3>2. setupModal' = [setupModal EXCEPT !["preferences"] =
                            [setupModal["preferences"] EXCEPT !.show = TRUE, !.setup = n]]
      BY <2>3, <2>7 DEF ModalAfter
    <3>3. ModalsAreTyped'
      <4>1. PICK m : m = setupModal["preferences"]
        OBVIOUS
      <4>2. m \in Modals /\ m.secret <= setups
        BY <3>1, <4>1
      <4>3. setupModal' = [setupModal EXCEPT !["preferences"] = [m EXCEPT !.show = TRUE, !.setup = n]]
        BY <3>2, <4>1
      <4> QED
        BY <2>3, <2>5, <4>2, <4>3
    <3> QED
      BY <1>3, <2>7, <3>3
  <2>8. CASE q.owner = "gone" /\ Taken(q) /\ UNCHANGED setupModal
    BY <1>1, <1>3, <2>8, ModalsUnchanged
  <2> QED
    BY <2>1, <2>6, <2>7, <2>8
<1>5. CASE secretAnswered(q)
  <2>1. PICK n \in q.x :
          IF q.owner \in Owners
          THEN ModalAfter(q.owner, [setupModal[q.owner] EXCEPT !.secret = n, !.secretLoading = FALSE])
          ELSE UNCHANGED setupModal
    BY <1>5 DEF secretAnswered
  <2>2. n \in 0 .. setups /\ n \in Nat /\ n <= setups
    <3>1. q.kind \in SetupKinds
      BY <1>5 DEF secretAnswered, SetupKinds
    <3>2. q.x \subseteq 0 .. setups
      BY <3>1, AskFacts DEF AskIsTyped
    <3> QED
      BY <1>2, <3>2
  <2>3. Taken(q)
    BY <1>5 DEF secretAnswered
  <2>4. CASE q.owner \in Owners
    <3>1. PICK o \in Owners : o = q.owner
      BY <2>4
    <3>2. PICK c : c = [setupModal[o] EXCEPT !.secret = n, !.secretLoading = FALSE]
      OBVIOUS
    <3>3. c \in Modals /\ c.secret = n /\ c.setup = setupModal[o].setup /\ c.show = setupModal[o].show
      BY <2>2, <3>2, ModalTypes DEF Modals
    <3>4. setupModal' = [setupModal EXCEPT ![o] = c]
      BY <2>1, <3>1, <3>2 DEF ModalAfter
    <3>5. setups' \in Nat /\ setups <= setups' /\ c.setup <= setups' /\ c.secret <= setups'
          /\ (c.show => c.setup # NoSetup)
      <4>1. /\ setupModal[o].setup <= setups
            /\ setupModal[o].show => setupModal[o].setup # NoSetup
        BY DEF FactorInv, FactorTypes, ModalsAreTyped
      <4> QED
        BY <1>1, <1>2, <2>2, <3>3, <4>1
    <3> QED
      BY <1>3, <2>3, <3>3, <3>4, <3>5, ModalsStayTyped
  <2>5. CASE q.owner \notin Owners
    BY <1>1, <1>3, <2>1, <2>3, <2>5, ModalsUnchanged
  <2> QED
    BY <2>4, <2>5
<1> QED
  BY <1>4, <1>5

-----------------------------------------------------------------------------
InfoRows == [enforceTOTP : BOOLEAN, totpEnabled : BOOLEAN, hasPasskeys : BOOLEAN]

LEMMA InfoTypes ==
    ASSUME FactorInv
    PROVE  /\ INFOS \in InfoRows
           /\ \A v \in BOOLEAN : \A i : i = [INFOS EXCEPT !.totpEnabled = v] =>
                 i \in InfoRows /\ i.totpEnabled = v /\ i.hasPasskeys = INFOS.hasPasskeys
           /\ \A v \in BOOLEAN : \A i : i = [INFOS EXCEPT !.hasPasskeys = v] =>
                 i \in InfoRows /\ i.totpEnabled = INFOS.totpEnabled /\ i.hasPasskeys = v
BY DEF FactorInv, FactorTypes, InfoRows

\* Whether the TOTP block is on says nothing of the passkeys.
LEMMA SecurityTold ==
    ASSUME FactorInv, NEW q, NEW v \in BOOLEAN, SecurityAfter(q, [security EXCEPT !.totpEnabled = v])
    PROVE  /\ security' \in Securities
           /\ \A x \in {"open", "listed", "loading"} : security'[x] = security[x]
<1>1. security \in Securities
  BY SecurityTypes
<1>2. PICK s : s = [security EXCEPT !.totpEnabled = v]
  OBVIOUS
<1>3. s \in Securities /\ s.open = security.open /\ s.listed = security.listed /\ s.loading = security.loading
  BY <1>1, <1>2 DEF Securities
<1>4. security' = s \/ security' = security
  BY <1>2 DEF SecurityAfter
<1> QED
  BY <1>1, <1>3, <1>4

LEMMA OnSuccessStep ==
    ASSUME FactorInv, NEW q \in factorRequests, onSuccess(q), q.at = "done",
           UNCHANGED <<factorServer, scanned, factorSeen>>
    PROVE  FactorInv'
<1>1. /\ factor' = factor /\ setups' = setups /\ scanned' = scanned /\ factorSeen' = factorSeen
      /\ q.kind = "validate" /\ setups \in Nat
  BY DEF factorServer, onSuccess, FactorInv, FactorTypes
<1>2. INFOS' \in InfoRows /\ INFOS'.totpEnabled /\ INFOS'.hasPasskeys = INFOS.hasPasskeys
  <2>1. INFOS' = [INFOS EXCEPT !.totpEnabled = TRUE] /\ TRUE \in BOOLEAN
    BY DEF onSuccess
  <2> QED
    BY <2>1, InfoTypes
<1>3. security' \in Securities /\ \A x \in {"open", "listed", "loading"} : security'[x] = security[x]
  BY SecurityTold DEF onSuccess
<1>4. ASSUME FactorTypes',
             \A p \in factorRequests' : /\ p.owner = "preferences" => security.open
                                        /\ p \in factorRequests \ {q} \/ p.kind \in {"secret", "generate"},
             \A p \in factorRequests \ {q} : p \in factorRequests' \/ p.kind \in {"secret", "generate"}
      PROVE  FactorInv'
  <2>1. FactorWaits'
    <3>1. \A p \in factorRequests' : p.kind \in ChangeKinds => p \in factorRequests /\ p # q
      BY <1>4 DEF ChangeKinds
    <3> QED
      BY <1>1, <1>2, <1>4, <3>1, ToldWaits
  <2>2. SameLists
    BY <1>1, <1>4, OtherThanListed DEF Listed, ListIsAsked
  <2>3. OneListing' /\ ListingWaits'
    BY <1>1, <1>3, <1>4, <2>2, ListsWaitOn DEF FactorInv
  <2> QED
    BY <1>4, <2>1, <2>3 DEF FactorInv
<1>5. "app" \in Owners /\ "preferences" \in Owners
  BY DEF Owners
<1>6. CASE /\ q.owner = "app" /\ ModalAfter("app", HiddenModal)
           /\ AppRenders([app EXCEPT !.totpEnabled = TRUE], 1, Orphaned("app", {"secret"}) \ {q})
  <2>1. ModalsAreTyped'
    <3>1. setupModal' = [setupModal EXCEPT !["app"] = HiddenModal]
      BY <1>5, <1>6 DEF ModalAfter
    <3>2. 0 <= setups /\ setups <= setups
      BY <1>1
    <3> QED
      BY <1>1, <1>5, <3>1, <3>2, HiddenTypes, ModalsStayTyped DEF HiddenIsTyped
  <2>2. PICK orphaned : orphaned = Orphaned("app", {"secret"})
    OBVIOUS
  <2>3. PICK a \in AppStates : a = [app EXCEPT !.totpEnabled = TRUE]
    BY AppTypes
  <2>4. PICK left : left = orphaned \ {q}
    OBVIOUS
  <2>5. AppRenders(a, 1, left) /\ 1 \in Nat
    BY <1>6, <2>2, <2>3, <2>4
  <2>6. /\ \A p \in orphaned : AskIsTyped(p)'
        /\ \A p \in orphaned : \E s \in factorRequests :
              /\ Alike(p, s)
              /\ IF s.owner = "app" /\ s.kind \in {"secret"} THEN p.owner = "gone" ELSE p = s
        /\ \A s \in factorRequests : \E p \in orphaned :
              IF s.owner = "app" /\ s.kind \in {"secret"} THEN p.owner = "gone" ELSE p = s
        /\ \A p, r \in orphaned : p.no = r.no => p = r
    BY <1>1, <2>2, AskFacts, OrphanedAsks
  <2>7. \A p \in left : /\ p \in factorRequests \ {q} \/ (p.kind = "secret" /\ p.owner = "gone")
                        /\ p.no <= factorSent + 0 /\ p.no # factorSent + 1
    BY <2>4, <2>6, NotYetSent, AskFacts DEF Alike
  <2>8. \A p \in factorRequests \ {q} : p \in left \/ p.kind = "secret"
    BY <2>4, <2>6
  <2>9. /\ app' \in AppStates /\ factorSent' \in Nat
        /\ \A p \in factorRequests' : AskIsTyped(p)' /\ p.no <= factorSent'
        /\ \A p, s \in factorRequests' : p.no = s.no => p = s
        /\ left \subseteq factorRequests'
        /\ \A p \in factorRequests' : p \in left \/ AskedByApp(p)
    <3>1. \A p \in left : AskIsTyped(p)' /\ p.no <= factorSent + 0
      BY <2>4, <2>6, <2>7
    <3>2. \A p, s \in left : p.no = s.no => p = s
      BY <2>4, <2>6
    <3>3. 0 \in {0, 1} /\ (0 = 1 <=> \E p \in left : p.no = factorSent + 1)
      BY <2>7
    <3>4. setups' \in Nat /\ FactorTypes
      BY <1>1 DEF FactorInv
    <3>5. INFOS' \in [enforceTOTP : BOOLEAN, totpEnabled : BOOLEAN, hasPasskeys : BOOLEAN]
      BY <1>2 DEF InfoRows
    <3> QED
      BY <2>5, <3>1, <3>2, <3>3, <3>4, <3>5, FactorRenders
  <2>10. FactorTypes'
    BY <1>1, <1>2, <1>3, <2>1, <2>9, AskFacts DEF FactorTypes, FactorStates, InfoRows
  <2>11. \A p \in factorRequests' : /\ p.owner = "preferences" => security.open
                                    /\ p \in factorRequests \ {q} \/ p.kind \in {"secret", "generate"}
    BY <2>7, <2>9, SettledOwners DEF AskedByApp
  <2>12. \A p \in factorRequests \ {q} : p \in factorRequests' \/ p.kind \in {"secret", "generate"}
    BY <2>8, <2>9
  <2> QED
    BY <1>4, <2>10, <2>11, <2>12
<1>7. ASSUME Taken(q), ModalsAreTyped'
      PROVE  FactorInv'
  <2>1. FactorTypes'
    BY <1>1, <1>2, <1>3, <1>7, TakenTypes DEF InfoRows
  <2> QED
    BY <1>4, <1>7, <2>1, TakenOwners
<1>8. CASE /\ q.owner = "preferences" /\ Taken(q)
           /\ ModalAfter("preferences",
                         [setupModal["preferences"] EXCEPT !.show = FALSE, !.submitting = FALSE])
  <2>1. PICK c : c = [setupModal["preferences"] EXCEPT !.show = FALSE, !.submitting = FALSE]
    OBVIOUS
  <2>2. c \in Modals /\ c.secret = setupModal["preferences"].secret
        /\ c.setup = setupModal["preferences"].setup /\ ~c.show
    BY <1>5, <2>1, ModalTypes DEF Modals
  <2>3. setupModal' = [setupModal EXCEPT !["preferences"] = c]
    BY <1>5, <1>8, <2>1 DEF ModalAfter
  <2>4. setups' \in Nat /\ setups <= setups' /\ c.setup <= setups' /\ c.secret <= setups'
    BY <1>1, <1>5, <2>2, ModalTypes
  <2> QED
    BY <1>5, <1>7, <1>8, <2>2, <2>3, <2>4, ModalsStayTyped
<1>9. CASE q.owner = "gone" /\ Taken(q) /\ UNCHANGED setupModal
  BY <1>1, <1>7, <1>9, ModalsUnchanged
<1> QED
  BY <1>6, <1>8, <1>9 DEF onSuccess

\* A disabled secret, and the list that was asked for to tell INFOS.
LEMMA DisabledOrRelisted ==
    ASSUME FactorInv, NEW q \in factorRequests, disableAnswered(q) \/ relistAnswered(q), q.at = "done",
           UNCHANGED <<factorServer, scanned, factorSeen>>
    PROVE  FactorInv'
<1>1. /\ factor' = factor /\ setups' = setups /\ scanned' = scanned /\ factorSeen' = factorSeen
      /\ q.kind \in {"disable", "relist"} /\ Taken(q) /\ setupModal' = setupModal
  BY DEF factorServer, disableAnswered, relistAnswered
<1>2. /\ INFOS' \in InfoRows
      /\ IF q.kind = "disable"
         THEN ~INFOS'.totpEnabled /\ INFOS'.hasPasskeys = INFOS.hasPasskeys
         ELSE INFOS'.totpEnabled = INFOS.totpEnabled /\ (INFOS'.hasPasskeys <=> q.x # {})
  <2>1. CASE disableAnswered(q)
    <3>1. INFOS' = [INFOS EXCEPT !.totpEnabled = FALSE] /\ FALSE \in BOOLEAN /\ q.kind = "disable"
      BY <2>1 DEF disableAnswered
    <3> QED
      BY <3>1, InfoTypes
  <2>2. CASE relistAnswered(q)
    <3>1. PICK v \in BOOLEAN : v = (q.x # {})
      OBVIOUS
    <3>2. INFOS' = [INFOS EXCEPT !.hasPasskeys = v] /\ q.kind = "relist"
      BY <2>2, <3>1 DEF relistAnswered
    <3> QED
      BY <3>1, <3>2, InfoTypes
  <2> QED
    BY <2>1, <2>2
<1>3. security' \in Securities /\ \A x \in {"open", "listed", "loading"} : security'[x] = security[x]
  <2>1. CASE disableAnswered(q)
    BY <2>1, SecurityTold DEF disableAnswered
  <2>2. CASE relistAnswered(q)
    BY <2>2, SecurityTypes DEF relistAnswered
  <2> QED
    BY <2>1, <2>2
<1>4. FactorTypes'
  BY <1>1, <1>2, <1>3, TakenTypes, ModalsUnchanged DEF InfoRows
<1>5. factorRequests' = factorRequests \ {q}
  BY <1>1, TakenOwners
<1>6. FactorWaits'
  BY <1>1, <1>2, <1>4, <1>5, ToldWaits
<1>7. SameLists
  BY <1>1, <1>5, OtherThanListed DEF Listed, ListIsAsked
<1>8. OneListing' /\ ListingWaits'
  BY <1>1, <1>3, <1>4, <1>7, ListsWaitOn, TakenOwners DEF FactorInv
<1> QED
  BY <1>4, <1>6, <1>8 DEF FactorInv

-----------------------------------------------------------------------------
\* What the list says of the requests that are out when one of its answers is taken: nothing
\* else of the preferences changes, and a list that was right stays so.
LEMMA ListAfterAnswer ==
    ASSUME FactorInv, NEW q \in factorRequests, q.at = "done", q.kind \in {"register", "delete"},
           factor' = factor, factorSeen' = factorSeen,
           \A p \in factorRequests' : p \in factorRequests \ {q} \/ (p.kind = "relist" /\ p.owner = "gone"),
           factorRequests \ {q} \subseteq factorRequests',
           security'.open = security.open, security'.loading = security.loading,
           q.owner = "preferences" =>
               security'.listed = IF q.kind = "register" THEN security.listed \cup q.x
                                  ELSE security.listed \ q.x
    PROVE  OneListing' /\ ListingWaits'
<1>1. ~ListIsAsked(q) /\ \A p \in factorRequests' : p \notin factorRequests => ~ListIsAsked(p)
  BY DEF ListIsAsked
<1>2. OneListing'
  <2>1. /\ ~security.open => \A p \in factorRequests' : p.owner # "preferences"
        /\ \A p, s \in factorRequests' : ListIsAsked(p) /\ ListIsAsked(s) => p = s
        /\ (\E p \in factorRequests' : ListIsAsked(p)) <=> (\E p \in factorRequests : ListIsAsked(p))
    <3>1. ~security.open => \A p \in factorRequests' : p.owner # "preferences"
      BY SettledOwners
    <3>2. \A p : (p \in factorRequests' /\ ListIsAsked(p)) <=> (p \in factorRequests /\ ListIsAsked(p))
      BY <1>1
    <3> HIDE DEF ListIsAsked
    <3> QED
      BY <3>1, <3>2 DEF FactorInv, OneListing
  <2> QED
    BY <2>1 DEF FactorInv, OneListing, ListIsAsked
<1>3. ListingWaits'
  <2> SUFFICES ASSUME security.open, factorSeen \subseteq {"together"}
               PROVE  ListingWaits'
    BY DEF ListingWaits
  <2>1. ~security.loading /\ ListWaits /\ q.owner = "preferences"
    BY DEF FactorInv, ListingWaits
  <2>2. \A p \in factorRequests' : ~ListIsAsked(p)
    BY <1>1, <2>1 DEF FactorInv, OneListing
  <2>3. \A p \in factorRequests' : p.kind \in {"register", "delete"} => p.owner = "preferences"
    BY DEF FactorInv, ListingWaits
  <2>4. \A k, p : /\ p \in factorRequests' /\ Adds(p, k) <=> p \in factorRequests /\ p # q /\ Adds(p, k)
                  /\ p \in factorRequests' /\ Drops(p, k) <=> p \in factorRequests /\ p # q /\ Drops(p, k)
    BY DEF Adds, Drops
  <2>5. \A p \in factorRequests' : p.kind = "delete" => p \in factorRequests
    OBVIOUS
  <2>6. q.x \subseteq Passkeys
    BY AskFacts DEF AskIsTyped, SetupKinds
  <2>7. ListWaits'
    <3>1. CASE q.kind = "register"
      <4>1. security'.listed = security.listed \cup q.x
        BY <2>1, <3>1
      <4>2. \A k : (Adds(q, k) <=> k \in q.x) /\ ~Drops(q, k)
        BY <3>1 DEF Adds, Drops
      <4>3. \A k \in q.x : k \in factor.passkeys /\ \A p \in factorRequests : Adds(p, k) => p = q
        BY <2>1, <2>6, <4>2 DEF ListWaits
      <4>4. \A k \in factor.passkeys \ security'.listed : \E p \in factorRequests' : Adds(p, k)
        <5> SUFFICES ASSUME NEW k \in factor.passkeys \ security'.listed
                     PROVE  \E p \in factorRequests' : Adds(p, k)
          OBVIOUS
        <5>1. PICK p \in factorRequests : Adds(p, k)
          BY <2>1, <4>1 DEF ListWaits
        <5> QED
          BY <4>1, <4>2, <5>1
      <4>5. \A k \in security'.listed \ factor.passkeys : \E p \in factorRequests' : Drops(p, k)
        <5> SUFFICES ASSUME NEW k \in security'.listed \ factor.passkeys
                     PROVE  \E p \in factorRequests' : Drops(p, k)
          OBVIOUS
        <5>1. PICK p \in factorRequests : Drops(p, k)
          BY <2>1, <4>1, <4>3 DEF ListWaits
        <5> QED
          BY <4>2, <5>1
      <4>6. ASSUME NEW k \in Passkeys, NEW p \in factorRequests'
            PROVE  /\ Drops(p, k) => k \notin factor.passkeys
                   /\ Adds(p, k) =>
                         /\ k \in factor.passkeys /\ k \notin security'.listed
                         /\ \A s \in factorRequests' : /\ s.kind = "delete" => k \notin s.x
                                                       /\ Adds(s, k) => s = p
        <5>1. (Adds(p, k) \/ Drops(p, k)) => p \in factorRequests /\ p # q
          BY <2>4
        <5>2. Adds(p, k) => k \notin q.x
          BY <4>3, <5>1
        <5> QED
          BY <2>1, <2>4, <2>5, <4>1, <5>1, <5>2 DEF ListWaits
      <4> QED
        BY <4>4, <4>5, <4>6 DEF ListWaits, Adds, Drops
    <3>2. CASE q.kind = "delete"
      <4>1. security'.listed = security.listed \ q.x
        BY <2>1, <3>2
      <4>2. \A k : ~Adds(q, k) /\ (Drops(q, k) <=> k \in q.x)
        BY <3>2 DEF Adds, Drops
      <4>3. \A k \in q.x : k \notin factor.passkeys
        BY <2>1, <2>6, <4>2 DEF ListWaits
      <4>4. \A k \in factor.passkeys \ security'.listed : \E p \in factorRequests' : Adds(p, k)
        <5> SUFFICES ASSUME NEW k \in factor.passkeys \ security'.listed
                     PROVE  \E p \in factorRequests' : Adds(p, k)
          OBVIOUS
        <5>1. PICK p \in factorRequests : Adds(p, k)
          BY <2>1, <4>1, <4>3 DEF ListWaits
        <5> QED
          BY <4>2, <5>1
      <4>5. \A k \in security'.listed \ factor.passkeys : \E p \in factorRequests' : Drops(p, k)
        <5> SUFFICES ASSUME NEW k \in security'.listed \ factor.passkeys
                     PROVE  \E p \in factorRequests' : Drops(p, k)
          OBVIOUS
        <5>1. PICK p \in factorRequests : Drops(p, k)
          BY <2>1, <4>1 DEF ListWaits
        <5> QED
          BY <4>1, <4>2, <5>1
      <4>6. ASSUME NEW k \in Passkeys, NEW p \in factorRequests'
            PROVE  /\ Drops(p, k) => k \notin factor.passkeys
                   /\ Adds(p, k) =>
                         /\ k \in factor.passkeys /\ k \notin security'.listed
                         /\ \A s \in factorRequests' : /\ s.kind = "delete" => k \notin s.x
                                                       /\ Adds(s, k) => s = p
        <5>1. (Adds(p, k) \/ Drops(p, k)) => p \in factorRequests /\ p # q
          BY <2>4
        <5> QED
          BY <2>1, <2>4, <2>5, <4>1, <5>1 DEF ListWaits
      <4> QED
        BY <4>4, <4>5, <4>6 DEF ListWaits, Adds, Drops
    <3> QED
      BY <3>1, <3>2
  <2> QED
    BY <2>1, <2>2, <2>3, <2>7 DEF ListingWaits, ListIsAsked
<1> QED
  BY <1>2, <1>3

LEMMA RegisterAnswered ==
    ASSUME FactorInv, NEW q \in factorRequests, registerAnswered(q), q.at = "done",
           UNCHANGED <<factorServer, scanned, factorSeen>>
    PROVE  FactorInv'
<1>1. /\ factor' = factor /\ setups' = setups /\ scanned' = scanned /\ factorSeen' = factorSeen
      /\ q.kind = "register" /\ Taken(q) /\ setupModal' = setupModal
  BY DEF factorServer, registerAnswered
<1>2. INFOS' \in InfoRows /\ INFOS'.totpEnabled = INFOS.totpEnabled /\ INFOS'.hasPasskeys
  <2>1. INFOS' = [INFOS EXCEPT !.hasPasskeys = TRUE] /\ TRUE \in BOOLEAN
    BY DEF registerAnswered
  <2> QED
    BY <2>1, InfoTypes
<1>3. q.x \subseteq Passkeys
  BY <1>1, AskFacts DEF AskIsTyped, SetupKinds
<1>4. /\ security' \in Securities /\ security'.open = security.open /\ security'.loading = security.loading
      /\ q.owner = "preferences" => security'.listed = security.listed \cup q.x
  <2>1. PICK c : c = [security EXCEPT !.listed = @ \cup q.x, !.registering = FALSE]
    OBVIOUS
  <2>2. c \in Securities /\ c.open = security.open /\ c.loading = security.loading
        /\ c.listed = security.listed \cup q.x
    BY <1>3, <2>1, SecurityTypes DEF Securities
  <2>3. security' = IF q.owner = "preferences" THEN c ELSE security
    BY <2>1 DEF registerAnswered, SecurityAfter
  <2> QED
    BY <2>2, <2>3, SecurityTypes
<1>5. FactorTypes'
  BY <1>1, <1>2, <1>4, TakenTypes, ModalsUnchanged DEF InfoRows
<1>6. factorRequests' = factorRequests \ {q}
  BY <1>1, TakenOwners
<1>7. FactorWaits'
  BY <1>1, <1>2, <1>5, <1>6, ToldWaits
<1>8. OneListing' /\ ListingWaits'
  BY <1>1, <1>4, <1>6, ListAfterAnswer
<1> QED
  BY <1>5, <1>7, <1>8 DEF FactorInv

\* The list that is asked for again tells INFOS in place of the deletion.
LEMMA PasskeyDroppedStep ==
    ASSUME FactorInv, NEW q \in factorRequests, passkeyDropped(q), q.at = "done",
           UNCHANGED <<factorServer, scanned, factorSeen>>
    PROVE  FactorInv'
<1>1. /\ factor' = factor /\ setups' = setups /\ scanned' = scanned /\ factorSeen' = factorSeen
      /\ q.kind = "delete" /\ setupModal' = setupModal /\ INFOS' = INFOS /\ app' = app
      /\ factorSent' = factorSent + 1 /\ FactorTypes /\ setups' \in Nat
  BY DEF factorServer, passkeyDropped, FactorInv, FactorTypes
<1>2. PICK r : r = NextRequest("relist", "gone", {})
  OBVIOUS
<1>3. r = [no |-> factorSent + 1, kind |-> "relist", owner |-> "gone", x |-> {}, code |-> 0, at |-> "sent"]
  BY <1>2, RequestIsThis
<1>4. /\ r.no = factorSent + 1 /\ r.kind = "relist" /\ r.owner = "gone" /\ r.at = "sent" /\ AskIsTyped(r)'
  <2>1. "relist" \in RequestKinds /\ "gone" \in Owners \cup {"gone"} /\ "relist" \notin SetupKinds
        /\ {} \in SUBSET (Nat \cup Passkeys) /\ 0 \in 0 .. setups' /\ {} \subseteq Passkeys
    BY <1>1 DEF RequestKinds, ChangeKinds, SetupKinds
  <2> QED
    BY <1>1, <1>3, <2>1, NextIsTyped
<1>5. factorRequests' = (factorRequests \ {q}) \cup {r}
  BY <1>2 DEF passkeyDropped, Rest
<1>6. /\ security' \in Securities /\ security'.open = security.open /\ security'.loading = security.loading
      /\ q.owner = "preferences" => security'.listed = security.listed \ q.x
  <2>1. PICK c : c = [security EXCEPT !.listed = @ \ q.x]
    OBVIOUS
  <2>2. c \in Securities /\ c.open = security.open /\ c.loading = security.loading
        /\ c.listed = security.listed \ q.x
    BY <2>1, SecurityTypes DEF Securities
  <2>3. security' = IF q.owner = "preferences" THEN c ELSE security
    BY <2>1 DEF passkeyDropped, SecurityAfter
  <2> QED
    BY <2>2, <2>3, SecurityTypes
<1>7. FactorTypes'
  <2>1. \A p \in factorRequests' : AskIsTyped(p)' /\ p.no <= factorSent'
    <3>1. \A p \in factorRequests : AskIsTyped(p)'
      BY <1>1, AskFacts DEF AskIsTyped
    <3>2. factorSent + 1 <= factorSent + 1
      BY <1>1, NotYetSent
    <3> QED
      BY <1>1, <1>4, <1>5, <3>1, <3>2, NotYetSent
  <2>2. \A p, s \in factorRequests' : p.no = s.no => p = s
    BY <1>1, <1>4, <1>5, NotYetSent DEF FactorTypes
  <2>3. factorSent' \in Nat
    BY <1>1, NotYetSent
  <2> QED
    BY <1>1, <1>6, <2>1, <2>2, <2>3, ModalsUnchanged DEF FactorTypes
<1>8. FactorWaits'
  <2>1. r.kind \in ChangeKinds /\ q.kind \in ChangeKinds
    BY <1>1, <1>4 DEF ChangeKinds
  <2>2. CodesAreScanned'
    BY <1>1, <1>4, <1>5 DEF FactorInv, FactorWaits, CodesAreScanned, NotLockedOut
  <2>3. OneFactorChange'
    BY <1>1, <1>5, <2>1 DEF FactorInv, FactorWaits, OneFactorChange
  <2>4. FactorStays'
    <3>1. EverHadFactor' = EverHadFactor /\ HasFactor' = HasFactor
      BY <1>1 DEF EverHadFactor, HasFactor
    <3> HIDE DEF EverHadFactor, HasFactor
    <3> QED
      BY <1>1, <1>4, <1>5, <3>1 DEF FactorInv, FactorWaits, FactorStays
  <2>5. InfosWait'
    <3>1. TellsPasskeys(r) /\ ~TellsTotp(r) /\ TellsPasskeys(q) /\ ~TellsTotp(q) /\ r.at # "done"
      BY <1>1, <1>4 DEF TellsPasskeys, TellsTotp
    <3>2. ASSUME factorSeen = {}
          PROVE  /\ (\A p \in factorRequests' : ~TellsTotp(p)) => (INFOS.totpEnabled <=> factor.secret # NoSetup)
                 /\ (\A p \in factorRequests' : ~TellsPasskeys(p)) => (INFOS.hasPasskeys <=> factor.passkeys # {})
      BY <1>5, <3>1, <3>2 DEF FactorInv, FactorWaits, InfosWait
    <3>3. ASSUME factorSeen = {}, NEW p \in factorRequests', p.at = "done"
          PROVE  /\ p.kind = "validate" => factor.secret # NoSetup
                 /\ p.kind = "disable" => factor.secret = NoSetup
                 /\ p.kind = "register" => factor.passkeys # {}
                 /\ p.kind = "relist" => (p.x # {} <=> factor.passkeys # {})
      BY <1>5, <3>1, <3>3 DEF FactorInv, FactorWaits, InfosWait
    <3> QED
      BY <1>1, <3>2, <3>3 DEF InfosWait, TellsTotp, TellsPasskeys
  <2> QED
    BY <2>2, <2>3, <2>4, <2>5 DEF FactorWaits
<1>9. OneListing' /\ ListingWaits'
  <2>1. \A p \in factorRequests' : p \in factorRequests \ {q} \/ (p.kind = "relist" /\ p.owner = "gone")
    BY <1>4, <1>5
  <2>2. factorRequests \ {q} \subseteq factorRequests'
    BY <1>5
  <2> QED
    BY <1>1, <1>6, <2>1, <2>2, ListAfterAnswer
<1> QED
  BY <1>7, <1>8, <1>9 DEF FactorInv

LEMMA ListAnsweredStep ==
    ASSUME FactorInv, NEW q \in factorRequests, listAnswered(q), q.at = "done",
           UNCHANGED <<factorServer, scanned, factorSeen>>
    PROVE  FactorInv'
<1>1. /\ factor' = factor /\ setups' = setups /\ scanned' = scanned /\ factorSeen' = factorSeen
      /\ q.kind = "list" /\ Taken(q) /\ setupModal' = setupModal /\ INFOS' = INFOS
  BY DEF factorServer, listAnswered
<1>2. q.x \subseteq Passkeys
  BY <1>1, AskFacts DEF AskIsTyped, SetupKinds
<1>3. /\ security' \in Securities /\ security'.open = security.open
      /\ q.owner = "preferences" => security'.listed = q.x /\ ~security'.loading
      /\ q.owner # "preferences" => security' = security
  <2>1. PICK c : c = [security EXCEPT !.listed = q.x, !.loading = FALSE]
    OBVIOUS
  <2>2. c \in Securities /\ c.open = security.open /\ ~c.loading /\ c.listed = q.x
    BY <1>2, <2>1, SecurityTypes DEF Securities
  <2>3. security' = IF q.owner = "preferences" THEN c ELSE security
    BY <2>1 DEF listAnswered, SecurityAfter
  <2> QED
    BY <2>2, <2>3, SecurityTypes
<1>4. FactorTypes'
  BY <1>1, <1>3, TakenTypes, ModalsUnchanged DEF FactorInv, FactorTypes
<1>5. factorRequests' = factorRequests \ {q}
  BY <1>1, TakenOwners
<1>6. FactorWaits'
  <2>1. SameChanges
    BY <1>1, <1>5, OtherRequests
  <2> QED
    BY <1>1, <1>4, <2>1, FactorWaitsOn
<1>7. CASE q.owner # "preferences"
  <2>1. SameLists
    BY <1>1, <1>5, <1>7, OtherThanListed DEF Listed, ListIsAsked
  <2> QED
    BY <1>1, <1>3, <1>4, <1>6, <1>7, <2>1, ListsWaitOn, TakenOwners DEF FactorInv
<1>8. CASE q.owner = "preferences"
  <2>1. ListIsAsked(q) /\ security.open
    BY <1>1, <1>8, SettledOwners DEF ListIsAsked
  <2>2. security.loading /\ \A p \in factorRequests' : ~ListIsAsked(p)
    BY <1>5, <2>1 DEF FactorInv, OneListing
  <2>3. OneListing'
    BY <1>3, <1>8, <2>1, <2>2 DEF OneListing, ListIsAsked
  <2>4. ListingWaits'
    <3> SUFFICES ASSUME factorSeen \subseteq {"together"}
                 PROVE  ListingWaits'
      BY <1>1 DEF ListingWaits
    <3>1. \A p \in factorRequests' : p.kind \notin {"register", "delete"}
      BY <1>5, <2>1, <2>2 DEF FactorInv, ListingWaits
    <3>2. security'.listed = factor.passkeys
      BY <1>3, <1>8, <2>1 DEF FactorInv, ListingWaits
    <3>3. ListWaits'
      BY <1>1, <3>1, <3>2 DEF ListWaits, Adds, Drops
    <3> QED
      BY <2>2, <3>1, <3>3 DEF ListingWaits, ListIsAsked
  <2> QED
    BY <1>4, <1>6, <2>3, <2>4 DEF FactorInv
<1> QED
  BY <1>7, <1>8

-----------------------------------------------------------------------------
\* A failed request tells nobody anything, and what was done without being told is lost.
LEMMA FailedStep ==
    ASSUME FactorInv, NEW q \in factorRequests, factorFailed(q), q.at \in {"done", "refused"},
           UNCHANGED <<factorServer, scanned>>,
           factorSeen' = factorSeen \cup
                IF q.at = "done" \/ q.kind \in {"generate", "list", "relist"} THEN {"lost"} ELSE {}
    PROVE  FactorInv'
<1>1. /\ factor' = factor /\ setups' = setups /\ scanned' = scanned /\ INFOS' = INFOS /\ Taken(q)
      /\ factorSeen \subseteq factorSeen' /\ factorSeen' \subseteq factorSeen \cup {"lost"}
  BY DEF factorServer, factorFailed
<1>2. q.at = "done" \/ q.kind \in {"generate", "list", "relist"} => "lost" \in factorSeen'
  OBVIOUS
<1>3. factorRequests' = factorRequests \ {q}
  BY <1>1, TakenOwners
<1>4. /\ security' \in Securities /\ security'.open = security.open /\ security'.listed = security.listed
      /\ q.kind # "list" => security'.loading = security.loading
      /\ ListIsAsked(q) => ~security'.loading
      /\ ~ListIsAsked(q) => security'.loading = security.loading
  <2>1. PICK registering \in BOOLEAN : registering = (security.registering /\ q.kind # "register")
    OBVIOUS
  <2>2. PICK loading \in BOOLEAN : loading = (security.loading /\ q.kind # "list")
    OBVIOUS
  <2>3. PICK c : c = [security EXCEPT !.registering = registering, !.loading = loading]
    OBVIOUS
  <2>4. c \in Securities /\ c.open = security.open /\ c.listed = security.listed /\ c.loading = loading
    BY <2>3, SecurityTypes DEF Securities
  <2>5. security' = IF q.owner = "preferences" THEN c ELSE security
    BY <2>1, <2>2, <2>3 DEF factorFailed, SecurityAfter
  <2>6. security.loading \in BOOLEAN /\ security \in Securities
    BY SecurityTypes DEF Securities
  <2> QED
    BY <2>2, <2>4, <2>5, <2>6 DEF ListIsAsked
<1>5. ModalsAreTyped'
  <2>1. CASE q.owner \in Owners
    <3>1. PICK o \in Owners : o = q.owner
      BY <2>1
    <3>2. setupModal[o] \in Modals /\ setupModal[o].setup \in 0 .. setups /\ setupModal[o].secret \in 0 .. setups
      BY ModalTypes
    <3>3. PICK submitting \in BOOLEAN : submitting = (setupModal[o].submitting /\ q.kind # "validate")
      OBVIOUS
    <3>4. PICK secretLoading \in BOOLEAN : secretLoading = (setupModal[o].secretLoading /\ q.kind # "secret")
      OBVIOUS
    <3>5. PICK c : c = [setupModal[o] EXCEPT !.submitting = submitting, !.secretLoading = secretLoading]
      OBVIOUS
    <3>6. c \in Modals /\ c.show = setupModal[o].show /\ c.setup = setupModal[o].setup
          /\ c.secret = setupModal[o].secret
      BY <3>2, <3>5 DEF Modals
    <3>7. setupModal' = [setupModal EXCEPT ![o] = c]
      BY <2>1, <3>1, <3>3, <3>4, <3>5 DEF factorFailed, ModalAfter
    <3>8. setups' \in Nat /\ setups <= setups' /\ c.setup <= setups' /\ c.secret <= setups'
      BY <1>1, <3>2, <3>6, AskFacts
    <3>9. c.show => c.setup # NoSetup
      BY <3>6 DEF FactorInv, FactorTypes, ModalsAreTyped
    <3> QED
      BY <3>6, <3>7, <3>8, <3>9, ModalsStayTyped
  <2>2. CASE q.owner \notin Owners
    BY <1>1, <2>2, ModalsUnchanged DEF factorFailed
  <2> QED
    BY <2>1, <2>2
<1>6. FactorTypes'
  BY <1>1, <1>4, <1>5, TakenTypes DEF FactorInv, FactorTypes
<1>7. FactorWaits'
  <2>1. CodesAreScanned'
    BY <1>1, <1>3 DEF FactorInv, FactorWaits, CodesAreScanned, NotLockedOut
  <2>2. OneFactorChange'
    BY <1>1, <1>3 DEF FactorInv, FactorWaits, OneFactorChange
  <2>3. FactorStays'
    <3>1. EverHadFactor' = EverHadFactor /\ HasFactor' = HasFactor
      BY <1>1 DEF EverHadFactor, HasFactor
    <3> HIDE DEF EverHadFactor, HasFactor
    <3> QED
      BY <1>1, <1>3, <3>1 DEF FactorInv, FactorWaits, FactorStays
  <2>4. InfosWait'
    <3> SUFFICES ASSUME factorSeen' = {}
                 PROVE  InfosWait'
      BY DEF InfosWait
    <3>1. q.at # "done" /\ q.kind # "relist" /\ factorSeen = {}
      BY <1>1, <1>2
    <3>2. ~TellsTotp(q) /\ ~TellsPasskeys(q)
      BY <3>1 DEF TellsTotp, TellsPasskeys
    <3>3. /\ (\A p \in factorRequests' : ~TellsTotp(p)) => (INFOS.totpEnabled <=> factor.secret # NoSetup)
          /\ (\A p \in factorRequests' : ~TellsPasskeys(p)) => (INFOS.hasPasskeys <=> factor.passkeys # {})
      BY <1>3, <3>1, <3>2 DEF FactorInv, FactorWaits, InfosWait
    <3>4. ASSUME NEW p \in factorRequests', p.at = "done"
          PROVE  /\ p.kind = "validate" => factor.secret # NoSetup
                 /\ p.kind = "disable" => factor.secret = NoSetup
                 /\ p.kind = "register" => factor.passkeys # {}
                 /\ p.kind = "relist" => (p.x # {} <=> factor.passkeys # {})
      BY <1>3, <3>1, <3>4 DEF FactorInv, FactorWaits, InfosWait
    <3> QED
      BY <1>1, <3>3, <3>4 DEF InfosWait, TellsTotp, TellsPasskeys
  <2> QED
    BY <2>1, <2>2, <2>3, <2>4 DEF FactorWaits
<1>8. OneListing'
  <2>1. \A p, s \in factorRequests : ListIsAsked(p) /\ ListIsAsked(s) => p = s
    BY DEF FactorInv, OneListing
  <2>2. security.open => (security.loading <=> \E p \in factorRequests : ListIsAsked(p))
    BY DEF FactorInv, OneListing
  <2>3. security.open => (security'.loading <=> \E p \in factorRequests' : ListIsAsked(p))
    <3>1. CASE ListIsAsked(q)
      <4>1. \A p \in factorRequests' : ~ListIsAsked(p)
        BY <1>3, <2>1, <3>1
      <4> QED
        BY <1>4, <3>1, <4>1
    <3>2. CASE ~ListIsAsked(q)
      <4>1. (\E p \in factorRequests' : ListIsAsked(p)) <=> (\E p \in factorRequests : ListIsAsked(p))
        BY <1>3, <3>2
      <4> QED
        BY <1>4, <2>2, <3>2, <4>1
    <3> QED
      BY <3>1, <3>2
  <2>4. ~security.open => \A p \in factorRequests' : p.owner # "preferences"
    BY <1>1, TakenOwners
  <2> QED
    BY <1>3, <1>4, <2>1, <2>3, <2>4 DEF OneListing, ListIsAsked
<1>9. ListingWaits'
  <2> SUFFICES ASSUME security.open, factorSeen' \subseteq {"together"}
               PROVE  ListingWaits'
    BY <1>4 DEF ListingWaits
  <2>1. q.at # "done" /\ q.kind # "list" /\ factorSeen \subseteq {"together"}
    BY <1>1, <1>2
  <2>2. security'.loading = security.loading
    BY <1>4, <2>1
  <2>3. \A p \in factorRequests' :
           /\ p.kind \in {"register", "delete"} => p.owner = "preferences" /\ ~security.loading
           /\ ListIsAsked(p) /\ p.at = "done" => p.x = factor.passkeys
    BY <1>3, <2>1 DEF FactorInv, ListingWaits
  <2>4. ASSUME ~security.loading
        PROVE  ListWaits'
    <3>1. ListWaits
      BY <2>1, <2>4 DEF FactorInv, ListingWaits
    <3>2. \A k : ~Adds(q, k) /\ ~Drops(q, k)
      BY <2>1 DEF Adds, Drops
    <3>3. /\ \A k \in factor.passkeys \ security.listed : \E p \in factorRequests' : Adds(p, k)
          /\ \A k \in security.listed \ factor.passkeys : \E p \in factorRequests' : Drops(p, k)
          /\ \A k \in Passkeys, p \in factorRequests' :
                /\ Drops(p, k) => k \notin factor.passkeys
                /\ Adds(p, k) =>
                      /\ k \in factor.passkeys /\ k \notin security.listed
                      /\ \A s \in factorRequests' : /\ s.kind = "delete" => k \notin s.x
                                                    /\ Adds(s, k) => s = p
      BY <1>3, <3>1, <3>2 DEF ListWaits
    <3> QED
      BY <1>1, <1>4, <3>3 DEF ListWaits, Adds, Drops
  <2> QED
    BY <1>1, <1>4, <2>2, <2>3, <2>4 DEF ListingWaits, ListIsAsked
<1> QED
  BY <1>6, <1>7, <1>8, <1>9 DEF FactorInv

LEMMA FactorAnsweredStep ==
    ASSUME FactorInv, NEW q \in factorRequests, factorAnswered(q)
    PROVE  FactorInv'
<1>1. UNCHANGED <<factorServer, scanned>> /\ q.at \in {"done", "refused"}
  BY DEF factorAnswered
<1>2. CASE /\ q.at = "done" /\ UNCHANGED factorSeen
           /\ \/ generateAnswered(q) \/ secretAnswered(q) \/ onSuccess(q) \/ disableAnswered(q)
              \/ registerAnswered(q) \/ passkeyDropped(q) \/ listAnswered(q) \/ relistAnswered(q)
  <2>1. UNCHANGED <<factorServer, scanned, factorSeen>>
    BY <1>1, <1>2
  <2> QED
    BY <1>2, <2>1, SetupAnswered, OnSuccessStep, DisabledOrRelisted, RegisterAnswered,
       PasskeyDroppedStep, ListAnsweredStep
<1>3. CASE /\ factorFailed(q)
           /\ factorSeen' = factorSeen \cup
                IF q.at = "done" \/ q.kind \in {"generate", "list", "relist"} THEN {"lost"} ELSE {}
  BY <1>1, <1>3, FailedStep
<1> QED
  BY <1>2, <1>3 DEF factorAnswered

LEMMA FactorGoesOn ==
    ASSUME FactorInv, [SecondFactorNext]_factorVars
    PROVE  FactorInv'
<1>1. CASE \/ userLoaded \/ onRouteChangeComplete
           \/ onMfaEncouragementDismiss \/ onMfaEncouragementSetup
  BY <1>1, PageStep
<1>2. CASE setupTotp \/ disableTotp \/ hideModal \/ registerPasskey
  BY <1>2, SetupTotpStep, DisableTotpStep, HideModalStep, RegisterPasskeyStep
<1>3. ASSUME NEW o \in Owners, loadSecret(o) \/ onSubmitCode(o)
      PROVE  FactorInv'
  BY <1>3, LoadSecretStep, SubmitCodeStep
<1>4. ASSUME NEW k \in Passkeys, deletePasskey(k)
      PROVE  FactorInv'
  BY <1>4, DeletePasskeyStep
<1>5. CASE setupExpires
  BY <1>5, ExpiresStep
<1>6. ASSUME NEW q \in factorRequests, factorServed(q) \/ factorAnswered(q)
      PROVE  FactorInv'
  BY <1>6, ServedStep, FactorAnsweredStep
<1>7. CASE UNCHANGED factorVars
  <2>1. UNCHANGED <<factor, INFOS, app, setupModal, security, factorRequests, factorSent, setups,
                    scanned, factorSeen>>
    BY <1>7 DEF factorVars
  <2>2. FactorTypes' /\ SameChanges /\ SameLists
    BY <2>1, OtherRequests, OtherThanListed DEF FactorInv, FactorTypes, AskIsTyped, ModalsAreTyped
  <2> QED
    BY <2>1, <2>2, QuietStep, SettledOwners DEF Quiet
<1> QED
  BY <1>1, <1>2, <1>3, <1>4, <1>5, <1>6, <1>7 DEF SecondFactorNext, FactorSteps

LEMMA FactorInvHolds == SecondFactorSpec => []FactorInv
<1>1. SecondFactorInit => FactorInv
  BY FactorBegins
<1>2. FactorInv /\ [SecondFactorNext]_factorVars => FactorInv'
  BY FactorGoesOn
<1> QED
  BY <1>1, <1>2, PTL DEF SecondFactorSpec

\* A factor that can be used stays with the user, and the client knows it (_app.tsx,
\* TotpSettings.tsx, PasskeySettings.tsx and the server's totp and passkey handlers): the secret
\* of which codes are asked is one that the authenticator has, an enforced factor is not taken
\* away, and INFOS and the list of the preferences say what the server has.
THEOREM FactorsAreKept == SecondFactorSpec => []FactorsKept
<1>1. FactorInv => FactorsKept
  BY FactorPromise
<1> QED
  BY <1>1, FactorInvHolds, PTL
=============================================================================
