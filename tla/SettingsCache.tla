---------------------------- MODULE SettingsCache ----------------------------
(***************************************************************************)
(* One setting of an organization as requests read and write it            *)
(* (settings-repository.go): the row, and a cache beside it for five        *)
(* minutes.  Each access is a statement and then a call of the cache, and   *)
(* those of other requests come between.  A call of the cache may fail,     *)
(* which nobody looks at.                                                  *)
(***************************************************************************)
EXTENDS Naturals

CONSTANTS Accesses,          \* requests at work on the setting
          SettingValues, Unset,
          Uncached,          \* the cache has nothing
          CacheMinutes,      \* the five minutes
          MaxWrites          \* bound on the changes of the row

ASSUME SettingsCacheAssumption ==
    /\ Unset \notin SettingValues /\ CacheMinutes \in Nat \ {0} /\ MaxWrites \in Nat
    /\ Uncached \notin [value : SettingValues, left : 1 .. CacheMinutes]

VARIABLES settingRow,
          cacheEntry,    \* what the cache has, and the minutes that are left of it
          access,        \* the requests between their statement and their call of the cache
          rowWrites,     \* changes of the row so far
          crossed        \* the cache was told, or not told, of a row that had changed since

cacheVars == <<settingRow, cacheEntry, access, rowWrites, crossed>>

\* What a request has read or written, and whether another one has changed the row since.
Access(kind, value) == [kind |-> kind, value |-> value, late |-> FALSE]
NoAccess == [kind |-> "none"]
NotAtWork(r) == access[r] = NoAccess

CacheInit ==
    /\ settingRow \in SettingValues
    /\ cacheEntry = Uncached
    /\ access = [r \in Accesses |-> NoAccess]
    /\ rowWrites = 0 /\ crossed = FALSE

-----------------------------------------------------------------------------
\* A row that is not there is not cached.
Reads(r) ==
    /\ NotAtWork(r) /\ settingRow # Unset
    /\ access' = [access EXCEPT ![r] = Access("get", settingRow)]
    /\ UNCHANGED <<settingRow, cacheEntry, rowWrites, crossed>>

\* What is in the cache is returned without more ado.
GetUncached(r) == cacheEntry = Uncached /\ Reads(r)

\* The list of all settings is read from the table in any case.
GetAll(r) == Reads(r)

\* The row changes: the others at work know an older one.
Overtaken == [r \in Accesses |-> IF NotAtWork(r) THEN NoAccess
                                 ELSE [access[r] EXCEPT !.late = TRUE]]

Change(value) ==
    /\ rowWrites < MaxWrites /\ rowWrites' = rowWrites + 1
    /\ settingRow' = value
    /\ UNCHANGED cacheEntry

Set(r, value) ==
    /\ NotAtWork(r) /\ Change(value)
    /\ access' = [Overtaken EXCEPT ![r] = Access("set", value)]
    /\ UNCHANGED crossed

\* When the organization is deleted; what is in the cache stays there.
DeleteAll ==
    /\ settingRow # Unset /\ Change(Unset)
    /\ access' = Overtaken /\ crossed' = TRUE

AccessEnds(r) == access' = [access EXCEPT ![r] = NoAccess]

Cached(value) == [value |-> value, left |-> CacheMinutes]

\* Mutant of CacheSet: only what was read is cached.
CacheSetRead(r) ==
    /\ ~NotAtWork(r) /\ AccessEnds(r)
    /\ IF access[r].kind = "get" THEN cacheEntry' = Cached(access[r].value) /\ crossed' = access[r].late
       ELSE UNCHANGED <<cacheEntry, crossed>>
    /\ UNCHANGED <<settingRow, rowWrites>>

CacheSet(r) ==
    /\ ~NotAtWork(r) /\ AccessEnds(r)
    /\ cacheEntry' = Cached(access[r].value)
    /\ crossed' = access[r].late
    /\ UNCHANGED <<settingRow, rowWrites>>

CacheSetFails(r) ==
    /\ ~NotAtWork(r) /\ AccessEnds(r)
    /\ crossed' = (crossed \/ access[r].kind = "set")
    /\ UNCHANGED <<settingRow, cacheEntry, rowWrites>>

\* A minute passes, and an entry whose time is over is gone.
CacheTick ==
    /\ cacheEntry # Uncached
    /\ cacheEntry' = IF cacheEntry.left = 1 THEN Uncached
                     ELSE [cacheEntry EXCEPT !.left = @ - 1]
    /\ UNCHANGED <<settingRow, access, rowWrites, crossed>>

\* The cache needs the room for something else.
Evict ==
    /\ cacheEntry # Uncached /\ cacheEntry' = Uncached
    /\ UNCHANGED <<settingRow, access, rowWrites, crossed>>

\* The process stops, and its own cache is gone with it; one in Valkey stays.
StopServer ==
    /\ access' = [r \in Accesses |-> NoAccess]
    /\ \/ cacheEntry' = Uncached /\ UNCHANGED crossed
       \/ /\ UNCHANGED cacheEntry
          /\ crossed' = (crossed \/ \E r \in Accesses : access[r].kind = "set")
    /\ UNCHANGED <<settingRow, rowWrites>>

CacheNext ==
    \/ \E r \in Accesses :
          \/ GetUncached(r) \/ GetAll(r)
          \/ \E value \in SettingValues : Set(r, value)
          \/ CacheSet(r) \/ CacheSetFails(r)
    \/ DeleteAll \/ CacheTick \/ Evict \/ StopServer

\* Time goes by, and a request that has had its statement goes on to the cache.
CacheFairness ==
    /\ WF_cacheVars(CacheTick)
    /\ \A r \in Accesses : WF_cacheVars(CacheSet(r) \/ CacheSetFails(r))
CacheSpec == CacheInit /\ [][CacheNext]_cacheVars /\ CacheFairness
-----------------------------------------------------------------------------
(* Properties.                                                             *)

\* Every variable has its type.
CacheTypeOK ==
    /\ settingRow \in SettingValues \cup {Unset}
    /\ cacheEntry \in [value : SettingValues, left : 1 .. CacheMinutes] \cup {Uncached}
    /\ access \in [Accesses -> {NoAccess} \cup
           [kind : {"get", "set"}, value : SettingValues, late : BOOLEAN]]
    /\ rowWrites \in 0 .. MaxWrites /\ crossed \in BOOLEAN

\* What Get takes from the cache is what the table has, unless a request that wrote the row
\* has yet to tell the cache, or the call that told it last came from a request whose row had
\* been changed in between, or one was never told: it failed, or the settings were deleted.
CacheIsExplained ==
    cacheEntry # Uncached =>
        \/ cacheEntry.value = settingRow
        \/ crossed
        \/ \E r \in Accesses : access[r].kind = "set"

\* When the setting is changed no more, the cache stops serving what it was before: in the
\* end it has what the table has, or nothing.
CacheAgrees == cacheEntry # Uncached => cacheEntry.value = settingRow
=============================================================================
