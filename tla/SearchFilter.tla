----------------------------- MODULE SearchFilter -----------------------------
(***************************************************************************)
(* The filter dialog of the search page: comparators and values for the     *)
(* attributes of areas and of spaces, edited in place, sent to the server   *)
(* when they are applied.  Which areas and spaces match is the server's      *)
(* matter: what is listed is represented by the filter it was asked with.   *)
(***************************************************************************)
EXTENDS Integers, FiniteSets

CONSTANTS Attributes,          \* those that can be searched for
          Selects,             \* those whose value is chosen from a list
          FilterValues, NoValue,
          MaxFilterEdits, MaxSearches   \* bounds

ASSUME FilterAssumption ==
    /\ Selects \subseteq Attributes /\ NoValue \notin FilterValues /\ FilterValues # {}
    /\ {MaxFilterEdits, MaxSearches} \subseteq Nat

VARIABLES searchAttributes,    \* by type: the entries by attribute
          showSearchModal,
          searches,            \* out: [no, at, area]
          searchesSent, filterEdits,
          areasListed,         \* the filter the areas in the list match
          spacesListed,        \* the filter the spaces in the list match
          lastApplied,         \* the filters of the last applySearch
          editedSince,         \* the filter of the spaces was edited since
          searchesMet          \* two searches were out together, or one was lost

filterVars == <<searchAttributes, showSearchModal, searches, searchesSent, filterEdits,
                areasListed, spacesListed, lastApplied, editedSince, searchesMet>>
listings == <<areasListed, spacesListed>>

Types == {"location", "space"}
NoEntries == <<>>
Comparators == {"", "eq"}
Entry(c, v) == [comparator |-> c, value |-> v]
WithEntry(f, a, e) == [b \in DOMAIN f \cup {a} |-> IF b = a THEN e ELSE f[b]]
WithoutEntry(f, a) == [b \in DOMAIN f \ {a} |-> f[b]]

FilterInit ==
    /\ searchAttributes = [t \in Types |-> NoEntries] /\ showSearchModal = FALSE
    /\ searches = {} /\ searchesSent = 0 /\ filterEdits = 0
    /\ areasListed = NoEntries /\ spacesListed = NoEntries
    /\ lastApplied = [t \in Types |-> NoEntries]
    /\ editedSince = FALSE /\ searchesMet = FALSE

toggleSearchModal ==
    /\ showSearchModal' = ~showSearchModal
    /\ UNCHANGED <<searchAttributes, searches, searchesSent, filterEdits, listings, lastApplied,
                   editedSince, searchesMet>>

ChangesFilter(t, entries) ==
    /\ showSearchModal /\ filterEdits < MaxFilterEdits /\ filterEdits' = filterEdits + 1
    /\ searchAttributes' = [searchAttributes EXCEPT ![t] = entries]
    /\ editedSince' = TRUE
    /\ UNCHANGED <<showSearchModal, searches, searchesSent, listings, lastApplied, searchesMet>>

\* No comparator, no entry; a list gets its first value with the comparator.
InitialValue(a) == IF a \in Selects THEN CHOOSE v \in FilterValues : TRUE ELSE NoValue
setSearchAttributeComparator(t, a, c) ==
    LET entries == searchAttributes[t]
        value == IF a \in DOMAIN entries THEN entries[a].value ELSE NoValue
    IN IF c = "" THEN ChangesFilter(t, WithoutEntry(entries, a))
       ELSE ChangesFilter(t, WithEntry(entries, a,
                Entry(c, IF value = NoValue THEN InitialValue(a) ELSE value)))

\* The input of an attribute without an entry is disabled, except that of a list, which is
\* disabled for an entry without a comparator.
InputEnabled(t, a) ==
    LET entries == searchAttributes[t]
    IN IF a \in Selects THEN a \in DOMAIN entries => entries[a].comparator # ""
                        ELSE a \in DOMAIN entries
setSearchAttributeValue(t, a, v) ==
    LET entries == searchAttributes[t]
        c == IF a \in DOMAIN entries THEN entries[a].comparator ELSE ""
    IN InputEnabled(t, a) /\ ChangesFilter(t, WithEntry(entries, a, Entry(c, v)))

Applies(filters) ==
    /\ showSearchModal /\ searchesSent < MaxSearches /\ searchesSent' = searchesSent + 1
    /\ showSearchModal' = FALSE
    /\ searches' = searches \cup
          {[no |-> searchesSent', at |-> "areas", filter |-> filters["location"]]}
    /\ lastApplied' = filters /\ editedSince' = FALSE
    /\ searchesMet' = (searchesMet \/ searches # {})
    /\ UNCHANGED <<filterEdits, listings>>
applyFilter == Applies(searchAttributes) /\ UNCHANGED searchAttributes
\* Mutant of resetSearch: the form is emptied, and the search sent with what was in it.
resetSearchLate ==
    Applies(searchAttributes) /\ searchAttributes' = [t \in Types |-> NoEntries]

resetSearch ==
    LET none == [t \in Types |-> NoEntries]
    IN Applies(none) /\ searchAttributes' = none

\* The areas are there: their spaces are asked for with the filter of the moment.
areasAnswered(q) ==
    /\ q.at = "areas" /\ areasListed' = q.filter
    /\ searches' = (searches \ {q}) \cup
          {[q EXCEPT !.at = "spaces", !.filter = searchAttributes["space"]]}
    /\ UNCHANGED <<searchAttributes, showSearchModal, searchesSent, filterEdits, spacesListed,
                   lastApplied, editedSince, searchesMet>>

\* Of two answers the page keeps that to its last question (loadSpaces of SearchPage).
filteredSpacesAnswered(q) ==
    /\ q.at = "spaces" /\ searches' = searches \ {q}
    /\ spacesListed' \in {q.filter} \cup
            (IF \E r \in searches : r.no # q.no THEN {spacesListed} ELSE {})
    /\ UNCHANGED <<searchAttributes, showSearchModal, searchesSent, filterEdits, areasListed,
                   lastApplied, editedSince, searchesMet>>
searchLost(q) ==
    /\ searches' = searches \ {q} /\ searchesMet' = TRUE
    /\ UNCHANGED <<searchAttributes, showSearchModal, searchesSent, filterEdits, listings,
                   lastApplied, editedSince>>

FilterNext ==
    \/ toggleSearchModal \/ applyFilter \/ resetSearch
    \/ \E t \in Types, a \in Attributes :
          \/ \E c \in Comparators : setSearchAttributeComparator(t, a, c)
          \/ \E v \in FilterValues : setSearchAttributeValue(t, a, v)
    \/ \E q \in searches : areasAnswered(q) \/ filteredSpacesAnswered(q) \/ searchLost(q)
FilterSpec == FilterInit /\ [][FilterNext]_filterVars

-----------------------------------------------------------------------------
IsFilter(f) ==
    /\ DOMAIN f \subseteq Attributes
    /\ \A a \in DOMAIN f : f[a] \in [comparator : Comparators, value : FilterValues \cup {NoValue}]
FilterTypeOK ==
    /\ \A t \in Types : IsFilter(searchAttributes[t]) /\ IsFilter(lastApplied[t])
    /\ IsFilter(areasListed) /\ IsFilter(spacesListed)
    /\ \A q \in searches : IsFilter(q.filter) /\ q.at \in {"areas", "spaces"}
    /\ {showSearchModal, editedSince, searchesMet} \subseteq BOOLEAN

\* What is listed matches the filters that were applied last, though the form is edited in
\* place: the areas always, the spaces if the form was not opened and edited again before
\* they were asked for.  (No two searches were out together, none was lost.)
ListedIsApplied ==
    ~searchesMet /\ searches = {} =>
        /\ areasListed = lastApplied["location"]
        /\ ~editedSince => spacesListed = lastApplied["space"]
=============================================================================
