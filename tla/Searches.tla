------------------------------ MODULE Searches ------------------------------
(***************************************************************************)
(* Two pages that list what was searched for and search again when the     *)
(* filter changes.  The providers page runs a cleanup before each new      *)
(* search, after which an earlier answer is ignored, and searches again    *)
(* when it becomes visible; the category page applies every answer.  What  *)
(* is listed stands for the filter it was searched with.                   *)
(***************************************************************************)
EXTENDS Naturals

CONSTANTS
    Filters,        \* categories and texts to search for; on the category page its type
    Nothing,        \* an empty list
    MaxSearches     \* bound: searches in flight at the same time

ASSUME SearchesAssumption ==
    /\ Filters # {} /\ Nothing \notin Filters
    /\ MaxSearches \in Nat \ {0}

SearchSlots == 1 .. MaxSearches

VARIABLES
    guarded,    \* the providers page, with its isMounted; or the category page
    filter,     \* selectedCategory and searchQuery, or type
    results,    \* providers, or properties
    waiting,    \* isLoading
    search,     \* search[k]: a search in flight; live is its isMounted
    (* history, never read by the code *)
    jumbled     \* what is listed comes from a search that overlapped another

searchVars == <<guarded, filter, results, waiting, search, jumbled>>

\* alone is history: no other search has been in flight with this one.
Search == [filter : Filters \union {Nothing}, live : BOOLEAN, alone : BOOLEAN]
NoSearch == [filter |-> Nothing, live |-> FALSE, alone |-> FALSE]

SearchesInit ==
    /\ guarded \in BOOLEAN
    /\ filter \in Filters
    /\ results = Nothing
    /\ waiting = TRUE
    /\ search = [k \in SearchSlots |->
                    IF k = 1 THEN [filter |-> filter, live |-> TRUE, alone |-> TRUE] ELSE NoSearch]
    /\ jumbled = FALSE

InFlight == {k \in SearchSlots : search[k].filter # Nothing}

\* A search for f begins as search k; cleanup is isMounted = false for the others.
BeginSearch(k, f, cleanup) ==
    /\ k \notin InFlight
    /\ \A i \in SearchSlots : i < k => i \in InFlight
    /\ waiting' = TRUE
    /\ search' = [i \in SearchSlots |->
                     IF i = k THEN [filter |-> f, live |-> TRUE, alone |-> InFlight = {}]
                     ELSE [search[i] EXCEPT !.alone = FALSE, !.live = @ /\ ~cleanup]]

\* The filter changes, and the effect runs again.
ChooseFilter(k, f) ==
    /\ f # filter
    /\ filter' = f
    /\ BeginSearch(k, f, guarded)
    /\ UNCHANGED <<guarded, results, jumbled>>

\* handleVisibilityChange of the providers page.
BecomeVisible(k) ==
    /\ guarded
    /\ BeginSearch(k, filter, FALSE)
    /\ UNCHANGED <<guarded, filter, results, jumbled>>

Ignored(k) == guarded /\ ~search[k].live

\* (mutant) an answer that comes late is applied
EndSearchAlways(k, list) ==
    /\ k \in InFlight
    /\ search' = [search EXCEPT ![k] = NoSearch]
    /\ results' = list /\ waiting' = FALSE /\ jumbled' = ~search[k].alone
    /\ UNCHANGED <<guarded, filter>>

EndSearch(k, list) ==
    /\ k \in InFlight
    /\ search' = [search EXCEPT ![k] = NoSearch]
    /\ IF Ignored(k) THEN UNCHANGED <<results, waiting, jumbled>>
       ELSE results' = list /\ waiting' = FALSE /\ jumbled' = ~search[k].alone
    /\ UNCHANGED <<guarded, filter>>

SearchAnswered(k) == EndSearch(k, search[k].filter)

\* A failed search empties the list.
SearchFails(k) == EndSearch(k, Nothing)

SearchesNext ==
    \E k \in SearchSlots :
        \/ BecomeVisible(k) \/ SearchAnswered(k) \/ SearchFails(k)
        \/ \E f \in Filters : ChooseFilter(k, f)

SearchesSpec == SearchesInit /\ [][SearchesNext]_searchVars

-----------------------------------------------------------------------------
(* Properties                                                              *)

SearchesTypeOK ==
    /\ guarded \in BOOLEAN /\ waiting \in BOOLEAN /\ jumbled \in BOOLEAN
    /\ filter \in Filters
    /\ results \in Filters \union {Nothing}
    /\ search \in [SearchSlots -> Search]

\* What a page lists is what its filter asks for; on the category page unless the
\* search it came from overlapped another.
ResultsFit ==
    (~waiting /\ (guarded \/ ~jumbled)) => results \in {filter, Nothing}
=============================================================================
