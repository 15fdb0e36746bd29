------------------------------ MODULE UsersPage -----------------------------
(***************************************************************************)
(* The users page: filters kept in a store, in the address and in a search *)
(* field that is debounced, the page they select, the rows ticked on it,   *)
(* "select all matching", the bulk dialog and the dialogs of a row.        *)
(*                                                                         *)
(* The filters of the store are one filter here, the two that a deep link  *)
(* may set are one link; what they select is the set Held, what the search *)
(* term finds is Found.  Users are numbered in the order of the sort.      *)
(***************************************************************************)
EXTENDS Naturals, FiniteSets

CONSTANTS
    MaxUser,     \* users are 1..MaxUser
    Me,          \* the one who is looking
    Found,       \* users the search term finds
    Held,        \* users the filter holds
    PageSize,    \* rows of a page
    BatchSize,   \* users of a request of "select all matching"
    MaxMatching, \* matches it may collect
    MaxMoves     \* bound: changes of the view and of the users

ASSUME UsersAssumption ==
    /\ {MaxUser, MaxMatching, MaxMoves} \subseteq Nat /\ Me \in 1..MaxUser
    /\ {PageSize, BatchSize} \subseteq Nat \ {0}
    /\ Found \cup Held \subseteq 1..MaxUser

VARIABLES
    known,     \* server: users there are
    search,    \* the search field: a term or not
    debounced, \* the term the query uses
    stored,    \* usersUiStore: the filter is set
    urlFilter, \* the filter in the address: "none", "off", or "on"
    upward,    \* the sort direction
    page,      \* the page
    rows,      \* the rows on screen, and whether they are there
    ticked,    \* selectedUserIds
    allMode,   \* selectAllMatching
    matching,  \* allMatchingEmails
    gathering, \* "select all matching" in flight: its filters, offset, result
    bulkShown, \* the bulk dialog is open
    rowDialog, \* the dialog of a row: its kind and its user
    rowSent,   \* the request it sent: its kind and its user
    moves,     \* bound
    usersHist  \* history: the views page, ticks and matching were chosen in

viewVars == <<search, debounced, stored, urlFilter, upward>>
pickVars == <<ticked, allMode, matching, gathering>>
rowVars == <<rowDialog, rowSent>>
usersVars == <<known, search, debounced, stored, urlFilter, upward, page, rows, ticked,
               allMode, matching, gathering, bulkShown, rowDialog, rowSent, moves,
               usersHist>>

People == 1..MaxUser
NoRow == [kind |-> "none", user |-> Me]

\* The filter in force: the address before the store.
Filtered == IF urlFilter = "none" THEN stored ELSE urlFilter = "on"
Filters == <<debounced, Filtered>>
filterResetKey == <<debounced, Filtered, upward>>

Matching(f) == {u \in known : (f[1] => u \in Found) /\ (f[2] => u \in Held)}

\* The users at positions a + 1 to a + n of the list the server sorts.
Slice(S, up, a, n) ==
    {u \in S : LET p == Cardinality({v \in S : IF up THEN v <= u ELSE v >= u})
               IN p > a /\ p <= a + n}

PageRows == Slice(Matching(Filters), upward, (page - 1) * PageSize, PageSize)

\* buildPageList: the first, the last, and the neighbours of the page; 0 stands
\* for an ellipsis.
buildPageList(p, n) ==
    {1, n} \cup {q \in 2..n : q + 1 >= p /\ q <= p + 1 /\ q < n}
totalPages == LET m == Cardinality(Matching(Filters))
              IN IF m = 0 THEN 1 ELSE (m + PageSize - 1) \div PageSize

UsersTypeOK ==
    /\ known \subseteq People /\ {search, debounced, stored, upward} \subseteq BOOLEAN
    /\ urlFilter \in {"none", "off", "on"} /\ page \in Nat \ {0}
    /\ rows.there \in BOOLEAN /\ rows.users \subseteq People
    /\ {ticked, matching} \subseteq SUBSET People
    /\ {allMode, bulkShown} \subseteq BOOLEAN
    /\ rowDialog.user \in People /\ rowSent.user \in People
    /\ moves \in 0..MaxMoves

Idle == [on |-> FALSE, filters |-> <<FALSE, FALSE>>, got |-> {}, count |-> 0,
         offset |-> 0, steady |-> TRUE]
NotThere == [there |-> FALSE, users |-> {}]

UsersInit ==
    /\ known = People /\ search \in BOOLEAN /\ debounced = search
    /\ stored \in BOOLEAN /\ urlFilter \in {"none", "on"} /\ upward = TRUE
    /\ page = 1 /\ rows = NotThere
    /\ ticked = {} /\ allMode = FALSE /\ matching = {} /\ gathering = Idle
    /\ bulkShown = FALSE /\ rowDialog = NoRow /\ rowSent = NoRow /\ moves = 0
    /\ usersHist = [page |-> filterResetKey, ticks |-> <<filterResetKey, 1>>,
                    matching |-> Filters, steady |-> TRUE, whole |-> {}]

Move == moves < MaxMoves /\ moves' = moves + 1
Modal == bulkShown \/ rowDialog # NoRow

-----------------------------------------------------------------------------
(* The view *)

\* As if a new filter or sort left the page where it is.
RenderedSamePage ==
    /\ UNCHANGED <<page, matching, gathering>>
    /\ IF filterResetKey' # filterResetKey
       THEN rows' = NotThere /\ ticked' = {} /\ allMode' = FALSE
       ELSE UNCHANGED <<rows, ticked, allMode>>

\* usePageResetOn and the selection key, both in the render after a change: a
\* new filter or sort starts at page one, and a new page or filter drops the
\* ticks.  The query of the new key starts without rows.
Rendered ==
    LET view == filterResetKey'
    IN /\ IF view # filterResetKey THEN page' = 1
          ELSE page' = page
       /\ IF <<view, page'>> # <<filterResetKey, page>>
          THEN rows' = NotThere /\ ticked' = {} /\ allMode' = FALSE
          ELSE UNCHANGED <<rows, ticked, allMode>>
       /\ UNCHANGED <<matching, gathering>>

\* The term is typed; it reaches the query once the typing stops.
SearchInput ==
    /\ ~Modal /\ Move /\ search' = ~search
    /\ UNCHANGED <<known, debounced, stored, urlFilter, upward, page, rows, pickVars,
                   bulkShown, rowVars, usersHist>>

useDebouncedValue ==
    /\ debounced # search /\ debounced' = search
    /\ UNCHANGED <<search, stored, urlFilter, upward>> /\ Rendered
    /\ UNCHANGED <<known, bulkShown, rowVars, moves, usersHist>>

\* A filter of the bar: the store, and the address if it holds the filter.
UsersFilterBar(v) ==
    /\ ~Modal /\ Move /\ v # Filtered
    /\ stored' = v
    /\ urlFilter' = IF urlFilter = "none" THEN "none" ELSE IF v THEN "on" ELSE "none"
    /\ UNCHANGED <<search, debounced, upward>> /\ Rendered
    /\ UNCHANGED <<known, bulkShown, rowVars, usersHist>>

\* clearFilters, and the tiles above the bar, set all of them at once.
clearFilters(v) ==
    /\ ~Modal /\ Move
    /\ search' = FALSE /\ stored' = v
    /\ urlFilter' = IF urlFilter = "none" THEN "none" ELSE IF v THEN "on" ELSE "none"
    /\ UNCHANGED <<debounced, upward>> /\ Rendered
    /\ UNCHANGED <<known, bulkShown, rowVars, usersHist>>

nextSortState ==
    /\ ~Modal /\ Move /\ rows.there /\ rows.users # {}
    /\ upward' = ~upward
    /\ UNCHANGED <<search, debounced, stored, urlFilter>> /\ Rendered
    /\ UNCHANGED <<known, bulkShown, rowVars, usersHist>>

Pagination(p) ==
    /\ ~Modal /\ Move /\ p # page
    /\ rows.there /\ p \in buildPageList(page, totalPages) \cup {page - 1, page + 1}
    /\ p >= 1 /\ p <= totalPages
    /\ page' = p /\ rows' = NotThere /\ ticked' = {} /\ allMode' = FALSE
    /\ usersHist' = [usersHist EXCEPT !.page = filterResetKey]
    /\ UNCHANGED <<known, viewVars, matching, gathering, bulkShown, rowVars>>

\* useUsersQuery: the rows of the page, as they are when the server reads.
useUsersQuery ==
    /\ rows # [there |-> TRUE, users |-> PageRows]
    /\ rows' = [there |-> TRUE, users |-> PageRows]
    /\ UNCHANGED <<known, viewVars, page, pickVars, bulkShown, rowVars, moves,
                   usersHist>>

-----------------------------------------------------------------------------
(* The selection *)

\* A row or the checkbox of the header; either leaves "select all matching".
useDataTableSelection ==
    /\ ~Modal /\ rows.there /\ rows.users # {}
    /\ \/ \E u \in rows.users :
             ticked' = IF u \in ticked THEN ticked \ {u} ELSE ticked \cup {u}
       \/ ticked' = IF rows.users \subseteq ticked THEN ticked \ rows.users
                    ELSE ticked \cup rows.users
    /\ allMode' = FALSE
    /\ usersHist' = [usersHist EXCEPT !.ticks = <<filterResetKey, page>>]
    /\ UNCHANGED <<known, viewVars, page, rows, matching, gathering, bulkShown,
                   rowVars, moves>>

clearSelection ==
    /\ ~Modal /\ (ticked # {} \/ allMode)
    /\ ticked' = {} /\ allMode' = FALSE
    /\ UNCHANGED <<known, viewVars, page, rows, matching, gathering, bulkShown,
                   rowVars, moves, usersHist>>

\* canOfferSelectAllMatching, and the click.
handleSelectAllMatching ==
    /\ ~Modal /\ rows.there /\ ~allMode /\ ~gathering.on
    /\ rows.users # {} /\ Cardinality(ticked) = Cardinality(rows.users)
    /\ Cardinality(Matching(Filters)) > Cardinality(rows.users)
    /\ gathering' = [Idle EXCEPT !.on = TRUE, !.filters = Filters]
    /\ UNCHANGED <<known, viewVars, page, rows, ticked, allMode, matching,
                   bulkShown, rowVars, moves, usersHist>>

\* fetchAllMatchingUserEmails, a batch at a time; the total comes with each.
fetchAllMatchingUserEmails ==
    LET all == Matching(gathering.filters)
        batch == Slice(all, TRUE, gathering.offset, BatchSize)
        got == gathering.got \cup batch
        count == gathering.count + Cardinality(batch)
    IN /\ gathering.on
       /\ IF count > MaxMatching
          THEN gathering' = Idle /\ UNCHANGED <<allMode, matching, usersHist>>
          ELSE IF count < Cardinality(all) /\ batch # {}
          THEN /\ gathering' = [gathering EXCEPT !.got = got, !.count = count,
                                                 !.offset = @ + BatchSize]
               /\ UNCHANGED <<allMode, matching, usersHist>>
          ELSE /\ gathering' = Idle /\ allMode' = TRUE /\ matching' = got
               /\ usersHist' = [usersHist EXCEPT !.matching = gathering.filters,
                                                 !.steady = gathering.steady,
                                                 !.whole = all]
       /\ UNCHANGED <<known, viewVars, page, rows, ticked, bulkShown, rowVars, moves>>

\* It failed, with a toast.
GatheringFails ==
    /\ gathering.on /\ gathering' = Idle
    /\ UNCHANGED <<known, viewVars, page, rows, ticked, allMode, matching,
                   bulkShown, rowVars, moves, usersHist>>

\* Who a bulk action would reach, and how many the toolbar says.
selectedUserEmails == IF allMode THEN matching
                      ELSE IF rows.there THEN rows.users \cap ticked ELSE {}
selectedCount == IF allMode THEN (IF rows.there THEN Cardinality(Matching(Filters))
                                  ELSE Cardinality(matching))
                 ELSE Cardinality(ticked)

BulkActionToolbar ==
    /\ ~Modal /\ selectedCount > 0 /\ bulkShown' = TRUE
    /\ UNCHANGED <<known, viewVars, page, rows, pickVars, rowVars, moves, usersHist>>

\* The dialog runs its action on the selection, as often as one likes.
CloseBulk ==
    /\ bulkShown /\ bulkShown' = FALSE
    /\ UNCHANGED <<known, viewVars, page, rows, pickVars, rowVars, moves, usersHist>>

-----------------------------------------------------------------------------
(* The dialogs of a row *)

\* One's own row and a change that the API would refuse are not offered.
buildUsersColumns(k, u) ==
    /\ ~Modal /\ rows.there /\ u \in rows.users
    /\ k \in {"role", "deactivate", "purge"} => u # Me
    /\ rowDialog' = [kind |-> k, user |-> u]
    /\ UNCHANGED <<known, viewVars, page, rows, pickVars, bulkShown, rowSent, moves,
                   usersHist>>

CancelRowDialog ==
    /\ rowDialog # NoRow /\ rowDialog' = NoRow
    /\ UNCHANGED <<known, viewVars, page, rows, pickVars, bulkShown, rowSent, moves,
                   usersHist>>

\* The button waits while a request of the same kind is pending.
UsersPageDialogs ==
    /\ rowDialog.kind \in {"role", "deactivate", "purge"} /\ rowSent = NoRow
    /\ rowSent' = rowDialog
    /\ UNCHANGED <<known, viewVars, page, rows, pickVars, bulkShown, rowDialog, moves,
                   usersHist>>

\* A success closes the dialog, and the list is read again; a failure leaves it.
RowRequestEnds ==
    /\ rowSent # NoRow /\ rowSent' = NoRow
    /\ \/ /\ rowDialog' = IF rowDialog.kind = rowSent.kind THEN NoRow ELSE rowDialog
          /\ known' = IF rowSent.kind = "purge" THEN known \ {rowSent.user} ELSE known
       \/ UNCHANGED <<rowDialog, known>>
    /\ gathering' = [gathering EXCEPT !.steady = @ /\ known' = known]
    /\ UNCHANGED <<viewVars, page, rows, ticked, allMode, matching, bulkShown, moves,
                   usersHist>>

\* Another holder of the permission removes a user, or one signs up.
OthersChange(u) ==
    /\ Move /\ u # Me
    /\ known' = IF u \in known THEN known \ {u} ELSE known \cup {u}
    /\ gathering' = [gathering EXCEPT !.steady = FALSE]
    /\ UNCHANGED <<viewVars, page, rows, ticked, allMode, matching, bulkShown,
                   rowVars, usersHist>>

UsersNext ==
    \/ SearchInput \/ useDebouncedValue \/ nextSortState \/ useUsersQuery
    \/ \E v \in BOOLEAN : UsersFilterBar(v) \/ clearFilters(v)
    \/ \E p \in 1..MaxUser : Pagination(p)
    \/ useDataTableSelection \/ clearSelection \/ handleSelectAllMatching
    \/ fetchAllMatchingUserEmails \/ GatheringFails
    \/ BulkActionToolbar \/ CloseBulk
    \/ \E u \in People : \/ OthersChange(u)
                         \/ \E k \in {"access", "deactivate", "purge"} :
                              buildUsersColumns(k, u)
    \/ CancelRowDialog \/ UsersPageDialogs \/ RowRequestEnds

UsersSpec == UsersInit /\ [][UsersNext]_usersVars

-----------------------------------------------------------------------------
(* Properties *)

\* A page other than the first was chosen in the filters and sort in force, and
\* ticks in the very view on screen: none is left over from a view that a
\* debounced term, a tile, a link or a sort has replaced.
ViewOwnsChoices ==
    /\ page # 1 => usersHist.page = filterResetKey
    /\ ticked # {} => usersHist.ticks = <<filterResetKey, page>>

\* What "select all matching" collects batch by batch is every match, when no
\* user came or went meanwhile: no boundary drops one.
AllMatchingIsAll ==
    allMode /\ usersHist.steady => matching = usersHist.whole

\* useUsersPageState.ts:118-119: the selection is cleared "on any page or filter
\* change, so a bulk action can't apply to users no longer on screen".
BulkReachesTheView ==
    bulkShown /\ allMode => usersHist.matching = Filters

\* What the page promises of the view and the selection.
UsersSafe == UsersTypeOK /\ ViewOwnsChoices /\ AllMatchingIsAll

-----------------------------------------------------------------------------
(* Why they hold *)

UsersShaped ==
    /\ gathering \in [on : BOOLEAN, filters : BOOLEAN \X BOOLEAN, got : SUBSET People,
                     count : Nat, offset : Nat, steady : BOOLEAN]
    /\ usersHist = [page |-> usersHist.page, ticks |-> usersHist.ticks,
                    matching |-> usersHist.matching, steady |-> usersHist.steady,
                    whole |-> usersHist.whole]
    /\ usersHist.steady \in BOOLEAN

\* Where a user comes in a list sorted upward.
Position(S, u) == Cardinality({v \in S : v <= u})
UpTo(S, a) == {u \in S : Position(S, u) <= a}

\* While nobody came or went, the batches so far are the matches up to the offset.
GatheredSoFar ==
    gathering.on /\ gathering.steady =>
        LET all == Matching(gathering.filters)
        IN /\ gathering.got = UpTo(all, gathering.offset)
           /\ gathering.count = Cardinality(gathering.got)

UsersInv == UsersSafe /\ UsersShaped /\ GatheredSoFar
=============================================================================
