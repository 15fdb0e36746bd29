------------------------------ MODULE AuditTrail ------------------------------
(***************************************************************************)
(* The audit log page: its categories and scopes, the filters each section *)
(* keeps in a store of its own, the pages of its list, and the drawer that *)
(* shows one entry and walks to the next and the previous one.             *)
(*                                                                         *)
(* The four sections (AllSecurityLogSection, MySecurityLogSection,         *)
(* AllAuthorizationLogSection, MyAuthorizationLogSection) differ in their  *)
(* columns and in the text filter that only three of them have; they are   *)
(* one component here.  `text' stands for the debounced inputs, `kind' for *)
(* the filters that apply at once.                                         *)
(***************************************************************************)
EXTENDS Naturals, FiniteSets, Functions

CONSTANTS
    Newest,      \* bound: the log holds entries 1, 2, ... Newest, by age
    OldLog,      \* the entries the log holds at first
    Mine,        \* the entries about this person
    TextHits,    \* the entries the text filter finds
    KindHits,    \* the entries the kind filter finds
    ReadAll,     \* the categories of which this person reads everyone's
    LogPageSize, \* PAGE_SIZE
    MaxLooks     \* bound: clicks

ASSUME AuditAssumption ==
    /\ Newest \in Nat \ {0} /\ OldLog \in 0..Newest
    /\ LogPageSize \in Nat \ {0} /\ MaxLooks \in Nat

VARIABLES
    logged,          \* the number of entries in the log
    category, scope, \* of the URL and of useAuditLogUiStore
    kept,            \* the filters each section's store keeps
    applied,         \* debouncedSearch, debouncedIpAddress
    mountedAt,       \* nowMs of useTimeRangeParams
    logPage,
    pages,     \* query cache: for each key its rows and its total
    dues,      \* keys being fetched
    broken,    \* keys whose last fetch failed
    openIndex, \* openGlobalIndex
    openEntry,
    viewOpen, \* history: what the list was when the drawer opened
    looks

auditVars == <<logged, category, scope, kept, applied, mountedAt, logPage, pages,
               dues, broken, openIndex, openEntry, viewOpen, looks>>
drawer == <<openIndex, openEntry, viewOpen>>

Categories == {"authorization", "security"}
LogSections == Categories \X {"mine", "all"}
NoIndex == Newest
NoEntry == 0
NoView == [section |-> <<"none", "none">>]

\* A requested scope "all" falls back to "mine" without the permission.
initialScope == IF scope = "all" /\ category \notin ReadAll THEN "mine" ELSE scope
Section == <<category, initialScope>>
HasText(s) == s # <<"authorization", "mine">>

\* The upper end of a preset range is the time of the mount; that of a custom
\* range which ends today is the end of the day.
useTimeRangeParams == IF kept[Section].range = "preset" THEN mountedAt ELSE Newest + 1
View == [section |-> Section, text |-> applied, kind |-> kept[Section].kind,
         dir |-> kept[Section].dir, upto |-> useTimeRangeParams]
Key == <<View, logPage>>

DefaultView == [text |-> FALSE, kind |-> FALSE, dir |-> "desc", range |-> "preset"]

AuditInit ==
    /\ logged = OldLog /\ category = "authorization" /\ scope = "mine"
    /\ kept = [s \in LogSections |-> DefaultView]
    /\ applied = FALSE /\ mountedAt = OldLog /\ logPage = 1
    /\ pages = <<>> /\ dues = {Key} /\ broken = {}
    /\ openIndex = NoIndex /\ openEntry = NoEntry /\ viewOpen = NoView /\ looks = 0

-----------------------------------------------------------------------------
(* What the server answers *)

_apply_filters(v) ==
    {e \in 1..logged : /\ e <= v.upto
                       /\ v.section[2] = "mine" => e \in Mine
                       /\ v.text => e \in TextHits
                       /\ v.kind => e \in KindHits}
Before(v, e) == {d \in _apply_filters(v) : IF v.dir = "desc" THEN d > e ELSE d < e}
EntryAt(v, n) ==
    IF n >= Cardinality(_apply_filters(v)) THEN NoEntry
    ELSE CHOOSE e \in _apply_filters(v) : Cardinality(Before(v, e)) = n

toPageResult(k) ==
    LET v == k[1]
        total == Cardinality(_apply_filters(v))
        skipped == (k[2] - 1) * LogPageSize
    IN [total |-> total,
        rows |-> [i \in {j \in 0..LogPageSize - 1 : skipped + j < total} |->
                     EntryAt(v, skipped + i)]]

totalPagesFor(total) ==
    IF total = 0 THEN 1 ELSE (total + LogPageSize - 1) \div LogPageSize

-----------------------------------------------------------------------------
(* What the section shows *)

LogLoaded == Key \in DOMAIN pages
LogRows == IF LogLoaded THEN pages[Key].rows ELSE <<>>
Total == IF LogLoaded THEN pages[Key].total ELSE 0
isFetching == Key \in dues

IsOpen == openIndex # NoIndex
\* As if positions were counted from one.
PageOfCount(n) == (n + 1) \div LogPageSize + 1

PageOfIndex(n) == n \div LogPageSize + 1
RowOr(n, e) == LET i == n % LogPageSize IN IF i \in DOMAIN LogRows THEN LogRows[i] ELSE e
drawerEntry ==
    IF IsOpen /\ PageOfIndex(openIndex) = logPage /\ ~isFetching
    THEN RowOr(openIndex, openEntry) ELSE openEntry

Look == looks < MaxLooks /\ looks' = looks + 1
\* useQuery on a new key: a key with no data is fetched, a failed one again.
Asks == /\ dues' = dues \cup ({Key'} \ DOMAIN pages)
        /\ broken' = IF Key' = Key THEN broken ELSE broken \ {Key'}
Closes == openIndex' = NoIndex /\ openEntry' = NoEntry /\ viewOpen' = NoView

\* Reads again what is stale: focus on the window, return after staleTime.
Refetch ==
    /\ LogLoaded \/ Key \in broken
    /\ ~isFetching /\ dues' = dues \cup {Key}
    /\ UNCHANGED <<logged, category, scope, kept, applied, mountedAt, logPage,
                   pages, broken, drawer, looks>>

useSecurityAuditLogQuery(k) ==
    /\ dues' = dues \ {k}
    /\ pages' = [x \in DOMAIN pages \cup {k} |->
                   IF x = k THEN toPageResult(k) ELSE pages[x]]
    /\ broken' = broken \ {k}
    /\ UNCHANGED <<logged, category, scope, kept, applied, mountedAt, logPage,
                   drawer, looks>>

FetchBreaks(k) ==
    /\ dues' = dues \ {k} /\ broken' = broken \cup {k}
    /\ UNCHANGED <<logged, category, scope, kept, applied, mountedAt, logPage,
                   pages, drawer, looks>>

\* Someone does something that is logged.
log_event ==
    /\ logged < Newest /\ logged' = logged + 1
    /\ UNCHANGED <<category, scope, kept, applied, mountedAt, logPage, pages, dues,
                   broken, drawer, looks>>

-----------------------------------------------------------------------------
(* Tabs and filters; the drawer is modal, so these need it closed *)

\* A new key on Tabs mounts another section, with the filters of its store.
Mounts ==
    /\ mountedAt' = logged /\ logPage' = 1 /\ applied' = kept[Section'].text
    /\ Asks

setCategory(c) ==
    /\ Look /\ ~IsOpen /\ c # category
    /\ category' = c /\ UNCHANGED <<scope, kept>> /\ Mounts
    /\ UNCHANGED <<logged, pages, drawer>>

\* AllUsersTabTrigger is there only for those who may read everyone's.
setScope(s) ==
    /\ Look /\ ~IsOpen /\ s # initialScope
    /\ s = "all" => category \in ReadAll
    /\ scope' = s /\ UNCHANGED <<category, kept>> /\ Mounts
    /\ UNCHANGED <<logged, pages, drawer>>

\* Leaving the page for another one, and coming back: the stores are kept.
AuditLogPage ==
    /\ Look /\ UNCHANGED <<category, scope, kept>> /\ Mounts /\ Closes
    /\ UNCHANGED <<logged, pages>>

\* Typing goes to the store at once and to the query after the debounce.
setSearch(t) ==
    /\ Look /\ ~IsOpen /\ HasText(Section) /\ t # kept[Section].text
    /\ kept' = [kept EXCEPT ![Section].text = t]
    /\ UNCHANGED <<logged, category, scope, applied, mountedAt, logPage, pages,
                   dues, broken, drawer>>

debouncedText ==
    /\ applied # kept[Section].text
    /\ applied' = kept[Section].text /\ logPage' = 1
    /\ UNCHANGED <<kept, category, scope, mountedAt>> /\ Asks
    /\ UNCHANGED <<logged, pages, drawer, looks>>

\* usePageResetOn: any other change of the key brings back the first page.
Narrows(f) ==
    /\ kept' = [kept EXCEPT ![Section] = f] /\ logPage' = 1
    /\ UNCHANGED <<category, scope, applied, mountedAt>> /\ Asks

SetsKind(k) ==
    /\ Look /\ ~IsOpen /\ k # kept[Section].kind
    /\ Narrows([kept[Section] EXCEPT !.kind = k]) /\ UNCHANGED <<logged, pages,
                                                                 drawer>>

\* The event and the result; the action, the group of actions and the result.
SecurityFilterBar(k) == category = "security" /\ SetsKind(k)
AuthorizationFilterBar(k) == category = "authorization" /\ SetsKind(k)

TimeRangeControl(r) ==
    /\ Look /\ ~IsOpen /\ r # kept[Section].range
    /\ Narrows([kept[Section] EXCEPT !.range = r]) /\ UNCHANGED <<logged, pages,
                                                                  drawer>>

toggleSort(d) ==
    /\ Look /\ ~IsOpen /\ d # kept[Section].dir
    /\ Narrows([kept[Section] EXCEPT !.dir = d]) /\ UNCHANGED <<logged, pages,
                                                                drawer>>

\* "Clear filters": the text as well, which is still debounced.
clearAll ==
    /\ Look /\ ~IsOpen
    /\ LET f == [DefaultView EXCEPT !.dir = kept[Section].dir]
       IN  f # kept[Section] /\ Narrows(f)
    /\ UNCHANGED <<logged, pages, drawer>>

setPage(p) ==
    /\ Look /\ ~IsOpen /\ LogRows # <<>> /\ Key \notin broken
    /\ p \in 1..totalPagesFor(Total) \ {logPage} /\ logPage' = p
    /\ UNCHANGED <<category, scope, kept, applied, mountedAt>> /\ Asks
    /\ UNCHANGED <<logged, pages, drawer>>

-----------------------------------------------------------------------------
(* The drawer *)

onRowClick(i) ==
    /\ Look /\ ~IsOpen /\ i \in DOMAIN LogRows /\ Key \notin broken
    /\ openEntry' = LogRows[i] /\ openIndex' = (logPage - 1) * LogPageSize + i
    /\ viewOpen' = View
    /\ UNCHANGED <<logged, category, scope, kept, applied, mountedAt, logPage,
                   pages, dues, broken>>

\* Across the end of a page the entry comes with the fetch; on the page at once.
Walks(n) ==
    /\ openIndex' = n
    /\ IF PageOfIndex(n) # logPage
       THEN /\ logPage' = PageOfIndex(n) /\ UNCHANGED openEntry
       ELSE /\ openEntry' = RowOr(n, openEntry) /\ UNCHANGED logPage
    /\ UNCHANGED <<category, scope, kept, applied, mountedAt, viewOpen>> /\ Asks
    /\ UNCHANGED <<logged, pages>>

onNext == Look /\ IsOpen /\ LogLoaded /\ openIndex + 1 < Total /\ Walks(openIndex + 1)
onPrevious == Look /\ IsOpen /\ openIndex > 0 /\ Walks(openIndex - 1)

onClose ==
    /\ Look /\ IsOpen /\ Closes
    /\ UNCHANGED <<logged, category, scope, kept, applied, mountedAt, logPage,
                   pages, dues, broken>>

\* "Only this user", "only this address": the text filter of the entry.
onFilterUser ==
    /\ Look /\ IsOpen /\ HasText(Section) /\ drawerEntry \in TextHits
    /\ kept' = [kept EXCEPT ![Section].text = TRUE] /\ Closes
    /\ UNCHANGED <<logged, category, scope, applied, mountedAt, logPage, pages,
                   dues, broken>>

\* "Only this event", "only this action": at once; the same filter resets nothing.
FiltersKind ==
    /\ Look /\ IsOpen /\ drawerEntry \in KindHits /\ Closes
    /\ kept' = [kept EXCEPT ![Section].kind = TRUE]
    /\ logPage' = IF kept[Section].kind THEN logPage ELSE 1
    /\ UNCHANGED <<category, scope, applied, mountedAt>> /\ Asks
    /\ UNCHANGED <<logged, pages>>

SecurityDetailsDrawer == category = "security" /\ FiltersKind
AuthorizationDetailsDrawer == category = "authorization" /\ FiltersKind

-----------------------------------------------------------------------------

AuditNext ==
    \/ Refetch
    \/ \E k \in dues : useSecurityAuditLogQuery(k) \/ FetchBreaks(k)
    \/ log_event
    \/ \E c \in Categories : setCategory(c)
    \/ \E s \in {"mine", "all"} : setScope(s)
    \/ AuditLogPage
    \/ \E b \in BOOLEAN : setSearch(b) \/ SecurityFilterBar(b) \/ AuthorizationFilterBar(b)
    \/ debouncedText
    \/ \E r \in {"preset", "custom"} : TimeRangeControl(r)
    \/ \E d \in {"asc", "desc"} : toggleSort(d)
    \/ clearAll
    \/ \E p \in 1..Newest : setPage(p)
    \/ \E i \in 0..LogPageSize - 1 : onRowClick(i)
    \/ onNext \/ onPrevious \/ onClose \/ onFilterUser
    \/ SecurityDetailsDrawer \/ AuthorizationDetailsDrawer

AuditSpec == AuditInit /\ [][AuditNext]_auditVars

-----------------------------------------------------------------------------
(* Properties *)

AuditTypeOK ==
    /\ logged \in OldLog..Newest /\ category \in Categories /\ scope \in {"mine", "all"}
    /\ kept \in [LogSections -> [text : BOOLEAN, kind : BOOLEAN, dir : {"asc", "desc"},
                              range : {"preset", "custom"}]]
    /\ applied \in BOOLEAN /\ mountedAt \in OldLog..Newest /\ logPage \in 1..Newest
    /\ \A k \in DOMAIN pages : pages[k].total \in 0..Newest
    /\ openIndex \in 0..NoIndex /\ openEntry \in 0..Newest
    /\ IsOpen <=> openEntry # NoEntry
    /\ looks \in 0..MaxLooks

\* While the list under the drawer is the one it was opened on, the drawer is
\* on the page of its position, and a settled drawer shows the entry the log
\* holds at the position it announces: walking across pages, fetches that fail
\* and entries logged meanwhile never make it skip or repeat one.  (A preset
\* range: a custom one that ends today lets new entries in.)
\* AllSecurityLogSection.tsx:74-80, 178-193.
DrawerAtItsPosition ==
    IsOpen /\ viewOpen = View /\ kept[Section].range = "preset"
        => /\ logPage = PageOfIndex(openIndex)
           /\ LogLoaded /\ ~isFetching => drawerEntry = EntryAt(View, openIndex)

\* While the drawer is open the entry it shows is the one at its position,
\* "n of total" (DetailsDrawer.tsx:14, position).  Does not hold: during any
\* later fetch of a page reached by walking the drawer falls back to the last
\* entry of the page it came from, under the new position.
DrawerNeverFallsBack ==
    IsOpen /\ viewOpen = View /\ kept[Section].range = "preset" /\ LogLoaded
        => drawerEntry = EntryAt(View, openIndex)

\* What the page promises of the drawer.
AuditSafe == AuditTypeOK /\ DrawerAtItsPosition

-----------------------------------------------------------------------------
(* The inductive invariant *)

LogKeys == [section : LogSections, text : BOOLEAN, kind : BOOLEAN,
            dir : {"asc", "desc"}, upto : Nat] \X (1..Newest)

\* A page of a range that ended before it was fetched stays what the server
\* answers; a page of a custom range is at least one of its length.
LogPagesKnown ==
    /\ dues \subseteq LogKeys /\ DOMAIN pages \subseteq LogKeys /\ mountedAt <= logged
    /\ \A k \in dues \cup DOMAIN pages : k[1].upto <= logged \/ k[1].upto = Newest + 1
    /\ \A k \in DOMAIN pages :
          /\ k[1].upto <= Newest => pages[k] = toPageResult(k)
          /\ \A i \in DOMAIN pages[k].rows :
                /\ i \in 0..LogPageSize - 1 /\ (k[2] - 1) * LogPageSize + i < pages[k].total
                /\ pages[k].rows[i] \in 1..Newest

\* The drawer leaves the list it was opened on only for what its text filter
\* was about to become.
DrawerFollows ==
    IsOpen => IF viewOpen = View
              THEN kept[Section].range = "preset"
                   => /\ logPage = PageOfIndex(openIndex)
                      /\ openIndex < Cardinality(_apply_filters(View))
              ELSE applied = kept[Section].text

AuditInv == AuditTypeOK /\ LogPagesKnown /\ DrawerFollows
===============================================================================
