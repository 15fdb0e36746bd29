--------------------------- MODULE ApplicationList ---------------------------
(***************************************************************************)
(* The page of tracked applications (app/applications): the paged list,    *)
(* the status cell of each row, which shows a pick before the server has   *)
(* taken it, and the deletion of a row.                                    *)
(*                                                                         *)
(* Rows are numbered in the order of the list.  A list is what the server  *)
(* answered: the statuses of the rows on one page.                         *)
(***************************************************************************)
EXTENDS Naturals, FiniteSets

CONSTANTS
    MaxRow, \* rows at the start
    Statuses,
    ListSize, \* APPLICATIONS_PAGE_SIZE
    MaxSends, \* bound: clicks that send or delete
    MaxTurns  \* bound: pages turned

ASSUME ListAssumption ==
    /\ {MaxRow, MaxSends, MaxTurns} \subseteq Nat
    /\ ListSize \in Nat \ {0} /\ Statuses # {}

VARIABLES
    apps, \* status of each row in the database
    offset,
    lists,    \* the query's list for each offset
    staleAt,  \* offsets whose list was invalidated
    asking,   \* offsets being fetched, with the list once it was read
    behind,   \* the list shown while that of offset is not there
    cells,    \* the status cell of each row on screen
    pending,  \* update requests
    rowTrash, \* the dialog and the request of a deletion
    posts, turns,
    certain \* history: no update has lost its answer

listVars == <<apps, offset, lists, staleAt, asking, behind, cells, pending, rowTrash,
              posts, turns, certain>>

AppRows == 1..MaxRow
Offsets == {ListSize * k : k \in 0..MaxRow}
NoStatus == "none"
Unread == "unread"
Listing == UNION {[S -> Statuses] : S \in SUBSET AppRows}
NoTrash == [at |-> "none", id |-> 0, last |-> FALSE]

\* list_by_user: the rows that follow the first offset ones.
OnPage(o) == LET before(i) == Cardinality({j \in DOMAIN apps : j < i})
             IN {i \in DOMAIN apps : before(i) >= o /\ before(i) < o + ListSize}
list_my_applications(o) == [i \in OnPage(o) |-> apps[i]]

ListTypeOK ==
    /\ apps \in Listing /\ offset \in Offsets
    /\ lists \subseteq [at : Offsets, rows : Listing] /\ staleAt \subseteq Offsets
    /\ asking \subseteq [at : Offsets, read : BOOLEAN, rows : Listing]
    /\ behind \in Listing
    /\ \A i \in DOMAIN cells :
          cells[i] \in [shown : Statuses, prev : Statuses]
    /\ pending \subseteq [n : 1..MaxSends, id : AppRows, status : Statuses,
                          back : Statuses, at : {"sent", "ok", "failed"}, heard : BOOLEAN]
    /\ rowTrash \in [at : {"none", "ask", "sent", "ok", "failed"}, id : 0..MaxRow,
                    last : BOOLEAN]
    /\ posts \in 0..MaxSends /\ turns \in 0..MaxTurns /\ certain \in BOOLEAN

Has(ls, o) == \E l \in ls : l.at = o
RowsAt(ls, o) == (CHOOSE l \in ls : l.at = o).rows
ShownRows == IF Has(lists, offset) THEN RowsAt(lists, offset) ELSE behind
CellPending(i, ps) == \E r \in ps : r.id = i /\ r.heard

ListInit ==
    /\ apps = [i \in AppRows |-> CHOOSE s \in Statuses : TRUE]
    /\ offset = 0 /\ staleAt = {} /\ asking = {}
    /\ lists = {[at |-> 0, rows |-> list_my_applications(0)]}
    /\ behind = list_my_applications(0)
    /\ cells = [i \in OnPage(0) |-> [shown |-> apps[i], prev |-> apps[i]]]
    /\ pending = {} /\ rowTrash = NoTrash
    /\ posts = 0 /\ turns = 0 /\ certain = TRUE

-----------------------------------------------------------------------------
(* What is on screen *)

\* The render of the cells: a row that comes mounts one from its status, one
\* that stays takes over a changed status unless its update is under way.
StatusCells(rows, ps, old) ==
    [i \in DOMAIN rows |->
       IF i \notin DOMAIN old
       THEN [shown |-> rows[i], prev |-> rows[i]]
       ELSE IF rows[i] # old[i].prev /\ ~CellPending(i, ps)
       THEN [old[i] EXCEPT !.shown = rows[i], !.prev = rows[i]]
       ELSE old[i]]

\* An update whose cell is gone is heard by nobody any more.
Unheard(ps, rows) == {[r EXCEPT !.heard = @ /\ r.id \in DOMAIN rows] : r \in ps}

ShownNext == IF Has(lists', offset') THEN RowsAt(lists', offset') ELSE behind'
Screen(ps, old) ==
    /\ pending' = Unheard(ps, ShownNext)
    /\ cells' = StatusCells(ShownNext, pending', old)

\* The query of the open page is fetched when it is missing or stale.
Fetches(o) == [at |-> o, read |-> FALSE, rows |-> behind]
Invalidate ==
    /\ staleAt' = {l.at : l \in lists}
    /\ asking' = {a \in asking : a.at \notin {offset, offset'}}
                 \cup {Fetches(offset), Fetches(offset')}

\* Pager: the next page is offered when the rows on screen fill a page.
Pager(o) ==
    /\ turns < MaxTurns /\ turns' = turns + 1
    /\ \/ offset > 0 /\ o = offset - ListSize
       \/ Cardinality(DOMAIN ShownRows) = ListSize /\ o = offset + ListSize
    /\ offset' = o /\ behind' = ShownRows /\ UNCHANGED lists
    /\ asking' = IF Has(lists, o) /\ o \notin staleAt THEN asking
                 ELSE {a \in asking : a.at # o} \cup {Fetches(o)}
    /\ Screen(pending, cells)
    /\ UNCHANGED <<apps, staleAt, rowTrash, posts, certain>>

\* A fetch reads the server; its answer, or its failure, comes later.
useApplicationsQuery(a) ==
    /\ UNCHANGED <<apps, offset, rowTrash, posts, turns, certain>>
    /\ \/ /\ ~a.read
          /\ asking' = (asking \ {a}) \cup
                       {[a EXCEPT !.read = TRUE, !.rows = list_my_applications(a.at)]}
          /\ UNCHANGED <<lists, staleAt, behind, pending, cells>>
       \/ /\ a.read /\ asking' = asking \ {a} /\ UNCHANGED behind
          /\ lists' = {l \in lists : l.at # a.at} \cup {[at |-> a.at, rows |-> a.rows]}
          /\ staleAt' = staleAt \ {a.at}
          /\ Screen(pending, cells)
       \/ /\ asking' = asking \ {a} /\ UNCHANGED <<lists, staleAt, behind, pending,
                                                   cells>>

-----------------------------------------------------------------------------
(* The status of a row *)

handleChange(i, s) ==
    /\ i \in DOMAIN cells /\ ~CellPending(i, pending) /\ s # cells[i].shown
    /\ posts < MaxSends /\ posts' = posts + 1
    /\ cells' = [cells EXCEPT ![i].shown = s]
    /\ pending' = pending \cup {[n |-> posts', id |-> i, status |-> s,
                                 back |-> cells[i].shown, at |-> "sent", heard |-> TRUE]}
    /\ UNCHANGED <<apps, offset, lists, staleAt, asking, behind, rowTrash, turns,
                   certain>>

\* The server takes the status, refuses it (the row is gone), or its answer is lost.
update_my_application(r) ==
    /\ r.at = "sent"
    /\ \/ /\ r.id \in DOMAIN apps /\ apps' = [apps EXCEPT ![r.id] = r.status]
          /\ \/ pending' = (pending \ {r}) \cup {[r EXCEPT !.at = "ok"]} /\ UNCHANGED certain
             \/ pending' = (pending \ {r}) \cup {[r EXCEPT !.at = "failed"]} /\ certain' = FALSE
       \/ /\ pending' = (pending \ {r}) \cup {[r EXCEPT !.at = "failed"]}
          /\ UNCHANGED <<apps, certain>>
    /\ UNCHANGED <<offset, lists, staleAt, asking, behind, cells, rowTrash, posts,
                   turns>>

\* As if a failure left the pick on screen.
useUpdateKeepingPick(r) ==
    /\ r.at \in {"ok", "failed"}
    /\ UNCHANGED <<offset, lists, behind>>
    /\ IF r.at = "ok" THEN Invalidate ELSE UNCHANGED <<staleAt, asking>>
    /\ Screen(pending \ {r}, cells)
    /\ UNCHANGED <<apps, rowTrash, posts, turns, certain>>

\* A failure takes the pick back; a success has the lists fetched again.
useUpdateApplicationMutation(r) ==
    /\ r.at \in {"ok", "failed"}
    /\ UNCHANGED <<offset, lists, behind>>
    /\ IF r.at = "ok" THEN Invalidate ELSE UNCHANGED <<staleAt, asking>>
    /\ Screen(pending \ {r},
              IF r.at = "failed" /\ r.heard
              THEN [cells EXCEPT ![r.id].shown = r.back] ELSE cells)
    /\ UNCHANGED <<apps, rowTrash, posts, turns, certain>>

-----------------------------------------------------------------------------
(* Deleting a row *)

\* The trash icon, and the dialog's answer; whether the row is the last one of
\* its page is decided here, by the rows on screen.
confirmDeletion(i) ==
    /\ \/ rowTrash.at = "none" /\ posts < MaxSends /\ posts' = posts + 1
          /\ rowTrash' = [at |-> "ask", id |-> i, last |-> FALSE]
       \/ /\ rowTrash.at = "ask" /\ UNCHANGED posts
          /\ rowTrash' \in
               {NoTrash, [rowTrash EXCEPT !.at = "sent",
                              !.last = Cardinality(DOMAIN ShownRows) = 1 /\ offset > 0]}
    /\ UNCHANGED <<apps, offset, lists, staleAt, asking, behind, cells, pending,
                   turns, certain>>

delete_my_application ==
    /\ rowTrash.at = "sent"
    /\ \/ /\ rowTrash.id \in DOMAIN apps
          /\ apps' = [i \in DOMAIN apps \ {rowTrash.id} |-> apps[i]]
          /\ rowTrash' = [rowTrash EXCEPT !.at = "ok"]
       \/ rowTrash' = [rowTrash EXCEPT !.at = "failed"] /\ UNCHANGED apps
    /\ UNCHANGED <<offset, lists, staleAt, asking, behind, cells, pending, posts,
                   turns, certain>>

\* A failure leaves the dialog open.
useDeleteApplicationMutation ==
    \/ /\ rowTrash.at = "ok" /\ rowTrash' = NoTrash
       /\ offset' = IF rowTrash.last /\ offset > 0 THEN offset - ListSize ELSE offset
       /\ behind' = ShownRows /\ UNCHANGED lists
       /\ Invalidate /\ Screen(pending, cells)
       /\ UNCHANGED <<apps, posts, turns, certain>>
    \/ /\ rowTrash.at = "failed" /\ rowTrash' = [rowTrash EXCEPT !.at = "ask"]
       /\ UNCHANGED <<apps, offset, lists, staleAt, asking, behind, cells, pending,
                      posts, turns, certain>>

ListNext ==
    \/ \E o \in Offsets : Pager(o)
    \/ \E a \in asking : useApplicationsQuery(a)
    \/ \E i \in AppRows, s \in Statuses : handleChange(i, s)
    \/ \E r \in pending : update_my_application(r) \/ useUpdateApplicationMutation(r)
    \/ \E i \in DOMAIN ShownRows : confirmDeletion(i)
    \/ delete_my_application \/ useDeleteApplicationMutation

ListSpec == ListInit /\ [][ListNext]_listVars

-----------------------------------------------------------------------------
(* Properties *)

ListSettled == /\ Has(lists, offset) /\ offset \notin staleAt
           /\ asking = {} /\ pending = {} /\ rowTrash.at = "none"

\* A pick is shown at once and taken back when it fails, and a fetch never
\* overrides one under way: on a settled page each status is the server's,
\* unless an update lost its answer.  (A page turned and turned back mounts its
\* cells anew, so that two updates of one row may overlap; then it need not be.)
StatusIsTrue ==
    ListSettled /\ certain /\ turns = 0
    => \A i \in DOMAIN cells : i \in DOMAIN apps /\ cells[i].shown = apps[i]

\* "Step back a page instead of leaving the pager stuck on an empty page"
\* (ApplicationsPage.tsx:63-64).
NeverOnAnEmptyPage == ListSettled /\ turns = 1 /\ offset > 0 => DOMAIN ShownRows # {}

\* What the page promises of its rows.
ListSafe == ListTypeOK /\ StatusIsTrue

-----------------------------------------------------------------------------
(* The inductive invariant *)

\* There is a cell for each row on screen, one list and one fetch for an offset,
\* and a mounted cell has one update at most.
ListShape ==
    /\ cells \in [DOMAIN ShownRows -> [shown : Statuses, prev : Statuses]]
    /\ \A l, m \in lists : l.at = m.at => l = m
    /\ \A a, b \in asking : a.at = b.at => a = b
    /\ \A r \in pending : r.heard => r.id \in DOMAIN cells
    /\ \A r, q \in pending : r.heard /\ q.heard /\ r.id = q.id => r = q

\* Rows are never added: one that is on the first page stays there until it is
\* deleted, and so does its cell, which hears of its updates.
FirstPage ==
    /\ offset = 0 /\ lists # {}
    /\ \A l \in lists : l.at = 0
    /\ \A a \in asking : a.at = 0
    /\ DOMAIN ShownRows \cap DOMAIN apps \subseteq OnPage(0)
    /\ \A i \in DOMAIN ShownRows \ DOMAIN apps :
          0 \in staleAt \/ (rowTrash.at = "ok" /\ rowTrash.id = i)
    /\ \A a \in asking : a.read =>
          /\ DOMAIN ShownRows \cap DOMAIN apps \subseteq DOMAIN a.rows
          /\ DOMAIN a.rows \cap DOMAIN apps \subseteq OnPage(0)
          /\ \A i \in DOMAIN a.rows \ DOMAIN apps : rowTrash.at = "ok" /\ rowTrash.id = i
    /\ \A r \in pending : r.id \in DOMAIN apps => r.heard

\* The update of this row has been made, and its answer is under way.
Taken(i) == \E r \in pending : r.id = i /\ r.at = "ok"

\* What is shown, or its update would bring back, is the row's status, unless
\* a list that is still to come has it and will be taken over.
StatusKnown(i) ==
    /\ i \in DOMAIN ShownRows => ShownRows[i] = apps[i] \/ 0 \in staleAt \/ Taken(i)
    /\ \A a \in asking : a.read /\ i \in DOMAIN a.rows => a.rows[i] = apps[i] \/ Taken(i)
    /\ \A r \in pending : r.id = i =>
          /\ cells[i].shown = r.status
          /\ r.at = "ok" => apps[i] = r.status
          /\ r.at # "ok" => r.back = apps[i] \/ cells[i].prev # apps[i]
    /\ i \in DOMAIN cells /\ (\A r \in pending : r.id # i) =>
          cells[i].shown = apps[i] \/ (cells[i].prev # apps[i] /\ 0 \in staleAt)

ListInv ==
    /\ ListTypeOK /\ ListShape
    /\ turns = 0 => FirstPage
    /\ turns = 0 /\ certain => \A i \in DOMAIN apps : StatusKnown(i)
=============================================================================
