--------------------------- MODULE CareerKnowledge ---------------------------
(***************************************************************************)
(* A user's career knowledge base: the row in Postgres, the search index   *)
(* derived from it in Qdrant, and the page that edits it.                  *)
(*                                                                         *)
(* A request commits the row first and re-indexes after it.  The chunks    *)
(* are embedded outside a per-user lock in Valkey; inside it every old     *)
(* chunk is deleted and the new ones are upserted, each call with a        *)
(* timeout after which it may still take effect (late).  The lock expires  *)
(* by itself.  A failure of the re-indexing is swallowed.                  *)
(*                                                                         *)
(* A text stands for its Markdown and is cut into Sections[text] chunks;   *)
(* commit and the refresh after it are one step.                           *)
(***************************************************************************)
EXTENDS Naturals

CONSTANTS
    Markdowns, \* texts that can be stored
    NoMarkdown,
    SectionsOf,  \* the number of chunks of each text
    MaxRequests, \* bound: requests
    MaxFaults,   \* bound: failed calls, expired locks and crashes
    MaxFocus     \* bound: times the page is fetched

ASSUME KnowledgeAssumption ==
    {MaxRequests, MaxFaults, MaxFocus} \subseteq Nat

VARIABLES
    kbRow,   \* the row; id 0 is none
    kbIds,   \* ids given so far
    index,   \* the text each point of the index was cut from
    late,    \* calls that timed out and have not taken effect
    kbLock,  \* the request that holds the re-index lock; 0 is none
    kbSends, \* requests in progress
    kbSeen,  \* the page's query
    prev,    \* prevKnowledgeContent
    kbDraft, \* the text area
    kbFetch, \* the query's request
    kbCalls, faults, focuses

knowledgeVars == <<kbRow, kbIds, index, late, kbLock, kbSends, kbSeen, prev,
                   kbDraft, kbFetch, kbCalls, faults, focuses>>
kbServer == <<kbRow, kbIds, index, late, kbLock>>
pageVars == <<kbSeen, prev, kbDraft, kbFetch, focuses>>

Points == 1..2
AnyMarkdown == Markdowns \cup {NoMarkdown}
Steps == {"load", "commit", "embed", "lock", "delete", "upsert", "release", "done"}

KnowledgeTypeOK ==
    /\ kbRow \in [id : 0..kbIds, text : AnyMarkdown] /\ kbIds \in Nat
    /\ index \in [Points -> AnyMarkdown]
    /\ late \subseteq [call : {"delete", "upsert"}, text : AnyMarkdown]
    /\ kbLock \in 0..kbCalls
    /\ \A r \in kbSends : r \in [n : 1..kbCalls, kind : {"create", "update", "delete"},
                                  text : AnyMarkdown, page : BOOLEAN, at : Steps, id : 0..kbIds,
                                  seen : AnyMarkdown, answer : {"none", "ok", "error"},
                                  wrote : BOOLEAN, alone : BOOLEAN]
    /\ {kbSeen, prev, kbDraft} \subseteq AnyMarkdown
    /\ kbFetch \in [at : {"idle", "sent", "read"}, text : AnyMarkdown]
    /\ kbCalls \in 0..MaxRequests /\ faults \in 0..MaxFaults /\ focuses \in 0..MaxFocus

\* chunk_markdown and _point_id: the points a text is stored at.
PointsOf(text) == [i \in Points |-> IF text # NoMarkdown /\ i <= SectionsOf[text]
                                  THEN text ELSE NoMarkdown]

KnowledgeInit ==
    /\ \E text \in AnyMarkdown :
          /\ kbRow = [id |-> IF text = NoMarkdown THEN 0 ELSE 1, text |-> text]
          /\ kbSeen = text /\ prev = text /\ kbDraft = text
          /\ index = PointsOf(text)
    /\ kbIds = kbRow.id /\ late = {} /\ kbLock = 0 /\ kbSends = {}
    /\ kbFetch = [at |-> "idle", text |-> NoMarkdown]
    /\ kbCalls = 0 /\ faults = 0 /\ focuses = 0

-----------------------------------------------------------------------------
(* Requests *)

Fault == faults < MaxFaults /\ faults' = faults + 1
Others(r) == {q \in kbSends : q.n # r.n}

\* A request that meets another one, a late call or a fault is not alone.
Met(rs) == {[r EXCEPT !.alone = FALSE] : r \in rs}

Request(kind, text, fromPage) ==
    /\ kbCalls < MaxRequests /\ kbCalls' = kbCalls + 1
    /\ kbSends' = Met(kbSends) \cup
         {[n |-> kbCalls', kind |-> kind, text |-> text, page |-> fromPage, at |-> "load",
           id |-> 0, seen |-> NoMarkdown, answer |-> "none", wrote |-> FALSE,
           alone |-> kbSends = {} /\ late = {}]}

StepTo(r, at) == kbSends' = Others(r) \cup {[r EXCEPT !.at = at]}
Ends(r, result) == kbSends' = Others(r) \cup {[r EXCEPT !.at = "done", !.answer = result]}

\* What the handler reads first: 409 when a create finds a row, 404 when an
\* update or a delete finds none.
LoadEntry(r) ==
    /\ r.at = "load"
    /\ IF (r.kind = "create") = (kbRow.id = 0)
       THEN kbSends' = Others(r) \cup
               {[r EXCEPT !.at = "commit", !.id = kbRow.id, !.seen = kbRow.text]}
       ELSE Ends(r, "error")
    /\ UNCHANGED <<kbServer, faults>>

\* The AI that structures the text fails before anything is written.
StructureFails(r) ==
    /\ r.at = "commit" /\ r.kind # "delete" /\ Fault
    /\ Ends(r, "error")
    /\ UNCHANGED kbServer

create(r) ==
    /\ r.at = "commit" /\ r.kind = "create"
    /\ IF kbRow.id = 0
       THEN /\ kbIds' = kbIds + 1 /\ kbRow' = [id |-> kbIds', text |-> r.text]
            /\ kbSends' = Others(r) \cup {[r EXCEPT !.at = "embed", !.wrote = TRUE]}
       ELSE Ends(r, "error") /\ UNCHANGED <<kbRow, kbIds>>
    /\ UNCHANGED <<index, late, kbLock, faults>>

\* Only a field that differs from what was loaded is written.
update(r) ==
    /\ r.at = "commit" /\ r.kind = "update"
    /\ IF kbRow.id = r.id
       THEN /\ kbRow' = IF r.text = r.seen THEN kbRow ELSE [kbRow EXCEPT !.text = r.text]
            /\ kbSends' = Others(r) \cup
                  {[r EXCEPT !.at = "embed", !.text = kbRow'.text, !.wrote = TRUE]}
       ELSE Ends(r, "error") /\ UNCHANGED kbRow
    /\ UNCHANGED <<kbIds, index, late, kbLock, faults>>

delete(r) ==
    /\ r.at = "commit" /\ r.kind = "delete"
    /\ kbRow' = IF kbRow.id = r.id THEN [id |-> 0, text |-> NoMarkdown] ELSE kbRow
    /\ kbSends' = Others(r)
          \cup {[r EXCEPT !.at = "lock", !.wrote = TRUE, !.text = NoMarkdown]}
    /\ UNCHANGED <<kbIds, index, late, kbLock, faults>>

-----------------------------------------------------------------------------
(* The index *)

\* A failed embedding leaves the index as it is, and the save succeeds.
embed_text(r) ==
    /\ r.at = "embed"
    /\ \/ StepTo(r, "lock") /\ UNCHANGED faults
       \/ Fault /\ Ends([r EXCEPT !.alone = FALSE], "ok")
    /\ UNCHANGED kbServer

\* An error of Valkey is none of the errors the route swallows.
_reindex_lock(r) ==
    /\ r.at = "lock"
    /\ \/ kbLock = 0 /\ kbLock' = r.n /\ StepTo(r, "delete") /\ UNCHANGED faults
       \/ Fault /\ Ends([r EXCEPT !.alone = FALSE], "error") /\ UNCHANGED kbLock
    /\ UNCHANGED <<kbRow, kbIds, index, late>>

Effect(call, text) ==
    IF call = "delete" THEN [i \in Points |-> NoMarkdown]
    ELSE [i \in Points |-> IF PointsOf(text)[i] # NoMarkdown THEN text ELSE index[i]]

\* A call to Qdrant: done in time, or failed with its effect now, later or never.
_call(r, call, next) ==
    /\ r.at = call
    /\ \/ index' = Effect(call, r.text) /\ StepTo(r, next) /\ UNCHANGED <<late,
                                                                          faults>>
       \/ /\ Fault /\ StepTo([r EXCEPT !.alone = FALSE], "release")
          /\ \/ index' = Effect(call, r.text) /\ UNCHANGED late
             \/ late' = late \cup {[call |-> call, text |-> r.text]} /\ UNCHANGED index
             \/ UNCHANGED <<index, late>>
    /\ UNCHANGED <<kbRow, kbIds, kbLock>>

\* As if the new points were written over the old ones.
index_over(r) ==
    \/ /\ r.at = "delete" /\ StepTo(r, IF r.kind = "delete" THEN "release" ELSE "upsert")
       /\ UNCHANGED <<kbServer, faults>>
    \/ _call(r, "upsert", "release")

index_knowledge_base(r) ==
    \/ _call(r, "delete", IF r.kind = "delete" THEN "release" ELSE "upsert")
    \/ _call(r, "upsert", "release")

\* A request whose lock has expired fails when it gives the lock back.
Release(r) ==
    /\ r.at = "release"
    /\ IF kbLock = r.n THEN kbLock' = 0 /\ Ends(r, "ok")
       ELSE Ends(r, "error") /\ UNCHANGED kbLock
    /\ UNCHANGED <<kbRow, kbIds, index, late, faults>>

LandsLate(op) ==
    /\ index' = Effect(op.call, op.text) /\ late' = late \ {op}
    /\ kbSends' = Met(kbSends)
    /\ UNCHANGED <<kbRow, kbIds, kbLock, faults>>

IndexLockExpires ==
    /\ kbLock # 0 /\ Fault /\ kbLock' = 0 /\ kbSends' = Met(kbSends)
    /\ UNCHANGED <<kbRow, kbIds, index, late>>

\* A process dies: its request never answers, and its lock stays until it expires.
Crash(r) ==
    /\ r.at # "done" /\ Fault
    /\ kbSends' = Met(Others(r))
    /\ UNCHANGED kbServer

-----------------------------------------------------------------------------
(* The page *)

\* The render takes over the query's text when it is not the one seen before.
Synced ==
    IF kbSeen' # NoMarkdown /\ kbSeen' # prev
    THEN prev' = kbSeen' /\ kbDraft' = kbSeen'
    ELSE UNCHANGED <<prev, kbDraft>>

IsPending(kind) == \E r \in kbSends : r.page /\ r.kind = kind

Type(text) ==
    /\ kbSeen # NoMarkdown /\ text # kbDraft /\ kbDraft' = text
    /\ UNCHANGED <<kbServer, kbSends, kbSeen, prev, kbFetch, focuses, kbCalls,
                   faults>>

handleCreate(text) ==
    /\ kbSeen = NoMarkdown /\ ~IsPending("create")
    /\ Request("create", text, TRUE)
    /\ UNCHANGED <<kbServer, pageVars, faults>>

saveKnowledge ==
    /\ kbSeen # NoMarkdown /\ kbDraft # kbSeen /\ ~IsPending("update")
    /\ Request("update", kbDraft, TRUE)
    /\ UNCHANGED <<kbServer, pageVars, faults>>

startOver ==
    /\ kbSeen # NoMarkdown /\ ~IsPending("delete")
    /\ Request("delete", NoMarkdown, TRUE)
    /\ UNCHANGED <<kbServer, pageVars, faults>>

\* Another tab or client creates or saves.
OtherSaves(text) ==
    /\ \E kind \in {"create", "update"} : Request(kind, text, FALSE)
    /\ UNCHANGED <<kbServer, pageVars, faults>>

\* A success of the page's own request goes into the query's cache.
RequestEnds(r) ==
    /\ r.at = "done" /\ kbSends' = Others(r)
    /\ kbSeen' = IF r.page /\ r.answer = "ok" THEN r.text ELSE kbSeen
    /\ Synced
    /\ UNCHANGED <<kbServer, kbFetch, focuses, kbCalls, faults>>

\* The window comes back into focus, the server reads, the page gets it.
useCareerKnowledgeBaseQuery ==
    /\ \/ /\ kbFetch.at = "idle" /\ focuses < MaxFocus /\ focuses' = focuses + 1
          /\ kbFetch' = [kbFetch EXCEPT !.at = "sent"] /\ UNCHANGED <<kbSeen, prev,
                                                                      kbDraft>>
       \/ /\ kbFetch.at = "sent" /\ kbFetch' = [at |-> "read", text |-> kbRow.text]
          /\ UNCHANGED <<kbSeen, prev, kbDraft, focuses>>
       \/ /\ kbFetch.at = "read" /\ kbFetch' = [at |-> "idle", text |-> NoMarkdown]
          /\ kbSeen' = kbFetch.text /\ Synced /\ UNCHANGED focuses
    /\ UNCHANGED <<kbServer, kbSends, kbCalls, faults>>

ServerStep(r) ==
    \/ LoadEntry(r) \/ StructureFails(r) \/ create(r) \/ update(r) \/ delete(r)
    \/ embed_text(r) \/ _reindex_lock(r) \/ index_knowledge_base(r) \/ Release(r)
    \/ Crash(r)

KnowledgeNext ==
    \/ (\E r \in kbSends : ServerStep(r)) /\ UNCHANGED <<pageVars, kbCalls>>
    \/ (\E op \in late : LandsLate(op)) /\ UNCHANGED <<pageVars, kbCalls>>
    \/ IndexLockExpires /\ UNCHANGED <<pageVars, kbCalls>>
    \/ \E text \in Markdowns : Type(text) \/ handleCreate(text) \/ OtherSaves(text)
    \/ saveKnowledge \/ startOver
    \/ \E r \in kbSends : RequestEnds(r)
    \/ useCareerKnowledgeBaseQuery

KnowledgeSpec == KnowledgeInit /\ [][KnowledgeNext]_knowledgeVars

-----------------------------------------------------------------------------
(* Properties *)

\* "Search over this knowledge base is stale until the next successful save"
\* (_reindex_best_effort): whatever failed before, a save or a delete that
\* runs alone and without a fault leaves the index with exactly the chunks of
\* what is stored.
NextSaveRepairs ==
    \A r \in kbSends :
       r.at = "done" /\ r.answer = "ok" /\ r.alone => index = PointsOf(kbRow.text)

\* As long as every call ends in time, the lock keeps the re-indexings of two
\* requests apart: outside of it the index holds the chunks of one text.
IndexIsOneText ==
    faults = 0 /\ kbLock = 0 => \E text \in AnyMarkdown : index = PointsOf(text)

\* "The resulting content is always re-indexed in Qdrant so search stays in
\* sync with what's actually stored" (update_my_career_knowledge_base): with
\* nothing failed and nothing in progress, the index is that of the row.
SearchInSync ==
    faults = 0 /\ kbSends = {} => index = PointsOf(kbRow.text)

\* "Deliberately never raised" (_reindex_best_effort): no request whose row was
\* written answers with an error.
WrittenIsNotAnError ==
    \A r \in kbSends : r.wrote => r.answer # "error"

\* What the routes promise of the search index.
KnowledgeSafe == KnowledgeTypeOK /\ NextSaveRepairs /\ IndexIsOneText

\* The inductive invariant behind it: a request that is alone is the only one,
\* and nothing is late; without a fault nothing is late either.
RequestsNamed == \A q, r \in kbSends : q.n = r.n => q = r

NothingLate == faults = 0 => late = {}

Alone(r) == r.alone => kbSends = {r} /\ late = {}

\* Such a request, or any as long as nothing failed, holds the lock while it
\* re-indexes, and knows how far the index has come.
Trusted(r) == r.alone \/ faults = 0

Indexes(r) ==
    Trusted(r) =>
        /\ r.at \in {"delete", "upsert", "release"} => kbLock = r.n
        /\ r.at = "upsert" => index = PointsOf(NoMarkdown)
        /\ r.at = "release" => index = PointsOf(r.text)

\* Alone, it also knows the row.
Knows(r) ==
    /\ r.kind = "delete" => r.text = NoMarkdown
    /\ r.alone =>
        /\ r.at = "commit" => r.id = kbRow.id
        /\ r.at \in {"embed", "lock", "delete", "upsert", "release"} =>
              r.text = kbRow.text
        /\ r.at = "done" /\ r.answer = "ok" => index = PointsOf(kbRow.text)

KnowledgeInv ==
    /\ KnowledgeTypeOK /\ RequestsNamed /\ NothingLate /\ IndexIsOneText
    /\ \A r \in kbSends : Alone(r) /\ Indexes(r) /\ Knows(r)
=============================================================================
