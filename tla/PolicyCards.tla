---------------------------- MODULE PolicyCards -----------------------------
(***************************************************************************)
(* The list of the policies page: its filter and pages, the switch on each *)
(* card that activates a policy, and the deletion of an inactive one.      *)
(*                                                                         *)
(* A switch shows a guess at once (useOptimisticPolicyActivity.ts); its    *)
(* request follows, and only a failure takes the guess back.  The list is  *)
(* cached per filter and page and refetched when a request succeeds.       *)
(*                                                                         *)
(* The status filter stands for all the filters of the page: each narrows  *)
(* the rows and brings the page back to the first.                         *)
(***************************************************************************)
EXTENDS Naturals, Sequences, FiniteSets, FiniteSetsExt

CONSTANTS
    Cards,       \* policies, numbered in the order of their names
    LockedCards, \* protected, or granting what this administrator lacks
    CardsPerPage,
    MaxCardClicks, \* bound: clicks of the administrator
    MaxFlips       \* bound: switches made by other administrators

ASSUME CardsAssumption ==
    /\ Cards \subseteq Nat \ {0} /\ IsFiniteSet(Cards) /\ Cards # {}
    /\ CardsPerPage \in Nat \ {0} /\ {MaxCardClicks, MaxFlips} \subseteq Nat

VARIABLES
    cardActive, \* the policies in the database: "on", "off" or "gone"
    filter,     \* "all" or "on"
    cardPage,
    cached,   \* each list query asked so far: its rows, the number of pages
    outdated, \* list queries that were invalidated
    guesses,  \* optimisticActiveStates
    switched, \* requests of statusMutation, oldest first
    unflips,  \* undo buttons of the toasts on screen
    deleting, \* the policy the delete dialog is about, or NoCard
    holders,  \* usePolicyHoldersQuery of that dialog
    removal,  \* the request of deleteMutation
    cardClicks, flips,
    steady, \* history: no undo, overlap or foreign write on a policy
    sawOff  \* history: the policy was off at some time since Delete

policyCardVars == <<cardActive, filter, cardPage, cached, outdated, guesses,
                    switched, unflips, deleting, holders, removal, cardClicks,
                    flips, steady, sawOff>>
listSide == <<filter, cardPage, cached, outdated>>
dialogSide == <<deleting, holders>>

NoCard == 0
Status == {"on", "off"}
Queries == {"all", "on"} \X (1..Cardinality(Cards))
CardRows == UNION {[S -> Status] : S \in SUBSET Cards}
Switchings == [at : {"sent", "ok", "failed"}, card : Cards, to : Status, undo : BOOLEAN,
               heard : BOOLEAN]
Removals == [at : {"none", "sent", "checked", "ok", "failed"}, card : Cards \cup {NoCard}]
NoRows == [rows |-> [c \in {NoCard} |-> "off"], pages |-> 1]

CardsTypeOK ==
    /\ cardActive \in [Cards -> Status \cup {"gone"}]
    /\ <<filter, cardPage>> \in Queries /\ outdated \subseteq Queries
    /\ \A q \in Queries : cached[q] \in {NoRows} \cup [rows : CardRows, pages : 1..Cardinality(Cards)]
    /\ guesses \in [Cards -> Status \cup {"none"}]
    /\ switched \in Seq(Switchings)
    /\ unflips \subseteq [card : Cards, to : Status]
    /\ deleting \in Cards \cup {NoCard} /\ holders \in {"loading", "known", "failed"}
    /\ removal \in Removals
    /\ cardClicks \in 0..MaxCardClicks /\ flips \in 0..MaxFlips
    /\ steady \subseteq Cards /\ sawOff \in BOOLEAN

NoRemoval == [at |-> "none", card |-> NoCard]

CardsInit ==
    /\ cardActive \in [Cards -> Status] /\ filter = "all" /\ cardPage = 1
    /\ cached = [q \in Queries |-> NoRows] /\ outdated = {}
    /\ guesses = [c \in Cards |-> "none"] /\ switched = <<>> /\ unflips = {}
    /\ deleting = NoCard /\ holders = "loading" /\ removal = NoRemoval
    /\ cardClicks = 0 /\ flips = 0 /\ steady = Cards /\ sawOff = FALSE

-----------------------------------------------------------------------------
(* The list *)

Flip(s) == IF s = "on" THEN "off" ELSE "on"
Query == <<filter, cardPage>>
Listed == DOMAIN cached[Query].rows \ {NoCard}
ShownSwitch(c) == IF guesses[c] = "none" THEN cached[Query].rows[c] ELSE guesses[c]
CardClick == cardClicks < MaxCardClicks /\ cardClicks' = cardClicks + 1

MatchingCards(f) == {c \in Cards : cardActive[c] \in (IF f = "all" THEN Status ELSE {f})}
PageOf(f, p) ==
    {c \in MatchingCards(f) :
        Cardinality({d \in MatchingCards(f) : d < c}) \div CardsPerPage = p - 1}
PageCount(f) == Max({1} \cup {p \in 1..Cardinality(Cards) : PageOf(f, p) # {}})

\* What is cached is shown until the answer of a newer fetch.
useListQuery ==
    /\ cached[Query] = NoRows \/ Query \in outdated
    /\ cached' = [cached EXCEPT ![Query] =
                   [rows |-> [c \in PageOf(filter, cardPage) |-> cardActive[c]],
                    pages |-> PageCount(filter)]]
    /\ outdated' = outdated \ {Query}
    /\ UNCHANGED <<cardActive, filter, cardPage, guesses, switched, unflips,
                   dialogSide, removal, cardClicks, flips, steady>>

InvalidateLists == outdated' = {q \in Queries : cached[q] # NoRows}

\* A filter, a chip, a tile of the stats, or "clear": the page goes back to 1.
PoliciesFilterBar(f) ==
    /\ CardClick /\ deleting = NoCard /\ f # filter
    /\ filter' = f /\ cardPage' = 1
    /\ UNCHANGED <<cardActive, cached, outdated, guesses, switched, unflips,
                   dialogSide, removal, flips, steady>>

\* Prev and the numbered pages; the numbers come from the last total.
TurnPage(p) ==
    /\ CardClick /\ deleting = NoCard /\ p # cardPage
    /\ p \in 1..cached[Query].pages \cup {cardPage - 1} /\ cardPage' = p
    /\ UNCHANGED <<cardActive, filter, cached, outdated, guesses, switched, unflips,
                   dialogSide, removal, flips, steady>>

-----------------------------------------------------------------------------
(* The switch *)

\* The hook reports to the callbacks of its latest call alone, and shows that
\* call's policy as busy.
SendsSwitch(c, to, undo) ==
    switched' = Append([i \in DOMAIN switched |->
                           [switched[i] EXCEPT !.heard = FALSE]],
                       [at |-> "sent", card |-> c, to |-> to, undo |-> undo,
                        heard |-> TRUE])
Busy(c) == \E i \in DOMAIN switched : switched[i].heard /\ switched[i].card = c
InFlight == {switched[i].card : i \in DOMAIN switched}

handleToggleActive(c) ==
    /\ CardClick /\ deleting = NoCard
    /\ c \in Listed \ LockedCards /\ ~Busy(c)
    /\ guesses' = [guesses EXCEPT ![c] = Flip(ShownSwitch(c))]
    /\ SendsSwitch(c, Flip(ShownSwitch(c)), FALSE)
    /\ steady' = steady \ InFlight
    /\ UNCHANGED <<cardActive, listSide, unflips, dialogSide, removal, flips>>

UndoSwitch(o) ==
    /\ CardClick /\ unflips' = unflips \ {o}
    /\ SendsSwitch(o.card, o.to, TRUE)
    /\ steady' = steady \ (InFlight \cup {o.card})
    /\ UNCHANGED <<cardActive, listSide, guesses, dialogSide, removal, flips>>

OfferGoes(o) ==
    /\ unflips' = unflips \ {o}
    /\ UNCHANGED <<cardActive, listSide, guesses, switched, dialogSide, removal,
                   cardClicks, flips, steady>>

\* Requests in flight together may reach the server in any order.
UpdateStatus(i) ==
    LET r == switched[i]
    IN /\ r.at = "sent"
       /\ \/ /\ cardActive[r.card] # "gone"
             /\ cardActive' = [cardActive EXCEPT ![r.card] = r.to]
             /\ switched' = [switched EXCEPT ![i].at = "ok"]
          \/ /\ switched' = [switched EXCEPT ![i].at = "failed"]
             /\ UNCHANGED cardActive
       /\ UNCHANGED <<listSide, guesses, unflips, dialogSide, removal, cardClicks,
                      flips, steady>>

Drop(s, i) == SubSeq(s, 1, i - 1) \o SubSeq(s, i + 1, Len(s))

SwitchEnds(i) ==
    LET r == switched[i]
    IN /\ r.at # "sent" /\ switched' = Drop(switched, i)
       /\ IF r.at = "ok" THEN InvalidateLists ELSE UNCHANGED outdated
       /\ unflips' = IF r.at = "ok" /\ r.heard /\ ~r.undo
                    THEN unflips \cup {[card |-> r.card, to |-> Flip(r.to)]}
                    ELSE unflips
       /\ guesses' = IF r.at = "failed" /\ r.heard /\ ~r.undo
                     THEN [guesses EXCEPT ![r.card] = "none"] ELSE guesses
       /\ UNCHANGED <<cardActive, filter, cardPage, cached, dialogSide, removal,
                      cardClicks, flips, steady>>

-----------------------------------------------------------------------------
(* Deletion *)

PolicyCard(c) ==
    /\ CardClick /\ deleting = NoCard
    /\ c \in Listed \ LockedCards /\ ShownSwitch(c) = "off"
    /\ deleting' = c /\ holders' \in {"loading", "known"}
    /\ UNCHANGED <<cardActive, listSide, guesses, switched, unflips, removal,
                   flips, steady>>

usePolicyHoldersQuery ==
    /\ deleting # NoCard
    /\ \/ holders = "loading" /\ holders' \in {"known", "failed"} /\ UNCHANGED cardClicks
       \/ CardClick /\ holders = "failed" /\ holders' = "loading"
    /\ UNCHANGED <<cardActive, listSide, guesses, switched, unflips, deleting,
                   removal, flips, steady>>

\* Cancel; Escape and the X work while the request is under way too.
CancelDelete ==
    /\ CardClick /\ deleting # NoCard /\ deleting' = NoCard
    /\ UNCHANGED <<cardActive, listSide, guesses, switched, unflips, holders, removal,
                   flips, steady>>

handleDeleteConfirm ==
    /\ CardClick /\ deleting # NoCard /\ holders = "known" /\ removal.at = "none"
    /\ removal' = [at |-> "sent", card |-> deleting]
    /\ UNCHANGED <<cardActive, listSide, guesses, switched, unflips, dialogSide,
                   flips, steady>>

\* As if the server trusted the card that the policy is off.
delete_policy_unchecked ==
    /\ removal.at = "sent" /\ removal' = [removal EXCEPT !.at = "checked"]
    /\ UNCHANGED <<cardActive, listSide, guesses, switched, unflips, dialogSide,
                   cardClicks, flips, steady>>

\* The server reads the policy, refuses an active one, ...
delete_policy ==
    /\ removal.at = "sent"
    /\ \/ cardActive[removal.card] = "off" /\ removal' = [removal EXCEPT !.at = "checked"]
       \/ removal' = [removal EXCEPT !.at = "failed"]
    /\ UNCHANGED <<cardActive, listSide, guesses, switched, unflips, dialogSide,
                   cardClicks, flips, steady>>

\* ... and deletes the row after the checks that follow.
DeleteCommits ==
    /\ removal.at = "checked"
    /\ cardActive' = [cardActive EXCEPT ![removal.card] = "gone"]
    /\ removal' = [removal EXCEPT !.at = "ok"]
    /\ UNCHANGED <<listSide, guesses, switched, unflips, dialogSide, cardClicks,
                   flips, steady>>

\* Success closes the dialog, whichever policy it is about by now.
DeleteEnds ==
    /\ removal.at \in {"ok", "failed"} /\ removal' = NoRemoval
    /\ IF removal.at = "ok" THEN deleting' = NoCard /\ InvalidateLists
       ELSE UNCHANGED <<deleting, outdated>>
    /\ UNCHANGED <<cardActive, filter, cardPage, cached, guesses, switched,
                   unflips, holders, cardClicks, flips, steady>>

OthersFlip(c) ==
    /\ flips < MaxFlips /\ flips' = flips + 1 /\ cardActive[c] # "gone"
    /\ cardActive' = [cardActive EXCEPT ![c] = Flip(cardActive[c])]
    /\ steady' = steady \ {c}
    /\ UNCHANGED <<listSide, guesses, switched, unflips, dialogSide, removal,
                   cardClicks>>

CardStep ==
    \/ useListQuery
    \/ \E f \in {"all", "on"} : PoliciesFilterBar(f)
    \/ \E p \in 1..Cardinality(Cards) : TurnPage(p)
    \/ \E c \in Cards : handleToggleActive(c) \/ PolicyCard(c) \/ OthersFlip(c)
    \/ \E o \in unflips : UndoSwitch(o) \/ OfferGoes(o)
    \/ \E i \in DOMAIN switched : UpdateStatus(i) \/ SwitchEnds(i)
    \/ usePolicyHoldersQuery \/ CancelDelete \/ handleDeleteConfirm
    \/ delete_policy \/ DeleteCommits \/ DeleteEnds

CardsNext ==
    /\ CardStep
    /\ sawOff' = /\ removal'.at # "none"
                 /\ \/ cardActive'[removal'.card] = "off"
                    \/ removal.at # "none" /\ sawOff

CardsSpec == CardsInit /\ [][CardsNext]_policyCardVars

-----------------------------------------------------------------------------
(* Properties *)

\* Switches used one at a time, refused and repeated, filtered away and back,
\* end at what the database holds once the list has been fetched again.
QuietSwitchIsTrue ==
    \A c \in Listed \cap steady :
        /\ c \notin InFlight /\ Query \notin outdated /\ cardActive[c] # "gone"
        => ShownSwitch(c) = cardActive[c]

\* delete_policy: a policy that was active from the click on Delete to the end
\* survives, however old the card was that offered the deletion.
DeletedWasOff ==
    [][\A c \in Cards : cardActive[c] # "gone" /\ cardActive'[c] = "gone" => sawOff]_policyCardVars

\* useOptimisticPolicyActivity.ts: a guess lasts while its update is in flight.
GuessEnds ==
    \A c \in Listed :
        guesses[c] # "none" /\ c \notin InFlight /\ flips = 0 /\ Query \notin outdated
        /\ cardActive[c] # "gone" => guesses[c] = cardActive[c]

\* What the page promises of its switches and its deletions.
CardsSafe == []CardsTypeOK /\ []QuietSwitchIsTrue /\ DeletedWasOff

-----------------------------------------------------------------------------
(* Why they hold *)

RowsKnown ==
    /\ cached \in [Queries -> {NoRows} \cup [rows : CardRows, pages : 1..Cardinality(Cards)]]
    /\ unflips \subseteq [card : Cards, to : Status]

\* What the list says of a policy whose switch has not just been taken.
ListIsTrue ==
    \A c \in steady, q \in Queries \ outdated :
        /\ c \in DOMAIN cached[q].rows /\ cardActive[c] # "gone"
        /\ \A i \in DOMAIN switched : ~(switched[i].card = c /\ switched[i].at = "ok")
        => cached[q].rows[c] = cardActive[c]

\* What the guess says of it.
GuessIsTrue ==
    \A c \in steady :
        /\ guesses[c] # "none" /\ cardActive[c] # "gone" /\ c \notin InFlight
        => guesses[c] = cardActive[c]

\* The one request about it decides whether the guess stays.
RequestDecides ==
    \A c \in steady, i \in DOMAIN switched :
        switched[i].card = c =>
            /\ switched[i].heard /\ ~switched[i].undo /\ guesses[c] = switched[i].to
            /\ switched[i].at = "ok" /\ cardActive[c] # "gone"
               => cardActive[c] = switched[i].to
            /\ \A j \in DOMAIN switched : switched[j].card = c => j = i

CheckedWasOff == removal.at = "checked" => sawOff

CardsInv ==
    /\ CardsTypeOK /\ QuietSwitchIsTrue /\ RowsKnown /\ ListIsTrue /\ GuessIsTrue
    /\ RequestDecides /\ CheckedWasOff
=============================================================================
