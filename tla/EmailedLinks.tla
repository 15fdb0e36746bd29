---------------------------- MODULE EmailedLinks ----------------------------
(***************************************************************************)
(* The pages an emailed one-time link opens - verify the account, set a    *)
(* new password, confirm the deletion of the account - and the handlers    *)
(* that redeem it: the signed token, its single-use Valkey entry, the      *)
(* reservation and failure counter that protect the action, and the tabs   *)
(* that open the same or another link of the same account.                 *)
(*                                                                         *)
(* A page takes the token out of the address bar as it opens, so a reload  *)
(* loses it; the mail can be opened again.  Answers may be lost.           *)
(***************************************************************************)
EXTENDS Naturals, FiniteSets

CONSTANTS
    LinkTabs,     \* tabs, one link open in each
    Links,        \* the links mailed, all of one kind and one account
    NoLink,       \* not a link
    MaxFailures,  \* failed attempts that lock the action
    MaxOpens,     \* bound: openings and submissions
    MaxRaises     \* bound: database failures

ASSUME LinksAssumption ==
    /\ IsFiniteSet(LinkTabs) /\ IsFiniteSet(Links) /\ NoLink \notin Links
    /\ MaxFailures \in Nat \ {0} /\ {MaxOpens, MaxRaises} \subseteq Nat

VARIABLES
    kind,      \* what the links are for
    signed,    \* links whose signed token has not expired
    entry,     \* links with a single-use entry in Valkey
    account,   \* the account has not been verified, deleted, or reset
    reserved,  \* the tab whose request holds the reservation, if any
    failures,  \* the failure counter of the action
    at,        \* per tab: where its page or its request on the server is
    link,      \* per tab: the link it holds
    typed,     \* per tab: the password typed, for a reset
    answer,    \* per tab: the answer on its way
    linkHist   \* history: applications per link, links lost, events used

linkServer == <<signed, entry, account, reserved, failures>>
linkVars == <<kind, signed, entry, account, reserved, failures, at, link, typed,
              answer, linkHist>>

\* Where a tab is: on the form, in one of the steps of its request's handler,
\* or on what the answer left on screen.
Acting == {"reserved", "redeemed", "failed", "done"}
Serving == {"sent", "leaving", "finished"} \cup Acting
Shown == {"closed", "form", "success", "deadLink", "error"}
Answers == {"none", "ok", "dead", "rejected", "locked", "lost"}

LinksTypeOK ==
    /\ kind \in {"verify", "reset", "delete"}
    /\ signed \subseteq Links /\ entry \subseteq Links
    /\ account \in {"open", "changed"}
    /\ reserved \subseteq LinkTabs /\ failures \in 0..MaxFailures
    /\ at \in [LinkTabs -> Serving \cup Shown]
    /\ link \in [LinkTabs -> Links \cup {NoLink}]
    /\ typed \in [LinkTabs -> {"new", "current"}]
    /\ answer \in [LinkTabs -> Answers]
    /\ linkHist.applied \in [Links -> 0..2]

LinksInit ==
    /\ kind \in {"verify", "reset", "delete"}
    /\ signed = Links /\ entry = Links /\ account = "open"
    /\ reserved = {} /\ failures = 0
    /\ at = [t \in LinkTabs |-> "closed"] /\ link = [t \in LinkTabs |-> NoLink]
    /\ typed = [t \in LinkTabs |-> "new"]
    /\ answer = [t \in LinkTabs |-> "none"]
    /\ linkHist = [applied |-> [l \in Links |-> 0], raised |-> {},
                   opens |-> 0, raises |-> 0]

Opens == linkHist.opens < MaxOpens
Counted == linkHist' = [linkHist EXCEPT !.opens = @ + 1]

-----------------------------------------------------------------------------
(* The pages *)

\* The page keeps the token of the fragment in memory and scrubs the address;
\* without one there is nothing to submit.
OpenPage(t, k) ==
    /\ kind = k /\ Opens /\ Counted
    /\ at[t] \in Shown
    /\ \E l \in Links : link' = [link EXCEPT ![t] = l]
    /\ at' = [at EXCEPT ![t] = "form"]
    /\ UNCHANGED <<kind, linkServer, typed, answer>>

VerifyAccountPage(t) == OpenPage(t, "verify")
PasswordResetConfirmPage(t) == OpenPage(t, "reset")
ConfirmDeleteAccountPage(t) == OpenPage(t, "delete")

Reload(t) ==
    /\ at[t] \in Shown \ {"closed"} /\ link[t] # NoLink
    /\ link' = [link EXCEPT ![t] = NoLink]
    /\ at' = [at EXCEPT ![t] = "form"]
    /\ UNCHANGED <<kind, linkServer, typed, answer, linkHist>>

Submit(t, k, where) ==
    /\ kind = k /\ Opens /\ Counted
    /\ link[t] # NoLink /\ at[t] \in where
    /\ at' = [at EXCEPT ![t] = "sent"]
    /\ UNCHANGED <<kind, linkServer, link, answer>>

\* A failed verification disables the button for good.
VerifyAccountButton(t) ==
    Submit(t, "verify", {"form"}) /\ UNCHANGED typed

\* The rules are checked in the form; that the password is the current one only
\* the server finds.  An error leaves the form usable.
PasswordResetConfirmForm(t) ==
    /\ Submit(t, "reset", {"form", "error"})
    /\ \E p \in {"new", "current"} : typed' = [typed EXCEPT ![t] = p]

ConfirmDeleteAccountButton(t) ==
    Submit(t, "delete", {"form", "error"}) /\ UNCHANGED typed

\* isDeadResetLinkError and isDeadDeleteLinkError: the answers that take the
\* form away.  A dead verification link is an error like any other.
IsDeadLink(a) == a = "dead" /\ kind # "verify"

\* The answer arrives; a lost one is an error too.
Settled(t) ==
    /\ at[t] = "finished"
    /\ \/ UNCHANGED answer
       \/ answer[t] # "lost" /\ answer' = [answer EXCEPT ![t] = "lost"]
    /\ at' = [at EXCEPT ![t] =
                 CASE answer'[t] = "ok" -> "success"
                   [] IsDeadLink(answer'[t]) -> "deadLink"
                   [] OTHER -> "error"]
    /\ UNCHANGED <<kind, linkServer, link, typed, linkHist>>

-----------------------------------------------------------------------------
(* The handlers *)

Reply(t, a) ==
    /\ at' = [at EXCEPT ![t] = "finished"]
    /\ answer' = [answer EXCEPT ![t] = a]

Goes(t, pc) == at' = [at EXCEPT ![t] = pc] /\ UNCHANGED answer

\* The signed token is checked first, then the lock and the reservation.
begin_protected_action(t) ==
    /\ at[t] = "sent"
    /\ \/ link[t] \notin signed /\ Reply(t, "dead") /\ UNCHANGED reserved
       \/ /\ link[t] \in signed
          /\ failures >= MaxFailures \/ reserved # {}
          /\ Reply(t, "locked") /\ UNCHANGED reserved
       \/ /\ link[t] \in signed /\ failures < MaxFailures /\ reserved = {}
          /\ reserved' = {t} /\ Goes(t, "reserved")
    /\ UNCHANGED <<kind, signed, entry, account, failures, link, typed, linkHist>>

\* As if the entry were only read, by GET, and stayed for the next reader.
consume_token_by_get(t) ==
    /\ at[t] = "reserved" /\ link[t] \in entry /\ Goes(t, "redeemed")
    /\ UNCHANGED <<kind, signed, entry, account, reserved, failures, link, typed,
                   linkHist>>

\* GETDEL of the entry.  A verification whose entry is gone gives the
\* reservation back and is answered; the others count as a failure.
consume_token(t) ==
    /\ at[t] = "reserved"
    /\ entry' = entry \ {link[t]}
    /\ \/ link[t] \in entry /\ Goes(t, "redeemed") /\ UNCHANGED reserved
       \/ /\ link[t] \notin entry /\ kind = "verify"
          /\ reserved' = {} /\ Reply(t, "dead")
       \/ /\ link[t] \notin entry /\ kind # "verify"
          /\ Goes(t, "failed") /\ UNCHANGED reserved
    /\ UNCHANGED <<kind, signed, account, failures, link, typed, linkHist>>

\* The action itself.  A password that is the current one puts the entry back;
\* an account verified already fails; a database failure raises, and the entry
\* stays redeemed.
Acts(t) ==
    LET refused == \/ kind = "reset" /\ typed[t] = "current"
                   \/ kind = "verify" /\ account = "changed"
    IN /\ at[t] = "redeemed"
       /\ \/ /\ refused /\ Goes(t, "failed")
             /\ entry' = IF kind = "reset" /\ link[t] \in signed
                         THEN entry \cup {link[t]} ELSE entry
             /\ UNCHANGED <<account, linkHist>>
          \/ /\ ~refused /\ Goes(t, "done") /\ account' = "changed"
             /\ linkHist' = [linkHist EXCEPT !.applied[link[t]] = @ + 1]
             /\ UNCHANGED entry
          \/ /\ linkHist.raises < MaxRaises /\ Goes(t, "failed")
             /\ linkHist' = [linkHist EXCEPT !.raises = @ + 1,
                                             !.raised = @ \cup {link[t]}]
             /\ UNCHANGED <<entry, account>>
    /\ UNCHANGED <<kind, signed, reserved, failures, link, typed>>

\* The counter, the release of the reservation, and for a failure the lock it
\* may have set off.
finish_protected_action(t) ==
    /\ at[t] \in {"failed", "done"}
    /\ failures' = IF at[t] = "done" THEN 0
                   ELSE IF failures < MaxFailures THEN failures + 1 ELSE failures
    /\ reserved' = {}
    /\ at' = [at EXCEPT ![t] = "leaving"]
    /\ answer' = [answer EXCEPT ![t] =
                     CASE at[t] = "done" -> "ok"
                       [] at[t] = "failed" /\ failures' >= MaxFailures -> "locked"
                       [] at[t] = "failed" /\ failures' < MaxFailures ->
                            IF kind = "delete" THEN "dead" ELSE "rejected"]
    /\ UNCHANGED <<kind, signed, entry, account, link, typed, linkHist>>

\* The handler's finally releases once more, whoever holds it by now.
release_protected_action(t) ==
    /\ at[t] = "leaving" /\ at' = [at EXCEPT ![t] = "finished"]
    /\ reserved' = {}
    /\ UNCHANGED <<kind, signed, entry, account, failures, link, typed, answer,
                   linkHist>>

\* The signed token expires, and the entry with it.
LinkExpires(l) ==
    /\ l \in signed /\ signed' = signed \ {l} /\ entry' = entry \ {l}
    /\ UNCHANGED <<kind, account, reserved, failures, at, link, typed, answer,
                   linkHist>>

\* A reservation has a time to live, whatever its request is doing.
ReservationExpires ==
    /\ reserved # {} /\ reserved' = {}
    /\ UNCHANGED <<kind, signed, entry, account, failures, at, link, typed,
                   answer, linkHist>>

\* The lock ends by itself.
LockExpires ==
    /\ failures > 0 /\ failures' = 0
    /\ UNCHANGED <<kind, signed, entry, account, reserved, at, link, typed,
                   answer, linkHist>>

LinksNext ==
    \/ \E t \in LinkTabs :
          \/ VerifyAccountPage(t) \/ PasswordResetConfirmPage(t)
          \/ ConfirmDeleteAccountPage(t) \/ Reload(t)
          \/ VerifyAccountButton(t) \/ PasswordResetConfirmForm(t)
          \/ ConfirmDeleteAccountButton(t) \/ Settled(t)
          \/ begin_protected_action(t) \/ consume_token(t) \/ Acts(t)
          \/ finish_protected_action(t) \/ release_protected_action(t)
    \/ \E l \in Links : LinkExpires(l)
    \/ ReservationExpires \/ LockExpires

LinksSpec == LinksInit /\ [][LinksNext]_linkVars

-----------------------------------------------------------------------------
(* Properties *)

\* However many tabs redeem a link at once, it changes the account once.
LinkWorksOnce == \A l \in Links : linkHist.applied[l] <= 1

\* The panel that tells a reader to ask for a new link never hides a link that
\* still works.
DeadLinkIsDead ==
    \A t \in LinkTabs :
        at[t] = "deadLink" /\ link[t] # NoLink =>
            link[t] \notin signed \/ link[t] \notin entry

\* A rejected password costs a reader nothing: a link that has not expired is
\* redeemable unless it was used, is being used, or a failing database took it.
RejectionKeepsLink ==
    \A l \in signed :
        \/ l \in entry \/ linkHist.applied[l] > 0 \/ l \in linkHist.raised
        \/ kind = "verify" /\ account = "changed"
        \/ \E t \in LinkTabs : link[t] = l /\ at[t] = "redeemed"

\* VerifyAccountButton.tsx:62-64 disables the button because "a failed attempt
\* can only fail the same way again".
FailedAttemptIsFinal ==
    \A t \in LinkTabs :
        kind = "verify" /\ at[t] = "error" /\ link[t] # NoLink =>
            link[t] \notin entry \/ account = "changed"

\* login_protection_service.py:31-33: two callers cannot "both observe it below
\* the threshold and then mutate the same account", because the reservation
\* "closes that check/mutate race".
OneActionAtATime == \A t, u \in LinkTabs : at[t] \in Acting /\ at[u] \in Acting => t = u

\* What the three kinds of link promise together.
LinksSafe == LinksTypeOK /\ LinkWorksOnce /\ DeadLinkIsDead /\ RejectionKeepsLink

\* The inductive invariant behind it: a request holds its link ...
HoldsLink == \A t \in LinkTabs : at[t] \in Serving => link[t] \in Links

LinkHistOK == linkHist \in [applied : [Links -> 0..2], raised : SUBSET Links,
                            opens : Nat, raises : Nat]

\* ... an entry is unused and in no request's hands, ...
EntryUnused ==
    \A l \in entry : /\ linkHist.applied[l] = 0
                     /\ \A t \in LinkTabs : at[t] = "redeemed" => link[t] # l

\* ... and a redeemed link is unused and in the hands of one request.
RedeemedByOne ==
    \A t \in LinkTabs : at[t] = "redeemed" =>
        /\ linkHist.applied[link[t]] = 0
        /\ \A u \in LinkTabs : at[u] = "redeemed" /\ link[u] = link[t] => u = t

\* A link that is dead stays so: only a rejected password, of a link that has
\* not expired, puts an entry back.
IsDead(l) == l \notin signed \/ (kind = "delete" /\ l \notin entry)

DeadStaysDead ==
    \A t \in LinkTabs :
        /\ at[t] \in {"redeemed", "failed"} /\ kind = "delete" => link[t] \notin entry
        /\ at[t] \in {"leaving", "finished"} /\ IsDeadLink(answer[t]) => IsDead(link[t])
        /\ at[t] = "deadLink" => link[t] \in Links /\ IsDead(link[t])

LinksInv ==
    /\ LinksTypeOK /\ HoldsLink /\ LinkHistOK
    /\ LinkWorksOnce /\ EntryUnused /\ RedeemedByOne
    /\ DeadStaysDead /\ RejectionKeepsLink
=============================================================================
