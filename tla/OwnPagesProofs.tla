--------------------------- MODULE OwnPagesProofs --------------------------
(***************************************************************************)
(* Proofs about the pages of a visitor and of an account's owner.          *)
(*                                                                         *)
(* Emailed links: whatever tabs, links, lost answers, expiries and         *)
(* failures there are, a link changes its account once, a page that calls  *)
(* its link dead is right, and a rejected password costs no link.  The     *)
(* other pages: what each of them shows once everything it has asked for   *)
(* is answered, in whatever order, is what the server holds.               *)
(*                                                                         *)
(* Career knowledge: however requests interleave, calls time out, land     *)
(* late or crash, and the lock expires, a save that then runs undisturbed  *)
(* repairs the search index, and without a failure the index outside the   *)
(* lock is that of one text.                                               *)
(*                                                                         *)
(* Resume builder: whatever pages are opened, left and opened again while  *)
(* saves, accepted proposals, restores and generations are answered, a     *)
(* revision the tab has not shown is not saved over, and only an answer    *)
(* that marked another workspace's document lets it into a workspace.      *)
(*                                                                         *)
(* Tracked applications: whatever picks, refusals, fetches and deletions   *)
(* overlap on the first page, its cells end at the statuses of the rows.   *)
(***************************************************************************)
EXTENDS EmailedLinks, AccountForms, AccountSettings, Appearance, ActiveSessions,
        CareerKnowledge, ResumeEditor, ApplicationList, FiniteSetTheorems,
        SequenceTheorems, TLAPS

---------------------------------------------------------------------------
(* Emailed links *)

LEMMA InitLinksInv == LinksInit => LinksInv
BY LinksAssumption
   DEF LinksInit, LinksInv, LinksTypeOK, HoldsLink, LinkHistOK, LinkWorksOnce, EntryUnused,
       RedeemedByOne, DeadStaysDead, RejectionKeepsLink, Serving, Acting, Shown, Answers

(* A page opens a link, or loses the one it has.                           *)
LEMMA LinkOpenPageInv ==
  ASSUME LinksInv, NEW t \in LinkTabs, OpenPage(t, kind)
  PROVE  LinksInv'
<1> USE LinksAssumption DEF LinksInv, LinksTypeOK, LinkHistOK, Serving, Acting, Shown,
     linkServer, OpenPage, Counted
<1>1. LinksTypeOK'
  BY DEF Answers
<1>2. HoldsLink' /\ LinkHistOK'
  BY DEF HoldsLink
<1>3. LinkWorksOnce'
  BY DEF LinkWorksOnce, RedeemedByOne, HoldsLink
<1>4. EntryUnused'
  BY DEF EntryUnused, RedeemedByOne, HoldsLink
<1>5. RedeemedByOne'
  BY DEF RedeemedByOne, EntryUnused, HoldsLink
<1>6. DeadStaysDead'
  BY DEF DeadStaysDead, IsDead, IsDeadLink, HoldsLink
<1>7. RejectionKeepsLink'
  BY DEF RejectionKeepsLink, HoldsLink
<1> QED BY <1>1, <1>2, <1>3, <1>4, <1>5, <1>6, <1>7

LEMMA LinkReloadInv ==
  ASSUME LinksInv, NEW t \in LinkTabs, Reload(t)
  PROVE  LinksInv'
<1> USE LinksAssumption DEF LinksInv, LinksTypeOK, LinkHistOK, Serving, Acting, Shown,
     linkServer, Reload
<1>1. LinksTypeOK'
  BY DEF Answers
<1>2. HoldsLink' /\ LinkHistOK'
  BY DEF HoldsLink
<1>3. LinkWorksOnce'
  BY DEF LinkWorksOnce, RedeemedByOne, HoldsLink
<1>4. EntryUnused'
  BY DEF EntryUnused, RedeemedByOne, HoldsLink
<1>5. RedeemedByOne'
  BY DEF RedeemedByOne, EntryUnused, HoldsLink
<1>6. DeadStaysDead'
  BY DEF DeadStaysDead, IsDead, IsDeadLink, HoldsLink
<1>7. RejectionKeepsLink'
  BY DEF RejectionKeepsLink, HoldsLink
<1> QED BY <1>1, <1>2, <1>3, <1>4, <1>5, <1>6, <1>7

(* A form is sent; its link is one of those mailed.                        *)
LEMMA LinkSubmitInv ==
  ASSUME LinksInv, NEW t \in LinkTabs, VerifyAccountButton(t) \/ PasswordResetConfirmForm(t)
           \/ ConfirmDeleteAccountButton(t)
  PROVE  LinksInv'
<1> USE LinksAssumption DEF LinksInv, LinksTypeOK, LinkHistOK, Serving, Acting, Shown,
     linkServer, VerifyAccountButton, PasswordResetConfirmForm, ConfirmDeleteAccountButton,
     Submit, Counted
<1>1. LinksTypeOK'
  BY DEF Answers
<1>2. HoldsLink' /\ LinkHistOK'
  BY DEF HoldsLink
<1>3. LinkWorksOnce'
  BY DEF LinkWorksOnce, RedeemedByOne, HoldsLink
<1>4. EntryUnused'
  BY DEF EntryUnused, RedeemedByOne, HoldsLink
<1>5. RedeemedByOne'
  BY DEF RedeemedByOne, EntryUnused, HoldsLink
<1>6. DeadStaysDead'
  BY DEF DeadStaysDead, IsDead, IsDeadLink, HoldsLink
<1>7. RejectionKeepsLink'
  BY DEF RejectionKeepsLink, HoldsLink
<1> QED BY <1>1, <1>2, <1>3, <1>4, <1>5, <1>6, <1>7

(* The answer arrives: the dead link it may show was dead before.          *)
LEMMA LinkSettledInv ==
  ASSUME LinksInv, NEW t \in LinkTabs, Settled(t)
  PROVE  LinksInv'
<1> USE LinksAssumption DEF LinksInv, LinksTypeOK, LinkHistOK, Serving, Acting, Shown,
     linkServer, Settled
<1>1. LinksTypeOK'
  BY DEF Answers
<1>2. HoldsLink' /\ LinkHistOK'
  BY DEF HoldsLink
<1>3. LinkWorksOnce'
  BY DEF LinkWorksOnce, RedeemedByOne, HoldsLink
<1>4. EntryUnused'
  BY DEF EntryUnused, RedeemedByOne, HoldsLink
<1>5. RedeemedByOne'
  BY DEF RedeemedByOne, EntryUnused, HoldsLink
<1>6. DeadStaysDead'
  BY DEF DeadStaysDead, IsDead, IsDeadLink, HoldsLink
<1>7. RejectionKeepsLink'
  BY DEF RejectionKeepsLink, HoldsLink
<1> QED BY <1>1, <1>2, <1>3, <1>4, <1>5, <1>6, <1>7

(* An expired token is dead for good.                                      *)
LEMMA LinkBeginInv ==
  ASSUME LinksInv, NEW t \in LinkTabs, begin_protected_action(t)
  PROVE  LinksInv'
<1> USE LinksAssumption DEF LinksInv, LinksTypeOK, LinkHistOK, Serving, Acting, Shown,
     linkServer, begin_protected_action, Reply, Goes
<1>1. LinksTypeOK'
  BY DEF Answers
<1>2. HoldsLink' /\ LinkHistOK'
  BY DEF HoldsLink
<1>3. LinkWorksOnce'
  BY DEF LinkWorksOnce, RedeemedByOne, HoldsLink
<1>4. EntryUnused'
  BY DEF EntryUnused, RedeemedByOne, HoldsLink
<1>5. RedeemedByOne'
  BY DEF RedeemedByOne, EntryUnused, HoldsLink
<1>6. DeadStaysDead'
  BY DEF DeadStaysDead, IsDead, IsDeadLink, HoldsLink
<1>7. RejectionKeepsLink'
  BY DEF RejectionKeepsLink, HoldsLink
<1> QED BY <1>1, <1>2, <1>3, <1>4, <1>5, <1>6, <1>7

(* Redeeming moves the link from the entries into this request's hands.    *)
LEMMA LinkConsumeInv ==
  ASSUME LinksInv, NEW t \in LinkTabs, consume_token(t)
  PROVE  LinksInv'
<1> USE LinksAssumption DEF LinksInv, LinksTypeOK, LinkHistOK, Serving, Acting, Shown,
     linkServer, consume_token, Reply, Goes
<1>1. LinksTypeOK'
  BY DEF Answers
<1>2. HoldsLink' /\ LinkHistOK'
  BY DEF HoldsLink
<1>3. LinkWorksOnce'
  BY DEF LinkWorksOnce, RedeemedByOne, HoldsLink
<1>4. EntryUnused'
  BY DEF EntryUnused, RedeemedByOne, HoldsLink
<1>5. RedeemedByOne'
  BY DEF RedeemedByOne, EntryUnused, HoldsLink
<1>6. DeadStaysDead'
  BY DEF DeadStaysDead, IsDead, IsDeadLink, HoldsLink
<1>7. RejectionKeepsLink'
  BY DEF RejectionKeepsLink, HoldsLink
<1> QED BY <1>1, <1>2, <1>3, <1>4, <1>5, <1>6, <1>7

(* The action uses the link, puts its entry back, or loses it to a failure. *)
LEMMA LinkActsInv ==
  ASSUME LinksInv, NEW t \in LinkTabs, Acts(t)
  PROVE  LinksInv'
<1> USE LinksAssumption
<1>1. /\ link[t] \in Links /\ linkHist.applied[link[t]] = 0 /\ link[t] \notin entry
      /\ at[t] = "redeemed"
      /\ UNCHANGED <<kind, signed, reserved, failures, link, typed, answer>>
      /\ LinksTypeOK /\ LinkHistOK
  BY DEF Acts, Goes, LinksInv, RedeemedByOne, EntryUnused, HoldsLink, Serving, Acting
<1>2. ASSUME at' = [at EXCEPT ![t] = "failed"] \/ at' = [at EXCEPT ![t] = "done"],
             account' \in {account, "changed"},
             LinkHistOK',
             entry' \subseteq entry \cup {link[t]},
             entry \subseteq entry',
             \A l \in Links \ {link[t]} : linkHist'.applied[l] = linkHist.applied[l],
             linkHist'.applied[link[t]] <= 1,
             linkHist.raised \subseteq linkHist'.raised,
             \/ link[t] \in entry' /\ kind = "reset" /\ link[t] \in signed
                  /\ linkHist'.applied[link[t]] = 0
             \/ /\ link[t] \notin entry'
                /\ \/ link[t] \notin signed \/ linkHist'.applied[link[t]] # 0
                   \/ link[t] \in linkHist'.raised
                   \/ kind = "verify" /\ account' = "changed"
      PROVE  LinksInv'
  <2>1. LinksTypeOK'
    BY <1>1, <1>2 DEF LinksTypeOK, LinkHistOK, Serving, Acting, Shown
  <2>2. HoldsLink' /\ LinkHistOK'
    BY <1>1, <1>2 DEF LinksInv, LinksTypeOK, HoldsLink, LinkHistOK, Serving, Acting
  <2>3. LinkWorksOnce'
    BY <1>1, <1>2 DEF LinksInv, LinkWorksOnce
  <2>4. EntryUnused'
    BY <1>1, <1>2 DEF LinksInv, LinksTypeOK, EntryUnused, RedeemedByOne
  <2>5. RedeemedByOne'
    BY <1>1, <1>2 DEF LinksInv, LinksTypeOK, RedeemedByOne, HoldsLink, Serving, Acting
  <2>6. DeadStaysDead'
    BY <1>1, <1>2 DEF LinksInv, LinksTypeOK, DeadStaysDead, IsDead, IsDeadLink
  <2>7. RejectionKeepsLink'
    BY <1>1, <1>2 DEF LinksInv, LinksTypeOK, RejectionKeepsLink, LinkHistOK
  <2> QED BY <2>1, <2>2, <2>3, <2>4, <2>5, <2>6, <2>7 DEF LinksInv
<1>3. CASE /\ UNCHANGED <<account, linkHist>> /\ at' = [at EXCEPT ![t] = "failed"]
           /\ \/ kind = "reset" /\ typed[t] = "current"
              \/ kind = "verify" /\ account = "changed"
           /\ entry' = IF kind = "reset" /\ link[t] \in signed
                       THEN entry \cup {link[t]} ELSE entry
  BY <1>1, <1>2, <1>3 DEF LinkHistOK
<1>4. CASE /\ UNCHANGED <<entry, account>> /\ at' = [at EXCEPT ![t] = "failed"]
           /\ linkHist' = [linkHist EXCEPT !.raises = @ + 1, !.raised = @ \cup {link[t]}]
  <2>1. linkHist.raised \cup {link[t]} \in SUBSET Links /\ linkHist.raises + 1 \in Nat
    BY <1>1 DEF LinkHistOK
  <2>2. LinkHistOK'
    BY <1>1, <1>4, <2>1 DEF LinkHistOK
  <2>3. /\ linkHist'.applied = linkHist.applied
        /\ linkHist'.raised = linkHist.raised \cup {link[t]}
    BY <1>1, <1>4 DEF LinkHistOK
  <2>4. /\ entry' = entry /\ account' = account /\ at' = [at EXCEPT ![t] = "failed"]
        /\ \A l \in Links \ {link[t]} : linkHist'.applied[l] = linkHist.applied[l]
        /\ linkHist'.applied[link[t]] <= 1
        /\ linkHist.raised \subseteq linkHist'.raised
        /\ link[t] \notin entry' /\ link[t] \in linkHist'.raised
        /\ entry' \subseteq entry \cup {link[t]} /\ entry \subseteq entry'
        /\ account' \in {account, "changed"}
    BY <1>1, <1>4, <2>3
  <2> QED BY <1>2, <2>2, <2>4
<1>5. CASE /\ UNCHANGED entry /\ at' = [at EXCEPT ![t] = "done"] /\ account' = "changed"
           /\ linkHist' = [linkHist EXCEPT !.applied[link[t]] = @ + 1]
  <2>1. linkHist' = [linkHist EXCEPT !.applied = [linkHist.applied EXCEPT ![link[t]] = 1]]
    BY <1>1, <1>5 DEF LinkHistOK
  <2> QED BY <1>1, <1>2, <1>5, <2>1 DEF LinkHistOK
<1> QED BY <1>3, <1>4, <1>5 DEF Acts, Goes

(* Only a failed deletion calls its link dead, and its entry is gone.      *)
LEMMA LinkFinishInv ==
  ASSUME LinksInv, NEW t \in LinkTabs, finish_protected_action(t)
  PROVE  LinksInv'
<1> USE LinksAssumption DEF LinksInv, LinksTypeOK, LinkHistOK, Serving, Acting, Shown,
     linkServer, finish_protected_action
<1>1. LinksTypeOK'
  BY DEF Answers
<1>2. HoldsLink' /\ LinkHistOK'
  BY DEF HoldsLink
<1>3. LinkWorksOnce'
  BY DEF LinkWorksOnce, RedeemedByOne, HoldsLink
<1>4. EntryUnused'
  BY DEF EntryUnused, RedeemedByOne, HoldsLink
<1>5. RedeemedByOne'
  BY DEF RedeemedByOne, EntryUnused, HoldsLink
<1>6. DeadStaysDead'
  BY DEF DeadStaysDead, IsDead, IsDeadLink, HoldsLink
<1>7. RejectionKeepsLink'
  BY DEF RejectionKeepsLink, HoldsLink
<1> QED BY <1>1, <1>2, <1>3, <1>4, <1>5, <1>6, <1>7

LEMMA LinkReleaseInv ==
  ASSUME LinksInv, NEW t \in LinkTabs, release_protected_action(t)
  PROVE  LinksInv'
<1> USE LinksAssumption DEF LinksInv, LinksTypeOK, LinkHistOK, Serving, Acting, Shown,
     linkServer, release_protected_action
<1>1. LinksTypeOK'
  BY DEF Answers
<1>2. HoldsLink' /\ LinkHistOK'
  BY DEF HoldsLink
<1>3. LinkWorksOnce'
  BY DEF LinkWorksOnce, RedeemedByOne, HoldsLink
<1>4. EntryUnused'
  BY DEF EntryUnused, RedeemedByOne, HoldsLink
<1>5. RedeemedByOne'
  BY DEF RedeemedByOne, EntryUnused, HoldsLink
<1>6. DeadStaysDead'
  BY DEF DeadStaysDead, IsDead, IsDeadLink, HoldsLink
<1>7. RejectionKeepsLink'
  BY DEF RejectionKeepsLink, HoldsLink
<1> QED BY <1>1, <1>2, <1>3, <1>4, <1>5, <1>6, <1>7

(* Tokens, reservations and locks expire by themselves.                    *)
LEMMA LinkExpiryInv ==
  ASSUME LinksInv, (\E l \in Links : LinkExpires(l)) \/ ReservationExpires \/ LockExpires
  PROVE  LinksInv'
<1> USE LinksAssumption DEF LinksInv, LinksTypeOK, LinkHistOK, Serving, Acting, Shown,
     linkServer, LinkExpires, ReservationExpires, LockExpires
<1>1. LinksTypeOK'
  BY DEF Answers
<1>2. HoldsLink' /\ LinkHistOK'
  BY DEF HoldsLink
<1>3. LinkWorksOnce'
  BY DEF LinkWorksOnce, RedeemedByOne, HoldsLink
<1>4. EntryUnused'
  BY DEF EntryUnused, RedeemedByOne, HoldsLink
<1>5. RedeemedByOne'
  BY DEF RedeemedByOne, EntryUnused, HoldsLink
<1>6. DeadStaysDead'
  BY DEF DeadStaysDead, IsDead, IsDeadLink, HoldsLink
<1>7. RejectionKeepsLink'
  BY DEF RejectionKeepsLink, HoldsLink
<1> QED BY <1>1, <1>2, <1>3, <1>4, <1>5, <1>6, <1>7

(* Redeemed by GETDEL under whatever overlap of requests, a link changes    *)
(* the account once; "deadLink" is shown of dead links only; a link that    *)
(* was neither used nor lost to a failing database can still be redeemed.   *)
THEOREM LinksAlwaysSafe == LinksSpec => []LinksSafe
<1>1. LinksInv /\ [LinksNext]_linkVars => LinksInv'
  <2>1. ASSUME LinksInv, UNCHANGED linkVars PROVE LinksInv'
    BY <2>1 DEF linkVars, LinksInv, LinksTypeOK, HoldsLink, LinkHistOK, LinkWorksOnce,
       EntryUnused, RedeemedByOne, DeadStaysDead, IsDead, IsDeadLink, RejectionKeepsLink
  <2>2. ASSUME LinksInv, NEW t \in LinkTabs,
               VerifyAccountPage(t) \/ PasswordResetConfirmPage(t) \/ ConfirmDeleteAccountPage(t)
        PROVE  LinksInv'
    <3>1. OpenPage(t, kind)
      BY <2>2 DEF VerifyAccountPage, PasswordResetConfirmPage, ConfirmDeleteAccountPage, OpenPage
    <3> QED BY <2>2, <3>1, LinkOpenPageInv
  <2> QED
    BY <2>1, <2>2, LinkReloadInv, LinkSubmitInv, LinkSettledInv, LinkBeginInv, LinkConsumeInv, LinkActsInv, LinkFinishInv,
       LinkReleaseInv, LinkExpiryInv DEF LinksNext
<1>2. LinksInv => LinksSafe
  <2> SUFFICES ASSUME LinksInv, NEW t \in LinkTabs, at[t] = "deadLink"
               PROVE  link[t] \notin signed \/ link[t] \notin entry
    BY DEF LinksInv, LinksSafe, DeadLinkIsDead
  <2> QED BY DEF LinksInv, DeadStaysDead, IsDead
<1>3. LinksSpec => []LinksInv
  BY <1>1, InitLinksInv, PTL DEF LinksSpec
<1> QED BY <1>2, <1>3, PTL

---------------------------------------------------------------------------
(* The forms of a visitor *)

LEMMA FormsTypes ==
  ASSUME FormsInv
  PROVE  /\ form \in Forms /\ phase \in {"idle", "pending", "success", "error"}
         /\ fields \subseteq Faults /\ shown \in Faults \cup {"none"}
         /\ left \in Nat /\ tickers \in Nat /\ awaited \in Nat
         /\ lock \in 0..LockTime /\ fails \in 0..MaxFails
         /\ told.kind \in {"none", "ok", "wrong", "locked", "lost"}
         /\ told.wait \in 0..LockTime
         /\ sinceMail \in 0..MailCooldown /\ submits \in 0..MaxSubmits
         /\ LockTime \in Nat \ {0} /\ Minute \in Nat \ {0} /\ MailCooldown \in Nat \ {0}
         /\ MaxFails \in Nat \ {0} /\ MaxSubmits \in Nat
BY FormsAssumption DEF FormsInv, FormsTypeOK, ToldKnown

(* Four rules, so a password that passes as many passes all.               *)
LEMMA FourRules == StrongIsValid
<1>1. IsFiniteSet(Rules) /\ Cardinality(Rules) = 4
  <2>1. IsFiniteSet({}) /\ Cardinality({}) = 0
    BY FS_EmptySet
  <2>2. IsFiniteSet({"length"}) /\ Cardinality({"length"}) = 1
    <3>1. {"length"} = {} \cup {"length"}
      OBVIOUS
    <3> QED BY <2>1, <3>1, FS_AddElement
  <2>3. IsFiniteSet({"length", "upper"}) /\ Cardinality({"length", "upper"}) = 2
    <3>1. {"length", "upper"} = {"length"} \cup {"upper"}
      OBVIOUS
    <3> QED BY <2>2, <3>1, FS_AddElement
  <2>4. /\ IsFiniteSet({"length", "upper", "lower"})
        /\ Cardinality({"length", "upper", "lower"}) = 3
    <3>1. {"length", "upper", "lower"} = {"length", "upper"} \cup {"lower"}
      OBVIOUS
    <3> QED BY <2>3, <3>1, FS_AddElement
  <2>5. Rules = {"length", "upper", "lower"} \cup {"number"}
    BY DEF Rules
  <2> QED BY <2>4, <2>5, FS_AddElement
<1>2. ASSUME NEW p \in SUBSET Rules
      PROVE  evaluatePasswordStrength(p) = "Strong" <=> validatePassword(p)
  <2>1. IsFiniteSet(p) /\ Cardinality(p) <= 4 /\ (Cardinality(p) = 4 => p = Rules)
    BY <1>1, FS_Subset
  <2>2. Cardinality(p) \in Nat
    BY <2>1, FS_CardinalityType
  <2> QED
    BY <1>1, <2>1, <2>2 DEF evaluatePasswordStrength, validatePassword
<1> QED BY <1>2 DEF StrongIsValid

(* Minutes rounded up never end before the seconds they were made of.      *)
LEMMA RoundedUpCovers ==
  ASSUME FormsAssumption, NEW n \in Nat
  PROVE  RoundedUp(n) \in Nat /\ n <= RoundedUp(n)
<1>1. Minute \in Nat /\ Minute > 0
  BY DEF FormsAssumption
<1> DEFINE x == n + Minute - 1
           q == x \div Minute
<1>2. x \in Nat
  BY <1>1
<1>3. q \in Nat /\ Minute * q <= x /\ x < Minute * (q + 1)
  BY <1>1, <1>2
<1>4. q * Minute \in Nat /\ q * Minute = Minute * q
      /\ Minute * (q + 1) = Minute * q + Minute
  BY <1>1, <1>3
<1> HIDE DEF q
<1>5. n <= q * Minute
  BY <1>1, <1>3, <1>4
<1> QED BY <1>4, <1>5 DEF RoundedUp, q

LEMMA FreshInv ==
  ASSUME NEW f \in Forms, Fresh(f), FormsAssumption,
         lock' \in 0..LockTime, fails' \in 0..MaxFails, submits' \in 0..MaxSubmits
  PROVE  FormsInv'
<1>1. /\ MailCooldown \in Nat /\ LockTime \in Nat /\ 0 \in 0..LockTime
      /\ MailCooldown \in 0..MailCooldown
  BY DEF FormsAssumption
<1>2. told' \in [kind : {"none", "ok", "wrong", "locked", "lost"}, wait : 0..LockTime]
      /\ told'.kind = "none"
  BY <1>1 DEF Fresh
<1>3. FormsTypeOK'
  BY <1>1, <1>2 DEF Fresh, FormsTypeOK, Forms
<1>4. ToldKnown' /\ CountdownCovers' /\ CooldownCovers' /\ OneTicker'
  BY <1>1, <1>2 DEF Fresh, ToldKnown, CountdownCovers, CooldownCovers, OneTicker
<1> QED BY <1>3, <1>4 DEF FormsInv

LEMMA FormsInitInv == FormsInit => FormsInv
<1> SUFFICES ASSUME FormsInit PROVE FormsInv
  OBVIOUS
<1>1. /\ MailCooldown \in 0..MailCooldown /\ 0 \in 0..LockTime /\ 0 \in 0..MaxFails
      /\ 0 \in 0..MaxSubmits /\ MailCooldown \in Nat
  BY FormsAssumption
<1>2. told \in [kind : {"none", "ok", "wrong", "locked", "lost"}, wait : 0..LockTime]
      /\ told.kind = "none"
  BY <1>1 DEF FormsInit
<1>3. FormsTypeOK
  BY <1>1, <1>2 DEF FormsInit, FormsTypeOK
<1>4. ToldKnown /\ CountdownCovers /\ CooldownCovers /\ OneTicker
  BY <1>1, <1>2 DEF FormsInit, ToldKnown, CountdownCovers, CooldownCovers, OneTicker
<1> QED BY <1>3, <1>4 DEF FormsInv

(* A second that passes, for the countdown, the lock and the mail alike.   *)
LEMMA SecondInv ==
  ASSUME FormsInv, Second
  PROVE  FormsInv'
<1> USE FormsTypes
<1>1. /\ left' = IF left > 0 THEN left - 1 ELSE 0
      /\ tickers' = IF left > 1 THEN 1 ELSE 0
  BY DEF FormsInv, OneTicker, Second, Minus
<1>2. /\ awaited' = IF awaited > 0 THEN awaited - 1 ELSE 0
      /\ sinceMail' = IF sinceMail < MailCooldown THEN sinceMail + 1 ELSE MailCooldown
      /\ lock' \in 0..LockTime /\ fails' \in 0..MaxFails
      /\ UNCHANGED <<form, phase, fields, shown, told, submits>>
  BY DEF Second, Minus, Least
<1>3. FormsTypeOK'
  BY <1>1, <1>2 DEF FormsInv, FormsTypeOK
<1>4. ToldKnown' /\ OneTicker'
  BY <1>1, <1>2 DEF FormsInv, ToldKnown, OneTicker
<1>5. CountdownCovers'
  BY <1>1, <1>2 DEF FormsInv, CountdownCovers
<1>6. CooldownCovers'
  BY <1>1, <1>2 DEF FormsInv, CooldownCovers
<1> QED BY <1>3, <1>4, <1>5, <1>6 DEF FormsInv

(* What the visitor types and sends.                                       *)
LEMMA FormSubmitInv ==
  ASSUME FormsInv,
         \/ LoginForm \/ TypeSignup \/ SignupForm
         \/ PasswordResetRequestForm \/ VerificationEmailRequestForm
  PROVE  FormsInv'
<1> USE FormsTypes
<1>1. /\ UNCHANGED <<form, left, tickers, lock, fails, awaited, sinceMail>>
      /\ \/ UNCHANGED <<phase, told, submits>>
         \/ Sends /\ left = 0 /\ (form = "login" => phase # "success")
         \/ Sends /\ form = "signup"
  BY DEF LoginForm, TypeSignup, SignupForm, PasswordResetRequestForm,
         VerificationEmailRequestForm, RequestMail
<1>2. fields' \subseteq Faults /\ shown' \in Faults \cup {"none"}
  <2>1. CASE TypeSignup
    BY <2>1 DEF TypeSignup
  <2>2. CASE SignupForm
    BY <2>2 DEF SignupForm, FirstFault, Faults
  <2>3. CASE LoginForm \/ PasswordResetRequestForm \/ VerificationEmailRequestForm
    BY <2>3 DEF LoginForm, PasswordResetRequestForm, VerificationEmailRequestForm,
                RequestMail
  <2> QED BY <2>1, <2>2, <2>3
<1>3. ASSUME Sends
      PROVE  /\ phase' = "pending" /\ submits' \in 0..MaxSubmits
             /\ told' \in [kind : {"none", "ok", "wrong", "locked", "lost"},
                           wait : 0..LockTime]
             /\ told'.kind = "none"
  BY <1>3 DEF Sends
<1>4. FormsTypeOK'
  BY <1>1, <1>2, <1>3 DEF FormsInv, FormsTypeOK
<1>5. ToldKnown'
  BY <1>1, <1>3 DEF FormsInv, ToldKnown
<1>6. OneTicker' /\ CooldownCovers'
  BY <1>1, <1>3 DEF FormsInv, OneTicker, CooldownCovers, MailForms
<1>7. CountdownCovers'
  <2>1. CASE UNCHANGED <<phase, told, submits>>
    BY <1>1, <2>1 DEF FormsInv, CountdownCovers
  <2>2. CASE Sends /\ left = 0 /\ form = "login" /\ phase # "success"
    <3>1. phase \in {"idle", "error"}
      BY <2>2 DEF Sends
    <3>2. awaited = 0
      BY <2>2, <3>1 DEF FormsInv, CountdownCovers
    <3> QED BY <1>1, <1>3, <2>2, <3>2 DEF CountdownCovers
  <2>3. CASE form # "login"
    BY <1>1, <2>3 DEF CountdownCovers
  <2> QED BY <1>1, <2>1, <2>2, <2>3
<1> QED BY <1>4, <1>5, <1>6, <1>7 DEF FormsInv

(* What the server makes of it.                                            *)
LEMMA FormServerInv ==
  ASSUME FormsInv, handle_login \/ LockedElsewhere \/ AnswerForm
  PROVE  FormsInv'
<1> USE FormsTypes
<1>1. UNCHANGED <<form, phase, fields, shown, left, tickers, sinceMail>>
  BY DEF handle_login, LockedElsewhere, AnswerForm
<1>2. lock' \in 0..LockTime /\ fails' \in 0..MaxFails /\ submits' \in 0..MaxSubmits
  BY DEF handle_login, LockedElsewhere, AnswerForm
<1>3. OneTicker' /\ CooldownCovers'
  BY <1>1 DEF FormsInv, OneTicker, CooldownCovers
<1>4. CASE handle_login
  <2>1. /\ form = "login" /\ phase = "pending" /\ told.kind = "none" /\ left = 0
        /\ awaited = 0
    BY <1>4 DEF handle_login, FormsInv, CountdownCovers
  <2>2. \/ \E w \in 1..LockTime : told' = [kind |-> "locked", wait |-> w] /\ awaited' = w
        \/ /\ \E k \in {"ok", "wrong"} : told' = [kind |-> k, wait |-> 0]
           /\ awaited' = awaited
    BY <1>4 DEF handle_login
  <2>3. /\ told' \in [kind : {"none", "ok", "wrong", "locked", "lost"}, wait : 0..LockTime]
        /\ awaited' \in Nat
        /\ IF told'.kind = "locked" THEN awaited' = told'.wait /\ told'.wait > 0
           ELSE awaited' = 0
    BY <2>1, <2>2
  <2>4. FormsTypeOK'
    BY <1>1, <1>2, <2>3 DEF FormsInv, FormsTypeOK
  <2>5. ToldKnown'
    BY <2>3 DEF ToldKnown
  <2>6. CountdownCovers'
    BY <1>1, <2>1, <2>3 DEF CountdownCovers
  <2> QED BY <1>3, <2>4, <2>5, <2>6 DEF FormsInv
<1>5. CASE LockedElsewhere
  <2>1. UNCHANGED <<told, awaited>>
    BY <1>5 DEF LockedElsewhere
  <2> QED
    BY <1>1, <1>2, <1>3, <2>1 DEF FormsInv, FormsTypeOK, ToldKnown, CountdownCovers
<1>6. CASE AnswerForm
  <2>1. /\ form # "login" /\ UNCHANGED awaited
        /\ told' \in [kind : {"none", "ok", "wrong", "locked", "lost"}, wait : 0..LockTime]
        /\ told'.kind # "locked"
    BY <1>6 DEF AnswerForm
  <2> QED
    BY <1>1, <1>2, <1>3, <2>1 DEF FormsInv, FormsTypeOK, ToldKnown, CountdownCovers
<1> QED BY <1>4, <1>5, <1>6

(* What its answer, or the want of one, does on screen.                    *)
LEMMA FormAnswerInv ==
  ASSUME FormsInv, LoginAnswer \/ FormAnswer \/ AnswerLost
  PROVE  FormsInv'
<1> USE FormsTypes
<1>1. CASE LoginAnswer
  <2>1. /\ form = "login" /\ phase = "pending" /\ left = 0 /\ tickers = 0
        /\ UNCHANGED <<form, fields, shown, lock, fails, told, awaited, sinceMail, submits>>
    BY <1>1 DEF LoginAnswer, FormsInv, CountdownCovers, OneTicker
  <2>2. \/ /\ phase' \in {"success", "error"} /\ told.kind # "locked"
           /\ UNCHANGED <<left, tickers>>
        \/ /\ phase' = "error" /\ told.kind = "locked" /\ tickers' = 1
           /\ left' \in Nat /\ told.wait <= left'
    <3>1. told.wait \in Nat /\ RoundedUp(told.wait) \in Nat
          /\ told.wait <= RoundedUp(told.wait)
      BY RoundedUpCovers, FormsAssumption
    <3> QED BY <1>1, <2>1, <3>1 DEF LoginAnswer, startCooldown
  <2>3. FormsTypeOK'
    BY <2>1, <2>2 DEF FormsInv, FormsTypeOK
  <2>4. ToldKnown' /\ CooldownCovers'
    BY <2>1 DEF FormsInv, ToldKnown, CooldownCovers, MailForms
  <2>5. OneTicker' /\ CountdownCovers'
    BY <2>1, <2>2 DEF FormsInv, OneTicker, CountdownCovers, ToldKnown
  <2> QED BY <2>3, <2>4, <2>5 DEF FormsInv
<1>2. CASE FormAnswer
  <2>1. /\ form # "login" /\ phase' \in {"success", "error"}
        /\ UNCHANGED <<form, fields, shown, lock, fails, told, awaited, submits>>
    BY <1>2 DEF FormAnswer
  <2>2. left = 0 /\ tickers = 0
    BY <1>2 DEF FormAnswer, FormsInv, CooldownCovers, OneTicker, Forms, FormsSafe, MailForms
  <2>3. \/ UNCHANGED <<left, tickers, sinceMail>>
        \/ form \in MailForms /\ left' = MailCooldown /\ tickers' = 1 /\ sinceMail' = 0
    BY <1>2, <2>2 DEF FormAnswer, startCooldown
  <2>4. FormsTypeOK'
    BY <2>1, <2>3 DEF FormsInv, FormsTypeOK
  <2>5. ToldKnown' /\ OneTicker' /\ CountdownCovers'
    BY <2>1, <2>2, <2>3 DEF FormsInv, ToldKnown, OneTicker, CountdownCovers
  <2>6. CooldownCovers'
    BY <2>1, <2>3 DEF FormsInv, CooldownCovers, MailForms
  <2> QED BY <2>4, <2>5, <2>6 DEF FormsInv
<1>3. CASE AnswerLost
  BY <1>3
  DEF AnswerLost, FormsInv, FormsTypeOK, ToldKnown, OneTicker, CountdownCovers,
      CooldownCovers
<1> QED BY <1>1, <1>2, <1>3

LEMMA FormsNextInv == FormsInv /\ [FormsNext]_formVars => FormsInv'
<1>1. FormsInv /\ UNCHANGED formVars => FormsInv'
  BY DEF FormsInv, formVars, FormsTypeOK, ToldKnown, OneTicker, CountdownCovers,
         CooldownCovers
<1>2. ASSUME FormsInv, NEW f \in Forms, OpenForm(f)
      PROVE  FormsInv'
  BY <1>2, FreshInv, FormsTypes, FormsAssumption DEF OpenForm
<1>3. FormsInv /\ FormsNext => FormsInv'
  BY <1>2, SecondInv, FormSubmitInv, FormServerInv, FormAnswerInv DEF FormsNext
<1> QED BY <1>1, <1>3

(* However late an answer comes and whichever wait it carries, a form that *)
(* was locked out is locked until the lock has ended, and mails are a      *)
(* cooldown apart, for any lengths of the two.                             *)
THEOREM FormsAlwaysSafe == FormsSpec => []FormsSafe
<1>1. FormsInv => FormsSafe
  <2> SUFFICES ASSUME FormsInv PROVE FormsSafe
    OBVIOUS
  <2> USE FormsTypes
  <2>1. LoginWaitsOutLock
    BY DEF FormsInv, CountdownCovers, LoginWaitsOutLock
  <2>2. MailsApart
    BY DEF FormsInv, CooldownCovers, OneTicker, MailsApart
  <2> QED BY <2>1, <2>2, FourRules DEF FormsInv, FormsSafe
<1> QED BY <1>1, FormsInitInv, FormsNextInv, PTL DEF FormsSpec

---------------------------------------------------------------------------
(* The account settings *)

LEMMA SettingsTypes ==
  ASSUME SettingsTypeOK
  PROVE  /\ opened \in BOOLEAN /\ urlTab \in SettingsTabs \cup {"none"}
         /\ storedTab \in SettingsTabs \cup {"none"}
         /\ strip \in SettingsTabs /\ tab \in SettingsTabs /\ visited \subseteq SettingsTabs
         /\ name \in Names /\ edited \in Names /\ server \in Names
         /\ nameDirty \in BOOLEAN /\ saving \in Names \cup {"none"}
         /\ profileAsked \in Names \cup {"none"} /\ deletion \in DeleteStates
         /\ steps \in 0..MaxSteps /\ "profile" \in SettingsTabs
BY SettingsAssumption DEF SettingsTypeOK

LEMMA SettingsInitSafe == SettingsInit => SettingsSafe
<1> SUFFICES ASSUME SettingsInit PROVE SettingsSafe
  OBVIOUS
<1>1. 0 \in 0..MaxSteps /\ "profile" \in SettingsTabs /\ "form" \in DeleteStates
  BY SettingsAssumption DEF DeleteStates
<1>2. name \in Names /\ edited \in Names /\ server \in Names
  BY DEF SettingsInit
<1>3. SettingsTypeOK
  BY <1>1, <1>2 DEF SettingsInit, SettingsTypeOK
<1>4. EditGuarded
  BY DEF SettingsInit, EditGuarded
<1> QED BY <1>3, <1>4 DEF SettingsSafe

LEMMA StepCounts ==
  ASSUME SettingsTypeOK, Step
  PROVE  steps' \in 0..MaxSteps
BY SettingsAssumption DEF SettingsTypeOK, Step

(* A change of tab, a link, or the page opened or left.                    *)
LEMMA SettingsTabSafe ==
  ASSUME SettingsSafe,
         \/ \E l \in SettingsTabs \cup {"none"} : AccountSettingsPage(l) \/ FollowLink(l)
         \/ \E t \in SettingsTabs : handleTabChange(t)
         \/ LeaveSettings
  PROVE  SettingsSafe'
<1> USE SettingsTypes DEF SettingsSafe
<1>1. ASSUME NEW l \in SettingsTabs \cup {"none"}, AccountSettingsPage(l)
      PROVE  SettingsSafe'
  <2>1. InitialTab(l) \in SettingsTabs
    BY DEF InitialTab
  <2>2. SettingsTypeOK'
    BY <1>1, <2>1, StepCounts
    DEF AccountSettingsPage, CardMounts, SettingsTypeOK, DeleteStates
  <2>3. EditGuarded'
    BY <1>1 DEF AccountSettingsPage, CardMounts, EditGuarded
  <2> QED BY <2>2, <2>3
<1>2. ASSUME NEW l \in SettingsTabs \cup {"none"}, FollowLink(l)
      PROVE  SettingsSafe'
  <2>1. InitialTab(l) \in SettingsTabs
    BY DEF InitialTab
  <2>2. edited' \in Names /\ nameDirty' \in BOOLEAN /\ deletion' \in DeleteStates
    BY <1>2 DEF FollowLink, CardMounts, cardVars, DeleteStates
  <2>3. SettingsTypeOK'
    BY <1>2, <2>1, <2>2, StepCounts DEF FollowLink, SettingsTypeOK
  <2>4. EditGuarded'
    BY <1>2 DEF FollowLink, CardMounts, cardVars, EditGuarded
  <2> QED BY <2>3, <2>4
<1>3. ASSUME NEW t \in SettingsTabs, handleTabChange(t)
      PROVE  SettingsSafe'
  <2>1. edited' \in Names /\ nameDirty' \in BOOLEAN
    BY <1>3 DEF handleTabChange, CardMounts, cardVars
  <2>2. SettingsTypeOK'
    BY <1>3, <2>1 DEF handleTabChange, SettingsTypeOK
  <2>3. EditGuarded'
    BY <1>3 DEF handleTabChange, CardMounts, cardVars, EditGuarded
  <2> QED BY <2>2, <2>3
<1>4. CASE LeaveSettings
  BY <1>4 DEF LeaveSettings, SettingsTypeOK, EditGuarded, DeleteStates
<1> QED BY <1>1, <1>2, <1>3, <1>4

(* Edits and saves of the name, and what the server answers.               *)
LEMMA SettingsNameSafe ==
  ASSUME SettingsSafe,
         \/ \E n \in Names : EditName(n) \/ RenamedElsewhere(n)
         \/ ProfileNameCard \/ NameSaved \/ NameNotSaved \/ ProfileAnswers
         \/ DeleteAccountCard \/ DeletionAnswered
  PROVE  SettingsSafe'
<1> USE SettingsTypes DEF SettingsSafe, tabVars, cardVars
<1>1. ASSUME NEW n \in Names, EditName(n) \/ RenamedElsewhere(n)
      PROVE  SettingsSafe'
  <2>1. SettingsTypeOK'
    BY <1>1, StepCounts DEF EditName, RenamedElsewhere, Reports, SettingsTypeOK
  <2>2. EditGuarded'
    BY <1>1 DEF EditName, RenamedElsewhere, Reports, EditGuarded
  <2> QED BY <2>1, <2>2
<1>2. CASE ProfileNameCard \/ NameNotSaved
  BY <1>2 DEF ProfileNameCard, NameNotSaved, SettingsTypeOK, EditGuarded
<1>3. CASE NameSaved
  <2>1. SettingsTypeOK'
    BY <1>3 DEF NameSaved, Reports, SettingsTypeOK
  <2>2. EditGuarded'
    BY <1>3 DEF NameSaved, Reports, EditGuarded
  <2> QED BY <2>1, <2>2
<1>4. CASE ProfileAnswers
  <2>1. SettingsTypeOK'
    BY <1>4 DEF ProfileAnswers, Reports, SettingsTypeOK
  <2>2. EditGuarded'
    BY <1>4 DEF ProfileAnswers, Reports, EditGuarded
  <2> QED BY <2>1, <2>2
<1>5. CASE DeleteAccountCard \/ DeletionAnswered
  <2>1. SettingsTypeOK'
    BY <1>5 DEF DeleteAccountCard, DeletionAnswered, SettingsTypeOK, DeleteStates
  <2>2. EditGuarded'
    BY <1>5 DEF DeleteAccountCard, DeletionAnswered, EditGuarded
  <2> QED BY <2>1, <2>2
<1> QED BY <1>1, <1>2, <1>3, <1>4, <1>5

(* Whatever is typed, saved, renamed elsewhere or answered late, and       *)
(* however the tabs are changed, the warning stands exactly while the      *)
(* field holds a name other than the one shown.                            *)
THEOREM SettingsAlwaysSafe == SettingsSpec => []SettingsSafe
<1>1. SettingsSafe /\ UNCHANGED settingsVars => SettingsSafe'
  BY DEF SettingsSafe, settingsVars, SettingsTypeOK, EditGuarded
<1>2. SettingsSafe /\ [SettingsNext]_settingsVars => SettingsSafe'
  BY <1>1, SettingsTabSafe, SettingsNameSafe DEF SettingsNext
<1> QED BY <1>2, SettingsInitSafe, PTL DEF SettingsSpec

---------------------------------------------------------------------------
(* The active sessions card *)

LEMMA DevicesInitInv == DevicesInit => DevicesInv
<1> SUFFICES ASSUME DevicesInit PROVE DevicesInv
  OBVIOUS
<1>1. 0 \in 0..MaxOutside /\ live \subseteq Devices
  BY DevicesAssumption DEF DevicesInit
<1>2. OutsideOK
  BY <1>1 DEF DevicesInit, OutsideOK
<1>3. DevicesTypeOK
  BY <1>1 DEF DevicesInit, DevicesTypeOK
<1>4. ListKnown /\ OwnSessionSpared
  BY DEF DevicesInit, ListKnown, OwnSessionSpared
<1> QED BY <1>2, <1>3, <1>4 DEF DevicesInv

(* The types, one by one.                                                  *)
LEMMA DevicesTypes ==
  ASSUME DevicesInv
  PROVE  /\ live \subseteq Devices /\ list \subseteq Devices
         /\ listAnswer \subseteq Devices /\ selected \subseteq Devices
         /\ bulk \subseteq Devices /\ refused \subseteq Devices
         /\ byCard \subseteq Devices /\ asked \in BOOLEAN /\ bulkOpen \in BOOLEAN
         /\ OwnSessionSpared
BY DEF DevicesInv, DevicesTypeOK

(* Ending a session, or a request to, changes the sessions only if it is   *)
(* accepted, and never ends the one of this browser.                       *)
LEMMA RevokedType ==
  ASSUME DevicesInv, NEW d
  PROVE  /\ Revoked(d) \subseteq Devices
         /\ ThisDevice \notin live \ Revoked(d)
         /\ ~Accepted(d) => Revoked(d) = live
BY DEF DevicesInv, DevicesTypeOK, Revoked, Accepted

LEMMA DevicesListInv ==
  ASSUME DevicesInv,
         useSessionsQuery \/ ListAnswers \/ ElsewhereChanges \/ SessionsPoll
  PROVE  DevicesInv'
<1>1. CASE useSessionsQuery \/ ListAnswers
  BY <1>1
  DEF useSessionsQuery, ListAnswers, DevicesInv, DevicesTypeOK, OutsideOK, ListKnown,
      OwnSessionSpared, Here
<1>2. CASE SessionsPoll
  BY <1>2
  DEF SessionsPoll, DevicesInv, DevicesTypeOK, OutsideOK, ListKnown, OwnSessionSpared,
      Here, Invalidated
<1>3. CASE ElsewhereChanges
  <2>1. /\ outside' \in [n : 0..MaxOutside, lost : BOOLEAN]
        /\ \/ Invalidated
           \/ outside'.lost /\ UNCHANGED cardListVars
    <3>1. outside \in [n : 0..MaxOutside, lost : BOOLEAN] /\ outside.n < MaxOutside
      BY <1>3 DEF ElsewhereChanges, DevicesInv, OutsideOK
    <3>2. PICK k \in 0..MaxOutside : k = outside.n + 1
      BY <3>1, DevicesAssumption
    <3>3. CASE Invalidated /\ outside' = [outside EXCEPT !.n = k]
      BY <3>1, <3>3
    <3>4. CASE outside' = [n |-> k, lost |-> TRUE] /\ UNCHANGED cardListVars
      BY <3>4
    <3> QED BY <1>3, <3>2, <3>3, <3>4 DEF ElsewhereChanges
  <2>2. live' \subseteq Devices
    BY <1>3, DevicesTypes DEF ElsewhereChanges
  <2>3. asked' \in BOOLEAN /\ list' = list /\ listAnswer' \subseteq Devices
    BY <2>1, DevicesTypes DEF Invalidated, cardListVars
  <2>4. DevicesTypeOK'
    BY <1>3, <2>1, <2>2, <2>3 DEF ElsewhereChanges, DevicesInv, DevicesTypeOK
  <2>5. ListKnown'
    BY <2>1 DEF ListKnown, Invalidated
  <2> QED
    BY <1>3, <2>1, <2>4, <2>5 DEF ElsewhereChanges, DevicesInv, OutsideOK,
       OwnSessionSpared
<1> QED BY <1>1, <1>2, <1>3

(* Clicks, which change neither the sessions nor the list.                 *)
LEMMA DevicesClickInv ==
  ASSUME DevicesInv,
         \/ \E d \in Devices : createActiveSessionColumns(d) \/ TickSession(d)
         \/ CloseDialog \/ handleConfirm \/ TickSessions \/ OpenBulk
         \/ handleBulkConfirm \/ useLogoutAllMutation
  PROVE  DevicesInv'
<1>1. UNCHANGED <<live, list, asked, listAnswer, outside, byCard>>
  BY DEF createActiveSessionColumns, TickSession, CloseDialog, handleConfirm,
         TickSessions, OpenBulk, handleBulkConfirm, useLogoutAllMutation, cardListVars
<1>2. /\ selected' \subseteq Devices /\ bulk' \subseteq Devices
      /\ refused' \subseteq Devices /\ ThisDevice \notin selected' \cup bulk' \cup refused'
  <2>1. CASE TickSessions \/ \E d \in Devices : TickSession(d)
    BY <2>1, DevicesTypes DEF TickSessions, TickSession, Tickable, OwnSessionSpared
  <2>2. CASE \/ CloseDialog \/ handleConfirm \/ OpenBulk \/ useLogoutAllMutation
             \/ \E d \in Devices : createActiveSessionColumns(d)
    BY <2>2, DevicesTypes
    DEF CloseDialog, handleConfirm, OpenBulk, useLogoutAllMutation,
        createActiveSessionColumns, OwnSessionSpared
  <2>3. CASE handleBulkConfirm
    BY <2>3, DevicesTypes DEF handleBulkConfirm, OwnSessionSpared
  <2> QED BY <2>1, <2>2, <2>3
<1>3. /\ ending' \in Devices \cup {NoDevice} /\ revoking' \in Devices \cup {NoDevice}
      /\ bulkOpen' \in BOOLEAN /\ out' \in {"no", "here", "everywhere", "done"}
  BY DEF createActiveSessionColumns, TickSession, CloseDialog, handleConfirm,
         TickSessions, OpenBulk, handleBulkConfirm, useLogoutAllMutation, DevicesInv,
         DevicesTypeOK
<1>4. bulk' = bulk \/ bulk' # {}
  BY DEF createActiveSessionColumns, TickSession, CloseDialog, handleConfirm,
         TickSessions, OpenBulk, handleBulkConfirm, useLogoutAllMutation
<1>5. Here
  BY DEF createActiveSessionColumns, TickSession, CloseDialog, handleConfirm,
         TickSessions, OpenBulk, handleBulkConfirm, useLogoutAllMutation
<1>6. DevicesTypeOK'
  BY <1>1, <1>2, <1>3 DEF DevicesInv, DevicesTypeOK
<1>7. OwnSessionSpared'
  BY <1>1, <1>2, DevicesTypes DEF OwnSessionSpared
<1> QED BY <1>1, <1>4, <1>5, <1>6, <1>7 DEF DevicesInv, OutsideOK, ListKnown

LEMMA DevicesEndInv ==
  ASSUME DevicesInv,
         \/ useRevokeSessionMutation \/ LogoutLeaves
         \/ \E d \in Devices : useBulkRevokeSessionsMutation(d)
  PROVE  DevicesInv'
<1>1. CASE useRevokeSessionMutation
  <2>1. /\ live' \subseteq Devices /\ byCard' \subseteq Devices
        /\ ThisDevice \notin byCard' /\ (Invalidated \/ UNCHANGED <<live, cardListVars>>)
    BY <1>1, RevokedType, DevicesTypes DEF useRevokeSessionMutation, OwnSessionSpared
  <2>2. asked' \in BOOLEAN /\ list' = list /\ listAnswer' \subseteq Devices
    BY <2>1, DevicesTypes DEF Invalidated, cardListVars
  <2>3. DevicesTypeOK'
    BY <1>1, <2>1, <2>2 DEF useRevokeSessionMutation, DevicesInv, DevicesTypeOK
  <2>4. ListKnown'
    BY <1>1, <2>1
    DEF useRevokeSessionMutation, DevicesInv, ListKnown, Invalidated, cardListVars, Here
  <2> QED
    BY <1>1, <2>1, <2>3, <2>4, DevicesTypes
    DEF useRevokeSessionMutation, DevicesInv, OutsideOK, OwnSessionSpared
<1>2. CASE LogoutLeaves
  BY <1>2
  DEF LogoutLeaves, DevicesInv, DevicesTypeOK, OutsideOK, ListKnown, OwnSessionSpared,
      Here, cardListVars
<1>3. ASSUME NEW d \in Devices, useBulkRevokeSessionsMutation(d)
      PROVE  DevicesInv'
  <2>1. /\ live' \subseteq Devices /\ byCard' \subseteq Devices
        /\ ThisDevice \notin byCard'
    BY <1>3, RevokedType, DevicesTypes DEF useBulkRevokeSessionsMutation, OwnSessionSpared
  <2>2. /\ asked' \in BOOLEAN /\ list' = list /\ listAnswer' \subseteq Devices
        /\ bulk' = {} => asked' = TRUE /\ listAnswer' = {}
    BY <1>3, DevicesTypes DEF useBulkRevokeSessionsMutation, Invalidated, cardListVars
  <2>3. /\ selected' \subseteq Devices /\ bulk' \subseteq Devices
        /\ refused' \subseteq Devices /\ bulkOpen' \in BOOLEAN
        /\ ThisDevice \notin selected' \cup bulk' \cup refused'
    BY <1>3, DevicesTypes DEF useBulkRevokeSessionsMutation, OwnSessionSpared
  <2>4. DevicesTypeOK'
    BY <1>3, <2>1, <2>2, <2>3
    DEF useBulkRevokeSessionsMutation, DevicesInv, DevicesTypeOK
  <2> QED
    BY <1>3, <2>1, <2>2, <2>3, <2>4
    DEF useBulkRevokeSessionsMutation, DevicesInv, OutsideOK, ListKnown, OwnSessionSpared
<1> QED BY <1>1, <1>2, <1>3

LEMMA DevicesNextInv == DevicesInv /\ [DevicesNext]_deviceVars => DevicesInv'
<1>1. DevicesInv /\ UNCHANGED deviceVars => DevicesInv'
  BY DEF DevicesInv, deviceVars, DevicesTypeOK, OutsideOK, ListKnown, OwnSessionSpared,
         Here
<1>2. DevicesInv /\ DevicesNext => DevicesInv'
  BY DevicesListInv, DevicesClickInv, DevicesEndInv DEF DevicesNext
<1> QED BY <1>1, <1>2

(* Once everything the card asked for is answered, its list is that of the *)
(* live sessions, and the session of this browser is never among those it  *)
(* revokes, for any number of sessions.                                    *)
THEOREM DevicesAlwaysSafe == DevicesSpec => []DevicesSafe
<1>1. DevicesInv => DevicesSafe
  BY DEF DevicesInv, DevicesSafe, ListKnown, ListSettles
<1> QED BY <1>1, DevicesInitInv, DevicesNextInv, PTL DEF DevicesSpec

---------------------------------------------------------------------------
(* Colour and language *)

LEMMA LookTypes ==
  ASSUME LookInv
  PROVE  /\ card \in BOOLEAN /\ draft \in ColourChoices \cup {"invalid"}
         /\ timer \in ColourChoices \cup {"none"}
         /\ sending \in ColourChoices \cup {"none"}
         /\ me \in ColourChoices \cup {"none"}
         /\ brand \in ColourChoices /\ saved \in ColourChoices
         /\ profile \in ColourChoices \cup {"none"}
         /\ preview \in BOOLEAN /\ failed \in BOOLEAN /\ missed \in BOOLEAN
         /\ picks \in 0..MaxPicks /\ mode \in Tongues /\ onScreen \in Tongues
         /\ loaded \subseteq Tongues /\ loads \subseteq Tongues \X (1..MaxModes + 1)
         /\ "none" \notin ColourChoices /\ "invalid" \notin ColourChoices
         /\ Colours \subseteq ColourChoices /\ Default \in ColourChoices
BY AppearanceAssumption DEF LookInv, LookTypeOK, ColourChoices

LEMMA LookInitInv == LookInit => LookInv
<1> SUFFICES ASSUME LookInit PROVE LookInv
  OBVIOUS
<1>1. /\ 0 \in 0..MaxPicks /\ 1 \in 1..MaxModes + 1 /\ English \in Tongues
      /\ saved \in ColourChoices /\ "none" \notin ColourChoices
      /\ Default \in ColourChoices /\ mode \in Tongues
  BY AppearanceAssumption DEF LookInit, Tongues, ColourChoices
<1>2. <<mode, 1>> \in Tongues \X (1..MaxModes + 1)
  BY <1>1
<1>3. LookTypeOK
  BY <1>1, <1>2 DEF LookInit, LookTypeOK
<1>4. MeKnows /\ BrandKnown
  BY <1>1 DEF LookInit, MeKnows, BrandKnown
<1>5. LoadsKnown
  BY <1>1 DEF LookInit, LoadsKnown
<1> QED BY <1>3, <1>4, <1>5 DEF LookInv

(* What a pick, a save, an answer or the profile does to the colour.       *)
LEMMA ColourInv ==
  ASSUME LookInv,
         \/ OpenAppearance \/ CloseAppearance \/ handleBrandPick \/ CommitPick
         \/ handleSave \/ handleReset \/ ColourSaved \/ ColourNotSaved
         \/ AskProfile \/ useAuthSession
  PROVE  LookInv'
<1>1. UNCHANGED <<mode, onScreen, loaded, loads, version, missed>>
  BY DEF OpenAppearance, CloseAppearance, handleBrandPick, CommitPick, handleSave,
         handleReset, ColourSaved, ColourNotSaved, AskProfile, useAuthSession,
         languageVars
<1>2. picks' \in 0..MaxPicks
  <2>1. CASE UNCHANGED picks
    BY <2>1, LookTypes
  <2>2. CASE Picks
    BY <2>2, LookTypes, AppearanceAssumption DEF Picks
  <2> QED
    BY <2>1, <2>2
    DEF OpenAppearance, CloseAppearance, handleBrandPick, CommitPick, handleSave,
        handleReset, ColourSaved, ColourNotSaved, AskProfile, useAuthSession
<1>3. /\ card' \in BOOLEAN /\ draft' \in ColourChoices \cup {"invalid"}
      /\ timer' \in ColourChoices \cup {"none"} /\ brand' \in ColourChoices
      /\ preview' \in BOOLEAN
  BY LookTypes
  DEF OpenAppearance, CloseAppearance, handleBrandPick, CommitPick, handleSave,
      handleReset, ColourSaved, ColourNotSaved, AskProfile, useAuthSession,
      setBrandColor
<1>4. /\ sending' \in ColourChoices \cup {"none"} /\ saved' \in ColourChoices
      /\ me' \in ColourChoices \cup {"none"} /\ failed' \in BOOLEAN
      /\ profile' \in ColourChoices \cup {"none"}
  BY LookTypes
  DEF OpenAppearance, CloseAppearance, handleBrandPick, CommitPick, handleSave,
      handleReset, ColourSaved, ColourNotSaved, AskProfile, useAuthSession
<1>5. LookTypeOK'
  BY <1>1, <1>2, <1>3, <1>4, LookTypes DEF LookTypeOK
<1>6. MeKnows'
  BY LookTypes
  DEF LookInv, MeKnows, OpenAppearance, CloseAppearance, handleBrandPick, CommitPick,
      handleSave, handleReset, ColourSaved, ColourNotSaved, AskProfile, useAuthSession
<1>7. BrandKnown'
  <2>1. CASE OpenAppearance \/ CloseAppearance \/ handleBrandPick \/ CommitPick
    BY <2>1
    DEF LookInv, BrandKnown, OpenAppearance, CloseAppearance, handleBrandPick, CommitPick
  <2>2. CASE handleSave \/ handleReset
    BY <2>2, LookTypes DEF BrandKnown, handleSave, handleReset, setBrandColor
  <2>3. CASE ColourSaved \/ ColourNotSaved
    BY <2>3, LookTypes DEF LookInv, BrandKnown, ColourSaved, ColourNotSaved
  <2>4. CASE AskProfile
    BY <2>4, LookTypes DEF LookInv, BrandKnown, AskProfile
  <2>5. CASE useAuthSession
    BY <2>5, LookTypes DEF LookInv, BrandKnown, MeKnows, useAuthSession, setBrandColor
  <2> QED BY <2>1, <2>2, <2>3, <2>4, <2>5
<1> QED BY <1>1, <1>5, <1>6, <1>7 DEF LookInv, LoadsKnown

(* What a choice of language and the end of a load do.                     *)
LEMMA LanguageInv ==
  ASSUME LookInv,
         \/ setMode
         \/ \E l \in loads : loadLanguage(l) \/ LoadFails(l)
  PROVE  LookInv'
<1>1. UNCHANGED <<card, draft, timer, brand, sending, saved, profile, me, preview,
                  failed, picks>>
  BY DEF setMode, loadLanguage, LoadFails, brandVars
<1>2. MaxModes \in Nat /\ version \in 1..MaxModes + 1
  BY AppearanceAssumption DEF LookInv, LoadsKnown
<1>3. MeKnows' /\ BrandKnown'
  BY <1>1 DEF LookInv, MeKnows, BrandKnown
<1>4. CASE setMode
  <2>1. version' \in 1..MaxModes + 1 /\ mode' \in Tongues /\ version' = version + 1
    BY <1>2, <1>4 DEF setMode
  <2>2. <<mode', version'>> \in Tongues \X (1..MaxModes + 1)
    BY <2>1
  <2>3. LookTypeOK'
    BY <1>1, <1>4, <2>1, <2>2, LookTypes DEF setMode, LookTypeOK
  <2>4. \A l \in loads : l[2] <= version /\ l[2] \in 1..MaxModes + 1
    BY LookTypes DEF LookInv, LoadsKnown
  <2>5. LoadsKnown'
    BY <1>2, <1>4, <2>1, <2>4 DEF setMode, LoadsKnown
  <2> QED BY <1>3, <2>3, <2>5 DEF LookInv
<1>5. ASSUME NEW l \in loads, loadLanguage(l) \/ LoadFails(l)
      PROVE  LookInv'
  <2>1. PICK t \in Tongues, n \in 1..MaxModes + 1 : l = <<t, n>> /\ l[1] = t /\ l[2] = n
    BY LookTypes
  <2>2. /\ onScreen' \in Tongues /\ loaded' \subseteq Tongues /\ missed' \in BOOLEAN
        /\ loads' = loads \ {l} /\ UNCHANGED <<mode, version>>
    BY <1>5, <2>1, LookTypes DEF loadLanguage, LoadFails
  <2>3. LookTypeOK'
    BY <1>1, <2>2, LookTypes DEF LookTypeOK
  <2>4. n = version => t = mode
    BY <2>1 DEF LookInv, LoadsKnown
  <2>5. <<mode, version>> \in loads' \/ missed' \/ onScreen' = mode
    <3>1. CASE l = <<mode, version>>
      <4>1. l[1] = mode /\ l[2] = version
        BY <3>1
      <4>2. CASE loadLanguage(l)
        BY <4>1, <4>2 DEF loadLanguage
      <4>3. CASE LoadFails(l)
        BY <4>1, <4>3 DEF LoadFails
      <4> QED BY <1>5, <4>2, <4>3
    <3>2. CASE l # <<mode, version>>
      <4>1. n # version
        BY <2>1, <2>4, <3>2
      <4>2. CASE loadLanguage(l)
        BY <2>1, <2>2, <3>2, <4>1, <4>2 DEF loadLanguage, LookInv, LoadsKnown
      <4>3. CASE LoadFails(l)
        BY <2>1, <2>2, <3>2, <4>1, <4>3 DEF LoadFails, LookInv, LoadsKnown
      <4> QED BY <1>5, <4>2, <4>3
    <3> QED BY <3>1, <3>2
  <2>6. LoadsKnown'
    BY <2>2, <2>5 DEF LookInv, LoadsKnown
  <2> QED BY <1>3, <2>3, <2>6 DEF LookInv
<1> QED BY <1>4, <1>5

LEMMA LookNextInv == LookInv /\ [LookNext]_lookVars => LookInv'
<1>1. LookInv /\ UNCHANGED lookVars => LookInv'
  BY DEF LookInv, lookVars, LookTypeOK, MeKnows, BrandKnown, LoadsKnown
<1>2. LookInv /\ LookNext => LookInv'
  BY ColourInv, LanguageInv DEF LookNext
<1> QED BY <1>1, <1>2

(* However picks, timers, saves, the profile's answers and the loads of    *)
(* languages fall, the colour saved last and the language chosen last are  *)
(* what is on screen in the end.                                           *)
THEOREM LookAlwaysSafe == LookSpec => []LookSafe
<1>1. LookInv => LookSafe
  <2> SUFFICES ASSUME LookInv PROVE LookSafe
    OBVIOUS
  <2>1. SavedColourShows
    BY DEF LookInv, BrandKnown, SavedColourShows
  <2>2. LastLanguageShows
    BY DEF LookInv, LoadsKnown, LastLanguageShows
  <2> QED BY <2>1, <2>2 DEF LookInv, LookSafe
<1> QED BY <1>1, LookInitInv, LookNextInv, PTL DEF LookSpec

---------------------------------------------------------------------------
(* Career knowledge and its search index *)

(* The records of requests when `calls' have been sent and `ids' given.    *)
SentOf(calls, ids) ==
  [n : 1..calls, kind : {"create", "update", "delete"}, text : AnyMarkdown,
   page : BOOLEAN, at : Steps, id : 0..ids, seen : AnyMarkdown,
   answer : {"none", "ok", "error"}, wrote : BOOLEAN, alone : BOOLEAN]

LEMMA MoreSent ==
  ASSUME NEW c \in Nat, NEW d \in Nat, NEW i \in Nat, NEW j \in Nat, c <= d, i <= j,
         NEW r \in SentOf(c, i)
  PROVE  r \in SentOf(d, j)
BY DEF SentOf

LEMMA KnowledgeTypes ==
  ASSUME KnowledgeTypeOK
  PROVE  /\ kbCalls \in Nat /\ kbIds \in Nat /\ faults \in Nat /\ kbLock \in Nat
         /\ kbRow \in [id : 0..kbIds, text : AnyMarkdown]
         /\ index \in [Points -> AnyMarkdown]
         /\ \A r \in kbSends : r \in SentOf(kbCalls, kbIds)
BY KnowledgeAssumption DEF KnowledgeTypeOK, SentOf

LEMMA PointsType ==
  ASSUME NEW text \in AnyMarkdown
  PROVE  PointsOf(text) \in [Points -> AnyMarkdown]
BY DEF PointsOf, AnyMarkdown

(* Deleting leaves no point, and a text upserted then is all there is.     *)
LEMMA Effects ==
  ASSUME NEW text
  PROVE  /\ Effect("delete", text) = PointsOf(NoMarkdown)
         /\ index = PointsOf(NoMarkdown) => Effect("upsert", text) = PointsOf(text)
BY DEF Effect, PointsOf

LEMMA EffectType ==
  ASSUME KnowledgeTypeOK, NEW call, NEW text \in AnyMarkdown
  PROVE  Effect(call, text) \in [Points -> AnyMarkdown]
BY KnowledgeTypes DEF Effect, AnyMarkdown

---------------------------------------------------------------------------
(* The kinds of step *)

(* A request goes from r to q.  The others are not alone, and while        *)
(* nothing has failed the one that holds the lock is left in peace.        *)
LEMMA RequestMoves ==
  ASSUME KnowledgeInv, KnowledgeTypeOK', NEW r \in kbSends, NEW q,
         q.n = r.n, kbSends' = Others(r) \cup {q},
         faults' >= faults, NothingLate', IndexIsOneText',
         q.alone => r.alone /\ late' = {},
         q.kind = "delete" => q.text = NoMarkdown,
         q.alone \/ faults' = 0 => Indexes(q)',
         q.alone => Knows(q)',
         faults' = 0 => \A s \in Others(r) :
           s.at \in {"delete", "upsert", "release"} => UNCHANGED <<kbLock, index>>
  PROVE  KnowledgeInv'
<1>1. \A s \in kbSends' : s = q \/ (s \in kbSends /\ s.n # r.n)
  BY DEF Others
<1>2. RequestsNamed'
  BY <1>1 DEF RequestsNamed, KnowledgeInv
<1>3. \A s \in Others(r) : ~s.alone
  BY DEF KnowledgeInv, Alone, Others
<1>4. q.alone => kbSends' = {q}
  BY DEF KnowledgeInv, Alone, Others
<1>5. faults \in Nat /\ faults' \in Nat /\ (faults' = 0 => faults = 0)
  BY KnowledgeAssumption DEF KnowledgeTypeOK, KnowledgeInv
<1>6. Alone(q)' /\ Indexes(q)' /\ Knows(q)'
  BY <1>4 DEF Alone, Indexes, Trusted, Knows
<1>7. ASSUME NEW s \in Others(r)
      PROVE  Alone(s)' /\ Indexes(s)' /\ Knows(s)'
  BY <1>3, <1>5, <1>7 DEF KnowledgeInv, Alone, Indexes, Trusted, Knows, Others
<1> QED BY <1>2, <1>6, <1>7 DEF KnowledgeInv

(* A meeting: nobody is alone any more.                                    *)
LEMMA Meeting ==
  ASSUME KnowledgeInv, KnowledgeTypeOK', NEW rs \in SUBSET kbSends, kbSends' = Met(rs),
         faults' >= faults, NothingLate', IndexIsOneText',
         faults' = 0 => UNCHANGED <<kbLock, index>>
  PROVE  KnowledgeInv'
<1>1. \A s \in kbSends' : \E r \in kbSends : s = [r EXCEPT !.alone = FALSE]
  BY DEF Met
<1>2. \A r \in kbSends : r \in SentOf(kbCalls, kbIds)
  BY KnowledgeTypes DEF KnowledgeInv
<1>3. \A s \in kbSends' : \E r \in kbSends :
         /\ ~s.alone /\ s = [r EXCEPT !.alone = FALSE] /\ s.n = r.n
         /\ s.kind = r.kind /\ s.text = r.text /\ s.at = r.at
  BY <1>1, <1>2 DEF SentOf
<1>4. RequestsNamed'
  <2> SUFFICES ASSUME NEW s \in kbSends', NEW t \in kbSends', s.n = t.n PROVE s = t
    BY DEF RequestsNamed
  <2>1. PICK r \in kbSends : s = [r EXCEPT !.alone = FALSE] /\ s.n = r.n
    BY <1>3
  <2>2. PICK q \in kbSends : t = [q EXCEPT !.alone = FALSE] /\ t.n = q.n
    BY <1>3
  <2> QED BY <2>1, <2>2 DEF KnowledgeInv, RequestsNamed
<1>5. faults \in Nat /\ faults' \in Nat /\ (faults' = 0 => faults = 0)
  BY KnowledgeAssumption DEF KnowledgeTypeOK, KnowledgeInv
<1>6. ASSUME NEW s \in kbSends'
      PROVE  Alone(s)' /\ Indexes(s)' /\ Knows(s)'
  <2>1. PICK r \in kbSends : /\ ~s.alone /\ s.n = r.n
                            /\ s.kind = r.kind /\ s.text = r.text /\ s.at = r.at
    BY <1>3
  <2> QED BY <1>5, <2>1 DEF KnowledgeInv, Alone, Indexes, Trusted, Knows
<1> QED BY <1>4, <1>6 DEF KnowledgeInv

---------------------------------------------------------------------------
(* What the server does for a request *)

LEMMA StepTypes ==
  ASSUME KnowledgeInv, NEW r \in kbSends, NEW q \in SentOf(kbCalls, kbIds'),
         q.n = r.n, kbSends' = Others(r) \cup {q}, UNCHANGED <<pageVars, kbCalls>>,
         kbIds' \in Nat, kbIds <= kbIds',
         kbRow' \in [id : 0..kbIds', text : AnyMarkdown],
         index' \in [Points -> AnyMarkdown],
         late' \subseteq [call : {"delete", "upsert"}, text : AnyMarkdown],
         kbLock' \in {kbLock, 0, r.n}, faults' = faults \/ Fault
  PROVE  KnowledgeTypeOK' /\ faults' >= faults
<1>1. /\ kbCalls' = kbCalls /\ kbCalls \in Nat /\ kbIds \in Nat /\ faults \in Nat
      /\ faults' \in 0..MaxFaults /\ faults' >= faults
  BY KnowledgeTypes, KnowledgeAssumption DEF KnowledgeInv, KnowledgeTypeOK, Fault
<1>2. \A s \in kbSends' : s \in SentOf(kbCalls', kbIds')
  <2>1. \A s \in Others(r) : s \in SentOf(kbCalls, kbIds')
    BY <1>1, MoreSent, KnowledgeTypes DEF KnowledgeInv, Others
  <2> QED BY <1>1, <2>1
<1>3. r.n \in 1..kbCalls
  BY KnowledgeTypes DEF KnowledgeInv, SentOf
<1> QED BY <1>1, <1>2, <1>3 DEF KnowledgeInv, KnowledgeTypeOK, SentOf, pageVars

(* Steps that touch neither the index nor the lock, without a new answer.  *)
LEMMA QuietStep ==
  ASSUME KnowledgeInv, NEW r \in kbSends, NEW q \in SentOf(kbCalls, kbIds'),
         q.n = r.n, kbSends' = Others(r) \cup {q}, UNCHANGED <<pageVars, kbCalls>>,
         kbIds' \in Nat, kbIds <= kbIds',
         kbRow' \in [id : 0..kbIds', text : AnyMarkdown],
         UNCHANGED <<index, late, kbLock>>, faults' = faults \/ Fault,
         q.alone => r.alone,
         q.kind = "delete" => q.text = NoMarkdown,
         q.at \notin {"delete", "upsert", "release"},
         q.alone /\ q.at = "commit" => q.id = kbRow'.id,
         q.alone /\ q.at \in {"embed", "lock"} => q.text = kbRow'.text,
         q.alone => ~(q.at = "done" /\ q.answer = "ok")
  PROVE  KnowledgeInv'
<1>1. KnowledgeTypeOK' /\ faults' >= faults
  BY StepTypes, KnowledgeTypes DEF KnowledgeInv, KnowledgeTypeOK
<1>2. faults \in Nat /\ faults' \in Nat
  BY <1>1, KnowledgeAssumption DEF KnowledgeTypeOK, KnowledgeInv
<1>3. NothingLate' /\ IndexIsOneText'
  BY <1>1, <1>2 DEF KnowledgeInv, NothingLate, IndexIsOneText
<1>4. q.alone => late' = {}
  BY DEF KnowledgeInv, Alone
<1>5. Indexes(q)'
  BY DEF Indexes
<1>6. q.alone => Knows(q)'
  BY DEF Knows
<1> QED BY <1>1, <1>3, <1>4, <1>5, <1>6, RequestMoves

(* 409, 404, or a failure before anything was written.                     *)
LEMMA EndsInv ==
  ASSUME KnowledgeInv, NEW r \in kbSends, UNCHANGED <<pageVars, kbCalls>>,
         Ends(r, "error"), UNCHANGED kbServer, faults' = faults \/ Fault
  PROVE  KnowledgeInv'
<1> DEFINE q == [r EXCEPT !.at = "done", !.answer = "error"]
<1>1. /\ r \in SentOf(kbCalls, kbIds) /\ kbIds \in Nat
      /\ kbRow \in [id : 0..kbIds, text : AnyMarkdown]
      /\ r.kind = "delete" => r.text = NoMarkdown
  BY KnowledgeTypes DEF KnowledgeInv, Knows
<1>2. /\ q \in SentOf(kbCalls, kbIds) /\ q.n = r.n /\ q.alone = r.alone
      /\ q.at = "done" /\ q.answer = "error" /\ q.kind = r.kind /\ q.text = r.text
  BY <1>1 DEF SentOf, Steps
<1>3. kbSends' = Others(r) \cup {q}
  BY DEF Ends
<1> HIDE DEF q
<1> QED BY <1>1, <1>2, <1>3, QuietStep DEF kbServer

LEMMA LoadEntryInv ==
  ASSUME KnowledgeInv, NEW r \in kbSends, UNCHANGED <<pageVars, kbCalls>>, LoadEntry(r)
  PROVE  KnowledgeInv'
<1>1. CASE Ends(r, "error")
  BY <1>1, EndsInv DEF LoadEntry
<1>2. CASE ~Ends(r, "error")
  <2> DEFINE q == [r EXCEPT !.at = "commit", !.id = kbRow.id, !.seen = kbRow.text]
  <2>1. /\ r \in SentOf(kbCalls, kbIds) /\ kbIds \in Nat
        /\ kbRow \in [id : 0..kbIds, text : AnyMarkdown]
        /\ r.kind = "delete" => r.text = NoMarkdown
    BY KnowledgeTypes DEF KnowledgeInv, Knows
  <2>2. /\ q \in SentOf(kbCalls, kbIds) /\ q.n = r.n /\ q.alone = r.alone
        /\ q.at = "commit" /\ q.id = kbRow.id /\ q.kind = r.kind /\ q.text = r.text
    BY <2>1 DEF SentOf, Steps
  <2>3. kbSends' = Others(r) \cup {q}
    BY <1>2 DEF LoadEntry
  <2> HIDE DEF q
  <2> QED BY <2>1, <2>2, <2>3, QuietStep DEF kbServer, LoadEntry
<1> QED BY <1>1, <1>2

(* The row is written; from then on a request that is alone knows it.      *)
LEMMA CommitInv ==
  ASSUME KnowledgeInv, NEW r \in kbSends, UNCHANGED <<pageVars, kbCalls>>,
         create(r) \/ update(r) \/ delete(r)
  PROVE  KnowledgeInv'
<1>1. /\ r \in SentOf(kbCalls, kbIds) /\ kbIds \in Nat /\ r.at = "commit"
      /\ kbRow \in [id : 0..kbIds, text : AnyMarkdown]
      /\ r.kind = "delete" => r.text = NoMarkdown
      /\ r.text \in AnyMarkdown
      /\ UNCHANGED <<index, late, kbLock, faults>>
  BY KnowledgeTypes DEF KnowledgeInv, Knows, create, update, delete, SentOf
<1>2. CASE Ends(r, "error") /\ UNCHANGED <<kbRow, kbIds>>
  BY <1>1, <1>2, EndsInv DEF kbServer
<1>3. CASE create(r) /\ kbRow.id = 0
  <2> DEFINE q == [r EXCEPT !.at = "embed", !.wrote = TRUE]
  <2>1. /\ kbIds' = kbIds + 1 /\ kbRow' = [id |-> kbIds + 1, text |-> r.text]
        /\ kbSends' = Others(r) \cup {q} /\ r.kind = "create"
    BY <1>3 DEF create
  <2>2. /\ kbIds' \in Nat /\ kbIds <= kbIds' /\ kbRow'.text = r.text
        /\ kbRow' \in [id : 0..kbIds', text : AnyMarkdown]
    BY <1>1, <2>1
  <2>3. r \in SentOf(kbCalls, kbIds')
    BY <1>1, <2>2, MoreSent, KnowledgeTypes DEF KnowledgeInv
  <2>4. /\ q \in SentOf(kbCalls, kbIds') /\ q.n = r.n /\ q.alone = r.alone
        /\ q.at = "embed" /\ q.kind = r.kind /\ q.text = r.text
    BY <2>3 DEF SentOf, Steps
  <2> HIDE DEF q
  <2> QED BY <1>1, <2>1, <2>2, <2>4, QuietStep
<1>4. CASE update(r) /\ kbRow.id = r.id
  <2> DEFINE q == [r EXCEPT !.at = "embed", !.text = kbRow'.text, !.wrote = TRUE]
  <2>1. /\ kbIds' = kbIds /\ kbSends' = Others(r) \cup {q} /\ r.kind = "update"
        /\ kbRow' = IF r.text = r.seen THEN kbRow ELSE [kbRow EXCEPT !.text = r.text]
    BY <1>4 DEF update
  <2>2. kbRow' \in [id : 0..kbIds', text : AnyMarkdown] /\ kbRow'.text \in AnyMarkdown
    BY <1>1, <2>1
  <2>3. /\ q \in SentOf(kbCalls, kbIds') /\ q.n = r.n /\ q.alone = r.alone
        /\ q.at = "embed" /\ q.kind = r.kind /\ q.text = kbRow'.text
    BY <1>1, <2>1, <2>2 DEF SentOf, Steps
  <2> HIDE DEF q
  <2>4. q.kind # "delete"
    BY <2>1, <2>3
  <2> QED BY <1>1, <2>1, <2>2, <2>3, <2>4, QuietStep
<1>5. CASE delete(r)
  <2> DEFINE q == [r EXCEPT !.at = "lock", !.wrote = TRUE, !.text = NoMarkdown]
  <2>1. /\ kbIds' = kbIds /\ kbSends' = Others(r) \cup {q}
        /\ kbRow' = IF kbRow.id = r.id THEN [id |-> 0, text |-> NoMarkdown] ELSE kbRow
    BY <1>5 DEF delete
  <2>2. kbRow' \in [id : 0..kbIds', text : AnyMarkdown]
    BY <1>1, <2>1 DEF AnyMarkdown
  <2>3. /\ q \in SentOf(kbCalls, kbIds') /\ q.n = r.n /\ q.alone = r.alone
        /\ q.at = "lock" /\ q.kind = r.kind /\ q.text = NoMarkdown
    BY <1>1, <2>1 DEF SentOf, Steps, AnyMarkdown
  <2>4. r.alone => kbRow'.text = NoMarkdown
    BY <1>1, <2>1 DEF KnowledgeInv, Knows
  <2> HIDE DEF q
  <2> QED BY <1>1, <2>1, <2>2, <2>3, <2>4, QuietStep
<1> QED BY <1>2, <1>3, <1>4, <1>5 DEF create, update

LEMMA EmbedInv ==
  ASSUME KnowledgeInv, NEW r \in kbSends, UNCHANGED <<pageVars, kbCalls>>, embed_text(r)
  PROVE  KnowledgeInv'
<1>1. /\ r \in SentOf(kbCalls, kbIds) /\ kbIds \in Nat /\ r.at = "embed"
      /\ kbRow \in [id : 0..kbIds, text : AnyMarkdown]
      /\ r.kind = "delete" => r.text = NoMarkdown
      /\ r.alone => r.text = kbRow.text
      /\ UNCHANGED kbServer
  BY KnowledgeTypes DEF KnowledgeInv, Knows, embed_text
<1>2. CASE StepTo(r, "lock") /\ UNCHANGED faults
  <2> DEFINE q == [r EXCEPT !.at = "lock"]
  <2>1. /\ q \in SentOf(kbCalls, kbIds) /\ q.n = r.n /\ q.alone = r.alone
        /\ q.at = "lock" /\ q.kind = r.kind /\ q.text = r.text
    BY <1>1 DEF SentOf, Steps
  <2>2. kbSends' = Others(r) \cup {q}
    BY <1>2 DEF StepTo
  <2> HIDE DEF q
  <2> QED BY <1>1, <1>2, <2>1, <2>2, QuietStep DEF kbServer
<1>3. CASE Fault /\ Ends([r EXCEPT !.alone = FALSE], "ok")
  <2> DEFINE s == [r EXCEPT !.alone = FALSE]
             q == [s EXCEPT !.at = "done", !.answer = "ok"]
  <2>1. /\ s \in SentOf(kbCalls, kbIds) /\ s.n = r.n /\ s.kind = r.kind
        /\ s.text = r.text /\ ~s.alone
    BY <1>1 DEF SentOf
  <2>2. kbSends' = Others(s) \cup {q}
    BY <1>3 DEF Ends
  <2> HIDE DEF s
  <2>3. /\ q \in SentOf(kbCalls, kbIds) /\ q.n = r.n /\ ~q.alone
        /\ q.at = "done" /\ q.kind = r.kind /\ q.text = r.text
    BY <2>1 DEF SentOf, Steps
  <2>4. kbSends' = Others(r) \cup {q}
    BY <2>1, <2>2 DEF Others
  <2> HIDE DEF q
  <2> QED BY <1>1, <1>3, <2>3, <2>4, QuietStep DEF kbServer
<1> QED BY <1>2, <1>3 DEF embed_text

---------------------------------------------------------------------------
(* The index and its lock *)

(* Taking the lock: as long as nothing failed nobody else re-indexes.      *)
LEMMA LockInv ==
  ASSUME KnowledgeInv, NEW r \in kbSends, UNCHANGED <<pageVars, kbCalls>>, _reindex_lock(r)
  PROVE  KnowledgeInv'
<1>1. /\ r \in SentOf(kbCalls, kbIds) /\ r.at = "lock" /\ r.n \in Nat \ {0}
      /\ r.kind = "delete" => r.text = NoMarkdown
      /\ r.alone => r.text = kbRow.text
      /\ UNCHANGED <<kbRow, kbIds, index, late>>
  BY KnowledgeTypes DEF KnowledgeInv, Knows, _reindex_lock, SentOf
<1>2. CASE kbLock = 0 /\ kbLock' = r.n /\ StepTo(r, "delete") /\ UNCHANGED faults
  <2> DEFINE q == [r EXCEPT !.at = "delete"]
  <2>1. /\ q \in SentOf(kbCalls, kbIds) /\ q.n = r.n /\ q.alone = r.alone
        /\ q.at = "delete" /\ q.kind = r.kind /\ q.text = r.text
    BY <1>1 DEF SentOf, Steps
  <2>2. kbSends' = Others(r) \cup {q}
    BY <1>2 DEF StepTo
  <2> HIDE DEF q
  <2>3. KnowledgeTypeOK' /\ faults' >= faults
    BY <1>1, <1>2, <2>1, <2>2, StepTypes, KnowledgeTypes DEF KnowledgeInv, KnowledgeTypeOK
  <2>4. NothingLate' /\ IndexIsOneText' /\ (q.alone => late' = {})
    BY <1>1, <1>2, <2>1 DEF KnowledgeInv, NothingLate, IndexIsOneText, Alone
  <2>5. Indexes(q)' /\ Knows(q)'
    BY <1>1, <1>2, <2>1 DEF Indexes, Knows
  <2>6. faults' = 0 => \A s \in Others(r) : s.at \notin {"delete", "upsert", "release"}
    <3> SUFFICES ASSUME faults = 0, NEW s \in Others(r) 
                 PROVE  s.at \notin {"delete", "upsert", "release"}
      BY <1>2
    <3>1. s.n \in Nat \ {0}
      BY KnowledgeTypes DEF KnowledgeInv, Others, SentOf
    <3> QED BY <1>2, <3>1 DEF KnowledgeInv, Indexes, Trusted, Others
  <2> QED BY <1>1, <2>1, <2>2, <2>3, <2>4, <2>5, <2>6, RequestMoves
<1>3. CASE Fault /\ Ends([r EXCEPT !.alone = FALSE], "error") /\ UNCHANGED kbLock
  <2> DEFINE s == [r EXCEPT !.alone = FALSE]
             q == [s EXCEPT !.at = "done", !.answer = "error"]
  <2>1. /\ s \in SentOf(kbCalls, kbIds) /\ s.n = r.n /\ s.kind = r.kind
        /\ s.text = r.text /\ ~s.alone
    BY <1>1 DEF SentOf
  <2>2. kbSends' = Others(s) \cup {q}
    BY <1>3 DEF Ends
  <2> HIDE DEF s
  <2>3. /\ q \in SentOf(kbCalls, kbIds) /\ q.n = r.n /\ ~q.alone
        /\ q.at = "done" /\ q.kind = r.kind /\ q.text = r.text
    BY <2>1 DEF SentOf, Steps
  <2>4. kbSends' = Others(r) \cup {q}
    BY <2>1, <2>2 DEF Others
  <2> HIDE DEF q
  <2> QED BY <1>1, <1>3, <2>3, <2>4, QuietStep, KnowledgeTypes DEF KnowledgeInv
<1> QED BY <1>2, <1>3 DEF _reindex_lock

(* A call that is done in time takes its request on.                       *)
LEMMA CallInTime ==
  ASSUME KnowledgeInv, NEW r \in kbSends, UNCHANGED <<pageVars, kbCalls>>,
         NEW next \in {"upsert", "release"},
         r.at \in {"delete", "upsert"},
         r.at = "delete" => next = (IF r.kind = "delete" THEN "release" ELSE "upsert"),
         r.at = "upsert" => next = "release",
         index' = Effect(r.at, r.text), StepTo(r, next),
         UNCHANGED <<late, faults, kbRow, kbIds, kbLock>>
  PROVE  KnowledgeInv'
<1> DEFINE q == [r EXCEPT !.at = next]
<1>1. /\ r \in SentOf(kbCalls, kbIds) /\ r.text \in AnyMarkdown /\ r.n \in Nat \ {0}
      /\ r.kind = "delete" => r.text = NoMarkdown
      /\ r.alone => r.text = kbRow.text
      /\ faults = 0 => kbLock = r.n
  BY KnowledgeTypes DEF KnowledgeInv, Indexes, Trusted, Knows, SentOf
<1>2. /\ q \in SentOf(kbCalls, kbIds) /\ q.n = r.n /\ q.alone = r.alone
      /\ q.at = next /\ q.kind = r.kind /\ q.text = r.text
  BY <1>1 DEF SentOf, Steps
<1>3. kbSends' = Others(r) \cup {q}
  BY DEF StepTo
<1> HIDE DEF q
<1>4. KnowledgeTypeOK' /\ faults' >= faults
  <2>1. index' \in [Points -> AnyMarkdown]
    BY <1>1, EffectType DEF KnowledgeInv
  <2> QED BY <1>1, <1>2, <1>3, <2>1, StepTypes, KnowledgeTypes DEF KnowledgeInv, KnowledgeTypeOK
<1>5. NothingLate' /\ IndexIsOneText' /\ (q.alone => late' = {})
  BY <1>1, <1>2 DEF KnowledgeInv, NothingLate, IndexIsOneText, Alone
<1>6. q.alone \/ faults' = 0 => Indexes(q)'
  <2> SUFFICES ASSUME Trusted(r) PROVE Indexes(q)'
    BY <1>2 DEF Trusted
  <2>1. /\ kbLock = r.n
        /\ r.at = "upsert" => index = PointsOf(NoMarkdown)
    BY DEF KnowledgeInv, Indexes
  <2>2. CASE r.at = "delete"
    <3>1. index' = PointsOf(NoMarkdown)
      BY <2>2, Effects
    <3> QED BY <1>1, <1>2, <2>1, <2>2, <3>1 DEF Indexes, PointsOf
  <2>3. CASE r.at = "upsert"
    <3>1. index' = PointsOf(r.text)
      BY <2>1, <2>3, Effects
    <3> QED BY <1>2, <2>1, <2>3, <3>1 DEF Indexes, PointsOf
  <2> QED BY <2>2, <2>3
<1>7. q.alone => Knows(q)'
  BY <1>1, <1>2 DEF Knows
<1>8. faults' = 0 => \A s \in Others(r) : s.at \notin {"delete", "upsert", "release"}
  BY <1>1 DEF KnowledgeInv, Indexes, Trusted, Others
<1> QED BY <1>1, <1>2, <1>3, <1>4, <1>5, <1>6, <1>7, <1>8, RequestMoves

(* A call that failed takes effect now, later or never.                    *)
LEMMA CallFails ==
  ASSUME KnowledgeInv, NEW r \in kbSends, UNCHANGED <<pageVars, kbCalls>>,
         r.at \in {"delete", "upsert"}, Fault,
         StepTo([r EXCEPT !.alone = FALSE], "release"),
         index' \in {index, Effect(r.at, r.text)},
         late' \in {late, late \cup {[call |-> r.at, text |-> r.text]}},
         UNCHANGED <<kbRow, kbIds, kbLock>>
  PROVE  KnowledgeInv'
<1> DEFINE s == [r EXCEPT !.alone = FALSE]
           q == [s EXCEPT !.at = "release"]
<1>1. /\ r \in SentOf(kbCalls, kbIds) /\ r.text \in AnyMarkdown
      /\ r.kind = "delete" => r.text = NoMarkdown
  BY KnowledgeTypes DEF KnowledgeInv, Knows, SentOf
<1>2. /\ s \in SentOf(kbCalls, kbIds) /\ s.n = r.n /\ s.kind = r.kind
      /\ s.text = r.text /\ ~s.alone
  BY <1>1 DEF SentOf
<1>3. kbSends' = Others(s) \cup {q}
  BY DEF StepTo
<1> HIDE DEF s
<1>4. /\ q \in SentOf(kbCalls, kbIds) /\ q.n = r.n /\ ~q.alone
      /\ q.kind = r.kind /\ q.text = r.text
  BY <1>2 DEF SentOf, Steps
<1>5. kbSends' = Others(r) \cup {q}
  BY <1>2, <1>3 DEF Others
<1> HIDE DEF q
<1>6. KnowledgeTypeOK' /\ faults' >= faults
  <2>1. index' \in [Points -> AnyMarkdown]
    BY <1>1, EffectType DEF KnowledgeInv, KnowledgeTypeOK
  <2>2. late' \subseteq [call : {"delete", "upsert"}, text : AnyMarkdown]
    BY <1>1 DEF KnowledgeInv, KnowledgeTypeOK
  <2> QED BY <1>1, <1>4, <1>5, <2>1, <2>2, StepTypes, KnowledgeTypes DEF KnowledgeInv
<1>7. faults' # 0
  BY KnowledgeTypes DEF KnowledgeInv, Fault
<1>8. NothingLate' /\ IndexIsOneText'
  BY <1>7 DEF NothingLate, IndexIsOneText
<1> QED BY <1>1, <1>4, <1>5, <1>6, <1>7, <1>8, RequestMoves

LEMMA IndexInv ==
  ASSUME KnowledgeInv, NEW r \in kbSends, UNCHANGED <<pageVars, kbCalls>>,
         index_knowledge_base(r)
  PROVE  KnowledgeInv'
<1>1. ASSUME NEW next \in {"upsert", "release"}, _call(r, r.at, next),
             r.at \in {"delete", "upsert"},
             r.at = "delete" => next = (IF r.kind = "delete" THEN "release" ELSE "upsert"),
             r.at = "upsert" => next = "release"
      PROVE  KnowledgeInv'
  <2>1. CASE index' = Effect(r.at, r.text) /\ StepTo(r, next) /\ UNCHANGED <<late, faults>>
    BY <1>1, <2>1, CallInTime DEF _call
  <2>2. CASE /\ Fault /\ StepTo([r EXCEPT !.alone = FALSE], "release")
             /\ index' \in {index, Effect(r.at, r.text)}
             /\ late' \in {late, late \cup {[call |-> r.at, text |-> r.text]}}
    BY <1>1, <2>2, CallFails DEF _call
  <2> QED BY <1>1, <2>1, <2>2 DEF _call
<1>2. CASE _call(r, "delete", IF r.kind = "delete" THEN "release" ELSE "upsert")
  <2>1. r.at = "delete"
    BY <1>2 DEF _call
  <2> QED BY <1>1, <1>2, <2>1
<1>3. CASE _call(r, "upsert", "release")
  <2>1. r.at = "upsert"
    BY <1>3 DEF _call
  <2> QED BY <1>1, <1>3, <2>1
<1> QED BY <1>2, <1>3 DEF index_knowledge_base

(* Giving the lock back: the index is that of the request's text.          *)
LEMMA ReleaseInv ==
  ASSUME KnowledgeInv, NEW r \in kbSends, UNCHANGED <<pageVars, kbCalls>>, Release(r)
  PROVE  KnowledgeInv'
<1>1. CASE kbLock # r.n
  BY <1>1, EndsInv DEF Release, kbServer
<1>2. CASE kbLock = r.n
  <2> DEFINE q == [r EXCEPT !.at = "done", !.answer = "ok"]
  <2>1. /\ r \in SentOf(kbCalls, kbIds) /\ r.text \in AnyMarkdown /\ r.at = "release"
        /\ r.kind = "delete" => r.text = NoMarkdown
        /\ r.alone => r.text = kbRow.text
        /\ Trusted(r) => index = PointsOf(r.text)
        /\ UNCHANGED <<kbRow, kbIds, index, late, faults>> /\ kbLock' = 0
    BY <1>2, KnowledgeTypes DEF KnowledgeInv, Indexes, Knows, SentOf, Release
  <2>2. /\ q \in SentOf(kbCalls, kbIds) /\ q.n = r.n /\ q.alone = r.alone
        /\ q.at = "done" /\ q.kind = r.kind /\ q.text = r.text
    BY <2>1 DEF SentOf, Steps
  <2>3. kbSends' = Others(r) \cup {q}
    BY <1>2 DEF Release, Ends
  <2> HIDE DEF q
  <2>4. KnowledgeTypeOK' /\ faults' >= faults
    BY <2>1, <2>2, <2>3, StepTypes, KnowledgeTypes DEF KnowledgeInv, KnowledgeTypeOK
  <2>5. NothingLate' /\ IndexIsOneText' /\ (q.alone => late' = {})
    BY <2>1, <2>2 DEF KnowledgeInv, NothingLate, IndexIsOneText, Alone, Trusted, PointsOf
  <2>6. Indexes(q)' /\ (q.alone => Knows(q)')
    BY <2>1, <2>2 DEF Indexes, Knows, Trusted, PointsOf
  <2>7. faults' = 0 => \A s \in Others(r) : s.at \notin {"delete", "upsert", "release"}
    BY <1>2, <2>1 DEF KnowledgeInv, Indexes, Trusted, Others
  <2> QED BY <2>1, <2>2, <2>3, <2>4, <2>5, <2>6, <2>7, RequestMoves
<1> QED BY <1>1, <1>2

---------------------------------------------------------------------------
(* Meetings, new requests and the page *)

LEMMA MetTypes ==
  ASSUME NEW c \in Nat, NEW i \in Nat, NEW rs, \A r \in rs : r \in SentOf(c, i)
  PROVE  /\ \A s \in Met(rs) : s \in SentOf(c, i)
         /\ \A s \in Met(rs) : \E r \in rs : s.n = r.n
<1> SUFFICES ASSUME NEW r \in rs
             PROVE  /\ [r EXCEPT !.alone = FALSE] \in SentOf(c, i)
                    /\ [r EXCEPT !.alone = FALSE].n = r.n
  BY DEF Met
<1>1. r \in SentOf(c, i)
  OBVIOUS
<1> QED BY <1>1 DEF SentOf

(* Late calls, expiring locks and crashes disturb whoever is at work.      *)
LEMMA DisturbInv ==
  ASSUME KnowledgeInv, UNCHANGED <<pageVars, kbCalls>>,
         \/ \E op \in late : LandsLate(op)
         \/ IndexLockExpires
         \/ \E r \in kbSends : Crash(r)
  PROVE  KnowledgeInv'
<1>1. PICK rs \in SUBSET kbSends : kbSends' = Met(rs)
  BY DEF LandsLate, IndexLockExpires, Crash, Others
<1>2. /\ UNCHANGED <<kbRow, kbIds>> /\ late' \subseteq late /\ kbLock' \in {kbLock, 0}
      /\ faults' = faults \/ Fault
      /\ faults' = faults => \E op \in late : index' = Effect(op.call, op.text)
      /\ faults' # faults => UNCHANGED index
  BY KnowledgeTypes DEF KnowledgeInv, LandsLate, IndexLockExpires, Crash, kbServer, Fault
<1>3. index' \in [Points -> AnyMarkdown]
  <2>1. \A op \in late : op.text \in AnyMarkdown
    BY DEF KnowledgeInv, KnowledgeTypeOK
  <2> QED BY <1>2, <2>1, EffectType, KnowledgeTypes DEF KnowledgeInv
<1>4. faults' # 0 /\ faults' >= faults
  BY <1>2, KnowledgeTypes DEF KnowledgeInv, NothingLate, Fault
<1>5. \A s \in kbSends' : s \in SentOf(kbCalls, kbIds)
  BY <1>1, MetTypes, KnowledgeTypes DEF KnowledgeInv
<1>6. faults' \in 0..MaxFaults
  BY <1>2, KnowledgeAssumption DEF KnowledgeInv, KnowledgeTypeOK, Fault
<1>7. KnowledgeTypeOK'
  BY <1>2, <1>3, <1>5, <1>6, KnowledgeTypes DEF KnowledgeInv, KnowledgeTypeOK, SentOf, pageVars
<1>8. NothingLate' /\ IndexIsOneText'
  BY <1>4 DEF NothingLate, IndexIsOneText
<1> QED BY <1>1, <1>4, <1>7, <1>8, Meeting

(* A new request meets those under way, and is alone if there are none.    *)
LEMMA RequestInv ==
  ASSUME KnowledgeInv, NEW task \in {"create", "update", "delete"}, NEW text \in AnyMarkdown,
         NEW fromPage \in BOOLEAN, task = "delete" => text = NoMarkdown,
         Request(task, text, fromPage), UNCHANGED <<kbServer, pageVars, faults>>
  PROVE  KnowledgeInv'
<1>1. /\ kbCalls' = kbCalls + 1 /\ kbCalls \in Nat /\ kbIds \in Nat
      /\ kbCalls' \in 0..MaxRequests
      /\ UNCHANGED <<kbRow, kbIds, index, late, kbLock, faults>>
  BY KnowledgeTypes, KnowledgeAssumption DEF KnowledgeInv, Request, kbServer
<1>2. PICK lone \in BOOLEAN : lone = (kbSends = {} /\ late = {})
  OBVIOUS
<1>3. PICK q \in SentOf(kbCalls', kbIds) :
        /\ kbSends' = Met(kbSends) \cup {q}
        /\ q.n = kbCalls' /\ q.at = "load" /\ q.kind = task /\ q.text = text
        /\ q.alone = lone
  <2>1. kbSends' = Met(kbSends) \cup
          {[n |-> kbCalls', kind |-> task, text |-> text, page |-> fromPage, at |-> "load",
            id |-> 0, seen |-> NoMarkdown, answer |-> "none", wrote |-> FALSE,
            alone |-> lone]}
    BY <1>2 DEF Request
  <2>2. [n |-> kbCalls', kind |-> task, text |-> text, page |-> fromPage, at |-> "load",
         id |-> 0, seen |-> NoMarkdown, answer |-> "none", wrote |-> FALSE,
         alone |-> lone] \in SentOf(kbCalls', kbIds)
    BY <1>1 DEF SentOf, Steps, AnyMarkdown
  <2> QED BY <2>1, <2>2
<1>4. /\ \A s \in Met(kbSends) : s \in SentOf(kbCalls, kbIds)
      /\ \A s \in Met(kbSends) : \E r \in kbSends : s = [r EXCEPT !.alone = FALSE]
      /\ kbSends = {} => Met(kbSends) = {}
  BY <1>1, MetTypes, KnowledgeTypes DEF KnowledgeInv, Met
<1>5. \A s \in kbSends' : s \in SentOf(kbCalls', kbIds')
  BY <1>1, <1>3, <1>4, MoreSent
<1>6. KnowledgeTypeOK'
  <2>1. kbLock' \in 0..kbCalls'
    BY <1>1 DEF KnowledgeInv, KnowledgeTypeOK
  <2> QED BY <1>1, <1>5, <2>1 DEF KnowledgeInv, KnowledgeTypeOK, SentOf, pageVars
<1>7. NothingLate' /\ IndexIsOneText'
  BY <1>1 DEF KnowledgeInv, NothingLate, IndexIsOneText, PointsOf
<1>8. Alone(q)' /\ Indexes(q)' /\ Knows(q)'
  BY <1>1, <1>2, <1>3, <1>4 DEF Alone, Indexes, Knows
<1>9. \A s \in Met(kbSends) : s.n # q.n
  BY <1>1, <1>3, <1>4 DEF SentOf
<1>10. ASSUME NEW s \in Met(kbSends)
       PROVE  \E r \in kbSends : /\ s = [r EXCEPT !.alone = FALSE] /\ s.n = r.n
                                 /\ s.kind = r.kind /\ s.text = r.text /\ s.at = r.at
                                 /\ ~s.alone
  BY <1>4, <1>10, KnowledgeTypes DEF KnowledgeInv, SentOf
<1>11. ASSUME NEW s \in Met(kbSends)
       PROVE  Alone(s)' /\ Indexes(s)' /\ Knows(s)'
  <2>1. PICK r \in kbSends : /\ s.n = r.n /\ s.kind = r.kind /\ s.text = r.text
                             /\ s.at = r.at /\ ~s.alone
    BY <1>10
  <2> QED BY <1>1, <2>1 DEF KnowledgeInv, Alone, Indexes, Trusted, Knows, PointsOf
<1>12. RequestsNamed'
  <2>1. ASSUME NEW s \in Met(kbSends), NEW t \in Met(kbSends), s.n = t.n PROVE s = t
    <3>1. PICK r \in kbSends : s = [r EXCEPT !.alone = FALSE] /\ s.n = r.n
      BY <1>10
    <3>2. PICK p \in kbSends : t = [p EXCEPT !.alone = FALSE] /\ t.n = p.n
      BY <1>10
    <3> QED BY <2>1, <3>1, <3>2 DEF KnowledgeInv, RequestsNamed
  <2> QED BY <1>3, <1>9, <2>1 DEF RequestsNamed
<1> QED BY <1>3, <1>6, <1>7, <1>8, <1>11, <1>12 DEF KnowledgeInv

(* What only the page sees: typing, its query, and an answer taken off.    *)
LEMMA PageInv ==
  ASSUME KnowledgeInv, UNCHANGED <<kbServer, faults, kbCalls>>, kbSends' \subseteq kbSends,
         {kbSeen', prev', kbDraft'} \subseteq AnyMarkdown,
         kbFetch' \in [at : {"idle", "sent", "read"}, text : AnyMarkdown],
         focuses' \in 0..MaxFocus
  PROVE  KnowledgeInv'
<1>1. UNCHANGED <<kbRow, kbIds, index, late, kbLock, faults, kbCalls>>
  BY DEF kbServer
<1>2. KnowledgeTypeOK'
  BY <1>1 DEF KnowledgeInv, KnowledgeTypeOK
<1>3. RequestsNamed' /\ NothingLate' /\ IndexIsOneText'
  BY <1>1 DEF KnowledgeInv, RequestsNamed, NothingLate, IndexIsOneText, PointsOf
<1>4. ASSUME NEW r \in kbSends'
      PROVE  Alone(r)' /\ Indexes(r)' /\ Knows(r)'
  BY <1>1 DEF KnowledgeInv, Alone, Indexes, Trusted, Knows, PointsOf
<1> QED BY <1>2, <1>3, <1>4 DEF KnowledgeInv

LEMMA PageMovesInv ==
  ASSUME KnowledgeInv,
         \/ \E text \in Markdowns : Type(text)
         \/ \E r \in kbSends : RequestEnds(r)
         \/ useCareerKnowledgeBaseQuery
  PROVE  KnowledgeInv'
<1>1. /\ {kbSeen, prev, kbDraft} \subseteq AnyMarkdown /\ kbRow.text \in AnyMarkdown
      /\ kbFetch \in [at : {"idle", "sent", "read"}, text : AnyMarkdown]
      /\ focuses \in 0..MaxFocus /\ MaxFocus \in Nat
      /\ \A r \in kbSends : r.text \in AnyMarkdown
  BY KnowledgeTypes, KnowledgeAssumption DEF KnowledgeInv, KnowledgeTypeOK, SentOf
<1>2. CASE \E text \in Markdowns : Type(text)
  BY <1>1, <1>2, PageInv DEF Type, AnyMarkdown
<1>3. ASSUME NEW r \in kbSends, RequestEnds(r) PROVE KnowledgeInv'
  BY <1>1, <1>3, PageInv DEF RequestEnds, Synced, Others
<1>4. CASE useCareerKnowledgeBaseQuery
  <2>1. kbFetch' \in [at : {"idle", "sent", "read"}, text : AnyMarkdown]
    BY <1>1, <1>4 DEF useCareerKnowledgeBaseQuery, AnyMarkdown
  <2>2. kbFetch.text \in AnyMarkdown
    BY <1>1
  <2>3. {kbSeen', prev', kbDraft'} \subseteq AnyMarkdown
    BY <1>1, <1>4, <2>2 DEF useCareerKnowledgeBaseQuery, Synced
  <2>4. focuses' \in 0..MaxFocus
    BY <1>1, <1>4 DEF useCareerKnowledgeBaseQuery
  <2> QED BY <1>4, <2>1, <2>3, <2>4, PageInv DEF useCareerKnowledgeBaseQuery
<1> QED BY <1>2, <1>3, <1>4

---------------------------------------------------------------------------
(* The theorem *)

LEMMA InitKnowledgeInv == KnowledgeInit => KnowledgeInv
<1> SUFFICES ASSUME KnowledgeInit PROVE KnowledgeInv
  OBVIOUS
<1>1. PICK text \in AnyMarkdown :
        /\ kbRow = [id |-> IF text = NoMarkdown THEN 0 ELSE 1, text |-> text]
        /\ kbSeen = text /\ prev = text /\ kbDraft = text
        /\ index = PointsOf(text)
  BY DEF KnowledgeInit
<1>2. index \in [Points -> AnyMarkdown]
  BY <1>1, PointsType
<1>3. KnowledgeTypeOK
  BY <1>1, <1>2, KnowledgeAssumption DEF KnowledgeInit, KnowledgeTypeOK, AnyMarkdown
<1>4. RequestsNamed /\ NothingLate /\ IndexIsOneText
  BY <1>1 DEF KnowledgeInit, RequestsNamed, NothingLate, IndexIsOneText
<1> QED BY <1>3, <1>4 DEF KnowledgeInit, KnowledgeInv

LEMMA NextKnowledgeInv == KnowledgeInv /\ [KnowledgeNext]_knowledgeVars => KnowledgeInv'
<1> SUFFICES ASSUME KnowledgeInv, [KnowledgeNext]_knowledgeVars PROVE KnowledgeInv'
  OBVIOUS
<1>1. CASE UNCHANGED knowledgeVars
  <2>1. /\ UNCHANGED <<kbServer, faults, kbCalls>> /\ kbSends' = kbSends
        /\ UNCHANGED <<kbSeen, prev, kbDraft, kbFetch, focuses>>
    BY <1>1 DEF knowledgeVars, kbServer
  <2> QED BY <2>1, PageInv DEF KnowledgeInv, KnowledgeTypeOK
<1>2. ASSUME NEW r \in kbSends, ServerStep(r), UNCHANGED <<pageVars, kbCalls>>
      PROVE  KnowledgeInv'
  <2>1. CASE StructureFails(r)
    BY <1>2, <2>1, EndsInv DEF StructureFails
  <2> QED
    BY <1>2, <2>1, LoadEntryInv, CommitInv, EmbedInv, LockInv, IndexInv, ReleaseInv,
       DisturbInv DEF ServerStep
<1>3. CASE \/ (\E op \in late : LandsLate(op)) /\ UNCHANGED <<pageVars, kbCalls>>
           \/ IndexLockExpires /\ UNCHANGED <<pageVars, kbCalls>>
  BY <1>3, DisturbInv
<1>4. \A text \in Markdowns : text \in AnyMarkdown
  BY DEF AnyMarkdown
<1>5. NoMarkdown \in AnyMarkdown /\ kbDraft \in AnyMarkdown
  BY DEF AnyMarkdown, KnowledgeInv, KnowledgeTypeOK
<1>6. ASSUME NEW text \in Markdowns, handleCreate(text) \/ OtherSaves(text)
      PROVE  KnowledgeInv'
  BY <1>4, <1>6, RequestInv DEF handleCreate, OtherSaves
<1>7. CASE saveKnowledge \/ startOver
  BY <1>5, <1>7, RequestInv DEF saveKnowledge, startOver
<1>8. CASE \/ \E text \in Markdowns : Type(text)
           \/ \E r \in kbSends : RequestEnds(r)
           \/ useCareerKnowledgeBaseQuery
  BY <1>8, PageMovesInv
<1> QED BY <1>1, <1>2, <1>3, <1>6, <1>7, <1>8 DEF KnowledgeNext

(* A save or a delete that runs alone leaves the index with the chunks of  *)
(* what is stored, whatever failed before it; and without a failure the    *)
(* lock keeps two re-indexings apart.                                      *)
THEOREM KnowledgeAlwaysSafe == KnowledgeSpec => []KnowledgeSafe
<1>1. KnowledgeInv => KnowledgeSafe
  BY DEF KnowledgeInv, KnowledgeSafe, NextSaveRepairs, Knows
<1> QED BY <1>1, InitKnowledgeInv, NextKnowledgeInv, PTL DEF KnowledgeSpec

---------------------------------------------------------------------------
(* The resume builder *)

LEMMA InitBuilderInv == BuilderInit => BuilderInv
<1> SUFFICES ASSUME BuilderInit PROVE BuilderInv
  OBVIOUS
<1> DEFINE N == Cardinality(Pages)
<1>1. N \in Nat /\ ExistsBijection(1..N, Pages)
  BY FS_CardinalityType, BuilderAssumption
<1> HIDE DEF N
<1>2. \E f \in [Pages -> 1..N] : \A v, w \in Pages : f[v] = f[w] => v = w
  <2>1. PICK g \in Bijection(1..N, Pages) : TRUE
    BY <1>1 DEF ExistsBijection
  <2>2. /\ g \in [1..N -> Pages]
        /\ \A w \in Pages : \E i \in 1..N : g[i] = w
    BY <2>1 DEF Bijection, Injection, Surjection
  <2> DEFINE f == [w \in Pages |-> CHOOSE i \in 1..N : g[i] = w]
  <2>3. \A w \in Pages : f[w] \in 1..N /\ g[f[w]] = w
    BY <2>2
  <2>4. f \in [Pages -> 1..N] /\ \A v, w \in Pages : f[v] = f[w] => v = w
    <3> HIDE DEF f
    <3>1. \A v, w \in Pages : f[v] = f[w] => v = w
      BY <2>3
    <3>2. f = [w \in Pages |-> f[w]]
      BY DEF f
    <3> QED
      BY <3>1, <3>2, <2>3
  <2> QED
    BY <2>4
<1>3. current \in [Pages -> 1..N]
  BY <1>2 DEF BuilderInit, N
<1>4. PICK order \in [1..N -> Pages] :
         /\ \A w \in Pages : order[current[w]] = w
         /\ revs = [i \in DOMAIN order |->
                      [w |-> order[i], doc |-> [of |-> order[i], edits |-> {}]]]
  BY DEF BuilderInit, N
<1>5. \A i \in 1..N : [w |-> order[i], doc |-> [of |-> order[i], edits |-> {}]]
                      \in [w : Pages, doc : Documents]
  BY <1>4 DEF Documents
<1>6. revs \in [1..N -> [w : Pages, doc : Documents]]
  BY <1>4, <1>5
<1>7. revs \in Seq([w : Pages, doc : Documents]) /\ DOMAIN revs = 1..N
  <2>1. [i \in 1..N |-> revs[i]] \in Seq([w : Pages, doc : Documents])
    BY <1>1, <1>6
  <2> QED
    BY <1>6, <2>1
<1>8. \A i \in 1..N : revs[i].w = order[i] /\ revs[i].doc.of = order[i]
  BY <1>4
<1>9. /\ approved = {} /\ openPage = NoPage /\ proposal = <<>> /\ generating = {}
      /\ typedEdits = [w \in Pages |-> {}] /\ unseen = {} /\ strayed = FALSE
      /\ edits = 0 /\ puts = 0 /\ acts = 0
  BY DEF BuilderInit
<1>15. BuilderServerOK
  BY <1>3, <1>4, <1>7, <1>8, <1>9 DEF BuilderServerOK, RevisionOf
<1>10. BuilderQueriesOK
  BY DEF BuilderInit, BuilderQueriesOK, Cached, IdleFetch
<1>11. StoreOK(editor)
  <2>1. <<>> \in Seq(Kin(NoDocument))
    BY EmptySeq
  <2> QED
    BY <2>1 DEF BuilderInit, StoreOK
<1>12. BuilderPageOK
  <2>1. edits \in 0..MaxEdits /\ puts \in 0..MaxPuts /\ acts \in 0..MaxActs
    BY <1>9, BuilderAssumption
  <2>2. typedEdits \in [Pages -> SUBSET (1..MaxEdits)] /\ ~PageLoaded
    BY <1>9 DEF PageLoaded
  <2> QED
    BY <1>9, <2>1, <2>2 DEF BuilderPageOK
<1>13. BuilderSendsOK /\ UnseenElsewhere
  BY DEF BuilderInit, BuilderSendsOK, UnseenElsewhere
<1>14. DocumentsAtHome
  BY <1>7, <1>8 DEF BuilderInit, DocumentsAtHome
<1> QED
  BY <1>15, <1>10, <1>11, <1>12, <1>13, <1>14 DEF BuilderInv

LEMMA BuilderTypes == BuilderInv => BuilderTypeOK
<1> SUFFICES ASSUME BuilderInv PROVE BuilderTypeOK
  OBVIOUS
<1>1. Len(revs) \in Nat /\ DOMAIN revs = 1..Len(revs)
      /\ \A i \in DOMAIN revs : revs[i] \in [w : Pages, doc : Documents]
  BY LenProperties, ElementOfSeq DEF BuilderInv, BuilderServerOK
<1>2. /\ \A w \in Pages : current[w] \in DOMAIN revs
      /\ approved \subseteq Pages /\ unseen \subseteq DOMAIN revs
  BY DEF BuilderInv, BuilderServerOK, RevisionOf
<1>3. \A w \in Pages : /\ cache[w] \in Cached /\ cache[w].id \in 0..Len(revs)
                       /\ builderFetch[w] \in [at : {"idle", "sent", "read"}, id : Nat,
                                               approved : BOOLEAN]
  BY <1>1 DEF BuilderInv, BuilderQueriesOK, RevisionOf, Cached
<1>4. /\ editor.doc \in Documents \cup {NoDocument} /\ editor.saved \in 0..Len(revs)
      /\ editor.dirty \in BOOLEAN
  BY <1>1 DEF BuilderInv, StoreOK
<1>5. /\ \A i \in DOMAIN editor.undo : editor.undo[i] \in Documents
      /\ \A i \in DOMAIN editor.redo : editor.redo[i] \in Documents
  <2>1. editor.undo \in Seq(Kin(editor.doc)) /\ editor.redo \in Seq(Kin(editor.doc))
    BY DEF BuilderInv, StoreOK
  <2> QED
    BY <2>1, LenProperties, ElementOfSeq DEF Kin
<1>6. \A s \in sends : s \in [n : 1..MaxPuts + MaxActs, w : Pages, doc : Documents,
                               expected : 0..Len(revs), id : Nat,
                               kind : {"save", "accept", "restore"},
                               at : {"sent", "ok", "failed", "refetching"}]
  BY <1>1, BuilderAssumption DEF BuilderInv, BuilderSendsOK, BuilderPageOK
<1>7. /\ openPage \in Pages \cup {NoPage} /\ generating \subseteq Pages
      /\ proposal \in {<<>>} \cup {<<d>> : d \in Documents}
      /\ \A w \in Pages : typedEdits[w] \subseteq 1..MaxEdits
      /\ strayed \in BOOLEAN
  BY DEF BuilderInv, BuilderPageOK
<1> QED
  BY <1>2, <1>1, <1>3, <1>4, <1>5, <1>6, <1>7 DEF BuilderTypeOK

\* A step that leaves documents and revisions as they are.
LEMMA QuietBuilderStep ==
  ASSUME BuilderInv, sends' \subseteq sends, BuilderQueriesOK',
         UNCHANGED <<revs, current, openPage, cache, editor, unseen, strayed, typedEdits, edits>>,
         approved' \subseteq Pages, generating' \subseteq Pages,
         \/ proposal' = proposal \/ proposal' = <<>>
         \/ \E d \in Documents : proposal' = <<d>> /\ (~strayed => d.of = openPage),
         puts' \in puts..MaxPuts, acts' \in acts..MaxActs
  PROVE  BuilderInv'
<1> USE DEF BuilderInv
<1>1. BuilderServerOK'
  BY DEF BuilderServerOK, RevisionOf
<1>2. StoreOK(editor)'
  BY DEF StoreOK
<1>3. BuilderPageOK'
  BY DEF BuilderPageOK, PageLoaded
<1>4. BuilderSendsOK'
  BY DEF BuilderSendsOK, RevisionOf, BuilderPageOK
<1>5. UnseenElsewhere' /\ DocumentsAtHome'
  BY DEF UnseenElsewhere, DocumentsAtHome
<1> QED
  BY <1>1, <1>2, <1>3, <1>4, <1>5

\* An edit, its undo or its redo.
LEMMA EditStep ==
  ASSUME BuilderInv, StoreOK(editor'), editor'.saved = editor.saved,
         editor'.doc.of = editor.doc.of, typedEdits' \in [Pages -> SUBSET (1..MaxEdits)],
         edits' \in 0..MaxEdits,
         UNCHANGED <<builderServer, builderView, sends, generating, unseen, strayed, puts, acts>>
  PROVE  BuilderInv'
<1> USE DEF BuilderInv, builderServer, builderView
<1>1. BuilderServerOK' /\ BuilderQueriesOK'
  BY DEF BuilderServerOK, BuilderQueriesOK, RevisionOf
<1>2. StoreOK(editor)'
  BY DEF StoreOK
<1>3. BuilderPageOK'
  BY DEF BuilderPageOK, PageLoaded
<1>4. BuilderSendsOK' /\ UnseenElsewhere'
  BY DEF BuilderSendsOK, RevisionOf, UnseenElsewhere
<1>5. DocumentsAtHome'
  BY DEF DocumentsAtHome
<1> QED
  BY <1>1, <1>2, <1>3, <1>4, <1>5

\* A new request names the page that is open and the revision the store shows.
LEMMA PostStep ==
  ASSUME BuilderInv, NEW why \in {"save", "accept", "restore"}, NEW doc \in Documents,
         Posts(why, doc), openPage \in Pages, editor.saved # 0,
         ~strayed => doc.of = openPage \/ (why = "save" /\ doc = editor.doc),
         typedEdits' \in [Pages -> SUBSET (1..MaxEdits)],
         puts' \in 0..MaxPuts, acts' \in 0..MaxActs,
         puts + acts + 1 \in 1..puts' + acts', 1..puts + acts \subseteq 1..puts' + acts',
         UNCHANGED <<builderServer, builderView, editor, generating, unseen, strayed, edits>>
  PROVE  BuilderInv'
<1>2. puts \in Nat /\ acts \in Nat /\ editor.saved \in DOMAIN revs /\ editor.saved \in Nat
      /\ 0 \notin DOMAIN revs
  BY LenProperties DEF BuilderInv, BuilderPageOK, StoreOK, BuilderServerOK
<1> DEFINE s == [n |-> puts + acts + 1, w |-> openPage, doc |-> doc, id |-> 0,
                 expected |-> editor.saved, kind |-> why, at |-> "sent"]
<1>1. sends' = sends \cup {s}
  BY DEF Posts, currentRevisionId
<1>5. /\ s \in [n : 1..puts' + acts', w : Pages, doc : Documents, expected : Nat, id : Nat,
                kind : {"save", "accept", "restore"},
                at : {"sent", "ok", "failed", "refetching"}]
      /\ s.expected \in DOMAIN revs /\ s.id = 0 /\ s.at = "sent"
  BY <1>2
<1> USE DEF BuilderInv, builderServer, builderView
<1>3. BuilderServerOK' /\ BuilderQueriesOK'
  BY DEF BuilderServerOK, BuilderQueriesOK, RevisionOf
<1>4. StoreOK(editor)' /\ BuilderPageOK'
  BY DEF StoreOK, BuilderPageOK, PageLoaded
<1>6. BuilderSendsOK'
  <2> HIDE DEF s
  <2> QED
    BY <1>1, <1>2, <1>5 DEF BuilderSendsOK, RevisionOf
<1>7. UnseenElsewhere'
  <2>1. s.expected \notin unseen /\ s.id \notin unseen
    BY <1>2 DEF UnseenElsewhere, BuilderServerOK
  <2> HIDE DEF s
  <2> QED
    BY <1>1, <2>1 DEF UnseenElsewhere
<1>8. DocumentsAtHome'
  <2>1. ~strayed => s.doc.of = s.w \/ (s.kind = "save" /\ s.doc.of = revs[s.expected].w)
    BY <1>2 DEF DocumentsAtHome
  <2> HIDE DEF s
  <2> QED
    BY <1>1, <2>1 DEF DocumentsAtHome
<1> QED
  BY <1>3, <1>4, <1>6, <1>7, <1>8

LEMMA ReviseGrows ==
  ASSUME BuilderServerOK, NEW w \in Pages, NEW doc \in Documents, Revise(w, doc)
  PROVE  /\ revs' \in Seq([w : Pages, doc : Documents])
         /\ Len(revs) \in Nat /\ DOMAIN revs = 1..Len(revs)
         /\ Len(revs') = Len(revs) + 1 /\ DOMAIN revs' = 1..(Len(revs) + 1)
         /\ \A i \in DOMAIN revs : i \in DOMAIN revs' /\ revs'[i] = revs[i]
         /\ revs'[Len(revs) + 1] = [w |-> w, doc |-> doc]
         /\ current' = [current EXCEPT ![w] = Len(revs) + 1]
<1>1. revs \in Seq([w : Pages, doc : Documents])
  BY DEF BuilderServerOK
<1>2. [w |-> w, doc |-> doc] \in [w : Pages, doc : Documents]
  OBVIOUS
<1>3. revs' = Append(revs, [w |-> w, doc |-> doc])
  BY DEF Revise
<1>4. /\ revs' \in Seq([w : Pages, doc : Documents])
      /\ Len(revs) \in Nat /\ DOMAIN revs = 1..Len(revs)
      /\ Len(revs') = Len(revs) + 1 /\ DOMAIN revs' = 1..(Len(revs) + 1)
      /\ \A i \in 1..Len(revs) : revs'[i] = revs[i]
      /\ revs'[Len(revs) + 1] = [w |-> w, doc |-> doc]
  BY <1>1, <1>2, <1>3
<1> QED
  BY <1>4 DEF Revise

LEMMA RenderKeeps ==
  ASSUME NEW store, StoreOK(store), store.saved \notin unseen, Render(store),
         BuilderServerOK, BuilderQueriesOK', openPage' \in Pages \cup {NoPage},
         UNCHANGED builderServer
  PROVE  /\ StoreOK(editor)' /\ BuilderServerOK'
         /\ PageLoaded' => editor'.saved # 0
         /\ store.saved # 0 => editor'.saved # 0
         /\ editor'.saved \notin unseen' /\ unseen' \subseteq unseen
         /\ \/ editor' = store
            \/ editor'.saved # store.saved /\ editor'.doc = revs[editor'.saved].doc
<1> USE DEF builderServer
<1>0. /\ DOMAIN revs = 1..Len(revs) /\ Len(revs) \in Nat
      /\ \A i \in DOMAIN revs : revs[i] \in [w : Pages, doc : Documents]
  BY LenProperties, ElementOfSeq DEF BuilderServerOK
<1>1. editor' = store \/ \E id \in DOMAIN revs : /\ id # store.saved
                                                 /\ editor' = setDocument(revs[id].doc, id)
  <2>1. CASE editor' = store
    BY <2>1
  <2>2. CASE editor' # store
    <3> DEFINE id == cache'[openPage'].id
    <3>1. /\ openPage' \in Pages /\ id # 0
          /\ store.doc = NoDocument \/ store.saved # id
          /\ editor' = setDocument(revs[id].doc, id)
      BY <2>2 DEF Render, Adopt, IdleFetch
    <3>2. id \in DOMAIN revs
      BY <3>1 DEF BuilderQueriesOK, RevisionOf
    <3>3. id # store.saved
      BY <3>1 DEF StoreOK
    <3> QED
      BY <3>1, <3>2, <3>3
  <2> QED
    BY <2>1, <2>2
<1>2. ASSUME NEW id \in DOMAIN revs
      PROVE  LET new == setDocument(revs[id].doc, id)
             IN StoreOK(new) /\ new.saved = id /\ id # 0 /\ new.doc = revs[id].doc
  <2>1. revs[id].doc \in Documents /\ id \in Nat \ {0}
    BY <1>0
  <2>2. revs[id].doc # NoDocument
    BY <2>1, BuilderAssumption DEF Documents, NoDocument
  <2>3. <<>> \in Seq(Kin(revs[id].doc))
    BY EmptySeq
  <2> QED
    BY <2>1, <2>2, <2>3 DEF StoreOK, setDocument
<1>3. StoreOK(editor')
  BY <1>1, <1>2
<1>4. StoreOK(editor)'
  BY <1>3 DEF StoreOK
<1>5. /\ store.saved # 0 => editor'.saved # 0
      /\ \/ editor' = store
         \/ editor'.saved # store.saved /\ editor'.doc = revs[editor'.saved].doc
  BY <1>1, <1>2
<1>6. editor'.saved \notin unseen' /\ unseen' \subseteq unseen
  BY DEF Render
<1>7. PageLoaded' => editor'.saved # 0
  <2> SUFFICES ASSUME PageLoaded', store.saved = 0
               PROVE  editor'.saved # 0
    BY <1>5
  <2>1. editor' = setDocument(revs[cache'[openPage'].id].doc, cache'[openPage'].id)
    BY DEF Render, Adopt, PageLoaded, StoreOK
  <2> QED
    BY <2>1 DEF setDocument, PageLoaded
<1>8. BuilderServerOK'
  BY <1>6 DEF BuilderServerOK, RevisionOf
<1> QED
  BY <1>4, <1>5, <1>6, <1>7, <1>8

\* One request changes what it holds, and the cache takes over one page at most.
LEMMA QueriesKept ==
  ASSUME BuilderQueriesOK, revs' = revs, NEW w \in Pages,
         NEW f \in [at : {"idle", "sent", "read"}, id : Nat, approved : BOOLEAN],
         f.at = "read" => RevisionOf(f.id, w),
         builderFetch' = [builderFetch EXCEPT ![w] = f],
         \/ cache' = cache
         \/ \E c \in Cached : RevisionOf(c.id, w) /\ cache' = [cache EXCEPT ![w] = c]
  PROVE  BuilderQueriesOK'
<1>1. /\ builderFetch' \in [Pages -> [at : {"idle", "sent", "read"}, id : Nat,
                                      approved : BOOLEAN]]
      /\ \A v \in Pages : builderFetch'[v].at = "read" => RevisionOf(builderFetch'[v].id, v)
  BY DEF BuilderQueriesOK
<1>2. /\ cache' \in [Pages -> Cached]
      /\ \A v \in Pages : cache'[v].id # 0 => RevisionOf(cache'[v].id, v)
  BY DEF BuilderQueriesOK
<1> QED
  BY <1>1, <1>2 DEF BuilderQueriesOK, RevisionOf

\* What a render leaves of the invariant when requests and proposal stay.
LEMMA RenderInv ==
  ASSUME BuilderInv, NEW store, StoreOK(store), store.saved \notin unseen,
         editor.saved # 0 => store.saved # 0, Render(store),
         BuilderQueriesOK', openPage' \in Pages \cup {NoPage},
         ~strayed' => /\ DocumentsAtHome
                      /\ editor'.saved # 0 => editor'.doc.of = revs[editor'.saved].w
                      /\ proposal # <<>> => openPage' = openPage,
         ~strayed' => ~strayed, strayed' \in BOOLEAN,
         \A t \in sends' : \E s \in sends :
            t = s \/ (s.id # 0 /\ t = [s EXCEPT !.at = "refetching"]),
         \A s \in sends : s.id # 0 => s.id \notin unseen,
         UNCHANGED <<builderServer, proposal, generating, typedEdits, edits, puts, acts>>
  PROVE  BuilderInv'
<1> USE DEF builderServer
<1>1. /\ StoreOK(editor)' /\ BuilderServerOK'
      /\ PageLoaded' => editor'.saved # 0
      /\ store.saved # 0 => editor'.saved # 0
      /\ editor'.saved \notin unseen' /\ unseen' \subseteq unseen
  BY RenderKeeps DEF BuilderInv
<1>2. BuilderPageOK'
  BY <1>1 DEF BuilderInv, BuilderPageOK
<1>3. BuilderSendsOK'
  BY <1>1 DEF BuilderInv, BuilderSendsOK, RevisionOf
<1>6. \A t \in sends' : \E s \in sends :
         /\ t.id = s.id /\ t.expected = s.expected /\ t.w = s.w /\ t.doc = s.doc
         /\ t.kind = s.kind
  BY DEF BuilderInv, BuilderSendsOK
<1>4. UnseenElsewhere'
  BY <1>1, <1>6 DEF BuilderInv, UnseenElsewhere
<1>5. DocumentsAtHome'
  BY <1>6 DEF BuilderInv, DocumentsAtHome
<1> QED
  BY <1>1, <1>2, <1>3, <1>4, <1>5 DEF BuilderInv

LEMMA OpenBuilderInv ==
  ASSUME BuilderInv, NEW w \in Pages, OpenBuilder(w)
  PROVE  BuilderInv'
<1> USE DEF histories
<1>1. BuilderQueriesOK'
  <2>1. /\ BuilderQueriesOK /\ cache' = cache /\ revs' = revs
        /\ \/ builderFetch' = [builderFetch EXCEPT ![w] = Asked]
           \/ builderFetch' = builderFetch
    BY DEF BuilderInv, OpenBuilder, builderServer
  <2>2. /\ Asked \in [at : {"idle", "sent", "read"}, id : Nat, approved : BOOLEAN]
        /\ Asked.at # "read"
    BY DEF Asked, IdleFetch
  <2>3. CASE builderFetch' = builderFetch
    BY <2>1, <2>3 DEF BuilderQueriesOK, RevisionOf
  <2> QED
    BY <2>1, <2>2, <2>3, QueriesKept
<1>2. /\ StoreOK(editor) /\ editor.saved \notin unseen
      /\ \A s \in sends : s.id # 0 => s.id \notin unseen
  BY DEF BuilderInv, UnseenElsewhere
<1>3. /\ Render(editor) /\ openPage' \in Pages \cup {NoPage} /\ openPage = NoPage
      /\ UNCHANGED <<builderServer, proposal, generating, typedEdits, edits, puts, acts,
                     sends, strayed>>
  BY DEF OpenBuilder
<1>4. ~strayed => proposal = <<>>
  BY <1>3, BuilderAssumption
     DEF BuilderInv, DocumentsAtHome, BuilderPageOK, Documents
<1>5. /\ editor' = editor \/ editor'.doc = revs[editor'.saved].doc
      /\ StoreOK(editor)'
  BY <1>1, <1>2, <1>3, RenderKeeps DEF BuilderInv
<1>6. ASSUME ~strayed, editor'.saved # 0
      PROVE  editor'.doc.of = revs[editor'.saved].w
  BY <1>3, <1>5, <1>6 DEF BuilderInv, DocumentsAtHome, StoreOK, builderServer
<1>7. DocumentsAtHome /\ strayed \in BOOLEAN
  BY DEF BuilderInv, BuilderPageOK
<1> QED
  BY <1>1, <1>2, <1>3, <1>4, <1>6, <1>7, RenderInv

LEMMA WorkspaceFetchedInv ==
  ASSUME BuilderInv, NEW w \in Pages, WorkspaceFetched(w)
  PROVE  BuilderInv'
<1> USE DEF histories
<1>1. BuilderQueriesOK'
  <2> DEFINE c == [id |-> builderFetch[w].id, approved |-> builderFetch[w].approved]
  <2>1. /\ BuilderQueriesOK /\ revs' = revs /\ builderFetch[w].at = "read"
        /\ builderFetch' = [builderFetch EXCEPT ![w] = IdleFetch]
        /\ cache' = cache \/ cache' = [cache EXCEPT ![w] = c]
    BY DEF BuilderInv, WorkspaceFetched, builderServer
  <2>2. /\ IdleFetch \in [at : {"idle", "sent", "read"}, id : Nat, approved : BOOLEAN]
        /\ IdleFetch.at # "read"
    BY DEF IdleFetch
  <2>3. c \in Cached /\ RevisionOf(c.id, w)
    BY <2>1 DEF BuilderQueriesOK, Cached
  <2> QED
    BY <2>1, <2>2, <2>3, QueriesKept
<1>2. /\ StoreOK(editor) /\ editor.saved \notin unseen
      /\ \A s \in sends : s.id # 0 => s.id \notin unseen
  BY DEF BuilderInv, UnseenElsewhere
<1>3. /\ Render(editor) /\ openPage' = openPage /\ openPage \in Pages \cup {NoPage}
      /\ UNCHANGED <<builderServer, proposal, generating, typedEdits, edits, puts, acts,
                     sends, strayed>>
  BY DEF WorkspaceFetched, bounds, BuilderInv, BuilderPageOK
<1>5. /\ editor' = editor \/ editor'.doc = revs[editor'.saved].doc
      /\ StoreOK(editor)'
  BY <1>1, <1>2, <1>3, RenderKeeps DEF BuilderInv
<1>6. ASSUME ~strayed, editor'.saved # 0
      PROVE  editor'.doc.of = revs[editor'.saved].w
  BY <1>3, <1>5, <1>6 DEF BuilderInv, DocumentsAtHome, StoreOK, builderServer
<1>7. DocumentsAtHome /\ strayed \in BOOLEAN
  BY DEF BuilderInv, BuilderPageOK
<1> QED
  BY <1>1, <1>2, <1>3, <1>6, <1>7, RenderInv

\* A request that was taken has a revision, and it marks the store with it.
LEMMA SaveEndsInv ==
  ASSUME BuilderInv, NEW s \in sends, SaveEnds(s)
  PROVE  BuilderInv'
<1>1. CASE s.at = "ok"
  <2>1. /\ Render(markSaved(s.id)) /\ openPage' = openPage /\ cache' = cache
        /\ openPage \in Pages \cup {NoPage}
        /\ strayed' = (strayed \/ (editor'.saved = s.id /\ editor'.doc.of # s.w))
        /\ builderFetch' = [builderFetch EXCEPT ![s.w] = Asked]
        /\ UNCHANGED <<builderServer, proposal, generating, typedEdits, edits, puts, acts>>
    BY <1>1 DEF SaveEnds, bounds, BuilderInv, BuilderPageOK
  <2>2. s.w \in Pages /\ s.id # 0 /\ RevisionOf(s.id, s.w) /\ editor.saved # 0
        /\ s.id \notin unseen /\ s.id \in Nat
    BY <1>1 DEF BuilderInv, BuilderSendsOK, UnseenElsewhere
  <2>3. BuilderQueriesOK'
    <3>1. /\ Asked \in [at : {"idle", "sent", "read"}, id : Nat, approved : BOOLEAN]
          /\ Asked.at # "read"
      BY DEF Asked, IdleFetch
    <3> QED
      BY <2>1, <2>2, <3>1, QueriesKept DEF BuilderInv, builderServer
  <2>4. /\ StoreOK(markSaved(s.id)) /\ markSaved(s.id).saved = s.id
        /\ markSaved(s.id).doc = editor.doc
    <3>1. <<>> \in Seq(Kin(editor.doc))
      BY EmptySeq
    <3> QED
      BY <2>2, <3>1 DEF BuilderInv, StoreOK, markSaved, RevisionOf
  <2>5. /\ StoreOK(editor)'
        /\ \/ editor' = markSaved(s.id)
           \/ editor'.saved # s.id /\ editor'.doc = revs[editor'.saved].doc
    <3> DEFINE store == markSaved(s.id)
    <3>1. StoreOK(store) /\ store.saved = s.id /\ store.saved \notin unseen /\ Render(store)
      BY <2>1, <2>2, <2>4
    <3> HIDE DEF store
    <3>2. BuilderServerOK /\ openPage' \in Pages \cup {NoPage} /\ UNCHANGED builderServer
      BY <2>1 DEF BuilderInv
    <3>3. /\ StoreOK(editor)'
          /\ \/ editor' = store
             \/ editor'.saved # store.saved /\ editor'.doc = revs[editor'.saved].doc
      BY <2>3, <3>1, <3>2, RenderKeeps
    <3> QED
      BY <3>1, <3>3 DEF store
  <2>6. ASSUME ~strayed'
        PROVE  ~strayed /\ (editor'.saved # 0 => editor'.doc.of = revs[editor'.saved].w)
    BY <2>1, <2>2, <2>4, <2>5, <2>6
       DEF BuilderInv, DocumentsAtHome, StoreOK, RevisionOf, builderServer
  <2>7. DocumentsAtHome /\ strayed' \in BOOLEAN
    BY <2>1 DEF BuilderInv, BuilderPageOK
  <2>8. sends' = (sends \ {s}) \cup (IF s.kind = "accept"
                                     THEN {[s EXCEPT !.at = "refetching"]} ELSE {})
    BY <1>1 DEF SaveEnds
  <2>9. \A t \in sends : t.id # 0 => t.id \notin unseen
    BY DEF BuilderInv, UnseenElsewhere
  <2>10. \A t \in sends' : \E r \in sends :
            t = r \/ (r.id # 0 /\ t = [r EXCEPT !.at = "refetching"])
    BY <2>2, <2>8
  <2> DEFINE store == markSaved(s.id)
  <2>11. StoreOK(store) /\ store.saved # 0 /\ store.saved \notin unseen /\ Render(store)
    BY <2>1, <2>2, <2>4
  <2> HIDE DEF store
  <2> QED
    BY <2>1, <2>3, <2>6, <2>7, <2>9, <2>10, <2>11, RenderInv
<1>2. CASE s.at # "ok"
  <2>1. /\ sends' \subseteq sends
        /\ UNCHANGED <<builderServer, builderView, editor, unseen, strayed, generating,
                       typedEdits, edits, puts, acts>>
    BY <1>2 DEF SaveEnds, bounds, builderView
  <2>2. /\ BuilderQueriesOK' /\ approved \subseteq Pages /\ generating \subseteq Pages
        /\ puts \in puts..MaxPuts /\ acts \in acts..MaxActs
    BY <2>1 DEF BuilderInv, BuilderServerOK, BuilderQueriesOK, RevisionOf, BuilderPageOK,
                builderServer, builderView
  <2> QED
    BY <2>1, <2>2, QuietBuilderStep DEF builderServer, builderView
<1> QED
  BY <1>1, <1>2

\* What every state with the invariant gives the quiet steps.
LEMMA QuietFacts ==
  ASSUME BuilderInv
  PROVE  /\ approved \subseteq Pages /\ generating \subseteq Pages
         /\ puts \in puts..MaxPuts /\ acts \in acts..MaxActs /\ acts \in Nat
         /\ openPage \in Pages \cup {NoPage} /\ puts \in Nat
         /\ BuilderQueriesOK /\ (UNCHANGED <<revs, cache, builderFetch>> => BuilderQueriesOK')
<1>1. /\ approved \subseteq Pages /\ generating \subseteq Pages
      /\ openPage \in Pages \cup {NoPage} /\ BuilderQueriesOK
      /\ puts \in 0..MaxPuts /\ acts \in 0..MaxActs
  BY DEF BuilderInv, BuilderServerOK, BuilderPageOK
<1>2. puts \in puts..MaxPuts /\ acts \in acts..MaxActs /\ acts \in Nat /\ puts \in Nat
  BY <1>1, BuilderAssumption
<1>3. UNCHANGED <<revs, cache, builderFetch>> => BuilderQueriesOK'
  BY <1>1 DEF BuilderQueriesOK, RevisionOf
<1> QED
  BY <1>1, <1>2, <1>3

LEMMA RestoreEndsInv ==
  ASSUME BuilderInv, NEW s \in sends, RestoreEnds(s)
  PROVE  BuilderInv'
<1> USE DEF histories, bounds
<1>1. CASE s.at = "ok"
  <2> DEFINE store == setDocument(s.doc, s.id)
  <2>1. /\ Render(store) /\ openPage' = openPage /\ cache' = cache
        /\ openPage \in Pages \cup {NoPage} /\ strayed' = strayed
        /\ sends' = sends \ {s} /\ builderFetch' = builderFetch
        /\ UNCHANGED <<builderServer, proposal, generating, typedEdits, edits, puts, acts>>
    BY <1>1, QuietFacts DEF RestoreEnds
  <2>2. s.w \in Pages /\ s.id # 0 /\ RevisionOf(s.id, s.w) /\ s.doc \in Documents
        /\ s.id \notin unseen /\ s.id \in Nat /\ s.kind = "restore"
    BY <1>1 DEF BuilderInv, BuilderSendsOK, UnseenElsewhere, RestoreEnds
  <2>3. BuilderQueriesOK'
    BY <2>1, QuietFacts DEF builderServer
  <2>4. StoreOK(store) /\ store.saved = s.id /\ store.doc = s.doc
    <3>1. <<>> \in Seq(Kin(s.doc)) /\ s.doc # NoDocument
      BY EmptySeq, <2>2, BuilderAssumption DEF Documents, NoDocument
    <3> QED
      BY <2>2, <3>1 DEF StoreOK, setDocument, RevisionOf
  <2> HIDE DEF store
  <2>5. editor' = store \/ editor'.doc = revs[editor'.saved].doc
    BY <2>1, <2>2, <2>3, <2>4, RenderKeeps DEF BuilderInv
  <2>6. StoreOK(editor)'
    BY <2>1, <2>2, <2>3, <2>4, RenderKeeps DEF BuilderInv
  <2>7. ASSUME ~strayed', editor'.saved # 0
        PROVE  editor'.doc.of = revs[editor'.saved].w
    BY <2>1, <2>2, <2>4, <2>5, <2>6, <2>7
       DEF BuilderInv, DocumentsAtHome, StoreOK, RevisionOf, builderServer
  <2>8. /\ DocumentsAtHome /\ strayed' \in BOOLEAN
        /\ \A t \in sends : t.id # 0 => t.id \notin unseen
    BY <2>1 DEF BuilderInv, BuilderPageOK, UnseenElsewhere
  <2> QED
    BY <2>1, <2>2, <2>3, <2>4, <2>7, <2>8, RenderInv
<1>2. CASE s.at # "ok"
  <2>1. /\ sends' \subseteq sends
        /\ UNCHANGED <<builderServer, openPage, cache, builderFetch, proposal, editor, unseen,
                       strayed, generating, typedEdits, edits, puts, acts>>
    BY <1>2 DEF RestoreEnds
  <2> QED
    BY <2>1, QuietFacts, QuietBuilderStep DEF builderServer
<1> QED
  BY <1>1, <1>2

LEMMA LeaveBuilderInv ==
  ASSUME BuilderInv, LeaveBuilder
  PROVE  BuilderInv'
<1> USE DEF BuilderInv, LeaveBuilder, builderServer, histories, bounds
<1>1. BuilderServerOK' /\ BuilderQueriesOK'
  BY DEF BuilderServerOK, BuilderQueriesOK, RevisionOf
<1>2. StoreOK(editor)'
  BY DEF StoreOK
<1>3. BuilderPageOK'
  BY DEF BuilderPageOK, PageLoaded
<1>4. \A t \in sends' : \E s \in sends :
         /\ t \in [n : 1..puts + acts, w : Pages, doc : Documents, expected : Nat, id : Nat,
                   kind : {"save", "accept", "restore"},
                   at : {"sent", "ok", "failed", "refetching"}]
         /\ t.id = s.id /\ t.expected = s.expected /\ t.w = s.w /\ t.doc = s.doc
         /\ t.at = s.at /\ (t.kind = s.kind \/ s.kind = "accept")
  BY DEF BuilderSendsOK
<1>5. BuilderSendsOK'
  BY <1>4 DEF BuilderSendsOK, RevisionOf
<1>6. UnseenElsewhere'
  BY <1>4 DEF UnseenElsewhere
<1>7. DocumentsAtHome'
  BY <1>4 DEF DocumentsAtHome
<1> QED
  BY <1>1, <1>2, <1>3, <1>5, <1>6, <1>7

LEMMA GetWorkspaceInv ==
  ASSUME BuilderInv, NEW w \in Pages, get_workspace(w)
  PROVE  BuilderInv'
<1> USE DEF histories, bounds, builderServer
<1> DEFINE f == [at |-> "read", id |-> current[w], approved |-> w \in approved]
<1>1. /\ f \in [at : {"idle", "sent", "read"}, id : Nat, approved : BOOLEAN]
      /\ RevisionOf(f.id, w)
  BY DEF BuilderInv, BuilderServerOK
<1>2. builderFetch' = [builderFetch EXCEPT ![w] = f]
      /\ UNCHANGED <<revs, cache, current, openPage, editor, unseen, strayed, typedEdits, edits,
                     approved, generating, proposal, sends, puts, acts>>
  BY DEF get_workspace
<1> HIDE DEF f
<1>3. BuilderQueriesOK'
  BY <1>1, <1>2, QuietFacts, QueriesKept
<1> QED
  BY <1>2, <1>3, QuietFacts, QuietBuilderStep

LEMMA updateDocumentInv ==
  ASSUME BuilderInv, updateDocument
  PROVE  BuilderInv'
<1>1. /\ editor.doc \in Documents /\ openPage \in Pages /\ edits' = edits + 1
      /\ edits' \in 1..MaxEdits /\ StoreOK(editor) /\ editor.saved # 0
  BY BuilderAssumption
     DEF BuilderInv, BuilderPageOK, StoreOK, updateDocument, Editable, PageLoaded
<1> DEFINE doc == [editor.doc EXCEPT !.edits = @ \cup {edits'}]
<1>2. /\ doc \in Documents /\ doc.of = editor.doc.of /\ Kin(doc) = Kin(editor.doc)
      /\ editor.doc \in Kin(editor.doc) /\ doc # NoDocument
  BY <1>1, BuilderAssumption DEF Documents, Kin, NoDocument
<1>3. Append(editor.undo, editor.doc) \in Seq(Kin(editor.doc))
  BY <1>1, <1>2 DEF StoreOK
<1>4. <<>> \in Seq(Kin(editor.doc))
  BY EmptySeq
<1>5. editor' = [doc |-> doc, saved |-> editor.saved, dirty |-> TRUE,
                 undo |-> Append(editor.undo, editor.doc), redo |-> <<>>]
  BY <1>1 DEF updateDocument, StoreOK
<1> HIDE DEF doc
<1>6. StoreOK(editor') /\ editor'.saved = editor.saved /\ editor'.doc.of = editor.doc.of
  BY <1>1, <1>2, <1>3, <1>4, <1>5 DEF StoreOK
<1>7. typedEdits' \in [Pages -> SUBSET (1..MaxEdits)]
  BY <1>1 DEF updateDocument, BuilderInv, BuilderPageOK
<1> QED
  BY <1>1, <1>6, <1>7, EditStep DEF updateDocument

LEMMA undoChangeInv ==
  ASSUME BuilderInv, undoChange
  PROVE  BuilderInv'
<1> DEFINE n == Len(editor.undo)
           S == Kin(editor.doc)
           doc == editor.undo[n]
<1>1. /\ editor.doc \in Documents /\ openPage \in Pages
      /\ StoreOK(editor) /\ editor.saved # 0 /\ n > 0
      /\ editor.undo \in Seq(S) /\ editor.redo \in Seq(S) /\ editor.doc \in S
  BY DEF BuilderInv, BuilderPageOK, StoreOK, undoChange, Editable, PageLoaded, Kin
<1>2. doc \in S /\ n \in Nat /\ \A i \in 1..(n - 1) : editor.undo[i] \in S
  BY <1>1, LenProperties, ElementOfSeq
<1>3. doc \in Documents /\ doc.of = editor.doc.of /\ Kin(doc) = S /\ doc # NoDocument
  BY <1>2, BuilderAssumption DEF Kin, Documents, NoDocument
<1>4. SubSeq(editor.undo, 1, n - 1) \in Seq(S)
  BY <1>2, SubSeqProperties
<1>5. <<editor.doc>> \o editor.redo \in Seq(S)
  <2>1. <<editor.doc>> \in Seq(S)
    BY <1>1
  <2> QED
    BY <1>1, <2>1, ConcatProperties
<1>6. editor' = [doc |-> doc, saved |-> editor.saved, dirty |-> TRUE,
                 undo |-> SubSeq(editor.undo, 1, n - 1), redo |-> <<editor.doc>> \o editor.redo]
  BY <1>1 DEF undoChange, StoreOK
<1>7. StoreOK(editor') /\ editor'.saved = editor.saved /\ editor'.doc.of = editor.doc.of
  <2> HIDE DEF doc, n, S
  <2> QED
    BY <1>1, <1>3, <1>4, <1>5, <1>6 DEF StoreOK
<1>8. typedEdits' \in [Pages -> SUBSET (1..MaxEdits)] /\ edits' \in 0..MaxEdits
  BY <1>1 DEF undoChange, BuilderInv, BuilderPageOK, bounds
<1> QED
  BY <1>7, <1>8, EditStep DEF undoChange, bounds

LEMMA redoChangeInv ==
  ASSUME BuilderInv, redoChange
  PROVE  BuilderInv'
<1> DEFINE S == Kin(editor.doc)
           doc == Head(editor.redo)
<1>1. /\ editor.doc \in Documents /\ openPage \in Pages
      /\ StoreOK(editor) /\ editor.saved # 0 /\ editor.redo # <<>>
      /\ editor.undo \in Seq(S) /\ editor.redo \in Seq(S) /\ editor.doc \in S
  BY DEF BuilderInv, BuilderPageOK, StoreOK, redoChange, Editable, PageLoaded, Kin
<1>2. doc \in S /\ Tail(editor.redo) \in Seq(S)
  BY <1>1, HeadTailProperties
<1>3. /\ doc \in Documents /\ doc.of = editor.doc.of /\ Kin(doc) = S /\ doc # NoDocument
      /\ (doc.edits \ editor.doc.edits) \subseteq 1..MaxEdits
  BY <1>1, <1>2, BuilderAssumption DEF Kin, Documents, NoDocument
<1>4. Append(editor.undo, editor.doc) \in Seq(S)
  BY <1>1
<1>6. editor' = [doc |-> doc, saved |-> editor.saved, dirty |-> TRUE,
                 undo |-> Append(editor.undo, editor.doc), redo |-> Tail(editor.redo)]
  BY <1>1 DEF redoChange, StoreOK
<1>7. StoreOK(editor') /\ editor'.saved = editor.saved /\ editor'.doc.of = editor.doc.of
  <2> HIDE DEF doc, S
  <2> QED
    BY <1>1, <1>2, <1>3, <1>4, <1>6 DEF StoreOK
<1>8. typedEdits' \in [Pages -> SUBSET (1..MaxEdits)] /\ edits' \in 0..MaxEdits
  <2>1. editor'.doc = doc
    BY <1>6
  <2>2. typedEdits' = [typedEdits EXCEPT ![openPage] = @ \cup (doc.edits \ editor.doc.edits)]
    BY <2>1 DEF redoChange
  <2> HIDE DEF doc
  <2> QED
    BY <1>1, <1>3, <2>2 DEF redoChange, BuilderInv, BuilderPageOK, bounds
<1> QED
  BY <1>7, <1>8, EditStep DEF redoChange, bounds

LEMMA saveInv ==
  ASSUME BuilderInv, save
  PROVE  BuilderInv'
<1>1. /\ editor.doc \in Documents /\ openPage \in Pages /\ editor.saved # 0
  BY DEF BuilderInv, BuilderPageOK, StoreOK, save
<1>2. /\ Posts("save", editor.doc) /\ puts' = puts + 1 /\ puts' \in 0..MaxPuts /\ acts' = acts
      /\ UNCHANGED <<builderServer, builderView, editor, generating, histories, unseen, edits>>
  BY QuietFacts, BuilderAssumption DEF save, Put
<1>3. typedEdits' \in [Pages -> SUBSET (1..MaxEdits)] /\ acts' \in 0..MaxActs
  BY <1>2, QuietFacts DEF BuilderInv, BuilderPageOK, histories
<1>4. puts + acts + 1 \in 1..puts' + acts' /\ 1..puts + acts \subseteq 1..puts' + acts'
  BY <1>2, QuietFacts
<1> QED
  BY <1>1, <1>2, <1>3, <1>4, PostStep DEF histories

LEMMA acceptProposalInv ==
  ASSUME BuilderInv, acceptProposal
  PROVE  BuilderInv'
<1>1. /\ proposal[1] \in Documents /\ openPage \in Pages /\ editor.saved # 0
      /\ ~strayed => proposal[1].of = openPage
  BY DEF BuilderInv, BuilderPageOK, PageLoaded, acceptProposal, DocumentsAtHome
<1>2. /\ Posts("accept", proposal[1]) /\ puts' = puts + 1 /\ puts' \in 0..MaxPuts /\ acts' = acts
      /\ UNCHANGED <<builderServer, builderView, editor, generating, histories, unseen, edits>>
  BY QuietFacts, BuilderAssumption DEF acceptProposal, Put
<1>3. typedEdits' \in [Pages -> SUBSET (1..MaxEdits)] /\ acts' \in 0..MaxActs
  BY <1>2, QuietFacts DEF BuilderInv, BuilderPageOK, histories
<1>4. puts + acts + 1 \in 1..puts' + acts' /\ 1..puts + acts \subseteq 1..puts' + acts'
  BY <1>2, QuietFacts
<1> QED
  BY <1>1, <1>2, <1>3, <1>4, PostStep DEF histories

LEMMA restoreRevisionInv ==
  ASSUME BuilderInv, NEW id \in DOMAIN revs, restore_revision(id)
  PROVE  BuilderInv'
<1>1. /\ revs[id].doc \in Documents /\ revs[id].w = openPage /\ openPage \in Pages
      /\ editor.saved # 0 /\ acts' = acts + 1 /\ acts < MaxActs
      /\ ~strayed => revs[id].doc.of = openPage
  <2>1. revs[id] \in [w : Pages, doc : Documents]
    BY LenProperties, ElementOfSeq DEF BuilderInv, BuilderServerOK
  <2> QED
    BY <2>1 DEF BuilderInv, BuilderPageOK, DocumentsAtHome, StoreOK, restore_revision, Act,
                Editable
<1>2. /\ Posts("restore", revs[id].doc) /\ puts' = puts
      /\ UNCHANGED <<builderServer, builderView, editor, generating, unseen, strayed, edits>>
  BY DEF restore_revision, Act
<1>3. typedEdits' \in [Pages -> SUBSET (1..MaxEdits)]
  BY <1>1 DEF restore_revision, BuilderInv, BuilderPageOK
<1>4. acts' \in 0..MaxActs /\ puts' \in 0..MaxPuts
  BY <1>1, <1>2, QuietFacts, BuilderAssumption
<1>5. puts + acts + 1 \in 1..puts' + acts' /\ 1..puts + acts \subseteq 1..puts' + acts'
  BY <1>1, <1>2, QuietFacts
<1> QED
  BY <1>1, <1>2, <1>3, <1>4, <1>5, PostStep

LEMMA AcceptEndsInv ==
  ASSUME BuilderInv, NEW s \in sends, AcceptEnds(s)
  PROVE  BuilderInv'
BY QuietFacts, QuietBuilderStep DEF AcceptEnds, builderServer, histories, bounds

LEMMA closeProposalInv ==
  ASSUME BuilderInv, closeProposal
  PROVE  BuilderInv'
BY QuietFacts, QuietBuilderStep DEF closeProposal, builderServer, histories, bounds

LEMMA RewrittenStaysHome ==
  ASSUME BuilderInv, NEW w \in Pages
  PROVE  Rewritten(w) \in Documents /\ (~strayed => Rewritten(w).of = w)
<1>1. revs[current[w]] \in [w : Pages, doc : Documents] /\ RevisionOf(current[w], w)
  BY LenProperties, ElementOfSeq DEF BuilderInv, BuilderServerOK, RevisionOf
<1>2. 0 \in 0..MaxEdits
  BY BuilderAssumption
<1> QED
  BY <1>1, <1>2 DEF Rewritten, Documents, BuilderInv, DocumentsAtHome, RevisionOf

LEMMA previewRefinementInv ==
  ASSUME BuilderInv, previewRefinement
  PROVE  BuilderInv'
<1>1. /\ openPage \in Pages /\ acts' \in acts..MaxActs /\ puts' = puts /\ edits' = edits
  BY QuietFacts, BuilderAssumption DEF previewRefinement, Act, Editable, PageLoaded
<1>2. proposal' = <<Rewritten(openPage)>>
      /\ Rewritten(openPage) \in Documents /\ (~strayed => Rewritten(openPage).of = openPage)
  BY <1>1, RewrittenStaysHome DEF previewRefinement
<1>3. UNCHANGED <<builderServer, openPage, cache, builderFetch, editor, sends,
                  generating, histories, unseen>>
  BY DEF previewRefinement
<1> QED
  BY <1>1, <1>2, <1>3, QuietFacts, QuietBuilderStep DEF builderServer, histories

LEMMA approveWorkspaceInv ==
  ASSUME BuilderInv, approve_workspace
  PROVE  BuilderInv'
<1>1. /\ openPage \in Pages /\ acts' \in acts..MaxActs /\ puts' = puts /\ edits' = edits
  BY QuietFacts, BuilderAssumption DEF approve_workspace, Act, Editable, PageLoaded
<1>2. /\ approved' \subseteq Pages /\ builderFetch' = [builderFetch EXCEPT ![openPage] = Asked]
      /\ UNCHANGED <<revs, current, openPage, cache, proposal, editor, sends,
                     generating, histories, unseen>>
  BY <1>1, QuietFacts DEF approve_workspace
<1>3. /\ Asked \in [at : {"idle", "sent", "read"}, id : Nat, approved : BOOLEAN]
      /\ Asked.at # "read"
  BY DEF Asked, IdleFetch
<1>4. BuilderQueriesOK'
  BY <1>1, <1>2, <1>3, QuietFacts, QueriesKept
<1> QED
  BY <1>1, <1>2, <1>4, QuietFacts, QuietBuilderStep DEF histories

LEMMA generateInv ==
  ASSUME BuilderInv, generate
  PROVE  BuilderInv'
<1>1. /\ openPage \in Pages /\ acts' \in acts..MaxActs /\ puts' = puts /\ edits' = edits
  BY QuietFacts, BuilderAssumption DEF generate, Act, Editable, PageLoaded
<1>2. /\ generating' \subseteq Pages
      /\ UNCHANGED <<builderServer, builderView, editor, sends, histories, unseen>>
  BY <1>1, QuietFacts DEF generate
<1> QED
  BY <1>1, <1>2, QuietFacts, QuietBuilderStep DEF histories, builderServer, builderView

\* A new revision: the requests and queries keep naming the old ones.
LEMMA GrowthKeeps ==
  ASSUME BuilderInv, NEW w \in Pages, NEW doc \in Documents, Revise(w, doc),
         ~strayed => doc.of = w, editor' = editor, approved' = approved,
         unseen' \subseteq unseen \cup {Len(revs) + 1},
         UNCHANGED <<openPage, cache, proposal, strayed>>,
         \/ builderFetch' = builderFetch \/ builderFetch' = [builderFetch EXCEPT ![w] = Asked]
  PROVE  /\ BuilderServerOK' /\ BuilderQueriesOK' /\ StoreOK(editor)'
         /\ PageLoaded' => editor'.saved # 0
         /\ editor'.saved \notin unseen'
         /\ ~strayed' => /\ \A i \in DOMAIN revs' : revs'[i].doc.of = revs'[i].w
                         /\ editor'.saved # 0 => editor'.doc.of = revs'[editor'.saved].w
<1>1. BuilderServerOK
  BY DEF BuilderInv
<1> DEFINE top == Len(revs) + 1
<1>2. /\ revs' \in Seq([w : Pages, doc : Documents])
      /\ Len(revs) \in Nat /\ DOMAIN revs = 1..Len(revs)
      /\ Len(revs') = top /\ DOMAIN revs' = 1..top
      /\ \A i \in DOMAIN revs : i \in DOMAIN revs' /\ revs'[i] = revs[i]
      /\ revs'[top] = [w |-> w, doc |-> doc]
      /\ current' = [current EXCEPT ![w] = top]
  BY <1>1, ReviseGrows
<1>3. top \in DOMAIN revs' /\ top \notin DOMAIN revs /\ top \in Nat \ {0}
      /\ revs'[top].w = w /\ revs'[top].doc = doc
  BY <1>2
<1> HIDE DEF top
<1>4. BuilderServerOK'
  <2>1. current' \in [Pages -> Nat] /\ \A v \in Pages : RevisionOf(current[v], v)'
    BY <1>1, <1>2, <1>3 DEF BuilderServerOK, RevisionOf
  <2>2. approved' \subseteq Pages /\ unseen' \subseteq DOMAIN revs'
    BY <1>1, <1>2, <1>3 DEF BuilderServerOK, top
  <2> QED
    BY <1>2, <2>1, <2>2 DEF BuilderServerOK
<1>5. BuilderQueriesOK'
  <2>1. BuilderQueriesOK /\ Asked.at # "read"
        /\ Asked \in [at : {"idle", "sent", "read"}, id : Nat, approved : BOOLEAN]
    BY DEF BuilderInv, Asked, IdleFetch
  <2>2. \A v, i : RevisionOf(i, v) => i \in DOMAIN revs' /\ revs'[i].w = v
    BY <1>2 DEF RevisionOf
  <2>3. /\ cache' \in [Pages -> Cached]
        /\ \A v \in Pages : cache'[v].id # 0 => /\ cache'[v].id \in DOMAIN revs'
                                               /\ revs'[cache'[v].id].w = v
    BY <2>1, <2>2 DEF BuilderQueriesOK
  <2>4. builderFetch' \in [Pages -> [at : {"idle", "sent", "read"}, id : Nat,
                                     approved : BOOLEAN]]
    BY <2>1 DEF BuilderQueriesOK
  <2>5. \A v \in Pages : builderFetch'[v].at = "read" => builderFetch'[v] = builderFetch[v]
    BY <2>1 DEF BuilderQueriesOK
  <2>6. \A v \in Pages : builderFetch'[v].at = "read"
                         => /\ builderFetch'[v].id \in DOMAIN revs'
                            /\ revs'[builderFetch'[v].id].w = v
    BY <2>1, <2>2, <2>5 DEF BuilderQueriesOK
  <2> QED
    BY <2>3, <2>4, <2>6 DEF BuilderQueriesOK, RevisionOf
<1>6. StoreOK(editor)'
  BY <1>2 DEF BuilderInv, StoreOK
<1>7. /\ PageLoaded' => editor'.saved # 0
      /\ editor'.saved \notin unseen'
  BY <1>3, <1>2 DEF BuilderInv, BuilderPageOK, PageLoaded, UnseenElsewhere, StoreOK, top
<1>8. ~strayed' => /\ \A i \in DOMAIN revs' : revs'[i].doc.of = revs'[i].w
                   /\ editor'.saved # 0 => editor'.doc.of = revs'[editor'.saved].w
  <2>1. \A i \in DOMAIN revs' : i \in DOMAIN revs \/ i = top
    BY <1>2 DEF top
  <2>2. editor'.saved # 0 => editor.saved \in DOMAIN revs
    BY DEF BuilderInv, StoreOK
  <2>3. ~strayed' => /\ ~strayed /\ \A i \in DOMAIN revs : revs[i].doc.of = revs[i].w
                     /\ editor.saved # 0 => editor.doc.of = revs[editor.saved].w
    BY DEF BuilderInv, DocumentsAtHome
  <2>4. ~strayed' => \A i \in DOMAIN revs' : revs'[i].doc.of = revs'[i].w
    BY <1>2, <1>3, <2>1, <2>3
  <2>5. ~strayed' /\ editor'.saved # 0 => editor'.doc.of = revs'[editor'.saved].w
    BY <1>2, <2>2, <2>3
  <2> QED
    BY <2>4, <2>5
<1> QED
  BY <1>4, <1>5, <1>6, <1>7, <1>8

\* Who is taken with a save is at home: it expects the revision of its own
\* workspace, and was made of that one's document.
LEMMA TakenIsAtHome ==
  ASSUME BuilderInv, NEW s \in sends, ~Refuses(s)
  PROVE  /\ s.w \in Pages /\ s.doc \in Documents /\ (~strayed => s.doc.of = s.w)
         /\ s.kind # "restore" => current[s.w] \notin unseen
<1>1. /\ s.w \in Pages /\ s.doc \in Documents /\ RevisionOf(current[s.w], s.w)
      /\ s.kind \in {"save", "accept", "restore"} /\ s.expected \notin unseen
  BY DEF BuilderInv, BuilderSendsOK, BuilderServerOK, UnseenElsewhere
<1> QED
  BY <1>1 DEF Refuses, BuilderInv, DocumentsAtHome, RevisionOf

\* A request gets its answer: it keeps all but its fate and its revision.
LEMMA saveDocumentInv ==
  ASSUME BuilderInv, NEW s \in sends, save_document(s)
  PROVE  BuilderInv'
<1> USE DEF histories, bounds
<1>1. UNCHANGED <<builderView, editor, generating, typedEdits, strayed, unseen, edits, puts, acts>>
  BY DEF save_document
<1>2. CASE ~Refuses(s) /\ Revise(s.w, s.doc) /\ approved' = approved
           /\ \E got \in {"ok", "failed"} :
                sends' = (sends \ {s}) \cup {[s EXCEPT !.at = got, !.id = Len(revs')]}
  <2>1. /\ s.w \in Pages /\ s.doc \in Documents /\ (~strayed => s.doc.of = s.w)
        /\ BuilderServerOK
    BY <1>2, TakenIsAtHome DEF BuilderInv
  <2>2. /\ BuilderServerOK' /\ BuilderQueriesOK' /\ StoreOK(editor)'
        /\ PageLoaded' => editor'.saved # 0
        /\ editor'.saved \notin unseen'
        /\ ~strayed' => /\ \A i \in DOMAIN revs' : revs'[i].doc.of = revs'[i].w
                        /\ editor'.saved # 0 => editor'.doc.of = revs'[editor'.saved].w
    BY <1>1, <1>2, <2>1, GrowthKeeps DEF builderView
  <2>3. /\ Len(revs) \in Nat /\ DOMAIN revs = 1..Len(revs)
        /\ Len(revs') = Len(revs) + 1 /\ DOMAIN revs' = 1..(Len(revs) + 1)
        /\ \A i \in DOMAIN revs : i \in DOMAIN revs' /\ revs'[i] = revs[i]
        /\ revs'[Len(revs) + 1] = [w |-> s.w, doc |-> s.doc]
    BY <1>2, <2>1, ReviseGrows
  <2>4. PICK top \in Nat : /\ top = Len(revs') /\ top \in DOMAIN revs' /\ top \notin DOMAIN revs
                           /\ revs'[top].w = s.w /\ top # 0
    BY <2>3
  <2>5. PICK got \in {"ok", "failed"} :
           sends' = (sends \ {s}) \cup {[s EXCEPT !.at = got, !.id = top]}
    BY <1>2, <2>4
  <2>6. \A t \in sends' : \E r \in sends :
           /\ t \in [n : 1..puts + acts, w : Pages, doc : Documents, expected : Nat, id : Nat,
                     kind : {"save", "accept", "restore"},
                     at : {"sent", "ok", "failed", "refetching"}]
           /\ t.expected = r.expected /\ t.w = r.w /\ t.doc = r.doc /\ t.kind = r.kind
           /\ \/ t = r
              \/ t.id = top /\ t.w = s.w
    BY <2>4, <2>5 DEF BuilderInv, BuilderSendsOK
  <2>7. BuilderPageOK'
    BY <1>1, <2>2 DEF BuilderInv, BuilderPageOK, builderView
  <2>8. BuilderSendsOK'
    <3> SUFFICES ASSUME NEW t \in sends'
                 PROVE  /\ t \in [n : 1..puts + acts, w : Pages, doc : Documents,
                                  expected : Nat, id : Nat,
                                  kind : {"save", "accept", "restore"},
                                  at : {"sent", "ok", "failed", "refetching"}]
                        /\ t.expected \in DOMAIN revs'
                        /\ t.id # 0 => t.id \in DOMAIN revs' /\ revs'[t.id].w = t.w
                        /\ t.at \in {"ok", "refetching"} => t.id # 0
                        /\ editor.saved # 0
      BY <1>1 DEF BuilderSendsOK, RevisionOf
    <3> QED
      BY <2>3, <2>4, <2>6 DEF BuilderInv, BuilderSendsOK, RevisionOf
  <2>9. UnseenElsewhere'
    BY <1>1, <2>2, <2>4, <2>6 DEF BuilderInv, UnseenElsewhere, BuilderServerOK
  <2>10. DocumentsAtHome'
    <3>1. \A r \in sends : r.expected \in DOMAIN revs
      BY DEF BuilderInv, BuilderSendsOK
    <3>2. ASSUME ~strayed, NEW t \in sends'
          PROVE  t.doc.of = t.w \/ (t.kind = "save" /\ t.doc.of = revs'[t.expected].w)
      BY <2>3, <2>6, <3>1, <3>2 DEF BuilderInv, DocumentsAtHome
    <3>3. ~strayed /\ proposal # <<>> => proposal[1].of = openPage
      BY DEF BuilderInv, DocumentsAtHome
    <3> QED
      BY <1>1, <2>2, <3>2, <3>3 DEF DocumentsAtHome, builderView
  <2> QED
    BY <2>2, <2>7, <2>8, <2>9, <2>10 DEF BuilderInv
<1>3. CASE sends' = (sends \ {s}) \cup {[s EXCEPT !.at = "failed"]} /\ UNCHANGED builderServer
  <2>1. \A t \in sends' : \E r \in sends :
           /\ t \in [n : 1..puts + acts, w : Pages, doc : Documents, expected : Nat, id : Nat,
                     kind : {"save", "accept", "restore"},
                     at : {"sent", "ok", "failed", "refetching"}]
           /\ t.expected = r.expected /\ t.w = r.w /\ t.doc = r.doc /\ t.kind = r.kind
           /\ t.id = r.id /\ (t = r \/ t.at = "failed")
    BY <1>3 DEF BuilderInv, BuilderSendsOK
  <2> USE DEF builderServer, builderView
  <2>2. BuilderServerOK' /\ BuilderQueriesOK' /\ StoreOK(editor)'
    BY <1>1, <1>3 DEF BuilderInv, BuilderServerOK, BuilderQueriesOK, RevisionOf, StoreOK
  <2>3. BuilderPageOK'
    BY <1>1 DEF BuilderInv, BuilderPageOK, PageLoaded
  <2>4. BuilderSendsOK'
    BY <1>1, <1>3, <2>1 DEF BuilderInv, BuilderSendsOK, RevisionOf
  <2>5. UnseenElsewhere'
    BY <1>1, <2>1 DEF BuilderInv, UnseenElsewhere
  <2>6. DocumentsAtHome'
    BY <1>1, <1>3, <2>1 DEF BuilderInv, DocumentsAtHome
  <2> QED
    BY <2>2, <2>3, <2>4, <2>5, <2>6 DEF BuilderInv
<1> QED
  BY <1>2, <1>3 DEF save_document

LEMMA GenerateEndsInv ==
  ASSUME BuilderInv, NEW w \in Pages, GenerateEnds(w)
  PROVE  BuilderInv'
<1> USE DEF histories, bounds
<1>1. /\ generating' \subseteq Pages
      /\ UNCHANGED <<openPage, cache, proposal, editor, sends, typedEdits, strayed, edits, puts,
                     acts>>
  BY QuietFacts DEF GenerateEnds
<1>2. CASE /\ Revise(w, Rewritten(w)) /\ approved' = approved
           /\ unseen' = unseen \cup {current'[w]}
           /\ builderFetch' = [builderFetch EXCEPT ![w] = Asked]
  <2>1. /\ Rewritten(w) \in Documents /\ (~strayed => Rewritten(w).of = w) /\ BuilderServerOK
    BY RewrittenStaysHome DEF BuilderInv
  <2>2. /\ Len(revs) \in Nat /\ DOMAIN revs = 1..Len(revs)
        /\ \A i \in DOMAIN revs : i \in DOMAIN revs' /\ revs'[i] = revs[i]
        /\ current' = [current EXCEPT ![w] = Len(revs) + 1]
    BY <1>2, <2>1, ReviseGrows
  <2>3. unseen' = unseen \cup {Len(revs) + 1}
    BY <1>2, <2>2 DEF BuilderInv, BuilderServerOK
  <2>4. /\ BuilderServerOK' /\ BuilderQueriesOK' /\ StoreOK(editor)'
        /\ PageLoaded' => editor'.saved # 0
        /\ editor'.saved \notin unseen'
        /\ ~strayed' => /\ \A i \in DOMAIN revs' : revs'[i].doc.of = revs'[i].w
                        /\ editor'.saved # 0 => editor'.doc.of = revs'[editor'.saved].w
    BY <1>1, <1>2, <2>1, <2>3, GrowthKeeps
  <2>5. \A s \in sends : s.expected \in DOMAIN revs /\ (s.id # 0 => s.id \in DOMAIN revs)
    BY DEF BuilderInv, BuilderSendsOK, RevisionOf
  <2>6. BuilderPageOK'
    BY <1>1, <2>4 DEF BuilderInv, BuilderPageOK
  <2>7. BuilderSendsOK'
    BY <1>1, <2>2, <2>5 DEF BuilderInv, BuilderSendsOK, RevisionOf
  <2>8. UnseenElsewhere'
    BY <1>1, <2>2, <2>3, <2>4, <2>5 DEF BuilderInv, UnseenElsewhere
  <2>9. DocumentsAtHome'
    BY <1>1, <2>2, <2>4, <2>5 DEF BuilderInv, DocumentsAtHome
  <2> QED
    BY <2>4, <2>6, <2>7, <2>8, <2>9 DEF BuilderInv
<1>3. CASE UNCHANGED <<builderServer, unseen, builderFetch>>
  BY <1>1, <1>3, QuietFacts, QuietBuilderStep DEF builderServer
<1> QED
  BY <1>2, <1>3 DEF GenerateEnds

LEMMA BuilderStepInv == BuilderInv /\ [BuilderNext]_builderVars => BuilderInv'
<1> SUFFICES ASSUME BuilderInv, [BuilderNext]_builderVars PROVE BuilderInv'
  OBVIOUS
<1>1. CASE \E w \in Pages : \/ OpenBuilder(w) \/ get_workspace(w) \/ WorkspaceFetched(w)
                            \/ GenerateEnds(w)
  BY <1>1, OpenBuilderInv, GetWorkspaceInv, WorkspaceFetchedInv, GenerateEndsInv
<1>2. CASE LeaveBuilder \/ updateDocument \/ undoChange \/ redoChange \/ save \/ acceptProposal
  BY <1>2, LeaveBuilderInv, updateDocumentInv, undoChangeInv, redoChangeInv, saveInv,
     acceptProposalInv
<1>3. CASE \E s \in sends : save_document(s) \/ SaveEnds(s) \/ RestoreEnds(s) \/ AcceptEnds(s)
  BY <1>3, saveDocumentInv, SaveEndsInv, RestoreEndsInv, AcceptEndsInv
<1>4. CASE previewRefinement \/ closeProposal \/ approve_workspace \/ generate
  BY <1>4, previewRefinementInv, closeProposalInv, approveWorkspaceInv, generateInv
<1>5. CASE \E id \in DOMAIN revs : restore_revision(id)
  BY <1>5, restoreRevisionInv
<1>6. CASE UNCHANGED builderVars
  BY <1>6, QuietFacts, QuietBuilderStep DEF builderVars
<1> QED
  BY <1>1, <1>2, <1>3, <1>4, <1>5, <1>6 DEF BuilderNext

\* Only the server's two handlers make revisions, and what they make is at home.
LEMMA NewIsAtHome ==
  ASSUME BuilderInv, [BuilderNext]_builderVars
  PROVE  strayed \/ \A i \in DOMAIN revs' \ DOMAIN revs : revs'[i].doc.of = revs'[i].w
<1> USE DEF builderServer, histories
<1>1. CASE \E s \in sends : save_document(s)
  BY <1>1, BuilderStepInv DEF save_document, BuilderInv, DocumentsAtHome
<1>2. CASE \E w \in Pages : GenerateEnds(w)
  BY <1>2, BuilderStepInv DEF GenerateEnds, BuilderInv, DocumentsAtHome
<1>3. CASE \/ LeaveBuilder \/ updateDocument \/ undoChange \/ redoChange
           \/ UNCHANGED builderVars
  BY <1>3 DEF LeaveBuilder, updateDocument, undoChange, redoChange, builderVars
<1>4. CASE \E w \in Pages : OpenBuilder(w) \/ get_workspace(w) \/ WorkspaceFetched(w)
  BY <1>4 DEF OpenBuilder, get_workspace, WorkspaceFetched
<1>5. CASE \E s \in sends : SaveEnds(s) \/ RestoreEnds(s) \/ AcceptEnds(s)
  BY <1>5 DEF SaveEnds, RestoreEnds, AcceptEnds
<1>6. CASE save \/ acceptProposal
  BY <1>6 DEF save, acceptProposal, Put
<1>7. CASE previewRefinement \/ closeProposal \/ approve_workspace \/ generate
  BY <1>7 DEF previewRefinement, closeProposal, approve_workspace, generate
<1>8. CASE \E id \in DOMAIN revs : restore_revision(id)
  BY <1>8 DEF restore_revision
<1> QED
  BY <1>1, <1>2, <1>3, <1>4, <1>5, <1>6, <1>7, <1>8 DEF BuilderNext

\* A document the editor sends never lands on a revision it has not shown.
LEMMA UnseenStays ==
  ASSUME BuilderInv, NEW s \in sends, save_document(s), s.kind # "restore",
         current'[s.w] # current[s.w]
  PROVE  current[s.w] \notin unseen
<1>1. ~Refuses(s)
  BY DEF save_document, builderServer
<1> QED
  BY <1>1, TakenIsAtHome

\* What the builder page and the server keep of documents together: revisions,
\* queries, the store and the requests fit, a workspace gets a revision made of
\* another one's document only after an answer has marked such a document, and
\* a revision the tab has not shown is not saved over.
THEOREM BuilderAlwaysSafe == BuilderSpec => BuilderSafe
<1>1. BuilderInit => BuilderInv
  BY InitBuilderInv
<1>2. BuilderInv /\ [BuilderNext]_builderVars => BuilderInv'
  BY BuilderStepInv
<1>3. BuilderInv => BuilderTypeOK
  BY BuilderTypes
<1>4. BuilderInv /\ [BuilderNext]_builderVars
      => [strayed \/ \A i \in DOMAIN revs' \ DOMAIN revs :
                        revs'[i].doc.of = revs'[i].w]_builderVars
  BY NewIsAtHome
<1>5. BuilderInv /\ [BuilderNext]_builderVars
      => [\A s \in sends : /\ save_document(s) /\ s.kind # "restore"
                           /\ current'[s.w] # current[s.w]
                          => current[s.w] \notin unseen]_builderVars
  BY UnseenStays
<1> QED
  BY <1>1, <1>2, <1>3, <1>4, <1>5, PTL
     DEF BuilderSpec, BuilderSafe, ForeignOnlyIfStrayed, UnseenIsKept

-----------------------------------------------------------------------------
(* The page of tracked applications *)

ListCells == [shown : Statuses, prev : Statuses]
ListUpdates == [n : 1..MaxSends, id : AppRows, status : Statuses, back : Statuses,
                at : {"sent", "ok", "failed"}, heard : BOOLEAN]

LEMMA ListingIs ==
  ASSUME NEW f \in Listing
  PROVE  DOMAIN f \subseteq AppRows /\ f \in [DOMAIN f -> Statuses]
BY DEF Listing

LEMMA ListingOf ==
  ASSUME NEW S \in SUBSET AppRows, NEW f \in [S -> Statuses]
  PROVE  f \in Listing
BY DEF Listing

LEMMA PageListing ==
  ASSUME apps \in Listing, NEW o
  PROVE  /\ OnPage(o) \subseteq DOMAIN apps
         /\ list_my_applications(o) \in Listing
         /\ DOMAIN list_my_applications(o) = OnPage(o)
         /\ \A i \in OnPage(o) : list_my_applications(o)[i] = apps[i]
<1>1. DOMAIN apps \subseteq AppRows /\ apps \in [DOMAIN apps -> Statuses]
  BY ListingIs
<1>2. OnPage(o) \subseteq DOMAIN apps
  BY DEF OnPage
<1>3. /\ list_my_applications(o) \in [OnPage(o) -> Statuses]
      /\ OnPage(o) \in SUBSET AppRows
  BY <1>1, <1>2 DEF list_my_applications
<1> QED
  BY <1>2, <1>3, ListingOf DEF list_my_applications

\* Rows that go can only move the others forward.
LEMMA PageKept ==
  ASSUME apps \in Listing, DOMAIN apps' \subseteq DOMAIN apps
  PROVE  OnPage(0) \cap DOMAIN apps' \subseteq OnPage(0)'
<1>1. DOMAIN apps \subseteq 1..MaxRow
  BY ListingIs DEF AppRows
<1>2. MaxRow \in Nat /\ ListSize \in Nat
  BY ListAssumption
<1>3. IsFiniteSet(1..MaxRow)
  BY <1>2, FS_Interval
<1>4. ASSUME NEW i \in OnPage(0), i \in DOMAIN apps'
      PROVE  i \in OnPage(0)'
  <2> DEFINE A == {j \in DOMAIN apps : j < i}
             B == {j \in DOMAIN apps' : j < i}
  <2>1. A \subseteq 1..MaxRow /\ B \subseteq A
    BY <1>1
  <2>2. IsFiniteSet(A)
    BY <1>3, <2>1, FS_Subset
  <2>3. IsFiniteSet(B) /\ Cardinality(B) <= Cardinality(A) /\ Cardinality(A) \in Nat
        /\ Cardinality(B) \in Nat
    BY <2>1, <2>2, FS_Subset, FS_CardinalityType
  <2>4. Cardinality(A) < 0 + ListSize
    BY <1>4 DEF OnPage
  <2>5. Cardinality(B) >= 0 /\ Cardinality(B) < 0 + ListSize
    BY <1>2, <2>3, <2>4
  <2> QED
    BY <1>4, <2>5 DEF OnPage
<1> QED
  BY <1>4

LEMMA ShownTyped ==
  ASSUME ListTypeOK
  PROVE  /\ ShownRows \in Listing /\ DOMAIN ShownRows \subseteq AppRows
         /\ ShownRows \in [DOMAIN ShownRows -> Statuses]
<1>1. ShownRows \in Listing
  BY DEF ListTypeOK, ShownRows, Has, RowsAt
<1> QED
  BY <1>1, ListingIs

\* What a render makes of the cells and of the updates they hear of.
CellsShow(ps, old) ==
    /\ \A i \in DOMAIN ShownRows' :
          i \notin DOMAIN old
          \/ (ShownRows'[i] # old[i].prev /\ ~(\E q \in ps : q.id = i /\ q.heard))
          => cells'[i].shown = ShownRows'[i] /\ cells'[i].prev = ShownRows'[i]
    /\ \A i \in DOMAIN ShownRows' \cap DOMAIN old :
          ShownRows'[i] = old[i].prev \/ (\E q \in ps : q.id = i /\ q.heard)
          => cells'[i] = old[i]
UpdatesHear(ps) ==
    /\ \A r \in pending' : \E q \in ps :
          /\ r.id = q.id /\ r.status = q.status /\ r.back = q.back /\ r.at = q.at
          /\ r.heard <=> q.heard /\ r.id \in DOMAIN ShownRows'
    /\ \A q \in ps : \E r \in pending' : r.id = q.id /\ r.at = q.at

LEMMA RenderShows ==
  ASSUME NEW ps \in SUBSET ListUpdates, NEW old, old \in [DOMAIN old -> ListCells],
         Screen(ps, old),
         ShownRows' \in Listing,
         \A r, q \in ps : r.heard /\ q.heard /\ r.id = q.id => r = q
  PROVE  /\ pending' \in SUBSET ListUpdates
         /\ cells' \in [DOMAIN ShownRows' -> ListCells]
         /\ \A r \in pending' : r.heard => r.id \in DOMAIN cells'
         /\ \A r, q \in pending' : r.heard /\ q.heard /\ r.id = q.id => r = q
         /\ UpdatesHear(ps) /\ CellsShow(ps, old)
<1> DEFINE rows == ShownRows'
<1>1. rows \in [DOMAIN rows -> Statuses]
  BY ListingIs
<1>2. ShownNext = rows
  BY DEF ShownNext, ShownRows
<1>3. pending' = {[r EXCEPT !.heard = r.heard /\ r.id \in DOMAIN rows] : r \in ps}
  BY <1>2 DEF Screen, Unheard
<1>4. cells' = StatusCells(rows, pending', old)
  BY <1>2 DEF Screen
<1> HIDE DEF rows
<1> DEFINE U(r) == [r EXCEPT !.heard = r.heard /\ r.id \in DOMAIN rows]
<1>5. ASSUME NEW r \in ListUpdates
      PROVE  /\ U(r) \in ListUpdates
             /\ U(r).id = r.id /\ U(r).status = r.status /\ U(r).back = r.back
             /\ U(r).at = r.at
             /\ U(r).heard <=> r.heard /\ r.id \in DOMAIN rows
  <2>1. (r.heard /\ r.id \in DOMAIN rows) \in BOOLEAN
    OBVIOUS
  <2> QED
    BY <2>1 DEF ListUpdates
<1>6. pending' = {U(r) : r \in ps}
  BY <1>3
<1> HIDE DEF U
<1>7. \A r \in pending' : r \in ListUpdates /\ \E q \in ps :
         /\ r = U(q)
         /\ r.id = q.id /\ r.status = q.status /\ r.back = q.back /\ r.at = q.at
         /\ r.heard <=> q.heard /\ r.id \in DOMAIN rows
  BY <1>5, <1>6
<1>8. \A q \in ps : \E r \in pending' : /\ r.id = q.id /\ r.at = q.at
                                        /\ r.heard <=> q.heard /\ r.id \in DOMAIN rows
  BY <1>5, <1>6
<1>9. \A i \in DOMAIN rows : CellPending(i, pending') <=> \E q \in ps : q.id = i /\ q.heard
  BY <1>7, <1>8 DEF CellPending
<1>10. DOMAIN cells' = DOMAIN rows
  BY <1>4 DEF StatusCells
<1>11. ASSUME NEW i \in DOMAIN rows
       PROVE  /\ cells'[i] \in ListCells
              /\ IF i \notin DOMAIN old \/ (rows[i] # old[i].prev /\ ~(\E q \in ps : q.id = i /\ q.heard))
                 THEN cells'[i].shown = rows[i] /\ cells'[i].prev = rows[i]
                 ELSE cells'[i] = old[i]
  <2>1. cells'[i] = IF i \notin DOMAIN old THEN [shown |-> rows[i], prev |-> rows[i]]
                    ELSE IF rows[i] # old[i].prev /\ ~CellPending(i, pending')
                    THEN [old[i] EXCEPT !.shown = rows[i], !.prev = rows[i]]
                    ELSE old[i]
    BY <1>4 DEF StatusCells
  <2>2. rows[i] \in Statuses
    BY <1>1
  <2>3. CASE i \notin DOMAIN old
    BY <2>1, <2>2, <2>3 DEF ListCells
  <2>4. CASE i \in DOMAIN old
    <3>1. PICK c \in ListCells : c = old[i]
      BY <2>4
    <3>2. /\ [c EXCEPT !.shown = rows[i], !.prev = rows[i]] \in ListCells
          /\ [c EXCEPT !.shown = rows[i], !.prev = rows[i]].shown = rows[i]
          /\ [c EXCEPT !.shown = rows[i], !.prev = rows[i]].prev = rows[i]
      BY <2>2 DEF ListCells
    <3>3. cells'[i] = IF rows[i] # c.prev /\ ~(\E q \in ps : q.id = i /\ q.heard)
                      THEN [c EXCEPT !.shown = rows[i], !.prev = rows[i]] ELSE c
      BY <1>9, <2>1, <2>4, <3>1
    <3> QED
      BY <2>4, <3>1, <3>2, <3>3
  <2> QED
    BY <2>3, <2>4
<1>12. cells' \in [DOMAIN rows -> ListCells]
  <2>1. cells' = [i \in DOMAIN rows |-> cells'[i]]
    BY <1>4 DEF StatusCells
  <2> QED
    BY <1>11, <2>1
<1>13. \A r \in pending' : r.heard => r.id \in DOMAIN cells'
  BY <1>7, <1>10
<1>14. \A r, q \in pending' : r.heard /\ q.heard /\ r.id = q.id => r = q
  BY <1>7
<1>15. \A i \in DOMAIN rows :
         i \notin DOMAIN old \/ (rows[i] # old[i].prev /\ ~(\E q \in ps : q.id = i /\ q.heard))
         => cells'[i].shown = rows[i] /\ cells'[i].prev = rows[i]
  BY <1>11
<1>16. \A i \in DOMAIN rows \cap DOMAIN old :
         rows[i] = old[i].prev \/ (\E q \in ps : q.id = i /\ q.heard) => cells'[i] = old[i]
  BY <1>11
<1> QED
  BY <1>7, <1>8, <1>12, <1>13, <1>14, <1>15, <1>16 DEF rows, UpdatesHear, CellsShow

LEMMA ShownTypedNext ==
  ASSUME lists' \subseteq [at : Offsets, rows : Listing], behind' \in Listing
  PROVE  ShownRows' \in Listing
BY DEF ShownRows, Has, RowsAt

LEMMA ShownKept ==
  ASSUME UNCHANGED <<offset, lists, behind>>
  PROVE  ShownRows' = ShownRows
BY DEF ShownRows, Has, RowsAt

\* The list that was just answered is the one of its offset.
LEMMA ShownAnswer ==
  ASSUME NEW a, offset' = a.at,
         lists' = {l \in lists : l.at # a.at} \cup {[at |-> a.at, rows |-> a.rows]}
  PROVE  ShownRows' = a.rows
<1> DEFINE new == [at |-> a.at, rows |-> a.rows]
<1>1. new \in lists' /\ new.at = a.at /\ new.rows = a.rows
  OBVIOUS
<1>2. \A l \in lists' : l.at = a.at => l = new
  OBVIOUS
<1> HIDE DEF new
<1>3. (CHOOSE l \in lists' : l.at = offset') = new
  BY <1>1, <1>2
<1> QED
  BY <1>1, <1>3 DEF ShownRows, Has, RowsAt

LEMMA OffsetsBack ==
  /\ 0 \in Offsets
  /\ \A o \in Offsets : o > 0 => o - ListSize \in Offsets
<1>1. MaxRow \in Nat /\ ListSize \in Nat \ {0}
  BY ListAssumption
<1>2. ListSize * 0 = 0 /\ 0 \in 0..MaxRow
  BY <1>1
<1>3. ASSUME NEW o \in Offsets, o > 0
      PROVE  o - ListSize \in Offsets
  <2>1. PICK k \in 0..MaxRow : o = ListSize * k
    BY DEF Offsets
  <2>2. k # 0
    BY <1>1, <1>2, <1>3, <2>1
  <2>3. k - 1 \in 0..MaxRow
    BY <1>1, <2>2
  <2>4. o - ListSize = ListSize * (k - 1)
    BY <1>1, <2>1
  <2> QED
    BY <2>3, <2>4 DEF Offsets
<1> QED
  BY <1>2, <1>3 DEF Offsets

LEMMA ListInit_Inv ==
  ASSUME ListInit
  PROVE  ListInv
<1>1. /\ MaxRow \in Nat /\ MaxSends \in Nat /\ MaxTurns \in Nat
      /\ (CHOOSE s \in Statuses : TRUE) \in Statuses
  BY ListAssumption
<1>2. apps \in [AppRows -> Statuses] /\ apps \in Listing
  BY <1>1, ListingOf DEF ListInit
<1> DEFINE L == list_my_applications(0)
<1>3. /\ OnPage(0) \subseteq DOMAIN apps /\ L \in Listing /\ DOMAIN L = OnPage(0)
      /\ \A i \in OnPage(0) : L[i] = apps[i]
  BY <1>2, PageListing
<1> HIDE DEF L
<1>4. /\ lists = {[at |-> 0, rows |-> L]} /\ behind = L /\ offset = 0 /\ turns = 0
      /\ staleAt = {} /\ asking = {} /\ pending = {} /\ rowTrash = NoTrash /\ posts = 0
      /\ certain = TRUE
      /\ cells = [i \in OnPage(0) |-> [shown |-> apps[i], prev |-> apps[i]]]
  BY DEF ListInit, L
<1>5. ShownRows = L
  <2>1. (CHOOSE l \in lists : l.at = 0) = [at |-> 0, rows |-> L]
    BY <1>4
  <2> QED
    BY <1>4, <2>1 DEF ShownRows, RowsAt, Has
<1>6. cells \in [OnPage(0) -> ListCells]
  <2>1. \A i \in OnPage(0) : apps[i] \in Statuses
    BY <1>2, <1>3
  <2> QED
    BY <1>4, <2>1 DEF ListCells
<1>7. ListTypeOK
  <2>1. lists \subseteq [at : Offsets, rows : Listing]
    BY <1>3, <1>4, OffsetsBack
  <2>2. rowTrash \in [at : {"none", "ask", "sent", "ok", "failed"}, id : 0..MaxRow,
                      last : BOOLEAN]
    BY <1>1, <1>4 DEF NoTrash
  <2>3. \A i \in DOMAIN cells : cells[i] \in [shown : Statuses, prev : Statuses]
    BY <1>6 DEF ListCells
  <2> QED
    BY <1>1, <1>2, <1>3, <1>4, <2>1, <2>2, <2>3, OffsetsBack DEF ListTypeOK
<1>8. ListShape
  BY <1>3, <1>4, <1>5, <1>6 DEF ListShape, ListCells
<1>9. FirstPage
  BY <1>3, <1>4, <1>5 DEF FirstPage
<1>10. \A i \in DOMAIN apps : StatusKnown(i)
  <2>1. \A i \in OnPage(0) : cells[i].shown = apps[i]
    BY <1>4
  <2> QED
    BY <1>3, <1>4, <1>5, <1>6, <2>1 DEF StatusKnown
<1> QED
  BY <1>7, <1>8, <1>9, <1>10 DEF ListInv

LEMMA PagerKeeps ==
  ASSUME ListInv, NEW o \in Offsets, Pager(o)
  PROVE  ListInv'
<1>1. ListTypeOK /\ ListShape
  BY DEF ListInv
<1>2. /\ turns < MaxTurns /\ turns' = turns + 1 /\ offset' = o /\ behind' = ShownRows
      /\ UNCHANGED <<apps, lists, staleAt, rowTrash, posts, certain>>
      /\ asking' = asking
         \/ asking' = {a \in asking : a.at # o} \cup {Fetches(o)}
      /\ Screen(pending, cells)
  BY DEF Pager
<1>3. turns' \in 0..MaxTurns /\ turns' # 0
  BY <1>1, <1>2, ListAssumption DEF ListTypeOK
<1>4. behind' \in Listing /\ ShownRows' \in Listing
  BY <1>1, <1>2, ShownTyped, ShownTypedNext DEF ListTypeOK
<1>5. /\ Fetches(o) \in [at : Offsets, read : BOOLEAN, rows : Listing]
      /\ Fetches(o).at = o
  BY <1>1 DEF Fetches, ListTypeOK
<1>6. /\ pending \in SUBSET ListUpdates /\ cells \in [DOMAIN ShownRows -> ListCells]
      /\ \A r, q \in pending : r.heard /\ q.heard /\ r.id = q.id => r = q
  BY <1>1 DEF ListTypeOK, ListShape, ListUpdates, ListCells
<1>7. /\ pending' \in SUBSET ListUpdates
      /\ cells' \in [DOMAIN ShownRows' -> ListCells]
      /\ \A r \in pending' : r.heard => r.id \in DOMAIN cells'
      /\ \A r, q \in pending' : r.heard /\ q.heard /\ r.id = q.id => r = q
  BY <1>2, <1>4, <1>6, RenderShows
<1>8. ListTypeOK'
  <2>1. asking' \subseteq [at : Offsets, read : BOOLEAN, rows : Listing]
    BY <1>1, <1>2, <1>5 DEF ListTypeOK
  <2>2. \A i \in DOMAIN cells' : cells'[i] \in [shown : Statuses, prev : Statuses]
    BY <1>7 DEF ListCells
  <2> QED
    BY <1>1, <1>2, <1>3, <1>4, <1>7, <2>1, <2>2 DEF ListTypeOK, ListUpdates
<1>9. ListShape'
  <2>1. \A a, b \in asking' : a.at = b.at => a = b
    BY <1>1, <1>2, <1>5 DEF ListShape
  <2> QED
    BY <1>1, <1>2, <1>7, <2>1 DEF ListShape, ListCells
<1> QED
  BY <1>3, <1>8, <1>9 DEF ListInv

\* A fetch reads the rows, and later either answers or fails.
LEMMA ReadsKeep ==
  ASSUME ListInv, NEW a \in asking, ~a.read,
         asking' = (asking \ {a}) \cup
                   {[a EXCEPT !.read = TRUE, !.rows = list_my_applications(a.at)]},
         UNCHANGED <<apps, offset, rowTrash, posts, turns, certain, lists, staleAt, behind,
                     pending, cells>>
  PROVE  ListInv'
<1>1. ListTypeOK /\ ListShape
  BY DEF ListInv
<1> DEFINE b == [a EXCEPT !.read = TRUE, !.rows = list_my_applications(a.at)]
<1>2. apps \in Listing /\ a \in [at : Offsets, read : BOOLEAN, rows : Listing]
  BY <1>1 DEF ListTypeOK
<1>3. /\ OnPage(a.at) \subseteq DOMAIN apps /\ list_my_applications(a.at) \in Listing
      /\ DOMAIN list_my_applications(a.at) = OnPage(a.at)
      /\ \A i \in OnPage(a.at) : list_my_applications(a.at)[i] = apps[i]
  BY <1>2, PageListing
<1>4. /\ b \in [at : Offsets, read : BOOLEAN, rows : Listing] /\ b.at = a.at /\ b.read
      /\ b.rows = list_my_applications(a.at)
  BY <1>2, <1>3
<1>5. asking' = (asking \ {a}) \cup {b}
  OBVIOUS
<1> HIDE DEF b
<1>6. ShownRows' = ShownRows
  BY ShownKept
<1>7. ListTypeOK'
  BY <1>1, <1>4, <1>5 DEF ListTypeOK
<1>8. ListShape'
  BY <1>1, <1>4, <1>5, <1>6 DEF ListShape
<1>9. ASSUME turns' = 0 PROVE FirstPage'
  <2>1. FirstPage /\ a.at = 0
    BY <1>9 DEF ListInv, FirstPage
  <2>2. OnPage(0)' = OnPage(0)
    BY DEF OnPage
  <2>3. \A c \in asking' : c = b \/ c \in asking
    BY <1>5
  <2> QED
    BY <1>3, <1>4, <1>6, <2>1, <2>2, <2>3 DEF FirstPage
<1>10. ASSUME turns' = 0, certain', NEW i \in DOMAIN apps' PROVE StatusKnown(i)'
  <2>1. StatusKnown(i) /\ a.at = 0
    BY <1>10 DEF ListInv, FirstPage
  <2>2. \A c \in asking' : c = b \/ c \in asking
    BY <1>5
  <2>3. Taken(i)' <=> Taken(i)
    BY DEF Taken
  <2>4. \A c \in asking' : c.read /\ i \in DOMAIN c.rows => c.rows[i] = apps[i] \/ Taken(i)
    BY <1>3, <1>4, <2>1, <2>2 DEF StatusKnown
  <2> QED
    BY <1>6, <2>1, <2>3, <2>4 DEF StatusKnown
<1> QED
  BY <1>7, <1>8, <1>9, <1>10 DEF ListInv

LEMMA BreaksKeep ==
  ASSUME ListInv, NEW a \in asking, asking' = asking \ {a},
         UNCHANGED <<apps, offset, rowTrash, posts, turns, certain, lists, staleAt, behind,
                     pending, cells>>
  PROVE  ListInv'
<1>1. ListTypeOK /\ ListShape
  BY DEF ListInv
<1>2. ShownRows' = ShownRows
  BY ShownKept
<1>3. ListTypeOK' /\ ListShape'
  BY <1>1, <1>2 DEF ListTypeOK, ListShape
<1>4. ASSUME turns' = 0 PROVE FirstPage'
  <2>1. FirstPage
    BY <1>4 DEF ListInv
  <2>2. OnPage(0)' = OnPage(0)
    BY DEF OnPage
  <2> QED
    BY <1>2, <2>1, <2>2 DEF FirstPage
<1>5. ASSUME turns' = 0, certain', NEW i \in DOMAIN apps' PROVE StatusKnown(i)'
  <2>1. StatusKnown(i)
    BY <1>5 DEF ListInv
  <2> QED
    BY <1>2, <2>1 DEF StatusKnown, Taken
<1> QED
  BY <1>3, <1>4, <1>5 DEF ListInv

LEMMA AnswersKeep ==
  ASSUME ListInv, NEW a \in asking, a.read, asking' = asking \ {a}, UNCHANGED behind,
         lists' = {l \in lists : l.at # a.at} \cup {[at |-> a.at, rows |-> a.rows]},
         staleAt' = staleAt \ {a.at}, Screen(pending, cells),
         UNCHANGED <<apps, offset, rowTrash, posts, turns, certain>>
  PROVE  ListInv'
<1>1. ListTypeOK /\ ListShape
  BY DEF ListInv
<1>2. a \in [at : Offsets, read : BOOLEAN, rows : Listing]
  BY <1>1 DEF ListTypeOK
<1>3. lists' \subseteq [at : Offsets, rows : Listing] /\ behind' \in Listing
  BY <1>1, <1>2 DEF ListTypeOK
<1>4. ShownRows' \in Listing
  BY <1>3, ShownTypedNext
<1>5. /\ pending \in SUBSET ListUpdates /\ cells \in [DOMAIN ShownRows -> ListCells]
      /\ \A r, q \in pending : r.heard /\ q.heard /\ r.id = q.id => r = q
  BY <1>1 DEF ListTypeOK, ListShape, ListUpdates, ListCells
<1>6. /\ pending' \in SUBSET ListUpdates
      /\ cells' \in [DOMAIN ShownRows' -> ListCells]
      /\ \A r \in pending' : r.heard => r.id \in DOMAIN cells'
      /\ \A r, q \in pending' : r.heard /\ q.heard /\ r.id = q.id => r = q
      /\ \A r \in pending' : \E q \in pending :
            /\ r.id = q.id /\ r.status = q.status /\ r.back = q.back /\ r.at = q.at
            /\ r.heard <=> q.heard /\ r.id \in DOMAIN ShownRows'
      /\ \A q \in pending : \E r \in pending' : r.id = q.id /\ r.at = q.at
      /\ \A i \in DOMAIN ShownRows' :
            i \notin DOMAIN cells
            \/ (ShownRows'[i] # cells[i].prev /\ ~(\E q \in pending : q.id = i /\ q.heard))
            => cells'[i].shown = ShownRows'[i] /\ cells'[i].prev = ShownRows'[i]
      /\ \A i \in DOMAIN ShownRows' \cap DOMAIN cells :
            ShownRows'[i] = cells[i].prev \/ (\E q \in pending : q.id = i /\ q.heard)
            => cells'[i] = cells[i]
  <2>1. /\ pending \in SUBSET ListUpdates /\ cells \in [DOMAIN ShownRows -> ListCells]
        /\ Screen(pending, cells) /\ ShownRows' \in Listing
        /\ \A r, q \in pending : r.heard /\ q.heard /\ r.id = q.id => r = q
    BY <1>4, <1>5
  <2>2. /\ pending' \in SUBSET ListUpdates
        /\ cells' \in [DOMAIN ShownRows' -> ListCells]
        /\ \A r \in pending' : r.heard => r.id \in DOMAIN cells'
        /\ \A r, q \in pending' : r.heard /\ q.heard /\ r.id = q.id => r = q
    BY <2>1, RenderShows
  <2>3. UpdatesHear(pending) /\ CellsShow(pending, cells)
    BY <2>1, RenderShows
  <2> QED
    BY <2>2, <2>3 DEF UpdatesHear, CellsShow
<1>7. ListTypeOK'
  <2>1. \A i \in DOMAIN cells' : cells'[i] \in [shown : Statuses, prev : Statuses]
    BY <1>6 DEF ListCells
  <2>2. pending' \subseteq [n : 1..MaxSends, id : AppRows, status : Statuses,
                            back : Statuses, at : {"sent", "ok", "failed"}, heard : BOOLEAN]
    BY <1>6 DEF ListUpdates
  <2> QED
    BY <1>1, <1>3, <2>1, <2>2 DEF ListTypeOK
<1>8. ListShape'
  <2>1. \A l, m \in lists' : l.at = m.at => l = m
    BY <1>1 DEF ListShape
  <2>2. \A c, b \in asking' : c.at = b.at => c = b
    BY <1>1 DEF ListShape
  <2> QED
    BY <1>6, <2>1, <2>2 DEF ListShape, ListCells
<1>9. ASSUME turns' = 0
      PROVE  /\ FirstPage /\ a.at = 0 /\ offset' = a.at /\ ShownRows' = a.rows
             /\ asking' = {} /\ FirstPage'
  <2>1. FirstPage /\ a.at = 0 /\ offset' = a.at
    BY <1>9 DEF ListInv, FirstPage
  <2>2. ShownRows' = a.rows
    BY <2>1, ShownAnswer
  <2>3. asking' = {}
    BY <1>1, <2>1 DEF FirstPage, ListShape
  <2>4. OnPage(0)' = OnPage(0)
    BY DEF OnPage
  <2>5. \A r \in pending' : r.id \in DOMAIN apps => r.heard
    <3>1. SUFFICES ASSUME NEW r \in pending', r.id \in DOMAIN apps PROVE r.heard
      OBVIOUS
    <3>2. PICK q \in pending : r.id = q.id /\ (r.heard <=> q.heard /\ r.id \in DOMAIN ShownRows')
      BY <1>6
    <3>3. q.heard /\ q.id \in DOMAIN ShownRows
      BY <1>1, <1>5, <2>1, <3>1, <3>2 DEF FirstPage, ListShape
    <3>4. r.id \in DOMAIN a.rows
      BY <2>1, <3>1, <3>2, <3>3 DEF FirstPage
    <3> QED
      BY <2>2, <3>2, <3>3, <3>4
  <2>6. lists' # {} /\ \A l \in lists' : l.at = 0
    <3>1. [at |-> a.at, rows |-> a.rows] \in lists'
      OBVIOUS
    <3>2. \A l \in lists' : l.at = a.at \/ l \in lists
      OBVIOUS
    <3> QED
      BY <2>1, <3>1, <3>2 DEF FirstPage
  <2>7. DOMAIN a.rows \cap DOMAIN apps \subseteq OnPage(0)
        /\ \A i \in DOMAIN a.rows \ DOMAIN apps : rowTrash.at = "ok" /\ rowTrash.id = i
    BY <2>1 DEF FirstPage
  <2>8. FirstPage'
    BY <2>1, <2>2, <2>3, <2>4, <2>5, <2>6, <2>7 DEF FirstPage
  <2> QED
    BY <2>1, <2>2, <2>3, <2>8
<1>10. ASSUME turns' = 0, certain', NEW i \in DOMAIN apps' PROVE StatusKnown(i)'
  <2>1. /\ StatusKnown(i) /\ FirstPage /\ FirstPage' /\ ShownRows' = a.rows /\ asking' = {}
    BY <1>9, <1>10 DEF ListInv
  <2>2. Taken(i)' <=> Taken(i)
    BY <1>6 DEF Taken
  <2>3. i \in DOMAIN a.rows => a.rows[i] = apps[i] \/ Taken(i)
    BY <2>1 DEF StatusKnown
  <2>4. \A q \in pending : q.id = i => q.heard /\ i \in DOMAIN ShownRows /\ i \in DOMAIN a.rows
    BY <1>1, <1>5, <1>10, <2>1 DEF FirstPage, ListShape
  <2>5. (\E q \in pending : q.id = i) => cells'[i] = cells[i]
    BY <1>5, <1>6, <2>1, <2>4
  <2>6. ASSUME NEW r \in pending', r.id = i
        PROVE  /\ cells'[i].shown = r.status
               /\ r.at = "ok" => apps[i] = r.status
               /\ r.at # "ok" => r.back = apps[i] \/ cells'[i].prev # apps[i]
    <3>1. PICK q \in pending : r.id = q.id /\ r.status = q.status /\ r.back = q.back
                               /\ r.at = q.at
      BY <1>6, <2>6
    <3> QED
      BY <2>1, <2>5, <2>6, <3>1 DEF StatusKnown
  <2>7. ASSUME i \in DOMAIN cells', \A r \in pending' : r.id # i
        PROVE  cells'[i].shown = apps[i]
    <3>1. i \in DOMAIN a.rows /\ \A q \in pending : q.id # i
      BY <1>6, <2>1, <2>7
    <3>2. a.rows[i] = apps[i]
      BY <2>3, <3>1 DEF Taken
    <3>3. CASE i \notin DOMAIN ShownRows
      BY <1>5, <1>6, <2>1, <3>1, <3>2, <3>3
    <3>4. CASE i \in DOMAIN ShownRows /\ a.rows[i] # cells[i].prev
      BY <1>5, <1>6, <2>1, <3>1, <3>2, <3>4
    <3>5. CASE i \in DOMAIN ShownRows /\ a.rows[i] = cells[i].prev
      <4>1. cells'[i] = cells[i] /\ i \in DOMAIN cells
        BY <1>5, <1>6, <2>1, <3>1, <3>5
      <4> QED
        BY <2>1, <3>1, <3>2, <3>5, <4>1 DEF StatusKnown
    <3> QED
      BY <3>3, <3>4, <3>5
  <2> QED
    BY <2>1, <2>2, <2>3, <2>6, <2>7 DEF StatusKnown
<1> QED
  BY <1>7, <1>8, <1>9, <1>10 DEF ListInv

\* A pick: the row's only update, which remembers what was shown.
LEMMA handleChangeKeeps ==
  ASSUME ListInv, NEW i \in AppRows, NEW s \in Statuses, handleChange(i, s)
  PROVE  ListInv'
<1>1. ListTypeOK /\ ListShape
  BY DEF ListInv
<1>2. PICK c : c = cells[i].shown
  OBVIOUS
<1> DEFINE new == [n |-> posts + 1, id |-> i, status |-> s, back |-> c, at |-> "sent",
                   heard |-> TRUE]
<1>3. /\ i \in DOMAIN cells /\ posts < MaxSends /\ posts' = posts + 1
      /\ \A r \in pending : ~(r.id = i /\ r.heard)
      /\ cells' = [cells EXCEPT ![i].shown = s]
      /\ pending' = pending \cup {new}
      /\ UNCHANGED <<apps, offset, lists, staleAt, asking, behind, rowTrash, turns, certain>>
  BY <1>2 DEF handleChange, CellPending
<1>4. /\ pending \in SUBSET ListUpdates /\ cells \in [DOMAIN ShownRows -> ListCells]
      /\ DOMAIN cells = DOMAIN ShownRows
  BY <1>1 DEF ListTypeOK, ListShape, ListUpdates, ListCells
<1>5. posts \in Nat /\ MaxSends \in Nat /\ posts + 1 \in 1..MaxSends /\ posts' \in 0..MaxSends
  <2>1. posts \in 0..MaxSends /\ MaxSends \in Nat
    BY <1>1, ListAssumption DEF ListTypeOK
  <2> QED
    BY <1>3, <2>1
<1>6. /\ new \in ListUpdates /\ new.id = i /\ new.status = s /\ new.back = c
      /\ new.at = "sent" /\ new.heard
  BY <1>2, <1>3, <1>4, <1>5 DEF ListUpdates, ListCells
<1> HIDE DEF new
<1>7. ShownRows' = ShownRows
  BY <1>3, ShownKept
<1>8. /\ cells' \in [DOMAIN ShownRows -> ListCells] /\ cells'[i].shown = s
      /\ \A j \in DOMAIN cells : cells'[j].prev = cells[j].prev
      /\ \A j \in DOMAIN cells : j # i => cells'[j] = cells[j]
  BY <1>3, <1>4 DEF ListCells
<1>9. ListTypeOK'
  <2>1. \A j \in DOMAIN cells' : cells'[j] \in [shown : Statuses, prev : Statuses]
    BY <1>8 DEF ListCells
  <2>2. pending' \subseteq [n : 1..MaxSends, id : AppRows, status : Statuses,
                            back : Statuses, at : {"sent", "ok", "failed"}, heard : BOOLEAN]
    BY <1>3, <1>4, <1>6 DEF ListUpdates
  <2> QED
    BY <1>1, <1>3, <1>5, <2>1, <2>2 DEF ListTypeOK
<1>10. ListShape'
  <2>1. \A r, q \in pending' : r.heard /\ q.heard /\ r.id = q.id => r = q
    BY <1>1, <1>3, <1>6 DEF ListShape
  <2>2. DOMAIN cells' = DOMAIN cells
    BY <1>3
  <2>3. \A r \in pending' : r.heard => r.id \in DOMAIN cells'
    BY <1>1, <1>3, <1>6, <2>2 DEF ListShape
  <2> QED
    BY <1>1, <1>3, <1>7, <1>8, <2>1, <2>3 DEF ListShape, ListCells
<1>11. ASSUME turns' = 0 PROVE FirstPage /\ FirstPage'
  <2>1. FirstPage
    BY <1>3, <1>11 DEF ListInv
  <2>2. OnPage(0)' = OnPage(0)
    BY <1>3 DEF OnPage
  <2> QED
    BY <1>3, <1>6, <1>7, <2>1, <2>2 DEF FirstPage
<1>12. ASSUME turns' = 0, certain', NEW j \in DOMAIN apps' PROVE StatusKnown(j)'
  <2>1. StatusKnown(j) /\ FirstPage
    BY <1>3, <1>11, <1>12 DEF ListInv
  <2>2. Taken(j)' <=> Taken(j)
    BY <1>3, <1>6 DEF Taken
  <2>3. CASE j # i
    <3>1. \A r \in pending' : r.id = j => r \in pending
      BY <1>3, <1>6, <2>3
    <3>2. \A r \in pending : r \in pending'
      BY <1>3
    <3>3. \A r \in pending : r.id = j => j \in DOMAIN cells
      BY <1>1, <1>3, <1>12, <2>1 DEF FirstPage, ListShape
    <3>4. j \in DOMAIN cells => cells'[j] = cells[j]
      BY <1>8, <2>3
    <3>5. DOMAIN cells' = DOMAIN cells
      BY <1>3
    <3> QED
      BY <1>3, <1>7, <2>1, <2>2, <3>1, <3>2, <3>3, <3>4, <3>5 DEF StatusKnown
  <2>4. CASE j = i
    <3>1. \A r \in pending : r.id # i
      BY <1>3, <1>12, <2>1, <2>4 DEF FirstPage
    <3>2. \A r \in pending' : r.id = i => r = new
      BY <1>3, <3>1
    <3>3. c = apps[i] \/ cells'[i].prev # apps[i]
      BY <1>2, <1>3, <1>8, <2>1, <2>4, <3>1 DEF StatusKnown
    <3>4. \E r \in pending' : r.id = i
      BY <1>3, <1>6
    <3> QED
      BY <1>3, <1>6, <1>7, <1>8, <2>1, <2>2, <2>4, <3>2, <3>3, <3>4 DEF StatusKnown
  <2> QED
    BY <2>3, <2>4
<1> QED
  BY <1>9, <1>10, <1>11, <1>12 DEF ListInv

\* The server takes an update or refuses it, or its answer is lost.
LEMMA updateKeeps ==
  ASSUME ListInv, NEW r \in pending, update_my_application(r)
  PROVE  ListInv'
<1>1. ListTypeOK /\ ListShape
  BY DEF ListInv
<1>2. /\ pending \in SUBSET ListUpdates /\ cells \in [DOMAIN ShownRows -> ListCells]
      /\ r \in ListUpdates /\ apps \in Listing
  BY <1>1 DEF ListTypeOK, ListShape, ListUpdates, ListCells
<1>3. /\ r.at = "sent"
      /\ UNCHANGED <<offset, lists, staleAt, asking, behind, cells, rowTrash, posts, turns>>
      /\ certain' \in BOOLEAN /\ (certain' => certain)
  <2>1. certain \in BOOLEAN
    BY <1>1 DEF ListTypeOK
  <2>2. certain' = certain \/ certain' = FALSE
    BY DEF update_my_application
  <2>3. certain' \in BOOLEAN /\ (certain' => certain)
    <3>1. CASE certain' = certain
      BY <2>1, <3>1
    <3>2. CASE certain' = FALSE
      BY <3>2
    <3> QED
      BY <2>2, <3>1, <3>2
  <2> QED
    BY <2>3 DEF update_my_application
<1>4. PICK t \in {"ok", "failed"} :
         /\ pending' = (pending \ {r}) \cup {[r EXCEPT !.at = t]}
         /\ \/ r.id \in DOMAIN apps /\ apps' = [apps EXCEPT ![r.id] = r.status]
               /\ (t = "failed" => ~certain')
            \/ apps' = apps /\ t = "failed"
  BY DEF update_my_application
<1> DEFINE new == [r EXCEPT !.at = t]
<1>5. /\ new \in ListUpdates /\ new.id = r.id /\ new.status = r.status /\ new.back = r.back
      /\ new.at = t /\ new.heard = r.heard
  BY <1>2, <1>4 DEF ListUpdates
<1>6. pending' = (pending \ {r}) \cup {new}
  BY <1>4
<1> HIDE DEF new
<1>7. ShownRows' = ShownRows
  BY <1>3, ShownKept
<1>8. apps' \in Listing /\ DOMAIN apps' = DOMAIN apps
  <2>1. DOMAIN apps \subseteq AppRows /\ apps \in [DOMAIN apps -> Statuses]
        /\ r.status \in Statuses
    BY <1>2, ListingIs DEF ListUpdates
  <2>2. apps' \in [DOMAIN apps -> Statuses]
    BY <1>4, <2>1
  <2> QED
    BY <2>1, <2>2, ListingOf
<1>9. ListTypeOK'
  <2>1. pending' \subseteq [n : 1..MaxSends, id : AppRows, status : Statuses,
                            back : Statuses, at : {"sent", "ok", "failed"}, heard : BOOLEAN]
    BY <1>2, <1>5, <1>6 DEF ListUpdates
  <2> QED
    BY <1>1, <1>3, <1>8, <2>1 DEF ListTypeOK
<1>10. ListShape'
  <2>1. \A p, q \in pending' : p.heard /\ q.heard /\ p.id = q.id => p = q
    BY <1>1, <1>5, <1>6 DEF ListShape
  <2>2. \A q \in pending' : q.heard => q.id \in DOMAIN cells'
    BY <1>1, <1>3, <1>5, <1>6 DEF ListShape
  <2> QED
    BY <1>1, <1>3, <1>7, <2>1, <2>2 DEF ListShape
<1>11. ASSUME turns' = 0 PROVE FirstPage /\ FirstPage'
  <2>1. FirstPage
    BY <1>3, <1>11 DEF ListInv
  <2>2. OnPage(0)' = OnPage(0)
    BY <1>8 DEF OnPage
  <2>3. \A q \in pending' : q.id \in DOMAIN apps => q.heard
    BY <1>5, <1>6, <2>1 DEF FirstPage
  <2> QED
    BY <1>3, <1>7, <1>8, <2>1, <2>2, <2>3 DEF FirstPage
<1>12. ASSUME turns' = 0, certain', NEW j \in DOMAIN apps' PROVE StatusKnown(j)'
  <2>1. StatusKnown(j) /\ FirstPage /\ j \in DOMAIN apps
    BY <1>3, <1>8, <1>11, <1>12 DEF ListInv
  <2>2. CASE j # r.id
    <3>1. apps'[j] = apps[j]
      BY <1>4, <1>8, <2>1, <2>2
    <3>2. \A q : q.id = j => (q \in pending' <=> q \in pending)
      BY <1>5, <1>6, <2>2
    <3>3. Taken(j)' <=> Taken(j)
      BY <3>2 DEF Taken
    <3> QED
      BY <1>3, <1>7, <2>1, <3>1, <3>2, <3>3 DEF StatusKnown
  <2>3. CASE j = r.id
    <3>1. \A q \in pending : q.id = j => q = r
      BY <1>1, <2>1, <2>3 DEF FirstPage, ListShape
    <3>2. new \in pending' /\ \A q \in pending' : q.id = j => q = new
      BY <1>6, <3>1
    <3>3. ~Taken(j)
      BY <1>3, <3>1 DEF Taken
    <3>4. CASE t = "ok"
      <4>1. apps'[j] = r.status
        BY <1>4, <2>1, <2>3, <3>4
      <4>2. Taken(j)'
        BY <1>5, <2>3, <3>2, <3>4 DEF Taken
      <4> QED
        BY <1>3, <1>5, <1>7, <2>1, <2>3, <3>2, <3>4, <4>1, <4>2 DEF StatusKnown
    <3>5. CASE t = "failed"
      <4>1. apps' = apps
        BY <1>4, <1>12, <3>5
      <4> QED
        BY <1>3, <1>5, <1>7, <2>1, <2>3, <3>2, <3>3, <3>5, <4>1 DEF StatusKnown
    <3> QED
      BY <3>4, <3>5
  <2> QED
    BY <2>2, <2>3
<1> QED
  BY <1>3, <1>9, <1>10, <1>11, <1>12 DEF ListInv

LEMMA confirmKeeps ==
  ASSUME ListInv, NEW i \in DOMAIN ShownRows, confirmDeletion(i)
  PROVE  ListInv'
<1>1. ListTypeOK /\ ListShape
  BY DEF ListInv
<1>2. /\ UNCHANGED <<apps, offset, lists, staleAt, asking, behind, cells, pending, turns,
                     certain>>
      /\ rowTrash.at \in {"none", "ask"}
  BY DEF confirmDeletion
<1>3. posts' \in 0..MaxSends
  <2>1. posts \in 0..MaxSends /\ MaxSends \in Nat
    BY <1>1, ListAssumption DEF ListTypeOK
  <2> QED
    BY <2>1 DEF confirmDeletion
<1>4. rowTrash' \in [at : {"none", "ask", "sent", "ok", "failed"}, id : 0..MaxRow,
                     last : BOOLEAN]
  <2>1. i \in 1..MaxRow /\ MaxRow \in Nat
    BY <1>1, ShownTyped, ListAssumption DEF AppRows
  <2>2. i \in 0..MaxRow /\ 0 \in 0..MaxRow
    BY <2>1
  <2>3. PICK l \in BOOLEAN : l = (Cardinality(DOMAIN ShownRows) = 1 /\ offset > 0)
    OBVIOUS
  <2>4. PICK t : t = rowTrash
    OBVIOUS
  <2>5. t \in [at : {"none", "ask", "sent", "ok", "failed"}, id : 0..MaxRow, last : BOOLEAN]
    BY <1>1, <2>4 DEF ListTypeOK
  <2>6. \/ rowTrash' = [at |-> "ask", id |-> i, last |-> FALSE]
        \/ rowTrash' = [at |-> "none", id |-> 0, last |-> FALSE]
        \/ rowTrash' = [t EXCEPT !.at = "sent", !.last = l]
    BY <2>3, <2>4, Zenon DEF confirmDeletion, NoTrash
  <2>7. CASE rowTrash' = [at |-> "ask", id |-> i, last |-> FALSE]
    BY <2>2, <2>7
  <2>8. CASE rowTrash' = [at |-> "none", id |-> 0, last |-> FALSE]
    BY <2>2, <2>8
  <2>9. CASE rowTrash' = [t EXCEPT !.at = "sent", !.last = l]
    BY <2>3, <2>5, <2>9
  <2> QED
    BY <2>6, <2>7, <2>8, <2>9
<1>5. ShownRows' = ShownRows
  BY <1>2, ShownKept
<1>6. ListTypeOK' /\ ListShape'
  BY <1>1, <1>2, <1>3, <1>4, <1>5 DEF ListTypeOK, ListShape
<1>7. ASSUME turns' = 0 PROVE FirstPage'
  <2>1. FirstPage
    BY <1>2, <1>7 DEF ListInv
  <2>2. OnPage(0)' = OnPage(0)
    BY <1>2 DEF OnPage
  <2> QED
    BY <1>2, <1>5, <2>1, <2>2 DEF FirstPage
<1>8. ASSUME turns' = 0, certain', NEW j \in DOMAIN apps' PROVE StatusKnown(j)'
  <2>1. StatusKnown(j)
    BY <1>2, <1>8 DEF ListInv
  <2> QED
    BY <1>2, <1>5, <2>1 DEF StatusKnown, Taken
<1> QED
  BY <1>6, <1>7, <1>8 DEF ListInv

\* A deletion in the database: what it leaves behind is known by its answer.
LEMMA deleteKeeps ==
  ASSUME ListInv, delete_my_application
  PROVE  ListInv'
<1>1. ListTypeOK /\ ListShape
  BY DEF ListInv
<1>2. /\ UNCHANGED <<offset, lists, staleAt, asking, behind, cells, pending, posts, turns,
                     certain>>
      /\ rowTrash.at = "sent"
  BY DEF delete_my_application
<1>3. rowTrash \in [at : {"none", "ask", "sent", "ok", "failed"}, id : 0..MaxRow,
                    last : BOOLEAN] /\ apps \in Listing
  BY <1>1 DEF ListTypeOK
<1>4. \/ /\ rowTrash.id \in DOMAIN apps
         /\ apps' = [i \in DOMAIN apps \ {rowTrash.id} |-> apps[i]]
         /\ rowTrash' = [rowTrash EXCEPT !.at = "ok"]
      \/ apps' = apps /\ rowTrash' = [rowTrash EXCEPT !.at = "failed"]
  BY DEF delete_my_application
<1>5. /\ rowTrash' \in [at : {"none", "ask", "sent", "ok", "failed"}, id : 0..MaxRow,
                        last : BOOLEAN]
      /\ rowTrash'.id = rowTrash.id
      /\ apps' # apps => rowTrash'.at = "ok"
  BY <1>3, <1>4
<1>6. /\ apps' \in Listing /\ DOMAIN apps' \subseteq DOMAIN apps
      /\ \A i \in DOMAIN apps' : apps'[i] = apps[i]
      /\ \A i \in DOMAIN apps \ DOMAIN apps' : i = rowTrash.id /\ rowTrash'.at = "ok"
  <2>1. DOMAIN apps \subseteq AppRows /\ apps \in [DOMAIN apps -> Statuses]
    BY <1>3, ListingIs
  <2>2. CASE apps' = apps
    BY <1>3, <2>2
  <2>3. CASE /\ apps' = [i \in DOMAIN apps \ {rowTrash.id} |-> apps[i]]
             /\ rowTrash' = [rowTrash EXCEPT !.at = "ok"]
    <3>1. DOMAIN apps' = DOMAIN apps \ {rowTrash.id} /\ DOMAIN apps' \in SUBSET AppRows
      BY <2>1, <2>3
    <3>2. apps' \in [DOMAIN apps' -> Statuses]
      BY <2>1, <2>3, <3>1
    <3>3. apps' \in Listing
      BY <3>1, <3>2, ListingOf
    <3> QED
      BY <1>3, <2>3, <3>1, <3>3
  <2> QED
    BY <1>4, <2>2, <2>3
<1>7. ShownRows' = ShownRows
  BY <1>2, ShownKept
<1>8. ListTypeOK' /\ ListShape'
  BY <1>1, <1>2, <1>5, <1>6, <1>7 DEF ListTypeOK, ListShape
<1>9. ASSUME turns' = 0 PROVE FirstPage'
  <2>1. FirstPage
    BY <1>2, <1>9 DEF ListInv
  <2>2. OnPage(0) \cap DOMAIN apps' \subseteq OnPage(0)'
    BY <1>3, <1>6, PageKept
  <2>3. DOMAIN ShownRows \cap DOMAIN apps' \subseteq OnPage(0)'
    BY <1>6, <2>1, <2>2 DEF FirstPage
  <2>4. \A i \in DOMAIN ShownRows \ DOMAIN apps' :
           0 \in staleAt \/ (rowTrash'.at = "ok" /\ rowTrash'.id = i)
    BY <1>2, <1>5, <1>6, <2>1 DEF FirstPage
  <2>5. \A a \in asking : a.read =>
          /\ DOMAIN ShownRows \cap DOMAIN apps' \subseteq DOMAIN a.rows
          /\ DOMAIN a.rows \cap DOMAIN apps' \subseteq OnPage(0)'
          /\ \A i \in DOMAIN a.rows \ DOMAIN apps' : rowTrash'.at = "ok" /\ rowTrash'.id = i
    BY <1>2, <1>5, <1>6, <2>1, <2>2 DEF FirstPage
  <2>6. \A r \in pending : r.id \in DOMAIN apps' => r.heard
    BY <1>6, <2>1 DEF FirstPage
  <2> QED
    BY <1>2, <1>7, <2>1, <2>3, <2>4, <2>5, <2>6 DEF FirstPage
<1>10. ASSUME turns' = 0, certain', NEW j \in DOMAIN apps' PROVE StatusKnown(j)'
  <2>1. StatusKnown(j) /\ apps'[j] = apps[j]
    BY <1>2, <1>6, <1>10 DEF ListInv
  <2> QED
    BY <1>2, <1>7, <2>1 DEF StatusKnown, Taken
<1> QED
  BY <1>8, <1>9, <1>10 DEF ListInv

LEMMA InvalidateKeeps ==
  ASSUME ListTypeOK, ListShape, Invalidate, offset' \in Offsets
  PROVE  /\ staleAt' \subseteq Offsets
         /\ asking' \subseteq [at : Offsets, read : BOOLEAN, rows : Listing]
         /\ \A a, b \in asking' : a.at = b.at => a = b
         /\ FirstPage /\ offset' = 0 =>
               0 \in staleAt' /\ \A a \in asking' : a.at = 0 /\ ~a.read
<1>1. /\ staleAt' = {l.at : l \in lists}
      /\ asking' = {a \in asking : a.at \notin {offset, offset'}}
                   \cup {Fetches(offset), Fetches(offset')}
  BY DEF Invalidate
<1>2. \A o \in Offsets : /\ Fetches(o) \in [at : Offsets, read : BOOLEAN, rows : Listing]
                         /\ Fetches(o).at = o /\ ~Fetches(o).read
  BY DEF Fetches, ListTypeOK
<1>3. /\ offset \in Offsets /\ lists \subseteq [at : Offsets, rows : Listing]
      /\ asking \subseteq [at : Offsets, read : BOOLEAN, rows : Listing]
      /\ \A a, b \in asking : a.at = b.at => a = b
  BY DEF ListTypeOK, ListShape
<1>4. staleAt' \subseteq Offsets
  BY <1>1, <1>3
<1>5. asking' \subseteq [at : Offsets, read : BOOLEAN, rows : Listing]
  BY <1>1, <1>2, <1>3
<1>6. \A a, b \in asking' : a.at = b.at => a = b
  BY <1>1, <1>2, <1>3
<1>7. ASSUME FirstPage, offset' = 0
      PROVE  0 \in staleAt' /\ \A a \in asking' : a.at = 0 /\ ~a.read
  <2>1. 0 \in staleAt'
    BY <1>1, <1>7 DEF FirstPage
  <2>2. \A a \in asking' : a = Fetches(0)
    BY <1>1, <1>7 DEF FirstPage
  <2> QED
    BY <1>2, <1>3, <1>7, <2>1, <2>2
<1> QED
  BY <1>4, <1>5, <1>6, <1>7

\* A render that finds the same rows keeps what is known of a row none of whose
\* updates has ended.
LEMMA RenderKnows ==
  ASSUME NEW ps, NEW old, UpdatesHear(ps), CellsShow(ps, old), FirstPage, ListShape,
         ShownRows' = ShownRows, apps' = apps, 0 \in staleAt => 0 \in staleAt',
         \A a \in asking' : a.read => a \in asking,
         cells' \in [DOMAIN ShownRows' -> ListCells],
         NEW j \in DOMAIN apps, StatusKnown(j),
         \A q : q.id = j => (q \in ps <=> q \in pending),
         DOMAIN old = DOMAIN cells, old[j] = cells[j]
  PROVE  StatusKnown(j)'
<1>1. DOMAIN cells = DOMAIN ShownRows /\ DOMAIN cells' = DOMAIN ShownRows
  BY DEF ListShape
<1>2. \A r \in pending' : r.id = j => \E q \in pending :
         /\ r.id = q.id /\ r.status = q.status /\ r.back = q.back /\ r.at = q.at
  BY DEF UpdatesHear
<1>3. \A q \in pending : q.id = j => \E r \in pending' : r.id = q.id /\ r.at = q.at
  BY DEF UpdatesHear
<1>4. Taken(j)' <=> Taken(j)
  BY <1>2, <1>3 DEF Taken
<1>5. \A q \in pending : q.id = j => q.heard /\ j \in DOMAIN cells
  BY DEF FirstPage, ListShape
<1>6. (\E q \in pending : q.id = j) => cells'[j] = cells[j]
  BY <1>1, <1>5 DEF CellsShow
<1>7. ASSUME NEW r \in pending', r.id = j
      PROVE  /\ cells'[j].shown = r.status
             /\ r.at = "ok" => apps[j] = r.status
             /\ r.at # "ok" => r.back = apps[j] \/ cells'[j].prev # apps[j]
  <2>1. PICK q \in pending : /\ q.id = j /\ r.status = q.status /\ r.back = q.back
                             /\ r.at = q.at
    BY <1>2, <1>7
  <2> QED
    BY <1>6, <1>7, <2>1 DEF StatusKnown
<1>8. ASSUME j \in DOMAIN cells', \A r \in pending' : r.id # j
      PROVE  cells'[j].shown = apps[j] \/ (cells'[j].prev # apps[j] /\ 0 \in staleAt')
  <2>1. j \in DOMAIN ShownRows /\ j \in DOMAIN cells /\ \A q \in pending : q.id # j
    BY <1>1, <1>3, <1>8
  <2>2. ShownRows[j] = apps[j] \/ 0 \in staleAt'
    BY <2>1 DEF StatusKnown, Taken
  <2>3. cells[j].shown = apps[j] \/ (cells[j].prev # apps[j] /\ 0 \in staleAt')
    BY <2>1 DEF StatusKnown
  <2>4. CASE ShownRows[j] # cells[j].prev
    <3>1. cells'[j].shown = ShownRows[j] /\ cells'[j].prev = ShownRows[j]
      BY <2>1, <2>4 DEF CellsShow
    <3> QED
      BY <2>2, <3>1
  <2>5. CASE ShownRows[j] = cells[j].prev
    <3>1. cells'[j] = cells[j]
      BY <2>1, <2>5 DEF CellsShow
    <3> QED
      BY <2>3, <3>1
  <2> QED
    BY <2>4, <2>5
<1>9. j \in DOMAIN ShownRows => ShownRows[j] = apps[j] \/ 0 \in staleAt' \/ Taken(j)
  BY DEF StatusKnown
<1>10. \A a \in asking' : a.read /\ j \in DOMAIN a.rows => a.rows[j] = apps[j] \/ Taken(j)
  BY DEF StatusKnown
<1> QED
  BY <1>4, <1>7, <1>8, <1>9, <1>10 DEF StatusKnown

\* The answer to an update: a success has the list fetched anew, a failure
\* brings back what the cell showed before.
LEMMA useUpdateKeeps ==
  ASSUME ListInv, NEW r \in pending, useUpdateApplicationMutation(r)
  PROVE  ListInv'
<1>1. ListTypeOK /\ ListShape
  BY DEF ListInv
<1>2. /\ r.at \in {"ok", "failed"}
      /\ UNCHANGED <<apps, offset, lists, behind, rowTrash, posts, turns, certain>>
      /\ r.at = "ok" => Invalidate
      /\ r.at = "failed" => UNCHANGED <<staleAt, asking>>
  BY DEF useUpdateApplicationMutation
<1>3. PICK ps : ps = pending \ {r}
  OBVIOUS
<1>4. PICK old : old = IF r.at = "failed" /\ r.heard
                       THEN [cells EXCEPT ![r.id].shown = r.back] ELSE cells
  OBVIOUS
<1>5. Screen(ps, old)
  BY <1>3, <1>4 DEF useUpdateApplicationMutation
<1>6. /\ pending \in SUBSET ListUpdates /\ cells \in [DOMAIN ShownRows -> ListCells]
      /\ DOMAIN cells = DOMAIN ShownRows
      /\ \A p, q \in pending : p.heard /\ q.heard /\ p.id = q.id => p = q
      /\ \A q \in pending : q.heard => q.id \in DOMAIN cells
      /\ r \in ListUpdates
  BY <1>1 DEF ListTypeOK, ListShape, ListUpdates, ListCells
<1>7. /\ old \in [DOMAIN old -> ListCells] /\ DOMAIN old = DOMAIN cells
      /\ \A i \in DOMAIN cells : old[i].prev = cells[i].prev
      /\ \A i \in DOMAIN cells : i # r.id => old[i] = cells[i]
      /\ r.at = "ok" => old = cells
      /\ r.at = "failed" /\ r.heard => old[r.id].shown = r.back
  <2>1. CASE ~(r.at = "failed" /\ r.heard)
    BY <1>4, <1>6, <2>1
  <2>2. CASE r.at = "failed" /\ r.heard
    <3>1. old = [cells EXCEPT ![r.id].shown = r.back]
      BY <1>4, <2>2
    <3>2. r.id \in DOMAIN cells /\ r.back \in Statuses /\ r.at # "ok"
      BY <1>6, <2>2 DEF ListUpdates
    <3> QED
      BY <1>6, <3>1, <3>2 DEF ListCells
  <2> QED
    BY <2>1, <2>2
<1>8. ShownRows' = ShownRows /\ ShownRows' \in Listing
  BY <1>1, <1>2, ShownKept, ShownTyped
<1>9. /\ ps \in SUBSET ListUpdates
      /\ \A p, q \in ps : p.heard /\ q.heard /\ p.id = q.id => p = q
  BY <1>3, <1>6
<1>10. /\ pending' \in SUBSET ListUpdates
       /\ cells' \in [DOMAIN ShownRows' -> ListCells]
       /\ \A p \in pending' : p.heard => p.id \in DOMAIN cells'
       /\ \A p, q \in pending' : p.heard /\ q.heard /\ p.id = q.id => p = q
       /\ UpdatesHear(ps) /\ CellsShow(ps, old)
  BY <1>5, <1>7, <1>8, <1>9, RenderShows
<1>11. offset' \in Offsets
  BY <1>1, <1>2 DEF ListTypeOK
<1>12. ListTypeOK'
  <2>1. \A i \in DOMAIN cells' : cells'[i] \in [shown : Statuses, prev : Statuses]
    BY <1>10 DEF ListCells
  <2>2. pending' \subseteq [n : 1..MaxSends, id : AppRows, status : Statuses,
                            back : Statuses, at : {"sent", "ok", "failed"}, heard : BOOLEAN]
    BY <1>10 DEF ListUpdates
  <2>3. /\ staleAt' \subseteq Offsets
        /\ asking' \subseteq [at : Offsets, read : BOOLEAN, rows : Listing]
    BY <1>1, <1>2, <1>11, InvalidateKeeps DEF ListTypeOK
  <2> QED
    BY <1>1, <1>2, <2>1, <2>2, <2>3 DEF ListTypeOK
<1>13. ListShape'
  <2>1. \A a, b \in asking' : a.at = b.at => a = b
    <3>1. \A a, b \in asking : a.at = b.at => a = b
      BY <1>1 DEF ListShape
    <3> QED
      BY <1>1, <1>2, <1>11, <3>1, InvalidateKeeps
  <2> QED
    BY <1>1, <1>2, <1>10, <2>1 DEF ListShape, ListCells
<1>14. ASSUME turns' = 0
       PROVE  /\ FirstPage /\ (0 \in staleAt => 0 \in staleAt')
              /\ r.at = "ok" => 0 \in staleAt' /\ \A a \in asking' : ~a.read
              /\ \A a \in asking' : a.at = 0 /\ (a.read => a \in asking)
  <2>1. FirstPage /\ offset' = 0
    BY <1>2, <1>14 DEF ListInv, FirstPage
  <2>2. CASE r.at = "ok"
    <3>1. 0 \in staleAt' /\ \A a \in asking' : a.at = 0 /\ ~a.read
      BY <1>1, <1>2, <1>11, <2>1, <2>2, InvalidateKeeps
    <3> QED
      BY <2>1, <3>1
  <2>3. CASE r.at = "failed"
    BY <1>2, <2>1, <2>3 DEF FirstPage
  <2> QED
    BY <1>2, <2>2, <2>3
<1>15. ASSUME turns' = 0 PROVE FirstPage'
  <2>1. OnPage(0)' = OnPage(0)
    BY <1>2 DEF OnPage
  <2>2. \A p \in pending' : p.id \in DOMAIN apps => p.heard
    <3>1. SUFFICES ASSUME NEW p \in pending', p.id \in DOMAIN apps PROVE p.heard
      OBVIOUS
    <3>2. PICK q \in ps : p.id = q.id /\ (p.heard <=> q.heard /\ p.id \in DOMAIN ShownRows')
      BY <1>10 DEF UpdatesHear
    <3>3. q \in pending /\ q.heard
      BY <1>3, <1>14, <1>15, <3>1, <3>2 DEF FirstPage
    <3> QED
      BY <1>6, <1>8, <3>2, <3>3
  <2>3. lists' # {} /\ offset' = 0 /\ \A l \in lists' : l.at = 0
    BY <1>2, <1>14, <1>15 DEF FirstPage
  <2>4. \A i \in DOMAIN ShownRows \ DOMAIN apps :
           0 \in staleAt' \/ (rowTrash.at = "ok" /\ rowTrash.id = i)
    BY <1>14, <1>15 DEF FirstPage
  <2>5. \A a \in asking' : a.read =>
          /\ DOMAIN ShownRows \cap DOMAIN apps \subseteq DOMAIN a.rows
          /\ DOMAIN a.rows \cap DOMAIN apps \subseteq OnPage(0)
          /\ \A i \in DOMAIN a.rows \ DOMAIN apps : rowTrash.at = "ok" /\ rowTrash.id = i
    BY <1>14, <1>15 DEF FirstPage
  <2>6. DOMAIN ShownRows \cap DOMAIN apps \subseteq OnPage(0) /\ \A a \in asking' : a.at = 0
    BY <1>14, <1>15 DEF FirstPage
  <2> QED
    BY <1>2, <1>8, <2>1, <2>2, <2>3, <2>4, <2>5, <2>6 DEF FirstPage
<1>16. ASSUME turns' = 0, certain', NEW j \in DOMAIN apps' PROVE StatusKnown(j)'
  <2>1. /\ StatusKnown(j) /\ FirstPage /\ j \in DOMAIN apps
        /\ (0 \in staleAt => 0 \in staleAt') /\ \A a \in asking' : a.read => a \in asking
    BY <1>2, <1>14, <1>16 DEF ListInv
  <2>2. CASE j # r.id
    <3>1. \A q : q.id = j => (q \in ps <=> q \in pending)
      BY <1>3, <2>2
    <3>2. CASE j \in DOMAIN cells
      <4>1. old[j] = cells[j]
        BY <1>7, <2>2, <3>2
      <4> QED
        BY <1>1, <1>2, <1>7, <1>8, <1>10, <2>1, <3>1, <4>1, RenderKnows
    <3>3. CASE j \notin DOMAIN cells
      <4>1. \A q \in pending : q.id # j
        BY <1>6, <2>1, <3>3 DEF FirstPage
      <4>2. \A q \in pending' : q.id # j
        BY <1>3, <1>10, <4>1 DEF UpdatesHear
      <4>3. j \notin DOMAIN cells' /\ j \notin DOMAIN ShownRows
        BY <1>6, <1>8, <1>10, <3>3
      <4>4. \A a \in asking' : a.read /\ j \in DOMAIN a.rows => a.rows[j] = apps[j]
        BY <2>1, <4>1 DEF StatusKnown, Taken
      <4> QED
        BY <1>2, <1>8, <4>2, <4>3, <4>4 DEF StatusKnown
    <3> QED
      BY <3>2, <3>3
  <2>3. CASE j = r.id
    <3>1. r.heard /\ j \in DOMAIN cells /\ j \in DOMAIN ShownRows
      BY <1>6, <2>1, <2>3 DEF FirstPage
    <3>2. \A q \in pending : q.id = j => q = r
      BY <1>6, <2>1, <2>3 DEF FirstPage
    <3>3. \A q \in ps : q.id # j
      BY <1>3, <3>2
    <3>4. \A q \in pending' : q.id # j
      BY <1>10, <3>3 DEF UpdatesHear
    <3>5. ShownRows[j] = apps[j] \/ 0 \in staleAt'
      <4>1. CASE r.at = "ok"
        BY <1>14, <1>16, <4>1
      <4>2. CASE r.at = "failed"
        <5>1. ~Taken(j)
          BY <3>2, <4>2 DEF Taken
        <5> QED
          BY <2>1, <3>1, <5>1 DEF StatusKnown
      <4> QED
        BY <1>2, <4>1, <4>2
    <3>6. \A a \in asking' : a.read /\ j \in DOMAIN a.rows => a.rows[j] = apps[j]
      <4>1. CASE r.at = "ok"
        BY <1>14, <1>16, <4>1
      <4>2. CASE r.at = "failed"
        <5>1. ~Taken(j)
          BY <3>2, <4>2 DEF Taken
        <5> QED
          BY <2>1, <3>1, <5>1 DEF StatusKnown
      <4> QED
        BY <1>2, <4>1, <4>2
    <3>7. old[j].shown = apps[j] \/ cells[j].prev # apps[j]
      <4>1. CASE r.at = "ok"
        BY <1>7, <2>1, <2>3, <4>1 DEF StatusKnown
      <4>2. CASE r.at = "failed"
        BY <1>7, <2>1, <2>3, <3>1, <4>2 DEF StatusKnown
      <4> QED
        BY <1>2, <4>1, <4>2
    <3>8. cells'[j].shown = apps[j] \/ (cells'[j].prev # apps[j] /\ 0 \in staleAt')
      <4>1. old[j].prev = cells[j].prev /\ j \in DOMAIN old
        BY <1>7, <3>1
      <4>2. CASE ShownRows[j] # cells[j].prev
        <5>1. cells'[j].shown = ShownRows[j] /\ cells'[j].prev = ShownRows[j]
          BY <1>8, <1>10, <3>1, <3>3, <4>1, <4>2 DEF CellsShow
        <5> QED
          BY <3>5, <5>1
      <4>3. CASE ShownRows[j] = cells[j].prev
        <5>1. cells'[j] = old[j]
          BY <1>8, <1>10, <3>1, <4>1, <4>3 DEF CellsShow
        <5> QED
          BY <3>5, <3>7, <4>1, <4>3, <5>1
      <4> QED
        BY <4>2, <4>3
    <3> QED
      BY <1>2, <1>8, <3>4, <3>5, <3>6, <3>8 DEF StatusKnown
  <2> QED
    BY <2>2, <2>3
<1> QED
  BY <1>2, <1>12, <1>13, <1>15, <1>16 DEF ListInv

LEMMA useDeleteKeeps ==
  ASSUME ListInv, useDeleteApplicationMutation
  PROVE  ListInv'
<1>1. ListTypeOK /\ ListShape
  BY DEF ListInv
<1>2. rowTrash \in [at : {"none", "ask", "sent", "ok", "failed"}, id : 0..MaxRow,
                    last : BOOLEAN] /\ offset \in Offsets /\ behind \in Listing
  BY <1>1 DEF ListTypeOK
<1>3. CASE /\ rowTrash.at = "failed" /\ rowTrash' = [rowTrash EXCEPT !.at = "ask"]
           /\ UNCHANGED <<apps, offset, lists, staleAt, asking, behind, cells, pending,
                          posts, turns, certain>>
  <2>1. rowTrash' \in [at : {"none", "ask", "sent", "ok", "failed"}, id : 0..MaxRow,
                       last : BOOLEAN]
    BY <1>2, <1>3
  <2>2. ShownRows' = ShownRows
    BY <1>3, ShownKept
  <2>3. ListTypeOK' /\ ListShape'
    BY <1>1, <1>3, <2>1, <2>2 DEF ListTypeOK, ListShape
  <2>4. ASSUME turns' = 0 PROVE FirstPage'
    <3>1. FirstPage
      BY <1>3, <2>4 DEF ListInv
    <3>2. OnPage(0)' = OnPage(0)
      BY <1>3 DEF OnPage
    <3> QED
      BY <1>3, <2>2, <3>1, <3>2 DEF FirstPage
  <2>5. ASSUME turns' = 0, certain', NEW j \in DOMAIN apps' PROVE StatusKnown(j)'
    <3>1. StatusKnown(j)
      BY <1>3, <2>5 DEF ListInv
    <3> QED
      BY <1>3, <2>2, <3>1 DEF StatusKnown, Taken
  <2> QED
    BY <2>3, <2>4, <2>5 DEF ListInv
<1>4. CASE /\ rowTrash.at = "ok" /\ rowTrash' = NoTrash
           /\ offset' = IF rowTrash.last /\ offset > 0 THEN offset - ListSize ELSE offset
           /\ behind' = ShownRows /\ UNCHANGED lists
           /\ Invalidate /\ Screen(pending, cells)
           /\ UNCHANGED <<apps, posts, turns, certain>>
  <2>1. offset' \in Offsets
    BY <1>2, <1>4, OffsetsBack
  <2>2. /\ lists' \subseteq [at : Offsets, rows : Listing] /\ behind' \in Listing
        /\ ShownRows' \in Listing
    BY <1>1, <1>4, ShownTyped, ShownTypedNext DEF ListTypeOK
  <2>3. /\ pending \in SUBSET ListUpdates /\ cells \in [DOMAIN cells -> ListCells]
        /\ DOMAIN cells = DOMAIN ShownRows
        /\ \A p, q \in pending : p.heard /\ q.heard /\ p.id = q.id => p = q
        /\ \A q \in pending : q.heard => q.id \in DOMAIN cells
    BY <1>1 DEF ListTypeOK, ListShape, ListUpdates, ListCells
  <2>4. /\ pending' \in SUBSET ListUpdates
        /\ cells' \in [DOMAIN ShownRows' -> ListCells]
        /\ \A p \in pending' : p.heard => p.id \in DOMAIN cells'
        /\ \A p, q \in pending' : p.heard /\ q.heard /\ p.id = q.id => p = q
        /\ UpdatesHear(pending) /\ CellsShow(pending, cells)
    BY <1>4, <2>2, <2>3, RenderShows
  <2>5. /\ staleAt' \subseteq Offsets
        /\ asking' \subseteq [at : Offsets, read : BOOLEAN, rows : Listing]
        /\ \A a, b \in asking' : a.at = b.at => a = b
        /\ FirstPage /\ offset' = 0 =>
              0 \in staleAt' /\ \A a \in asking' : a.at = 0 /\ ~a.read
    BY <1>1, <1>4, <2>1, InvalidateKeeps
  <2>6. ListTypeOK'
    <3>1. \A i \in DOMAIN cells' : cells'[i] \in [shown : Statuses, prev : Statuses]
      BY <2>4 DEF ListCells
    <3>2. pending' \subseteq [n : 1..MaxSends, id : AppRows, status : Statuses,
                              back : Statuses, at : {"sent", "ok", "failed"}, heard : BOOLEAN]
      BY <2>4 DEF ListUpdates
    <3>3. rowTrash' \in [at : {"none", "ask", "sent", "ok", "failed"}, id : 0..MaxRow,
                         last : BOOLEAN]
      <4>1. 0 \in 0..MaxRow
        BY ListAssumption
      <4> QED
        BY <1>4, <4>1 DEF NoTrash
    <3> QED
      BY <1>1, <1>4, <2>1, <2>2, <2>5, <3>1, <3>2, <3>3 DEF ListTypeOK
  <2>7. ListShape'
    BY <1>1, <1>4, <2>4, <2>5 DEF ListShape, ListCells
  <2>8. ASSUME turns' = 0
        PROVE  /\ FirstPage /\ offset' = 0 /\ ShownRows' = ShownRows
               /\ 0 \in staleAt' /\ \A a \in asking' : a.at = 0 /\ ~a.read
    <3>1. FirstPage /\ offset = 0 /\ offset' = 0
      BY <1>4, <2>8 DEF ListInv, FirstPage
    <3>2. Has(lists, offset) /\ lists' = lists
      BY <1>4, <3>1 DEF FirstPage, Has
    <3>3. ShownRows' = ShownRows
      BY <3>1, <3>2 DEF ShownRows, Has, RowsAt
    <3> QED
      BY <2>5, <3>1, <3>3
  <2>9. ASSUME turns' = 0 PROVE FirstPage'
    <3>1. OnPage(0)' = OnPage(0)
      BY <1>4 DEF OnPage
    <3>2. \A p \in pending' : p.id \in DOMAIN apps => p.heard
      <4>1. SUFFICES ASSUME NEW p \in pending', p.id \in DOMAIN apps PROVE p.heard
        OBVIOUS
      <4>2. PICK q \in pending : p.id = q.id /\ (p.heard <=> q.heard /\ p.id \in DOMAIN ShownRows')
        BY <2>4 DEF UpdatesHear
      <4>3. q.heard
        BY <2>8, <2>9, <4>1, <4>2 DEF FirstPage
      <4> QED
        BY <2>3, <2>8, <2>9, <4>2, <4>3
    <3>3. lists' # {} /\ \A l \in lists' : l.at = 0
      BY <1>4, <2>8, <2>9 DEF FirstPage
    <3>4. DOMAIN ShownRows \cap DOMAIN apps \subseteq OnPage(0)
      BY <2>8, <2>9 DEF FirstPage
    <3> QED
      BY <1>4, <2>8, <2>9, <3>1, <3>2, <3>3, <3>4 DEF FirstPage
  <2>10. ASSUME turns' = 0, certain', NEW j \in DOMAIN apps' PROVE StatusKnown(j)'
    <3>1. /\ StatusKnown(j) /\ j \in DOMAIN apps /\ apps' = apps
          /\ FirstPage /\ ShownRows' = ShownRows
          /\ (0 \in staleAt => 0 \in staleAt') /\ \A a \in asking' : a.read => a \in asking
      BY <1>4, <2>8, <2>10 DEF ListInv
    <3> QED
      BY <1>1, <2>4, <3>1, RenderKnows
  <2> QED
    BY <2>6, <2>7, <2>9, <2>10 DEF ListInv
<1> QED
  BY <1>3, <1>4 DEF useDeleteApplicationMutation

LEMMA ListInvSafe ==
  ASSUME ListInv
  PROVE  ListSafe
<1>1. SUFFICES ASSUME ListSettled, certain, turns = 0, NEW i \in DOMAIN cells
               PROVE  i \in DOMAIN apps /\ cells[i].shown = apps[i]
  BY DEF ListInv, ListSafe, StatusIsTrue
<1>2. FirstPage /\ ListShape
  BY <1>1 DEF ListInv
<1>3. 0 \notin staleAt /\ rowTrash.at = "none" /\ pending = {} /\ i \in DOMAIN ShownRows
  BY <1>1, <1>2 DEF ListSettled, FirstPage, ListShape
<1>4. i \in DOMAIN apps
  BY <1>2, <1>3 DEF FirstPage
<1>5. StatusKnown(i)
  BY <1>1, <1>4 DEF ListInv
<1> QED
  BY <1>1, <1>3, <1>4, <1>5 DEF StatusKnown

LEMMA ListStutter ==
  ASSUME ListInv, UNCHANGED listVars
  PROVE  ListInv'
<1>1. ListTypeOK /\ ListShape
  BY DEF ListInv
<1>2. UNCHANGED <<apps, offset, lists, staleAt, asking, behind, cells, pending, rowTrash,
                  posts, turns, certain>>
  BY DEF listVars
<1>3. ShownRows' = ShownRows
  BY <1>2, ShownKept
<1>4. ListTypeOK' /\ ListShape'
  BY <1>1, <1>2, <1>3 DEF ListTypeOK, ListShape
<1>5. ASSUME turns' = 0 PROVE FirstPage'
  <2>1. FirstPage /\ OnPage(0)' = OnPage(0)
    BY <1>2, <1>5 DEF ListInv, OnPage
  <2> QED
    BY <1>2, <1>3, <2>1 DEF FirstPage
<1>6. ASSUME turns' = 0, certain', NEW j \in DOMAIN apps' PROVE StatusKnown(j)'
  <2>1. StatusKnown(j)
    BY <1>2, <1>6 DEF ListInv
  <2> QED
    BY <1>2, <1>3, <2>1 DEF StatusKnown, Taken
<1> QED
  BY <1>4, <1>5, <1>6 DEF ListInv

(* However picks, refusals, fetches and deletions overlap, on the settled  *)
(* first page every cell shows the status its row has in the database,     *)
(* unless an update lost its answer: for any number of rows and statuses.  *)
THEOREM ListAlwaysSafe == ListSpec => []ListSafe
<1>1. ListInit => ListInv
  BY ListInit_Inv
<1>2. ListInv /\ [ListNext]_listVars => ListInv'
  <2> SUFFICES ASSUME ListInv, [ListNext]_listVars PROVE ListInv'
    OBVIOUS
  <2>1. CASE \E o \in Offsets : Pager(o)
    BY <2>1, PagerKeeps
  <2>2. CASE \E a \in asking : useApplicationsQuery(a)
    <3>1. PICK a \in asking : useApplicationsQuery(a)
      BY <2>2
    <3>2. CASE ~a.read /\ asking' = (asking \ {a}) \cup
                 {[a EXCEPT !.read = TRUE, !.rows = list_my_applications(a.at)]}
               /\ UNCHANGED <<lists, staleAt, behind, pending, cells>>
      BY <3>1, <3>2, ReadsKeep DEF useApplicationsQuery
    <3>3. CASE /\ a.read /\ asking' = asking \ {a} /\ UNCHANGED behind
               /\ lists' = {l \in lists : l.at # a.at}
                           \cup {[at |-> a.at, rows |-> a.rows]}
               /\ staleAt' = staleAt \ {a.at} /\ Screen(pending, cells)
      BY <3>1, <3>3, AnswersKeep DEF useApplicationsQuery
    <3>4. CASE asking' = asking \ {a}
               /\ UNCHANGED <<lists, staleAt, behind, pending, cells>>
      BY <3>1, <3>4, BreaksKeep DEF useApplicationsQuery
    <3> QED
      BY <3>1, <3>2, <3>3, <3>4 DEF useApplicationsQuery
  <2>3. CASE \E i \in AppRows, s \in Statuses : handleChange(i, s)
    BY <2>3, handleChangeKeeps
  <2>4. CASE \E r \in pending : update_my_application(r) \/ useUpdateApplicationMutation(r)
    BY <2>4, updateKeeps, useUpdateKeeps
  <2>5. CASE \E i \in DOMAIN ShownRows : confirmDeletion(i)
    BY <2>5, confirmKeeps
  <2>6. CASE delete_my_application \/ useDeleteApplicationMutation
    BY <2>6, deleteKeeps, useDeleteKeeps
  <2>7. CASE UNCHANGED listVars
    BY <2>7, ListStutter
  <2> QED
    BY <2>1, <2>2, <2>3, <2>4, <2>5, <2>6, <2>7 DEF ListNext
<1>3. ListInv => ListSafe
  BY ListInvSafe
<1> QED
  BY <1>1, <1>2, <1>3, PTL DEF ListSpec
===========================================================================
