----------------------------- MODULE AccountForms ---------------------------
(***************************************************************************)
(* The forms a signed-out visitor sees: login with its lockout countdown,  *)
(* sign-up with its field checks, and the two forms that ask for a mail,   *)
(* which may be sent again after a cooldown.  One form is on screen; time  *)
(* passes in seconds for the countdown and for the server's lock alike.    *)
(***************************************************************************)
EXTENDS Naturals, FiniteSets

CONSTANTS
    LockTime,      \* seconds the login lock of an e-mail address lasts
    Minute,        \* seconds the minutes of the body are rounded up to
    MailCooldown,  \* seconds between two mails asked for
    MaxFails,      \* wrong logins that set the lock
    MaxSubmits     \* bound: submissions

ASSUME FormsAssumption ==
    /\ {LockTime, Minute, MailCooldown, MaxFails} \subseteq Nat \ {0}
    /\ MaxSubmits \in Nat

VARIABLES
    form,      \* the form on screen
    phase,     \* its mutation
    fields,    \* what is wrong with what is typed, for sign-up
    shown,     \* the field error on screen, "none" when there is none
    left,      \* useCooldown: seconds on the countdown
    tickers,   \* useCooldown: intervals alive
    lock,      \* server: seconds the login lock has left
    fails,     \* server: wrong logins counted
    told,      \* the answer on its way: its kind and its Retry-After
    awaited,   \* history: seconds left of the lock that refused this form
    sinceMail, \* history: seconds since the form's last mail, up to the cooldown
    submits    \* history: submissions

formVars == <<form, phase, fields, shown, left, tickers, lock, fails, told,
              awaited, sinceMail, submits>>

MailForms == {"resetRequest", "verifyRequest"}
Forms == {"login", "signup"} \cup MailForms
Least(a, b) == IF a < b THEN a ELSE b
Minus(a, b) == IF a > b THEN a - b ELSE 0

-----------------------------------------------------------------------------
(* Password rules: a password is the set of rules it passes *)

Rules == {"length", "upper", "lower", "number"}

evaluatePasswordStrength(passed) ==
    LET n == Cardinality(passed)
    IN IF n <= 2 THEN "Weak" ELSE IF n = 3 THEN "Medium" ELSE "Strong"

validatePassword(passed) == passed = Rules

\* What can be wrong with a sign-up, in the order the form looks for it.
Faults == {"name", "email", "password", "mismatch"}
FirstFault(S) ==
    CASE "name" \in S -> "name"
      [] "email" \in S /\ "name" \notin S -> "email"
      [] "password" \in S /\ S \cap {"name", "email"} = {} -> "password"
      [] S = {"mismatch"} -> "mismatch"
      [] OTHER -> "none"

FormsTypeOK ==
    /\ form \in Forms /\ phase \in {"idle", "pending", "success", "error"}
    /\ fields \subseteq Faults /\ shown \in Faults \cup {"none"}
    /\ {left, tickers, awaited} \subseteq Nat
    /\ lock \in 0..LockTime /\ fails \in 0..MaxFails
    /\ told.kind \in {"none", "ok", "wrong", "locked", "lost"}
    /\ sinceMail \in 0..MailCooldown /\ submits \in 0..MaxSubmits

Fresh(f) ==
    /\ form' = f /\ phase' = "idle" /\ shown' = "none"
    /\ fields' = IF f = "signup" THEN Faults ELSE {}
    /\ left' = 0 /\ tickers' = 0
    /\ told' = [kind |-> "none", wait |-> 0]
    /\ awaited' = 0 /\ sinceMail' = MailCooldown

FormsInit ==
    /\ form \in Forms /\ phase = "idle" /\ shown = "none"
    /\ fields = IF form = "signup" THEN Faults ELSE {}
    /\ left = 0 /\ tickers = 0 /\ lock = 0 /\ fails = 0
    /\ told = [kind |-> "none", wait |-> 0]
    /\ awaited = 0 /\ sinceMail = MailCooldown /\ submits = 0

-----------------------------------------------------------------------------
(* useCooldown *)

\* start sets the seconds and a new interval, whatever interval there is.
startCooldown(seconds) == left' = seconds /\ tickers' = tickers + 1

\* Each interval takes a second off; the one that reaches zero clears the last
\* interval set.
Second ==
    /\ left > 0 \/ lock > 0 \/ awaited > 0 \/ sinceMail < MailCooldown
    /\ left' = Minus(left, tickers)
    /\ tickers' = IF left <= tickers THEN Minus(tickers, 1) ELSE tickers
    /\ lock' = Minus(lock, 1) /\ awaited' = Minus(awaited, 1)
    /\ fails' = IF lock = 1 THEN 0 ELSE fails
    /\ sinceMail' = Least(sinceMail + 1, MailCooldown)
    /\ UNCHANGED <<form, phase, fields, shown, told, submits>>

-----------------------------------------------------------------------------
(* Submitting *)

\* The button is disabled while a request is pending.
Sends ==
    /\ phase # "pending" /\ submits < MaxSubmits
    /\ phase' = "pending" /\ submits' = submits + 1
    /\ told' = [kind |-> "none", wait |-> 0]

LoginForm ==
    /\ form = "login" /\ phase # "success" /\ left = 0
    /\ Sends
    /\ UNCHANGED <<form, fields, shown, left, tickers, lock, fails, awaited,
                   sinceMail>>

\* Typing repairs or spoils a field, and takes the error of that field away;
\* the mismatch error goes only when the confirmation is edited, though editing
\* the password decides it too.
TypeSignup ==
    /\ form = "signup" /\ phase \in {"idle", "error"}
    /\ \E f \in Faults :
          /\ fields' = IF f \in fields THEN fields \ {f} ELSE fields \cup {f}
          /\ shown' \in {shown, IF shown = f THEN "none" ELSE shown}
          /\ shown' = shown => f = "mismatch" \/ shown # f
    /\ UNCHANGED <<form, phase, left, tickers, lock, fails, told, awaited,
                   sinceMail, submits>>

\* handleSubmit looks for the first fault and sends only when there is none.
SignupForm ==
    /\ form = "signup" /\ phase # "pending" /\ phase # "success"
    /\ shown' = FirstFault(fields)
    /\ IF fields = {} THEN Sends
       ELSE UNCHANGED <<phase, submits, told>>
    /\ UNCHANGED <<form, fields, left, tickers, lock, fails, awaited, sinceMail>>

\* Both the first request and the resend of the panel it leaves.
RequestMail(f) ==
    /\ form = f /\ left = 0
    /\ Sends
    /\ UNCHANGED <<form, fields, shown, left, tickers, lock, fails, awaited,
                   sinceMail>>

PasswordResetRequestForm == RequestMail("resetRequest")
VerificationEmailRequestForm == RequestMail("verifyRequest")

-----------------------------------------------------------------------------
(* The server *)

\* A login is refused while the lock lasts, with the seconds it has left; a
\* wrong one counts, and the last one allowed sets the lock.
handle_login ==
    /\ form = "login" /\ phase = "pending" /\ told.kind = "none"
    /\ \/ /\ lock > 0 /\ told' = [kind |-> "locked", wait |-> lock]
          /\ awaited' = lock
          /\ UNCHANGED <<lock, fails>>
       \/ /\ lock = 0 /\ told' = [kind |-> "ok", wait |-> 0] /\ fails' = 0
          /\ UNCHANGED <<lock, awaited>>
       \/ /\ lock = 0 /\ fails + 1 < MaxFails /\ fails' = fails + 1
          /\ told' = [kind |-> "wrong", wait |-> 0]
          /\ UNCHANGED <<lock, awaited>>
       \/ /\ lock = 0 /\ fails + 1 >= MaxFails /\ fails' = MaxFails
          /\ lock' = LockTime /\ awaited' = LockTime
          /\ told' = [kind |-> "locked", wait |-> LockTime]
    /\ UNCHANGED <<form, phase, fields, shown, left, tickers, sinceMail, submits>>

\* Somebody else's wrong logins set the lock for the same address.
LockedElsewhere ==
    /\ lock = 0 /\ form = "login" /\ submits < MaxSubmits
    /\ lock' = LockTime /\ fails' = MaxFails /\ submits' = submits + 1
    /\ UNCHANGED <<form, phase, fields, shown, left, tickers, told, awaited,
                   sinceMail>>

\* Sign-up and the mail requests answer alike whether the address is known.
AnswerForm ==
    /\ form # "login" /\ phase = "pending" /\ told.kind = "none"
    /\ \E k \in {"ok", "wrong"} : told' = [kind |-> k, wait |-> 0]
    /\ UNCHANGED <<form, phase, fields, shown, left, tickers, lock, fails,
                   awaited, sinceMail, submits>>

-----------------------------------------------------------------------------
(* The answer on screen *)

\* As if the minutes were rounded down.
RoundedDown(n) == (n \div Minute) * Minute

RoundedUp(n) == ((n + Minute - 1) \div Minute) * Minute

\* The countdown starts from Retry-After, or from the minutes of the body when
\* the browser hides the header.
LoginAnswer ==
    /\ form = "login" /\ phase = "pending" /\ told.kind # "none"
    /\ \/ /\ told.kind = "ok" /\ phase' = "success" /\ UNCHANGED <<left, tickers>>
       \/ /\ told.kind = "wrong" /\ phase' = "error" /\ UNCHANGED <<left, tickers>>
       \/ /\ told.kind = "locked" /\ phase' = "error"
          /\ \E n \in {told.wait, RoundedUp(told.wait)} : startCooldown(n)
    /\ UNCHANGED <<form, fields, shown, lock, fails, told, awaited, sinceMail,
                   submits>>

FormAnswer ==
    /\ form # "login" /\ phase = "pending" /\ told.kind # "none"
    /\ phase' = IF told.kind = "ok" THEN "success" ELSE "error"
    /\ IF told.kind = "ok" /\ form \in MailForms
       THEN startCooldown(MailCooldown) /\ sinceMail' = 0
       ELSE UNCHANGED <<left, tickers, sinceMail>>
    /\ UNCHANGED <<form, fields, shown, lock, fails, told, awaited, submits>>

\* The answer is lost, or the server failed: an error that may be retried.
AnswerLost ==
    /\ phase = "pending" /\ phase' = "error"
    /\ awaited' = 0
    /\ UNCHANGED <<form, fields, shown, left, tickers, lock, fails, told,
                   sinceMail, submits>>

\* Another form is opened; the one left is unmounted with its interval.  The
\* panel of a finished sign-up holds a mail form of its own.
OpenForm(f) ==
    /\ f # form /\ Fresh(f)
    /\ UNCHANGED <<lock, fails, submits>>

FormsNext ==
    \/ Second \/ LoginForm \/ TypeSignup \/ SignupForm
    \/ PasswordResetRequestForm \/ VerificationEmailRequestForm
    \/ handle_login \/ LockedElsewhere \/ AnswerForm
    \/ LoginAnswer \/ FormAnswer \/ AnswerLost
    \/ \E f \in Forms : OpenForm(f)

FormsSpec == FormsInit /\ [][FormsNext]_formVars

-----------------------------------------------------------------------------
(* Properties *)

\* The button of a locked-out login form never comes back before the lock that
\* refused it has ended, however late its answer came and whichever of the two
\* waits it carried.
LoginWaitsOutLock ==
    form = "login" /\ phase = "error" /\ left = 0 => awaited = 0

\* Two mails asked for by one form are a cooldown apart, and its countdown loses
\* a second a second: the intervals a form starts never add up.
MailsApart ==
    /\ form \in MailForms /\ phase = "pending" => sinceMail = MailCooldown
    /\ tickers <= 1 /\ (left > 0 <=> tickers = 1)

\* A password the form calls strong is one it accepts, and only such a one.
StrongIsValid ==
    \A p \in SUBSET Rules : evaluatePasswordStrength(p) = "Strong" <=> validatePassword(p)

\* What the forms promise together.
FormsSafe == FormsTypeOK /\ LoginWaitsOutLock /\ MailsApart /\ StrongIsValid

-----------------------------------------------------------------------------
(* Why they hold *)

\* The answer on its way is a record; a refusal of the lock says how long.
ToldKnown ==
    /\ told \in [kind : {"none", "ok", "wrong", "locked", "lost"}, wait : 0..LockTime]
    /\ told.kind = "locked" => told.wait > 0

\* The countdown of a refused login is never behind the lock, nor is the wait on
\* its way to it; a login that was not refused waits for nothing.
CountdownCovers ==
    form = "login" =>
        /\ phase = "error" => awaited <= left
        /\ phase # "error" => left = 0
        /\ phase = "pending" /\ told.kind = "locked" => awaited <= told.wait
        /\ phase # "error" /\ ~(phase = "pending" /\ told.kind = "locked") => awaited = 0

\* The countdown of a mail form and the time since its mail make up a cooldown.
CooldownCovers ==
    /\ form \in MailForms => left + sinceMail = MailCooldown
                             /\ (phase = "pending" => left = 0)
    /\ form = "signup" => left = 0

OneTicker == tickers = IF left > 0 THEN 1 ELSE 0

FormsInv ==
    FormsTypeOK /\ ToldKnown /\ CountdownCovers /\ CooldownCovers /\ OneTicker
=============================================================================
