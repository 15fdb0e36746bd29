--------------------------- MODULE TokenSessions ---------------------------
(***************************************************************************)
(* The sessions of one account: versioned, rotating refresh tokens, and    *)
(* the user_sessions table that mirrors them.                              *)
(*                                                                         *)
(* A login starts a chain.  A token carries the account and the chain      *)
(* version it was minted with and is accepted while both still match the   *)
(* counters in the database; bumping a counter is how tokens are revoked.  *)
(* Redeeming a refresh token claims its jti and mints a child with the     *)
(* parent's versions.  Every handler awaits between its statements, and    *)
(* handlers of several devices interleave at those awaits.                 *)
(*                                                                         *)
(* Not modelled: expiry, tokens from before the version claims, and the    *)
(* access token minted next to each refresh token (same versions).         *)
(***************************************************************************)
EXTENDS Naturals, FiniteSets

CONSTANTS Chain,        \* login chains, each used by one login (a uuid)
          Handler,      \* requests that can be in flight at a time
          None,         \* no chain
          MaxToken,     \* bound on the refresh tokens a run mints
          MaxVersion,   \* bound on each version counter
          MirrorFails   \* TRUE: a write to user_sessions can fail

ASSUME TokenAssumption ==
  /\ None \notin Chain
  /\ MaxToken \in Nat /\ MaxVersion \in Nat
  /\ MirrorFails \in BOOLEAN

VARIABLES account,      \* account_ver
          chainVer,     \* chainVer[c]: chain_ver of the account's chain c
          tokens,       \* every refresh token minted
          held,         \* ids of the tokens some client was given
          consumed,     \* ids of the tokens in consumed_refresh_tokens
          rows,         \* the rows of user_sessions
          hnd,          \* hnd[h]: local state of a request
          ended,        \* history: roots whose sessions were ended by a bump
          loggedOut     \* history: tokens a logout answered "session_revoked"

vars == <<account, chainVer, tokens, held, consumed, rows, hnd, ended, loggedOut>>

versions == <<account, chainVer, ended>>

TokenId == 1..MaxToken

(* root is history: the token minted by the login, or reissued by the      *)
(* password change, that this one descends from.                           *)
Token == [id : TokenId, chain : Chain, acc : Nat, chn : Nat,
          parent : {0} \cup TokenId, root : TokenId]

(* A row's id is the jti it was created with; jti is current_jti.          *)
Row == [id : TokenId, jti : TokenId, chain : Chain]

Tok(id) == CHOOSE t \in tokens : t.id = id

Valid(t) == t.acc = account /\ t.chn = chainVer[t.chain]

Idle == [phase |-> "idle", op |-> "none", tok |-> 0, chain |-> None,
         row |-> 0, child |-> 0, was |-> FALSE]

Init ==
  /\ account = 0
  /\ chainVer = [c \in Chain |-> 0]
  /\ tokens = {} /\ held = {} /\ consumed = {} /\ rows = {}
  /\ hnd = [h \in Handler |-> Idle]
  /\ ended = {} /\ loggedOut = {}

---------------------------------------------------------------------------
(* Minting *)

NextId == Cardinality(tokens) + 1

Mint(c, acc, chn, parent, root) ==
  /\ Cardinality(tokens) < MaxToken
  /\ tokens' = tokens \cup {[id |-> NextId, chain |-> c, acc |-> acc,
                             chn |-> chn, parent |-> parent, root |-> root]}

Goto(h, phase) == hnd' = [hnd EXCEPT ![h].phase = phase]

Answer(h) == hnd' = [hnd EXCEPT ![h] = Idle]

(* A fresh chain; its versions are read in one statement.                  *)
Login(h, c) ==
  /\ hnd[h] = Idle
  /\ \A t \in tokens : t.chain # c
  /\ Mint(c, account, chainVer[c], 0, NextId)
  /\ hnd' = [hnd EXCEPT ![h] = [Idle EXCEPT !.phase = "add", !.op = "login",
                                            !.chain = c, !.child = NextId]]
  /\ UNCHANGED <<versions, held, consumed, rows, loggedOut>>

---------------------------------------------------------------------------
(* Checking a token: is_current_version reads the account's version, then  *)
(* the chain's.  The first step of refresh and of every protected request. *)

CheckAccount(h, id, op) ==
  /\ hnd[h] = Idle
  /\ Tok(id).acc = account
  /\ hnd' = [hnd EXCEPT ![h] = [Idle EXCEPT !.phase = "account", !.op = op,
                                            !.tok = id, !.chain = Tok(id).chain,
                                            !.was = Valid(Tok(id))]]
  /\ UNCHANGED <<versions, tokens, held, consumed, rows, loggedOut>>

CheckChainSkipped(h) ==                             \* mutant: account only
  /\ hnd[h].phase = "account"
  /\ Goto(h, "current")
  /\ UNCHANGED <<versions, tokens, held, consumed, rows, loggedOut>>

CheckChain(h) ==
  /\ hnd[h].phase = "account"
  /\ IF Tok(hnd[h].tok).chn = chainVer[hnd[h].chain]
       THEN Goto(h, "current") ELSE Answer(h)
  /\ UNCHANGED <<versions, tokens, held, consumed, rows, loggedOut>>

---------------------------------------------------------------------------
(* Refresh *)

ClaimTwice(h) ==                                    \* mutant: no unique key
  /\ hnd[h].phase = "current" /\ hnd[h].op = "refresh"
  /\ LET t == Tok(hnd[h].tok) IN Mint(t.chain, t.acc, t.chn, t.id, t.root)
  /\ consumed' = consumed \cup {hnd[h].tok}
  /\ hnd' = [hnd EXCEPT ![h].phase = "recheck", ![h].child = NextId]
  /\ UNCHANGED <<versions, held, rows, loggedOut>>

ClaimWithCurrent(h) ==                              \* mutant: versions read anew
  /\ hnd[h].phase = "current" /\ hnd[h].op = "refresh"
  /\ hnd[h].tok \notin consumed
  /\ LET t == Tok(hnd[h].tok)
     IN  Mint(t.chain, account, chainVer[t.chain], t.id, t.root)
  /\ consumed' = consumed \cup {hnd[h].tok}
  /\ hnd' = [hnd EXCEPT ![h].phase = "recheck", ![h].child = NextId]
  /\ UNCHANGED <<versions, held, rows, loggedOut>>

(* INSERT ... ON CONFLICT DO NOTHING; the child carries the versions that  *)
(* were claimed with its parent.                                           *)
Claim(h) ==
  /\ hnd[h].phase = "current" /\ hnd[h].op = "refresh"
  /\ hnd[h].tok \notin consumed
  /\ LET t == Tok(hnd[h].tok) IN Mint(t.chain, t.acc, t.chn, t.id, t.root)
  /\ consumed' = consumed \cup {hnd[h].tok}
  /\ hnd' = [hnd EXCEPT ![h].phase = "recheck", ![h].child = NextId]
  /\ UNCHANGED <<versions, held, rows, loggedOut>>

(* Already claimed: a retry from the same address within the grace window  *)
(* is only rejected, anything else revokes the chain.                      *)
ClaimLost(h, benign) ==
  /\ hnd[h].phase = "current" /\ hnd[h].op = "refresh"
  /\ hnd[h].tok \in consumed
  /\ IF benign THEN Answer(h) ELSE Goto(h, "bump")
  /\ UNCHANGED <<versions, tokens, held, consumed, rows, loggedOut>>

(* The child must still be current, read as in CheckAccount and CheckChain *)
RecheckAccount(h) ==
  /\ hnd[h].phase = "recheck"
  /\ IF Tok(hnd[h].child).acc = account THEN Goto(h, "rechain") ELSE Answer(h)
  /\ UNCHANGED <<versions, tokens, held, consumed, rows, loggedOut>>

RecheckChain(h) ==
  /\ hnd[h].phase = "rechain"
  /\ IF Tok(hnd[h].child).chn = chainVer[hnd[h].chain]
       THEN Goto(h, "list") ELSE Answer(h)
  /\ UNCHANGED <<versions, tokens, held, consumed, rows, loggedOut>>

---------------------------------------------------------------------------
(* Logout, Manage Sessions, reuse detection: end one chain *)

(* The chain is looked up in the mirror, by jti; no row, nothing to end.   *)
LogoutFind(h, id) ==
  /\ hnd[h] = Idle
  /\ IF \E s \in rows : s.jti = id
       THEN /\ hnd' = [hnd EXCEPT ![h] =
                 [Idle EXCEPT !.phase = "bump", !.op = "logout", !.tok = id,
                   !.chain = (CHOOSE s \in rows : s.jti = id).chain]]
            /\ UNCHANGED loggedOut
       ELSE /\ loggedOut' = loggedOut \cup {id}
            /\ UNCHANGED hnd
  /\ UNCHANGED <<versions, tokens, held, consumed, rows>>

(* A device that was verified ends the session listed as row s.  Its own   *)
(* is refused only when the refresh cookie came along to tell which it is. *)
RevokeFind(h, s) ==
  /\ hnd[h].phase = "current" /\ hnd[h].op = "verify"
  /\ hnd' = [hnd EXCEPT ![h] = [Idle EXCEPT !.phase = "bump", !.op = "revoke",
                                            !.row = s.id, !.chain = s.chain]]
  /\ UNCHANGED <<versions, tokens, held, consumed, rows, loggedOut>>

RootsOf(c) == {t.root : t \in {u \in tokens : u.chain = c}}

BumpChain(h) ==
  /\ hnd[h].phase = "bump" /\ hnd[h].op \in {"refresh", "logout", "revoke"}
  /\ chainVer[hnd[h].chain] < MaxVersion
  /\ chainVer' = [chainVer EXCEPT ![hnd[h].chain] = @ + 1]
  /\ ended' = ended \cup RootsOf(hnd[h].chain)
  /\ Goto(h, IF hnd[h].op = "revoke" THEN "delete" ELSE "unlist")
  /\ UNCHANGED <<account, tokens, held, consumed, rows, loggedOut>>

(* The database did not confirm the bump: no row is touched.               *)
BumpFails(h) ==
  /\ hnd[h].phase = "bump"
  /\ IF hnd[h].op = "change" THEN Goto(h, "reissue") ELSE Answer(h)
  /\ UNCHANGED <<versions, tokens, held, consumed, rows, loggedOut>>

---------------------------------------------------------------------------
(* Logout-all, password reset, password change: end every chain *)

(* logout-all decodes the cookie but accepts a revoked token; a password   *)
(* reset needs no session at all.                                          *)
EndAll(h) ==
  /\ hnd[h] = Idle
  /\ hnd' = [hnd EXCEPT ![h] = [Idle EXCEPT !.phase = "bump", !.op = "all"]]
  /\ UNCHANGED <<versions, tokens, held, consumed, rows, loggedOut>>

(* The password was changed in a session that was verified before.         *)
ChangePassword(h) ==
  /\ hnd[h].phase = "current" /\ hnd[h].op = "verify"
  /\ hnd' = [hnd EXCEPT ![h].phase = "bump", ![h].op = "change"]
  /\ UNCHANGED <<versions, tokens, held, consumed, rows, loggedOut>>

BumpAccount(h) ==
  /\ hnd[h].phase = "bump" /\ hnd[h].op \in {"all", "change"}
  /\ account < MaxVersion
  /\ account' = account + 1
  /\ ended' = ended \cup {t.root : t \in tokens}
  /\ Goto(h, "bulk")
  /\ UNCHANGED <<chainVer, tokens, held, consumed, rows, loggedOut>>

(* The session that changed the password gets a new token pair.            *)
Reissue(h) ==
  /\ hnd[h].phase = "reissue"
  /\ Mint(hnd[h].chain, account, chainVer[hnd[h].chain], 0, NextId)
  /\ hnd' = [hnd EXCEPT ![h].phase = "list", ![h].child = NextId]
  /\ UNCHANGED <<versions, held, consumed, rows, loggedOut>>

---------------------------------------------------------------------------
(* The mirror: user_sessions.  A SELECT finds a row and, after an await,   *)
(* an UPDATE or DELETE addresses it by its id.                             *)

(* Best effort: a failure to write the mirror is logged and ignored.       *)
Mirror(new) == rows' \in {new} \cup (IF MirrorFails THEN {rows} ELSE {})

(* get_by_jti in rotate and revoke_by_jti; by chain in rotate_by_chain_id  *)
(* and revoke_by_chain_id.                                                 *)
Sought(h) ==
  IF hnd[h].op = "change" \/ (hnd[h].phase = "unlist" /\ hnd[h].op = "refresh")
    THEN {s \in rows : s.chain = hnd[h].chain}
    ELSE {s \in rows : s.jti = hnd[h].tok}

(* A new token without a row gets one; of two rows for a chain neither is  *)
(* written (MultipleResultsFound).                                         *)
SelectRow(h) ==
  /\ hnd[h].phase \in {"list", "unlist"}
  /\ hnd' = [hnd EXCEPT
       ![h].row = IF Cardinality(Sought(h)) = 1
                    THEN (CHOOSE s \in Sought(h) : TRUE).id ELSE 0,
       ![h].phase = IF hnd[h].phase = "unlist" THEN "delete"
                    ELSE IF Sought(h) = {} THEN "add" ELSE "move"]
  /\ UNCHANGED <<versions, tokens, held, consumed, rows, loggedOut>>

DeleteRow(h) ==
  /\ hnd[h].phase = "delete"
  /\ Mirror({s \in rows : s.id # hnd[h].row})
  /\ loggedOut' = IF hnd[h].op = "logout" THEN loggedOut \cup {hnd[h].tok}
                  ELSE loggedOut
  /\ Answer(h)
  /\ UNCHANGED <<versions, tokens, held, consumed>>

(* One DELETE for all rows, or for all but those of the exempt chain.      *)
DeleteRows(h) ==
  /\ hnd[h].phase = "bulk"
  /\ Mirror({s \in rows : hnd[h].op = "change" /\ s.chain = hnd[h].chain})
  /\ IF hnd[h].op = "change" THEN Goto(h, "reissue") ELSE Answer(h)
  /\ UNCHANGED <<versions, tokens, held, consumed, loggedOut>>

NewRow(h) == [id |-> hnd[h].child, jti |-> hnd[h].child, chain |-> hnd[h].chain]

Moved(h) == {IF s.id = hnd[h].row THEN [s EXCEPT !.jti = hnd[h].child] ELSE s :
               s \in rows}

(* The response delivers the new token.                                    *)
Deliver(h) ==
  /\ held' = held \cup {hnd[h].child}
  /\ Answer(h)
  /\ UNCHANGED <<versions, tokens, consumed, loggedOut>>

AddRow(h) ==
  /\ hnd[h].phase = "add"
  /\ Mirror(rows \cup {NewRow(h)})
  /\ Deliver(h)

MoveRowAndAdd(h) ==                                 \* mutant: always backfills
  /\ hnd[h].phase = "move"
  /\ Mirror(Moved(h) \cup {NewRow(h)})
  /\ Deliver(h)

(* A row that was deleted meanwhile is not written (StaleDataError).       *)
MoveRow(h) ==
  /\ hnd[h].phase = "move"
  /\ Mirror(Moved(h))
  /\ Deliver(h)

(* A request that was verified has answered, or a process dies.            *)
HandlerEnds(h) ==
  /\ hnd[h].phase # "idle"
  /\ Answer(h)
  /\ UNCHANGED <<versions, tokens, held, consumed, rows, loggedOut>>

---------------------------------------------------------------------------

Next == \E h \in Handler :
  \/ \E c \in Chain : Login(h, c)
  \/ \E id \in held : \/ CheckAccount(h, id, "refresh")
                      \/ CheckAccount(h, id, "verify")
                      \/ LogoutFind(h, id)
  \/ CheckChain(h)
  \/ Claim(h)
  \/ \E benign \in BOOLEAN : ClaimLost(h, benign)
  \/ RecheckAccount(h)
  \/ RecheckChain(h)
  \/ \E s \in rows : RevokeFind(h, s)
  \/ BumpChain(h)
  \/ BumpAccount(h)
  \/ BumpFails(h)
  \/ EndAll(h)
  \/ ChangePassword(h)
  \/ Reissue(h)
  \/ SelectRow(h)
  \/ DeleteRow(h)
  \/ DeleteRows(h)
  \/ AddRow(h)
  \/ MoveRow(h)
  \/ HandlerEnds(h)

Spec == Init /\ [][Next]_vars

---------------------------------------------------------------------------
(* Properties *)

HandlerState ==
  [phase : {"idle", "account", "current", "recheck", "rechain", "bump",
            "unlist", "delete", "bulk", "reissue", "list", "add", "move"},
   op : {"none", "login", "refresh", "verify", "logout", "revoke", "all", "change"},
   tok : {0} \cup TokenId, chain : Chain \cup {None}, row : {0} \cup TokenId,
   child : {0} \cup TokenId, was : BOOLEAN]

TypeOK ==
  /\ account \in Nat
  /\ chainVer \in [Chain -> Nat]
  /\ tokens \subseteq Token
  /\ held \subseteq TokenId /\ consumed \subseteq TokenId
  /\ rows \subseteq Row
  /\ hnd \in [Handler -> HandlerState]
  /\ ended \subseteq TokenId /\ loggedOut \subseteq TokenId

(* "Refresh tokens are single-use": however requests race, one token has   *)
(* at most one child.                                                      *)
SingleUse ==
  \A t, u \in tokens : t.parent # 0 /\ t.parent = u.parent => t = u

(* "Do not let a refresh racing with logout/reuse detection adopt a newer  *)
(* version": once a chain or the account was ended, no token of the        *)
(* sessions that existed then is accepted again, nor any descendant that a *)
(* refresh in flight mints afterwards.                                     *)
EndedStaysEnded == \A t \in tokens : t.root \in ended => ~Valid(t)

(* is_current_version reads two counters in two transactions: what it      *)
(* accepts was nevertheless valid at one moment of the check.              *)
AcceptedWasValid ==
  \A h \in Handler : hnd[h].phase = "current" => hnd[h].was

(* "exactly one session row should ever claim a given jti at a time": the  *)
(* racing writers of the mirror never run into its unique index.           *)
RowJtiUnique == \A s, u \in rows : s.jti = u.jti => s = u

(* The mirror, with the types of the whole state.                          *)
MirrorOK == TypeOK /\ RowJtiUnique

(* Why these hold in every state: what a token carries is at most what the *)
(* counters say now and is shared by its whole family ...                  *)
TokensCounted ==
  /\ IsFiniteSet(tokens)
  /\ \A t \in tokens : t.id <= Cardinality(tokens) /\ t.root <= Cardinality(tokens)
  /\ \A r \in ended : r <= Cardinality(tokens)

TokensDated ==
  \A t \in tokens : t.acc <= account /\ t.chn <= chainVer[t.chain]

TokensRelated ==
  /\ \A t, u \in tokens : /\ t.id = u.id => t = u
                          /\ t.root = u.root => t.chain = u.chain
  /\ \A t \in tokens : t.parent # 0 => t.parent \in consumed
  /\ \A id \in held : \E t \in tokens : t.id = id

TokensOK == TokensCounted /\ TokensDated /\ TokensRelated

(* ... a row is addressed by an id that no other row has ...               *)
RowsOK ==
  /\ RowJtiUnique
  /\ \A s, u \in rows : s.id = u.id => s = u
  /\ \A s \in rows : s.id <= Cardinality(tokens) /\ s.jti <= Cardinality(tokens)

(* ... and what a request read before an await still means something: a    *)
(* token found stale stays stale, and a child that was minted but not yet  *)
(* listed belongs to this request and to no row.                           *)
Minted(h) == hnd[h].phase \in {"recheck", "rechain", "list", "add", "move"}

Checked(h) ==
  \E t \in tokens :
    /\ t.id = hnd[h].tok /\ t.chain = hnd[h].chain
    /\ hnd[h].phase = "account" /\ ~hnd[h].was => t.chn < chainVer[t.chain]

HandlerKnows(h) ==
  /\ hnd[h].phase # "idle" /\ hnd[h].op # "all" => hnd[h].chain \in Chain
  /\ hnd[h].op = "all" => hnd[h].phase \in {"bump", "bulk"}
  /\ hnd[h].op = "logout" => hnd[h].tok # 0
  /\ hnd[h].phase = "reissue" => hnd[h].op = "change"
  /\ hnd[h].phase \in {"account", "current"} => Checked(h)
  /\ Minted(h) => /\ hnd[h].child # 0 /\ hnd[h].child <= Cardinality(tokens)
                  /\ \E t \in tokens : t.id = hnd[h].child
                  /\ \A s \in rows : hnd[h].child \notin {s.id, s.jti}

HandlersKnow ==
  /\ \A h \in Handler : HandlerKnows(h)
  /\ \A g, h \in Handler :
       Minted(g) /\ Minted(h) /\ hnd[g].child = hnd[h].child => g = h

(* The inductive invariant.                                                *)
IInv == /\ TypeOK
        /\ TokensOK
        /\ RowsOK
        /\ HandlersKnow
        /\ SingleUse
        /\ EndedStaysEnded
        /\ AcceptedWasValid

(* Logout "ends exactly the one session this refresh token belongs to",    *)
(* "so it, and any access token sharing it, stop working immediately".     *)
(* When a refresh in flight moved the row to the child's jti, or a         *)
(* logout-all deleted the row of a login newer than its bump, the logout   *)
(* finds no row, bumps nothing, and still answers that it revoked.         *)
LogoutEndsSession ==
  \A id \in loggedOut : \A t \in tokens : t.root = Tok(id).root => ~Valid(t)
===========================================================================
