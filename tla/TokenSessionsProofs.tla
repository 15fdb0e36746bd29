----------------------- MODULE TokenSessionsProofs -----------------------
(***************************************************************************)
(* Proofs about TokenSessions for every set of chains and of concurrent    *)
(* requests and every bound, whether or not writes to the mirror fail.     *)
(*                                                                         *)
(* The steps of a request fall into five kinds, one lemma each: those that *)
(* only move the request on, those that mint a token, those that bump a    *)
(* version, those that write the mirror, and those that also deliver the   *)
(* new token.  Every action is then shown to be a step of one kind.        *)
(***************************************************************************)
EXTENDS TokenSessions, FiniteSetTheorems, TLAPS

(* Ids identify tokens.                                                    *)
LEMMA TokIsToken ==
  ASSUME TokensOK, NEW t \in tokens
  PROVE  Tok(t.id) = t
BY DEF Tok, TokensOK, TokensRelated

(* What one minted token adds: its id is new.                              *)
LEMMA MintFacts ==
  ASSUME TypeOK, TokensOK, NEW c, NEW acc, NEW chn, NEW parent, NEW root,
         Mint(c, acc, chn, parent, root)
  PROVE  /\ IsFiniteSet(tokens')
         /\ NextId \in TokenId
         /\ Cardinality(tokens) \in Nat
         /\ Cardinality(tokens') = NextId
         /\ NextId = Cardinality(tokens) + 1
         /\ \A t \in tokens : t.id \in Nat /\ t.id < NextId /\ t.root < NextId
         /\ tokens' = tokens \cup {[id |-> NextId, chain |-> c, acc |-> acc,
                             chn |-> chn, parent |-> parent, root |-> root]}
<1> DEFINE new == [id |-> NextId, chain |-> c, acc |-> acc,
                   chn |-> chn, parent |-> parent, root |-> root]
<1>1. /\ IsFiniteSet(tokens) /\ Cardinality(tokens) \in Nat
      /\ Cardinality(tokens) < MaxToken
      /\ tokens' = tokens \cup {new}
  BY FS_CardinalityType DEF TokensOK, TokensCounted, Mint
<1>2. NextId \in TokenId /\ NextId = Cardinality(tokens) + 1
  BY <1>1, TokenAssumption DEF NextId, TokenId
<1>3. \A t \in tokens : t.id \in Nat /\ t.id < NextId /\ t.root < NextId
  BY <1>1, <1>2 DEF TypeOK, TokensOK, TokensCounted, Token, TokenId
<1>4. new \notin tokens
  <2>1. new.id = NextId
    OBVIOUS
  <2> QED BY <2>1, <1>3
<1> HIDE DEF new
<1>5. IsFiniteSet(tokens') /\ Cardinality(tokens') = Cardinality(tokens) + 1
  BY <1>1, <1>4, FS_AddElement
<1> QED BY <1>1, <1>2, <1>3, <1>5 DEF new

(* What is known of a request survives the steps of the others: tokens are *)
(* never lost, versions never decrease and nobody else writes its child.   *)
LEMMA OthersKnow ==
  ASSUME TypeOK, TokensOK, NEW g \in Handler, HandlerKnows(g),
         hnd'[g] = hnd[g],
         tokens \subseteq tokens',
         Cardinality(tokens) \in Nat, Cardinality(tokens') \in Nat,
         Cardinality(tokens) <= Cardinality(tokens'),
         \A c \in Chain : chainVer'[c] \in Nat /\ chainVer[c] <= chainVer'[c],
         Minted(g) => \A s \in rows' : hnd[g].child \notin {s.id, s.jti}
  PROVE  HandlerKnows(g)'
<1>1. Minted(g)' <=> Minted(g)
  BY DEF Minted
<1>2. hnd[g] \in HandlerState
  BY DEF TypeOK
<1>3. Checked(g) => Checked(g)'
  <2> SUFFICES ASSUME Checked(g) PROVE Checked(g)'
    OBVIOUS
  <2>1. PICK t \in tokens :
           /\ t.id = hnd[g].tok /\ t.chain = hnd[g].chain
           /\ hnd[g].phase = "account" /\ ~hnd[g].was => t.chn < chainVer[t.chain]
    BY DEF Checked
  <2>2. t.chain \in Chain /\ t.chn \in Nat /\ chainVer[t.chain] \in Nat
    BY DEF TypeOK, Token
  <2>3. t.chn < chainVer[t.chain] => t.chn < chainVer'[t.chain]
    BY <2>2
  <2> QED BY <2>1, <2>3 DEF Checked
<1>4. hnd[g].child \in Nat
  BY <1>2 DEF HandlerState, TokenId
<1> QED BY <1>1, <1>3, <1>4 DEF HandlerKnows

---------------------------------------------------------------------------
(* The kinds of step *)

(* A step that only moves a request on, or ends it.                        *)
LEMMA MovesOn ==
  ASSUME IInv, NEW h \in Handler, NEW q \in HandlerState,
         UNCHANGED <<versions, tokens, held, consumed, rows>>,
         loggedOut' \subseteq TokenId,
         hnd' = [hnd EXCEPT ![h] = q],
         HandlerKnows(h)',
         q.phase = "current" => q.was,
         Minted(h)' => Minted(h) /\ q.child = hnd[h].child
  PROVE  IInv'
<1>1. hnd'[h] = q /\ \A g \in Handler : g # h => hnd'[g] = hnd[g]
  BY DEF IInv, TypeOK
<1>2. TypeOK'
  BY DEF IInv, TypeOK, versions
<1>3. TokensOK' /\ RowsOK' /\ SingleUse' /\ EndedStaysEnded'
  BY DEF IInv, versions, TokensOK, TokensCounted, TokensDated, TokensRelated,
         RowsOK, RowJtiUnique, SingleUse,
         EndedStaysEnded, Valid
<1>4. HandlersKnow'
  <2>1. \A g \in Handler : HandlerKnows(g)'
    <3> SUFFICES ASSUME NEW g \in Handler, g # h PROVE HandlerKnows(g)'
      OBVIOUS
    <3>1. Cardinality(tokens) \in Nat
      BY FS_CardinalityType DEF IInv, TokensOK, TokensCounted
    <3>2. \A c \in Chain : chainVer[c] \in Nat
      BY DEF IInv, TypeOK
    <3> QED
      BY <1>1, <3>1, <3>2, OthersKnow
         DEF IInv, HandlersKnow, versions, HandlerKnows
  <2>2. \A f, g \in Handler :
          Minted(f)' /\ Minted(g)' /\ hnd'[f].child = hnd'[g].child => f = g
    BY <1>1 DEF IInv, HandlersKnow, Minted
  <2> QED BY <2>1, <2>2 DEF HandlersKnow
<1>5. AcceptedWasValid'
  BY <1>1 DEF IInv, AcceptedWasValid
<1> QED BY <1>2, <1>3, <1>4, <1>5 DEF IInv


(* A step that mints a token, with versions that are not newer than the    *)
(* counters, for a family of its own or as the one child of its parent.    *)
LEMMA Mints ==
  ASSUME IInv, NEW h \in Handler, NEW q \in HandlerState,
         NEW c \in Chain, NEW acc \in Nat, NEW chn \in Nat,
         NEW parent \in {0} \cup TokenId, NEW root \in TokenId,
         acc <= account, chn <= chainVer[c],
         Mint(c, acc, chn, parent, root),
         parent # 0 => parent \in consumed' \ consumed,
         \/ root = NextId
         \/ \E t \in tokens : t.root = root /\ t.chain = c /\ t.acc = acc /\ t.chn = chn,
         consumed \subseteq consumed', consumed' \subseteq TokenId,
         UNCHANGED <<versions, held, rows, loggedOut>>,
         hnd' = [hnd EXCEPT ![h] = q],
         q.child = NextId, q.chain = c,
         q.phase \in {"add", "recheck", "list"},
         q.op \notin {"all", "logout"}
  PROVE  IInv'
<1> DEFINE new == [id |-> NextId, chain |-> c, acc |-> acc,
                   chn |-> chn, parent |-> parent, root |-> root]
           n == Cardinality(tokens)
<1>1. /\ IsFiniteSet(tokens') /\ NextId \in TokenId
      /\ Cardinality(tokens) \in Nat /\ Cardinality(tokens') = NextId
      /\ NextId = Cardinality(tokens) + 1
      /\ \A t \in tokens : t.id \in Nat /\ t.id < NextId /\ t.root < NextId
      /\ tokens' = tokens \cup {new}
  BY MintFacts DEF IInv
<1>2. hnd'[h] = q /\ \A g \in Handler : g # h => hnd'[g] = hnd[g]
  BY DEF IInv, TypeOK
<1>3. /\ new.id = NextId /\ new.chain = c /\ new.acc = acc /\ new.chn = chn
      /\ new.parent = parent /\ new.root = root /\ new \in Token
  BY <1>1 DEF Token
<1>4. /\ account' = account /\ chainVer' = chainVer /\ ended' = ended
      /\ held' = held /\ rows' = rows /\ loggedOut' = loggedOut
  BY DEF versions
<1> HIDE DEF new
<1>5. TypeOK'
  BY <1>1, <1>3, <1>4 DEF IInv, TypeOK
<1>6. TokensOK'
  <2>1. \A t \in tokens : /\ t.id \in Nat /\ t.root \in Nat
                         /\ t.id <= n /\ t.root <= n
    BY <1>1 DEF IInv, TypeOK, TokensOK, TokensCounted, Token, TokenId
  <2>2. TokensCounted'
    <3>1. \A t \in tokens' : t.id <= NextId /\ t.root <= NextId
      BY <1>1, <1>3, <2>1 DEF TokenId
    <3>2. \A r \in ended' : r <= NextId
      <4>1. \A r \in ended : r \in Nat /\ r <= n
        BY DEF IInv, TypeOK, TokensOK, TokensCounted, TokenId
      <4> QED BY <4>1, <1>1, <1>4
    <3> QED BY <3>1, <3>2, <1>1 DEF TokensCounted
  <2>3. TokensDated'
    BY <1>1, <1>3, <1>4 DEF IInv, TokensOK, TokensDated
  <2>4. TokensRelated'
    <3>1. \A t, u \in tokens' : t.id = u.id => t = u
      BY <1>1, <1>3 DEF IInv, TokensOK, TokensRelated
    <3>2. \A t \in tokens : t.root = root => t.chain = c
      BY <1>1 DEF IInv, TokensOK, TokensRelated
    <3>3. \A t, u \in tokens' : t.root = u.root => t.chain = u.chain
      BY <3>2, <1>1, <1>3 DEF IInv, TokensOK, TokensRelated
    <3>4. /\ \A t \in tokens' : t.parent # 0 => t.parent \in consumed'
          /\ \A id \in held' : \E t \in tokens' : t.id = id
      BY <1>1, <1>3, <1>4 DEF IInv, TokensOK, TokensRelated
    <3> QED BY <3>1, <3>3, <3>4 DEF TokensRelated
  <2> QED BY <2>2, <2>3, <2>4 DEF TokensOK
<1>7. RowsOK'
  <2>1. \A s \in rows : s.id \in Nat /\ s.jti \in Nat /\ s.id <= n /\ s.jti <= n
    BY DEF IInv, TypeOK, RowsOK, Row, TokenId
  <2>2. \A s \in rows' : s.id <= NextId /\ s.jti <= NextId
    BY <2>1, <1>1, <1>4
  <2> QED BY <2>2, <1>1, <1>4 DEF IInv, RowsOK, RowJtiUnique
<1>8. \A s \in rows : s.id < NextId /\ s.jti < NextId
  BY <1>1 DEF IInv, TypeOK, RowsOK, Row, TokenId
<1>9. \A g \in Handler : Minted(g) => hnd[g].child \in Nat /\ hnd[g].child < NextId
  BY <1>1 DEF IInv, TypeOK, HandlersKnow, HandlerKnows, HandlerState, TokenId
<1>10. HandlersKnow'
  <2>1. HandlerKnows(h)'
    BY <1>1, <1>2, <1>3, <1>4, <1>8 DEF HandlerKnows, Minted, TokenId
  <2>2. \A g \in Handler : g # h => HandlerKnows(g)'
    <3> SUFFICES ASSUME NEW g \in Handler, g # h PROVE HandlerKnows(g)'
      OBVIOUS
    <3>1. \A k \in Chain : chainVer'[k] \in Nat /\ chainVer[k] <= chainVer'[k]
      BY <1>4 DEF IInv, TypeOK
    <3> QED
      BY <1>1, <1>2, <1>4, <3>1, OthersKnow DEF IInv, HandlersKnow, HandlerKnows
  <2>3. \A g \in Handler : g # h /\ Minted(g)' => hnd'[g].child # hnd'[h].child
    BY <1>1, <1>2, <1>9 DEF Minted
  <2>4. \A f, g \in Handler :
          Minted(f)' /\ Minted(g)' /\ hnd'[f].child = hnd'[g].child => f = g
    <3> SUFFICES ASSUME NEW f \in Handler, NEW g \in Handler, f # g,
                        Minted(f)', Minted(g)', hnd'[f].child = hnd'[g].child
                 PROVE  FALSE
      OBVIOUS
    <3>1. f # h /\ g # h
      BY <2>3
    <3> QED BY <3>1, <1>2 DEF IInv, HandlersKnow, Minted
  <2> QED BY <2>1, <2>2, <2>4 DEF HandlersKnow
<1>11. SingleUse'
  BY <1>1, <1>3 DEF IInv, SingleUse, TokensOK, TokensRelated
<1>12. EndedStaysEnded'
  <2>1. \A t \in tokens :
          t.root \in ended => ~(t.acc = account /\ t.chn = chainVer[t.chain])
    BY DEF IInv, EndedStaysEnded, Valid
  <2>2. root \in ended => ~(acc = account /\ chn = chainVer[c])
    <3>1. root = NextId => root \notin ended
      BY <1>1 DEF IInv, TokensOK, TokensCounted, TypeOK, TokenId
    <3> QED BY <2>1, <3>1
  <2> QED BY <2>1, <2>2, <1>1, <1>3, <1>4 DEF EndedStaysEnded, Valid
<1>13. AcceptedWasValid'
  BY <1>2 DEF IInv, AcceptedWasValid
<1> QED BY <1>5, <1>6, <1>7, <1>10, <1>11, <1>12, <1>13 DEF IInv

(* A step that bumps a version: the tokens of the sessions it ends carried *)
(* at most the version before it.                                          *)
LEMMA Bumps ==
  ASSUME IInv, NEW h \in Handler, NEW q \in HandlerState, NEW dead \in SUBSET tokens,
         UNCHANGED <<tokens, held, consumed, rows, loggedOut>>,
         account' \in Nat, account <= account',
         chainVer' \in [Chain -> Nat],
         \A c \in Chain : chainVer[c] <= chainVer'[c],
         \A t \in dead : ~Valid(t)',
         \A t \in tokens, u \in dead : t.root = u.root => t \in dead,
         ended' = ended \cup {u.root : u \in dead},
         hnd' = [hnd EXCEPT ![h] = q],
         HandlerKnows(h)', ~Minted(h)', q.phase # "current"
  PROVE  IInv'
<1>1. hnd'[h] = q /\ \A g \in Handler : g # h => hnd'[g] = hnd[g]
  BY DEF IInv, TypeOK
<1>2. TypeOK'
  <2>1. \A u \in dead : u.root \in TokenId
    BY DEF IInv, TypeOK, Token
  <2> QED BY <2>1 DEF IInv, TypeOK
<1>3. \A t \in tokens : /\ t.acc \in Nat /\ t.chn \in Nat /\ t.chain \in Chain
                       /\ t.acc <= account /\ t.chn <= chainVer[t.chain]
                       /\ account \in Nat /\ chainVer[t.chain] \in Nat
                       /\ chainVer'[t.chain] \in Nat
  BY DEF IInv, TypeOK, TokensOK, TokensDated, Token
<1>4. TokensOK'
  <2>1. \A t \in tokens : t.acc <= account' /\ t.chn <= chainVer'[t.chain]
    BY <1>3
  <2> QED BY <2>1 DEF IInv, TokensOK, TokensCounted, TokensDated, TokensRelated
<1>5. RowsOK' /\ SingleUse'
  BY DEF IInv, RowsOK, RowJtiUnique, SingleUse
<1>6. HandlersKnow'
  <2>1. \A g \in Handler : g # h => HandlerKnows(g)'
    <3>1. Cardinality(tokens) \in Nat
      BY FS_CardinalityType DEF IInv, TokensOK, TokensCounted
    <3> QED BY <1>1, <3>1, OthersKnow DEF IInv, HandlersKnow, HandlerKnows
  <2> QED BY <1>1, <2>1 DEF IInv, HandlersKnow, Minted
<1>7. EndedStaysEnded'
  <2> SUFFICES ASSUME NEW t \in tokens, t.root \in ended' PROVE ~Valid(t)'
    BY DEF EndedStaysEnded
  <2>1. CASE t.root \in ended
    <3>1. t.acc # account \/ t.chn # chainVer[t.chain]
      BY <2>1 DEF IInv, EndedStaysEnded, Valid
    <3> QED BY <3>1, <1>3 DEF Valid
  <2>2. CASE t \in dead
    BY <2>2
  <2> QED BY <2>1, <2>2
<1>8. AcceptedWasValid'
  BY <1>1 DEF IInv, AcceptedWasValid
<1> QED BY <1>2, <1>4, <1>5, <1>6, <1>7, <1>8 DEF IInv

(* A write to the mirror: rows may go, and the only new id or jti is the   *)
(* child of the request that writes it.                                    *)
WritesOwn(h) ==
  /\ rows' \subseteq Row
  /\ \A s, u \in rows' : s.id = u.id \/ s.jti = u.jti => s = u
  /\ \A s \in rows' :
       /\ (\E r \in rows : s.id = r.id) \/ (Minted(h) /\ s.id = hnd[h].child)
       /\ (\E r \in rows : s.jti = r.jti) \/ (Minted(h) /\ s.jti = hnd[h].child)

(* A step that writes the mirror; a request that listed a child then ends. *)
LEMMA Writes ==
  ASSUME IInv, NEW h \in Handler, NEW q \in HandlerState,
         UNCHANGED <<versions, tokens, consumed>>,
         held' = held \/ (Minted(h) /\ held' = held \cup {hnd[h].child}),
         loggedOut' \subseteq TokenId,
         WritesOwn(h),
         hnd' = [hnd EXCEPT ![h] = q],
         HandlerKnows(h)', ~Minted(h)', q.phase # "current"
  PROVE  IInv'
<1>1. hnd'[h] = q /\ \A g \in Handler : g # h => hnd'[g] = hnd[g]
  BY DEF IInv, TypeOK
<1>2. /\ account' = account /\ chainVer' = chainVer /\ ended' = ended
      /\ tokens' = tokens /\ consumed' = consumed
  BY DEF versions
<1>3. Minted(h) => /\ hnd[h].child \in TokenId
                   /\ hnd[h].child <= Cardinality(tokens)
                   /\ \E t \in tokens : t.id = hnd[h].child
  BY DEF IInv, TypeOK, HandlersKnow, HandlerKnows, HandlerState
<1>4. TypeOK'
  BY <1>2, <1>3 DEF IInv, TypeOK, WritesOwn
<1>5. TokensOK'
  BY <1>2, <1>3 DEF IInv, TokensOK, TokensCounted, TokensDated, TokensRelated
<1>6. RowsOK'
  BY <1>2, <1>3 DEF IInv, RowsOK, RowJtiUnique, WritesOwn
<1>7. HandlersKnow'
  <2>1. \A g \in Handler : g # h => HandlerKnows(g)'
    <3> SUFFICES ASSUME NEW g \in Handler, g # h PROVE HandlerKnows(g)'
      OBVIOUS
    <3>1. /\ Cardinality(tokens) \in Nat
          /\ \A c \in Chain : chainVer'[c] \in Nat /\ chainVer[c] <= chainVer'[c]
      BY <1>2, FS_CardinalityType DEF IInv, TypeOK, TokensOK, TokensCounted
    <3>2. Minted(g) => \A s \in rows : hnd[g].child \notin {s.id, s.jti}
      BY DEF IInv, HandlersKnow, HandlerKnows
    <3>3. Minted(g) /\ Minted(h) => hnd[g].child # hnd[h].child
      BY DEF IInv, HandlersKnow
    <3>4. Minted(g) => \A s \in rows' : hnd[g].child \notin {s.id, s.jti}
      BY <3>2, <3>3 DEF WritesOwn
    <3>5. HandlerKnows(g) /\ TypeOK /\ TokensOK
      BY DEF IInv, HandlersKnow
    <3> QED BY <1>1, <1>2, <3>1, <3>4, <3>5, OthersKnow
  <2> QED BY <1>1, <2>1 DEF IInv, HandlersKnow, Minted
<1>8. SingleUse' /\ EndedStaysEnded'
  BY <1>2 DEF IInv, SingleUse, EndedStaysEnded, Valid
<1>9. AcceptedWasValid'
  BY <1>1 DEF IInv, AcceptedWasValid
<1> QED BY <1>4, <1>5, <1>6, <1>7, <1>8, <1>9 DEF IInv

---------------------------------------------------------------------------
(* The actions *)

LEMMA InitIInv == Init => IInv
<1> SUFFICES ASSUME Init PROVE IInv
  OBVIOUS
<1>1. TypeOK
  BY DEF Init, TypeOK, Idle, HandlerState
<1>2. TokensOK
  BY FS_EmptySet DEF Init, TokensOK, TokensCounted, TokensDated, TokensRelated
<1>3. RowsOK /\ HandlersKnow
  BY DEF Init, RowsOK, RowJtiUnique, HandlersKnow, HandlerKnows, Minted, Idle
<1>4. SingleUse /\ EndedStaysEnded /\ AcceptedWasValid
  BY DEF Init, SingleUse, EndedStaysEnded, AcceptedWasValid, Idle
<1> QED BY <1>1, <1>2, <1>3, <1>4 DEF IInv

(* A request that has answered knows and owns nothing.                     *)
LEMMA AnswerFacts ==
  ASSUME IInv, NEW h \in Handler, Answer(h)
  PROVE  /\ Idle \in HandlerState /\ Idle.phase = "idle"
         /\ hnd' = [hnd EXCEPT ![h] = Idle] /\ hnd'[h] = Idle
         /\ HandlerKnows(h)' /\ ~Minted(h)'
BY DEF IInv, TypeOK, Answer, Idle, HandlerState, HandlerKnows, Minted

LEMMA Answers ==
  ASSUME IInv, NEW h \in Handler, Answer(h),
         UNCHANGED <<versions, tokens, held, consumed, rows, loggedOut>>
  PROVE  IInv'
<1>1. loggedOut' \subseteq TokenId
  BY DEF IInv, TypeOK
<1> QED BY <1>1, AnswerFacts, MovesOn

(* A request goes on to its next phase, keeping all else it remembers.     *)
LEMMA GotoFacts ==
  ASSUME IInv, NEW h \in Handler, NEW p, Goto(h, p),
         [hnd[h] EXCEPT !.phase = p] \in HandlerState
  PROVE  /\ hnd' = [hnd EXCEPT ![h] = [hnd[h] EXCEPT !.phase = p]]
         /\ hnd'[h] = [hnd[h] EXCEPT !.phase = p]
         /\ hnd'[h].phase = p /\ hnd'[h].op = hnd[h].op
         /\ hnd'[h].tok = hnd[h].tok /\ hnd'[h].chain = hnd[h].chain
         /\ hnd'[h].row = hnd[h].row /\ hnd'[h].child = hnd[h].child
         /\ hnd'[h].was = hnd[h].was
BY DEF IInv, TypeOK, Goto, HandlerState

LEMMA LoginIInv ==
  ASSUME IInv, NEW h \in Handler, NEW c \in Chain, Login(h, c)
  PROVE  IInv'
<1> DEFINE q == [Idle EXCEPT !.phase = "add", !.op = "login",
                             !.chain = c, !.child = NextId]
<1>1. NextId \in TokenId
  BY MintFacts DEF IInv, Login
<1>2. /\ q \in HandlerState /\ q.child = NextId /\ q.chain = c
      /\ q.phase = "add" /\ q.op = "login"
  BY <1>1 DEF Idle, HandlerState
<1>3. account \in Nat /\ chainVer[c] \in Nat /\ consumed \subseteq TokenId
  BY DEF IInv, TypeOK
<1>4. /\ Mint(c, account, chainVer[c], 0, NextId) /\ hnd' = [hnd EXCEPT ![h] = q]
      /\ UNCHANGED <<versions, held, rows, loggedOut>> /\ consumed' = consumed
  BY DEF Login
<1>5. /\ 0 \in {0} \cup TokenId /\ account <= account /\ chainVer[c] <= chainVer[c]
      /\ consumed \subseteq consumed' /\ consumed' \subseteq TokenId
      /\ q.phase \in {"add", "recheck", "list"} /\ q.op \notin {"all", "logout"}
  BY <1>2, <1>3, <1>4
<1> HIDE DEF q
<1> QED BY <1>1, <1>2, <1>3, <1>4, <1>5, Mints

LEMMA CheckAccountIInv ==
  ASSUME IInv, NEW h \in Handler, NEW id \in held,
         NEW op \in {"refresh", "verify"}, CheckAccount(h, id, op)
  PROVE  IInv'
<1> DEFINE q == [Idle EXCEPT !.phase = "account", !.op = op, !.tok = id,
                             !.chain = Tok(id).chain, !.was = Valid(Tok(id))]
<1>1. PICK t \in tokens : t.id = id
  BY DEF IInv, TokensOK, TokensRelated
<1>2. Tok(id) = t
  BY <1>1, TokIsToken DEF IInv
<1>3. t \in Token
  BY DEF IInv, TypeOK
<1>4. /\ q \in HandlerState /\ q.phase = "account" /\ q.op = op
      /\ q.tok = t.id /\ q.chain = t.chain /\ q.was = Valid(t)
  BY <1>1, <1>2, <1>3 DEF Idle, HandlerState, Token, Valid
<1>5. /\ hnd' = [hnd EXCEPT ![h] = q] /\ t.acc = account
      /\ UNCHANGED <<versions, tokens, held, consumed, rows, loggedOut>>
  BY <1>2 DEF CheckAccount
<1>6. ~Valid(t) => t.chn < chainVer[t.chain]
  BY <1>3, <1>5 DEF IInv, TypeOK, TokensOK, TokensDated, Valid, Token
<1> HIDE DEF q
<1>7. hnd'[h] = q
  BY <1>5 DEF IInv, TypeOK
<1>8. HandlerKnows(h)' /\ ~Minted(h)'
  BY <1>3, <1>4, <1>5, <1>6, <1>7 DEF HandlerKnows, Checked, Minted, versions, Token
<1>9. loggedOut' \subseteq TokenId
  BY <1>5 DEF IInv, TypeOK
<1> QED BY <1>4, <1>5, <1>8, <1>9, MovesOn

LEMMA CheckChainIInv ==
  ASSUME IInv, NEW h \in Handler, CheckChain(h)
  PROVE  IInv'
<1>1. CASE Tok(hnd[h].tok).chn = chainVer[hnd[h].chain]
  <2>1. PICK t \in tokens :
           /\ t.id = hnd[h].tok /\ t.chain = hnd[h].chain
           /\ hnd[h].phase = "account" /\ ~hnd[h].was => t.chn < chainVer[t.chain]
    BY DEF IInv, HandlersKnow, HandlerKnows, Checked, CheckChain
  <2>2. t.chn = chainVer[t.chain] /\ t.chn \in Nat
    BY <1>1, <2>1, TokIsToken DEF IInv, TypeOK, Token
  <2>3. hnd[h].was
    BY <2>1, <2>2 DEF CheckChain, IInv, TypeOK, HandlerState
  <2>4. /\ Goto(h, "current") /\ hnd[h].phase = "account"
        /\ UNCHANGED <<versions, tokens, held, consumed, rows, loggedOut>>
    BY <1>1 DEF CheckChain
  <2>5. [hnd[h] EXCEPT !.phase = "current"] \in HandlerState
    BY DEF IInv, TypeOK, HandlerState
  <2>6. HandlerKnows(h) /\ loggedOut' \subseteq TokenId
    BY <2>4 DEF IInv, TypeOK, HandlersKnow
  <2>7. HandlerKnows(h)' /\ ~Minted(h)'
    BY <2>1, <2>4, <2>5, <2>6, GotoFacts DEF HandlerKnows, Checked, Minted
  <2> QED BY <2>3, <2>4, <2>5, <2>6, <2>7, GotoFacts, MovesOn
<1>2. CASE Tok(hnd[h].tok).chn # chainVer[hnd[h].chain]
  BY <1>2, Answers DEF CheckChain
<1> QED BY <1>1, <1>2

LEMMA GoesOn ==
  ASSUME IInv, NEW h \in Handler, NEW p, Goto(h, p),
         [hnd[h] EXCEPT !.phase = p] \in HandlerState,
         UNCHANGED <<versions, tokens, held, consumed, rows, loggedOut>>,
         p # "current",
         p \in {"account", "current"} => Checked(h)',
         p # "idle" /\ hnd[h].op # "all" => hnd[h].chain \in Chain,
         hnd[h].op = "all" => p \in {"bump", "bulk"},
         p = "reissue" => hnd[h].op = "change",
         p \in {"recheck", "rechain", "list", "add", "move"} => Minted(h)
  PROVE  IInv'
<1>1. HandlerKnows(h) /\ loggedOut' \subseteq TokenId
  BY DEF IInv, TypeOK, HandlersKnow
<1>2. HandlerKnows(h)'
  BY <1>1, GotoFacts DEF HandlerKnows, Minted
<1>3. Minted(h)' => Minted(h)
  BY GotoFacts DEF Minted
<1> QED BY <1>1, <1>2, <1>3, GotoFacts, MovesOn

LEMMA ClaimIInv ==
  ASSUME IInv, NEW h \in Handler, Claim(h)
  PROVE  IInv'
<1> DEFINE q == [hnd[h] EXCEPT !.phase = "recheck", !.child = NextId]
<1>1. PICK t \in tokens : t.id = hnd[h].tok /\ t.chain = hnd[h].chain
  BY DEF IInv, HandlersKnow, HandlerKnows, Checked, Claim
<1>2. Tok(hnd[h].tok) = t
  BY <1>1, TokIsToken DEF IInv
<1>3. t \in Token /\ t.acc <= account /\ t.chn <= chainVer[t.chain]
  BY DEF IInv, TypeOK, TokensOK, TokensDated
<1>4. /\ Mint(t.chain, t.acc, t.chn, t.id, t.root)
      /\ hnd[h].phase = "current" /\ hnd[h].op = "refresh"
      /\ t.id \notin consumed /\ consumed' = consumed \cup {t.id}
      /\ hnd' = [hnd EXCEPT ![h] = q]
      /\ UNCHANGED <<versions, held, rows, loggedOut>>
  BY <1>1, <1>2 DEF Claim, IInv, TypeOK
<1>5. NextId \in TokenId
  BY <1>4, MintFacts DEF IInv
<1>6. /\ q \in HandlerState /\ q.child = NextId /\ q.chain = t.chain
      /\ q.phase = "recheck" /\ q.op = "refresh"
  BY <1>1, <1>4, <1>5 DEF IInv, TypeOK, HandlerState
<1>7. /\ t.chain \in Chain /\ t.acc \in Nat /\ t.chn \in Nat
      /\ t.id \in TokenId /\ t.root \in TokenId
  BY <1>3 DEF Token
<1>8. /\ t.id \in {0} \cup TokenId /\ t.id \in consumed' \ consumed
      /\ consumed \subseteq consumed' /\ consumed' \subseteq TokenId
      /\ \E u \in tokens : u.root = t.root /\ u.chain = t.chain
                         /\ u.acc = t.acc /\ u.chn = t.chn
      /\ q.phase \in {"add", "recheck", "list"} /\ q.op \notin {"all", "logout"}
  BY <1>4, <1>6, <1>7 DEF IInv, TypeOK
<1> HIDE DEF q
<1> QED BY <1>3, <1>4, <1>5, <1>6, <1>7, <1>8, Mints

LEMMA ReissueIInv ==
  ASSUME IInv, NEW h \in Handler, Reissue(h)
  PROVE  IInv'
<1> DEFINE q == [hnd[h] EXCEPT !.phase = "list", !.child = NextId]
           c == hnd[h].chain
<1>1. /\ Mint(c, account, chainVer[c], 0, NextId)
      /\ hnd[h].phase = "reissue" /\ hnd' = [hnd EXCEPT ![h] = q]
      /\ UNCHANGED <<versions, held, rows, loggedOut>> /\ consumed' = consumed
  BY DEF Reissue, IInv, TypeOK
<1>2. NextId \in TokenId /\ c \in Chain
  BY <1>1, MintFacts DEF IInv, HandlersKnow, HandlerKnows
<1>3. /\ q \in HandlerState /\ q.child = NextId /\ q.chain = c
      /\ q.phase = "list" /\ q.op = "change"
  BY <1>1, <1>2 DEF IInv, TypeOK, HandlerState, HandlersKnow, HandlerKnows
<1>4. account \in Nat /\ chainVer[c] \in Nat /\ consumed \subseteq TokenId
  BY <1>2 DEF IInv, TypeOK
<1>5. /\ 0 \in {0} \cup TokenId /\ account <= account /\ chainVer[c] <= chainVer[c]
      /\ consumed \subseteq consumed' /\ consumed' \subseteq TokenId
      /\ q.phase \in {"add", "recheck", "list"} /\ q.op \notin {"all", "logout"}
  BY <1>1, <1>3, <1>4
<1> HIDE DEF q, c
<1> QED BY <1>1, <1>2, <1>3, <1>4, <1>5, Mints

LEMMA ClaimLostIInv ==
  ASSUME IInv, NEW h \in Handler, NEW benign \in BOOLEAN, ClaimLost(h, benign)
  PROVE  IInv'
<1>1. CASE benign
  BY <1>1, Answers DEF ClaimLost
<1>2. CASE ~benign
  <2>1. /\ Goto(h, "bump") /\ hnd[h].phase = "current" /\ hnd[h].op = "refresh"
        /\ UNCHANGED <<versions, tokens, held, consumed, rows, loggedOut>>
    BY <1>2 DEF ClaimLost
  <2>2. /\ [hnd[h] EXCEPT !.phase = "bump"] \in HandlerState
        /\ hnd[h].chain \in Chain
    BY <2>1 DEF IInv, TypeOK, HandlerState, HandlersKnow, HandlerKnows
  <2> QED BY <2>1, <2>2, GoesOn
<1> QED BY <1>1, <1>2

LEMMA RecheckIInv ==
  ASSUME IInv, NEW h \in Handler, RecheckAccount(h) \/ RecheckChain(h)
  PROVE  IInv'
<1>1. CASE Answer(h)
  BY <1>1, Answers DEF RecheckAccount, RecheckChain
<1>2. ASSUME NEW p \in {"rechain", "list"}, Goto(h, p) PROVE IInv'
  <2>1. /\ hnd[h].phase \in {"recheck", "rechain"}
        /\ UNCHANGED <<versions, tokens, held, consumed, rows, loggedOut>>
    BY DEF RecheckAccount, RecheckChain
  <2>2. /\ [hnd[h] EXCEPT !.phase = p] \in HandlerState
        /\ Minted(h) /\ hnd[h].op # "all" /\ hnd[h].chain \in Chain
    BY <2>1 DEF IInv, TypeOK, HandlerState, HandlersKnow, HandlerKnows, Minted
  <2> QED BY <1>2, <2>1, <2>2, GoesOn
<1> QED BY <1>1, <1>2 DEF RecheckAccount, RecheckChain

LEMMA LogoutFindIInv ==
  ASSUME IInv, NEW h \in Handler, NEW id \in held, LogoutFind(h, id)
  PROVE  IInv'
<1>1. id \in TokenId /\ loggedOut \subseteq TokenId /\ hnd \in [Handler -> HandlerState]
  BY DEF IInv, TypeOK
<1>2. CASE \E s \in rows : s.jti = id
  <2> DEFINE s == CHOOSE s \in rows : s.jti = id
             q == [Idle EXCEPT !.phase = "bump", !.op = "logout", !.tok = id,
                               !.chain = s.chain]
  <2>1. s \in rows /\ s.chain \in Chain
    BY <1>2 DEF IInv, TypeOK, Row
  <2>2. /\ hnd' = [hnd EXCEPT ![h] = q] /\ loggedOut' = loggedOut
        /\ UNCHANGED <<versions, tokens, held, consumed, rows>>
    BY <1>2 DEF LogoutFind
  <2> HIDE DEF s
  <2>3. /\ q \in HandlerState /\ q.phase = "bump" /\ q.op = "logout"
        /\ q.tok = id /\ q.chain = s.chain
    BY <1>1, <2>1 DEF Idle, HandlerState
  <2> HIDE DEF q
  <2>4. hnd'[h] = q
    BY <1>1, <2>2
  <2>5. HandlerKnows(h)' /\ ~Minted(h)'
    BY <1>1, <2>1, <2>3, <2>4 DEF HandlerKnows, Minted, TokenId
  <2> QED BY <1>1, <2>2, <2>3, <2>5, MovesOn
<1>3. CASE ~\E s \in rows : s.jti = id
  <2>1. /\ hnd' = hnd /\ loggedOut' = loggedOut \cup {id} /\ hnd[h] = Idle
        /\ UNCHANGED <<versions, tokens, held, consumed, rows>>
    BY <1>3 DEF LogoutFind
  <2>2. /\ hnd' = [hnd EXCEPT ![h] = hnd[h]] /\ hnd[h] \in HandlerState
        /\ hnd'[h] = hnd[h] /\ loggedOut' \subseteq TokenId
    BY <1>1, <2>1
  <2>3. HandlerKnows(h)' /\ hnd[h].phase = "idle" /\ ~Minted(h)'
    BY <2>1, <2>2 DEF HandlerKnows, Minted, Idle
  <2> QED BY <2>1, <2>2, <2>3, MovesOn
<1> QED BY <1>2, <1>3

LEMMA RevokeFindIInv ==
  ASSUME IInv, NEW h \in Handler, NEW s \in rows, RevokeFind(h, s)
  PROVE  IInv'
<1> DEFINE q == [Idle EXCEPT !.phase = "bump", !.op = "revoke",
                             !.row = s.id, !.chain = s.chain]
<1>1. s.id \in TokenId /\ s.chain \in Chain /\ loggedOut \subseteq TokenId
  BY DEF IInv, TypeOK, Row
<1>2. /\ q \in HandlerState /\ q.phase = "bump" /\ q.op = "revoke"
      /\ q.chain = s.chain
  BY <1>1 DEF Idle, HandlerState
<1>3. /\ hnd' = [hnd EXCEPT ![h] = q]
      /\ UNCHANGED <<versions, tokens, held, consumed, rows, loggedOut>>
  BY DEF RevokeFind
<1> HIDE DEF q
<1>4. hnd'[h] = q
  BY <1>3 DEF IInv, TypeOK
<1>5. HandlerKnows(h)' /\ ~Minted(h)'
  BY <1>1, <1>2, <1>4 DEF HandlerKnows, Minted
<1> QED BY <1>1, <1>2, <1>3, <1>5, MovesOn

LEMMA EndAllIInv ==
  ASSUME IInv, NEW h \in Handler, EndAll(h)
  PROVE  IInv'
<1> DEFINE q == [Idle EXCEPT !.phase = "bump", !.op = "all"]
<1>1. /\ q \in HandlerState /\ q.phase = "bump" /\ q.op = "all"
  BY DEF Idle, HandlerState
<1>2. /\ hnd' = [hnd EXCEPT ![h] = q] /\ loggedOut' \subseteq TokenId
      /\ UNCHANGED <<versions, tokens, held, consumed, rows, loggedOut>>
  BY DEF EndAll, IInv, TypeOK
<1> HIDE DEF q
<1>3. hnd'[h] = q
  BY <1>2 DEF IInv, TypeOK
<1>4. HandlerKnows(h)' /\ ~Minted(h)'
  BY <1>1, <1>3 DEF HandlerKnows, Minted
<1> QED BY <1>1, <1>2, <1>4, MovesOn

LEMMA ChangePasswordIInv ==
  ASSUME IInv, NEW h \in Handler, ChangePassword(h)
  PROVE  IInv'
<1> DEFINE q == [hnd[h] EXCEPT !.phase = "bump", !.op = "change"]
<1>1. /\ q \in HandlerState /\ q.phase = "bump" /\ q.op = "change"
      /\ q.chain = hnd[h].chain
  BY DEF IInv, TypeOK, HandlerState
<1>2. /\ hnd' = [hnd EXCEPT ![h] = q] /\ loggedOut' \subseteq TokenId
      /\ hnd[h].phase = "current" /\ hnd[h].op = "verify"
      /\ UNCHANGED <<versions, tokens, held, consumed, rows, loggedOut>>
  BY DEF ChangePassword, IInv, TypeOK
<1>3. hnd[h].chain \in Chain
  BY <1>2 DEF IInv, HandlersKnow, HandlerKnows
<1> HIDE DEF q
<1>4. hnd'[h] = q
  BY <1>2 DEF IInv, TypeOK
<1>5. HandlerKnows(h)' /\ ~Minted(h)'
  BY <1>1, <1>3, <1>4 DEF HandlerKnows, Minted
<1> QED BY <1>1, <1>2, <1>5, MovesOn

LEMMA BumpFailsIInv ==
  ASSUME IInv, NEW h \in Handler, BumpFails(h)
  PROVE  IInv'
<1>1. CASE hnd[h].op # "change"
  BY <1>1, Answers DEF BumpFails
<1>2. CASE hnd[h].op = "change"
  <2>1. /\ Goto(h, "reissue") /\ hnd[h].phase = "bump"
        /\ UNCHANGED <<versions, tokens, held, consumed, rows, loggedOut>>
    BY <1>2 DEF BumpFails
  <2>2. /\ [hnd[h] EXCEPT !.phase = "reissue"] \in HandlerState
        /\ hnd[h].chain \in Chain
    BY <1>2, <2>1 DEF IInv, TypeOK, HandlerState, HandlersKnow, HandlerKnows
  <2> QED BY <1>2, <2>1, <2>2, GoesOn
<1> QED BY <1>1, <1>2

(* Bumping a chain ends the families of the chain, and no other.           *)
LEMMA BumpChainIInv ==
  ASSUME IInv, NEW h \in Handler, BumpChain(h)
  PROVE  IInv'
<1> DEFINE c == hnd[h].chain
           p == IF hnd[h].op = "revoke" THEN "delete" ELSE "unlist"
           q == [hnd[h] EXCEPT !.phase = p]
           dead == {u \in tokens : u.chain = c}
<1>1. /\ hnd[h].phase = "bump" /\ hnd[h].op \in {"refresh", "logout", "revoke"}
      /\ chainVer' = [chainVer EXCEPT ![c] = @ + 1]
      /\ ended' = ended \cup {t.root : t \in dead}
      /\ Goto(h, p) /\ UNCHANGED <<tokens, held, consumed, rows, loggedOut>>
      /\ account' = account
  BY DEF BumpChain, RootsOf
<1>2. /\ c \in Chain /\ account \in Nat /\ chainVer \in [Chain -> Nat]
      /\ HandlerKnows(h)
  BY <1>1 DEF IInv, TypeOK, HandlersKnow, HandlerKnows
<1>3. /\ q \in HandlerState /\ q.phase = p /\ q.op = hnd[h].op
      /\ q.tok = hnd[h].tok /\ q.chain = c
  BY DEF IInv, TypeOK, HandlerState
<1>4. hnd' = [hnd EXCEPT ![h] = q] /\ hnd'[h] = q
  BY <1>1, <1>3, GotoFacts
<1>5. HandlerKnows(h)' /\ ~Minted(h)' /\ q.phase # "current"
  BY <1>1, <1>2, <1>3, <1>4 DEF HandlerKnows, Minted
<1>6. /\ chainVer' \in [Chain -> Nat] /\ account' \in Nat /\ account <= account'
      /\ \A k \in Chain : chainVer[k] <= chainVer'[k]
  BY <1>1, <1>2
<1>7. \A t \in dead : ~Valid(t)'
  <2>1. \A t \in dead : t.chain = c /\ t.chn \in Nat /\ t.chn <= chainVer[c]
    BY DEF IInv, TypeOK, TokensOK, TokensDated, Token
  <2>2. chainVer'[c] = chainVer[c] + 1 /\ chainVer[c] \in Nat
    BY <1>1, <1>2
  <2> QED BY <2>1, <2>2 DEF Valid
<1>8. \A t \in tokens, u \in dead : t.root = u.root => t \in dead
  BY DEF IInv, TokensOK, TokensRelated
<1>9. dead \in SUBSET tokens
  OBVIOUS
<1> HIDE DEF dead, q, p
<1> QED BY <1>1, <1>3, <1>4, <1>5, <1>6, <1>7, <1>8, <1>9, Bumps

LEMMA BumpAccountIInv ==
  ASSUME IInv, NEW h \in Handler, BumpAccount(h)
  PROVE  IInv'
<1> DEFINE q == [hnd[h] EXCEPT !.phase = "bulk"]
<1>1. /\ hnd[h].phase = "bump" /\ hnd[h].op \in {"all", "change"}
      /\ account' = account + 1 /\ chainVer' = chainVer
      /\ ended' = ended \cup {t.root : t \in tokens}
      /\ Goto(h, "bulk") /\ UNCHANGED <<tokens, held, consumed, rows, loggedOut>>
  BY DEF BumpAccount
<1>2. /\ account \in Nat /\ chainVer \in [Chain -> Nat] /\ HandlerKnows(h)
  BY DEF IInv, TypeOK, HandlersKnow
<1>3. /\ q \in HandlerState /\ q.phase = "bulk" /\ q.op = hnd[h].op
      /\ q.tok = hnd[h].tok /\ q.chain = hnd[h].chain
  BY DEF IInv, TypeOK, HandlerState
<1>4. hnd' = [hnd EXCEPT ![h] = q] /\ hnd'[h] = q
  BY <1>1, <1>3, GotoFacts
<1>5. HandlerKnows(h)' /\ ~Minted(h)' /\ q.phase # "current"
  BY <1>1, <1>2, <1>3, <1>4 DEF HandlerKnows, Minted
<1>6. /\ chainVer' \in [Chain -> Nat] /\ account' \in Nat /\ account <= account'
      /\ \A k \in Chain : chainVer[k] <= chainVer'[k]
  BY <1>1, <1>2
<1>7. \A t \in tokens : ~Valid(t)'
  <2>1. \A t \in tokens : t.acc \in Nat /\ t.acc <= account
    BY DEF IInv, TypeOK, TokensOK, TokensDated, Token
  <2> QED BY <2>1, <1>1, <1>2 DEF Valid
<1>8. tokens \in SUBSET tokens
  OBVIOUS
<1> HIDE DEF q
<1> QED BY <1>1, <1>3, <1>4, <1>5, <1>6, <1>7, <1>8, Bumps

LEMMA SelectRowIInv ==
  ASSUME IInv, NEW h \in Handler, SelectRow(h)
  PROVE  IInv'
<1> DEFINE r == IF Cardinality(Sought(h)) = 1
                  THEN (CHOOSE s \in Sought(h) : TRUE).id ELSE 0
           p == IF hnd[h].phase = "unlist" THEN "delete"
                ELSE IF Sought(h) = {} THEN "add" ELSE "move"
           q == [hnd[h] EXCEPT !.row = r, !.phase = p]
<1>1. r \in {0} \cup TokenId
  <2>1. CASE Sought(h) = {}
    BY <2>1, FS_EmptySet
  <2>2. CASE Sought(h) # {}
    <3>1. (CHOOSE s \in Sought(h) : TRUE) \in Sought(h)
      BY <2>2
    <3>2. Sought(h) \subseteq Row
      BY DEF Sought, IInv, TypeOK
    <3> QED BY <3>1, <3>2 DEF Row
  <2> QED BY <2>1, <2>2
<1>2. /\ hnd[h].phase \in {"list", "unlist"}
      /\ hnd' = [hnd EXCEPT ![h].row = r, ![h].phase = p]
      /\ UNCHANGED <<versions, tokens, held, consumed, rows, loggedOut>>
  BY DEF SelectRow
<1>3. p \in {"delete", "add", "move"} /\ (p # "delete" => Minted(h))
  BY <1>2 DEF Minted
<1> HIDE DEF r, p
<1>4. /\ q \in HandlerState /\ q.phase = p /\ q.op = hnd[h].op /\ q.tok = hnd[h].tok
      /\ q.chain = hnd[h].chain /\ q.child = hnd[h].child
  BY <1>1, <1>3 DEF IInv, TypeOK, HandlerState
<1>5. /\ hnd' = [hnd EXCEPT ![h] = q] /\ hnd'[h] = q
      /\ loggedOut' \subseteq TokenId /\ HandlerKnows(h)
  BY <1>2 DEF IInv, TypeOK, HandlersKnow
<1> HIDE DEF q
<1>6. HandlerKnows(h)' /\ (Minted(h)' => Minted(h))
  BY <1>2, <1>3, <1>4, <1>5 DEF HandlerKnows, Minted
<1> QED BY <1>2, <1>3, <1>4, <1>5, <1>6, MovesOn

(* Deleting rows keeps ids and jtis apart.                                 *)
LEMMA DeleteIInv ==
  ASSUME IInv, NEW h \in Handler, DeleteRow(h) \/ DeleteRows(h)
  PROVE  IInv'
<1>1. rows' \subseteq rows /\ UNCHANGED <<versions, tokens, consumed>> /\ held' = held
  BY DEF DeleteRow, DeleteRows, Mirror
<1>2. WritesOwn(h)
  BY <1>1 DEF IInv, TypeOK, RowsOK, RowJtiUnique, WritesOwn
<1>3. loggedOut' \subseteq TokenId
  BY DEF DeleteRow, DeleteRows, IInv, TypeOK, HandlersKnow, HandlerKnows, HandlerState
<1>4. CASE Answer(h)
  BY <1>1, <1>2, <1>3, <1>4, AnswerFacts, Writes
<1>5. CASE ~Answer(h)
  <2> DEFINE q == [hnd[h] EXCEPT !.phase = "reissue"]
  <2>1. Goto(h, "reissue") /\ hnd[h].op = "change" /\ hnd[h].phase = "bulk"
    BY <1>5 DEF DeleteRow, DeleteRows
  <2>2. q \in HandlerState /\ q.phase = "reissue" /\ HandlerKnows(h)
    BY DEF IInv, TypeOK, HandlerState, HandlersKnow
  <2>3. hnd' = [hnd EXCEPT ![h] = q] /\ HandlerKnows(h)' /\ ~Minted(h)'
    BY <2>1, <2>2, GotoFacts DEF HandlerKnows, Minted
  <2> HIDE DEF q
  <2> QED BY <1>1, <1>2, <1>3, <2>2, <2>3, Writes
<1> QED BY <1>4, <1>5

(* The new row, or the row moved to the new jti, is alone with that jti:   *)
(* no other request has this child, and ids stay with their rows.          *)
LEMMA ListedIInv ==
  ASSUME IInv, NEW h \in Handler, AddRow(h) \/ MoveRow(h)
  PROVE  IInv'
<1> DEFINE kid == hnd[h].child
<1>1. /\ Minted(h) /\ Answer(h) /\ held' = held \cup {kid}
      /\ UNCHANGED <<versions, tokens, consumed, loggedOut>>
  BY DEF AddRow, MoveRow, Deliver, Minted
<1>2. /\ kid \in TokenId /\ hnd[h].chain \in Chain /\ hnd[h].row \in {0} \cup TokenId
      /\ \A s \in rows : kid # s.id /\ kid # s.jti
  BY <1>1 DEF IInv, TypeOK, HandlerState, HandlersKnow, HandlerKnows, Minted
<1>3. /\ rows \subseteq Row
      /\ \A s, u \in rows : s.id = u.id \/ s.jti = u.jti => s = u
  BY DEF IInv, TypeOK, RowsOK, RowJtiUnique
<1>4. loggedOut' \subseteq TokenId
  BY <1>1 DEF IInv, TypeOK
<1>5. WritesOwn(h)
  <2>1. CASE rows' = rows
    BY <2>1, <1>3 DEF WritesOwn
  <2>2. CASE rows' = rows \cup {NewRow(h)}
    <3>1. /\ NewRow(h) \in Row /\ NewRow(h).id = kid /\ NewRow(h).jti = kid
      BY <1>2 DEF NewRow, Row
    <3> QED BY <3>1, <2>2, <1>1, <1>2, <1>3 DEF WritesOwn
  <2>3. CASE rows' = Moved(h)
    <3> DEFINE new(s) == IF s.id = hnd[h].row THEN [s EXCEPT !.jti = kid] ELSE s
    <3>1. rows' = {new(s) : s \in rows}
      BY <2>3 DEF Moved
    <3>2. \A s \in rows :
            /\ new(s) \in Row /\ new(s).id = s.id
            /\ new(s).jti = IF s.id = hnd[h].row THEN kid ELSE s.jti
      BY <1>2, <1>3 DEF Row
    <3> HIDE DEF new
    <3>3. \A s, u \in rows :
            new(s).id = new(u).id \/ new(s).jti = new(u).jti => s = u
      BY <3>2, <1>2, <1>3
    <3>4. \A s \in rows' : \E r \in rows : s = new(r)
      BY <3>1
    <3>5. \A s \in rows' : /\ (\E r \in rows : s.id = r.id) \/ (Minted(h) /\ s.id = kid)
                           /\ (\E r \in rows : s.jti = r.jti) \/ (Minted(h) /\ s.jti = kid)
      BY <1>1, <3>2, <3>4
    <3> QED BY <3>2, <3>3, <3>4, <3>5 DEF WritesOwn
  <2> QED BY <2>1, <2>2, <2>3 DEF AddRow, MoveRow, Mirror
<1>6. /\ Idle \in HandlerState /\ Idle.phase # "current"
      /\ hnd' = [hnd EXCEPT ![h] = Idle] /\ HandlerKnows(h)' /\ ~Minted(h)'
  BY <1>1, AnswerFacts
<1>7. held' = held \/ (Minted(h) /\ held' = held \cup {hnd[h].child})
  BY <1>1
<1>8. UNCHANGED <<versions, tokens, consumed>>
  BY <1>1
<1> QED BY <1>4, <1>5, <1>6, <1>7, <1>8, Writes

LEMMA NextIInv == IInv /\ [Next]_vars => IInv'
<1>1. ASSUME IInv, UNCHANGED vars PROVE IInv'
  BY <1>1 DEF vars, IInv, TypeOK, TokensOK, TokensCounted, TokensDated, TokensRelated,
     RowsOK, RowJtiUnique, HandlersKnow, HandlerKnows, Checked, Minted, SingleUse,
     EndedStaysEnded, Valid, AcceptedWasValid
<1>2. ASSUME IInv, NEW h \in Handler,
             \/ \E c \in Chain : Login(h, c)
             \/ \E id \in held : \/ CheckAccount(h, id, "refresh")
                                 \/ CheckAccount(h, id, "verify")
                                 \/ LogoutFind(h, id)
             \/ CheckChain(h)
             \/ \E s \in rows : RevokeFind(h, s)
             \/ ChangePassword(h)
      PROVE  IInv'
  BY <1>2, LoginIInv, CheckAccountIInv, CheckChainIInv, LogoutFindIInv,
     RevokeFindIInv, ChangePasswordIInv
<1>3. ASSUME IInv, NEW h \in Handler,
             \/ Claim(h)
             \/ \E benign \in BOOLEAN : ClaimLost(h, benign)
             \/ RecheckAccount(h) \/ RecheckChain(h)
      PROVE  IInv'
  BY <1>3, ClaimIInv, ClaimLostIInv, RecheckIInv
<1>4. ASSUME IInv, NEW h \in Handler,
             EndAll(h) \/ BumpChain(h) \/ BumpAccount(h) \/ BumpFails(h) \/ Reissue(h)
      PROVE  IInv'
  BY <1>4, EndAllIInv, BumpChainIInv, BumpAccountIInv, BumpFailsIInv, ReissueIInv
<1>5. ASSUME IInv, NEW h \in Handler,
             \/ SelectRow(h) \/ DeleteRow(h) \/ DeleteRows(h)
             \/ AddRow(h) \/ MoveRow(h)
      PROVE  IInv'
  BY <1>5, SelectRowIInv, DeleteIInv, ListedIInv
<1>6. ASSUME IInv, NEW h \in Handler, HandlerEnds(h) PROVE IInv'
  BY <1>6, Answers DEF HandlerEnds
<1> QED BY <1>1, <1>2, <1>3, <1>4, <1>5, <1>6 DEF Next

---------------------------------------------------------------------------
(* The theorems *)

(* The strengthened invariant holds in every reachable state: what tokens, *)
(* rows and the memory of every request say of each other, at every await. *)
THEOREM IInvAlways == Spec => []IInv
BY InitIInv, NextIInv, PTL DEF Spec

(* All variables keep their types, and no two rows of user_sessions ever   *)
(* claim one jti: the racing writers never meet its unique index.          *)
THEOREM MirrorAlwaysOK == Spec => []MirrorOK
<1>1. IInv => MirrorOK
  BY DEF IInv, RowsOK, MirrorOK
<1> QED BY <1>1, IInvAlways, PTL

(* consume_refresh_token: whatever requests race, a token is redeemed once.*)
THEOREM TokensSingleUse == Spec => []SingleUse
<1>1. IInv => SingleUse
  BY DEF IInv
<1> QED BY <1>1, IInvAlways, PTL

(* After a bump, no token of the sessions that existed then is accepted    *)
(* again, nor any child a refresh in flight mints from one of them.        *)
THEOREM EndedForever == Spec => []EndedStaysEnded
<1>1. IInv => EndedStaysEnded
  BY DEF IInv
<1> QED BY <1>1, IInvAlways, PTL

(* is_current_version reads two counters at two moments; what it accepts   *)
(* was valid at the first of them.                                         *)
THEOREM AcceptedOnlyValid == Spec => []AcceptedWasValid
<1>1. IInv => AcceptedWasValid
  BY DEF IInv
<1> QED BY <1>1, IInvAlways, PTL

===========================================================================
