--------------------------- MODULE UserRowProofs ---------------------------
(***************************************************************************)
(* The rows of a user and what is reported of them, for any number of      *)
(* requests.                                                               *)
(*                                                                         *)
(* RefreshTokens: a token is exchanged once, and presenting a used one     *)
(* ends every session, for any number of sign-ins, refreshes and faults.   *)
(* Accounts: an account stays sound unless a stale copy is saved, and      *)
(* guesses and codes stay limited unless requests about them overlap.      *)
(* Decks: the count of a deck is that of its members and their positions   *)
(* are distinct, for any number of words, unless a save or an append met   *)
(* another request.                                                        *)
(* Reports: streak, heatmap, statistics, suggestions and the board agree   *)
(* with the rows and the log, whatever comes between their queries.        *)
(***************************************************************************)
EXTENDS Accounts, RefreshTokens, Decks, Reports, DataTheorems

-----------------------------------------------------------------------------
(* Refresh tokens: the inductive invariant *)

\* The request has found the token live and will, or may, exchange it.
Presents(r, t) == refresh[r].pc \in {"found", "revoked", "issuing"} /\ refresh[r].presented = t
IsHeir(r, t) == tokens[r].exists /\ tokens[r].parent = t
Claims(r, t) == Presents(r, t) \/ IsHeir(r, t)

\* A request that has begun presents a token, and has issued none before its end.
Begun == \A r \in Refreshes :
  /\ refresh[r].pc # "idle" => refresh[r].presented \in Tokens
  /\ refresh[r].pc # "done" => ~tokens[r].exists

\* Rows go with the account only, all at once.
Rooted ==
  /\ account = "deleted" => \A t \in Tokens : ~tokens[t].exists
  /\ account = "active" => \A r \in Refreshes, t \in Tokens : Claims(r, t) => tokens[t].exists

\* Nothing is issued before the token presented is revoked.
Spent == \A r \in Refreshes, t \in Tokens :
  (refresh[r].pc \in {"revoked", "issuing"} /\ refresh[r].presented = t) \/ IsHeir(r, t) => ~Live(t)

ClaimedOnce == \A t \in Tokens \ overlapped : \A q, r \in Refreshes :
  Claims(q, t) /\ Claims(r, t) => q = r

\* What was ended stays so; who had found such a token had found it before.
Ended == \A t \in ended :
  /\ ~Live(t) /\ (account = "active" => tokens[t].exists)
  /\ \A r \in Refreshes : /\ Presents(r, t) => r \in racing
                          /\ IsHeir(r, t) /\ Live(r) => r \in racing

TokensInv == TokensTypeOK /\ Begun /\ Rooted /\ Spent /\ ClaimedOnce /\ Ended /\ ExchangesUnlessCutOff

-----------------------------------------------------------------------------
(* What a step does to a token, where that is all that matters *)

\* Rows may be revoked, expire or go; none comes, and parents stay.
OnlyWears ==
  \A t \in Tokens : /\ tokens'[t].exists => tokens[t].exists /\ tokens'[t].parent = tokens[t].parent
                    /\ Live(t)' => Live(t)

\* No request moves to a state in which it presents a token.
NoNewClaim ==
  \A r \in Refreshes, t \in Tokens : Presents(r, t)' => Presents(r, t)

LEMMA TokensInitInv == TokensInit => TokensInv
  <1> SUFFICES ASSUME TokensInit PROVE TokensInv
    OBVIOUS
  <1>1. TokensTypeOK
    BY TokensAssumption DEF TokensInit, TokensTypeOK, TokenRows, NoToken, RefreshStates
  <1>2. /\ \A t \in Tokens : ~tokens[t].exists
        /\ \A r \in Refreshes : ~tokens[r].exists
        /\ \A r \in Refreshes : refresh[r].pc = "idle"
        /\ account = "active" /\ ended = {}
    BY DEF TokensInit, Tokens, NoToken
  <1>3. \A r \in Refreshes, t \in Tokens : ~Claims(r, t)
    BY <1>2 DEF Claims, Presents, IsHeir
  <1>4. Begun /\ Rooted
    BY <1>2, <1>3 DEF Begun, Rooted
  <1>5. Spent
    BY <1>2 DEF Spent, IsHeir
  <1>6. ClaimedOnce /\ Ended
    BY <1>2, <1>3 DEF ClaimedOnce, Ended
  <1>7. ExchangesUnlessCutOff
    BY DEF TokensInit, ExchangesUnlessCutOff
  <1> QED
    BY <1>1, <1>4, <1>5, <1>6, <1>7 DEF TokensInv

\* Every step keeps the types.
LEMMA TypesKept == ASSUME TokensTypeOK, Begun, [TokensNext]_tokenVars PROVE TokensTypeOK'
  <1> USE TokensAssumption DEF TokensTypeOK, tokenHistory, Moves
  <1>1. CASE UNCHANGED tokenVars
    BY <1>1 DEF tokenVars
  <1>2. ASSUME NEW s \in SignIns, SignIn(s) PROVE TokensTypeOK'
    BY <1>2 DEF SignIn, NewToken, NoToken, TokenRows, Tokens
  <1>3. ASSUME NEW r \in Refreshes, FindLive(r) PROVE TokensTypeOK'
    BY <1>3 DEF FindLive, RefreshStates, InHand
  <1>4. ASSUME NEW r \in Refreshes, FindReused(r) PROVE TokensTypeOK'
    BY <1>4 DEF FindReused, RefreshStates
  <1>5. ASSUME NEW r \in Refreshes, RevokeAll(r) PROVE TokensTypeOK'
    <2>1. tokens' \in [Tokens -> TokenRows]
      BY <1>5 DEF RevokeAll, TokenRows
    <2>2. /\ refresh' \in [Refreshes -> RefreshStates]
          /\ racing' \in SUBSET Refreshes /\ ended' \in SUBSET Tokens
      BY <1>5 DEF RevokeAll, RefreshStates
    <2> QED
      BY <1>5, <2>1, <2>2 DEF RevokeAll
  <1>6. ASSUME NEW r \in Refreshes, RevokePresented(r) PROVE TokensTypeOK'
    <2>1. refresh' \in [Refreshes -> RefreshStates]
      BY <1>6 DEF RevokePresented, RefreshStates
    <2> DEFINE t == refresh[r].presented
    <2>2. t \in Tokens
      BY <1>6 DEF RevokePresented, Begun
    <2>3. rotated' \in SUBSET Tokens
      BY <1>6, <2>2 DEF RevokePresented
    <2>4. tokens' \in [Tokens -> TokenRows]
      <3>1. CASE tokens' = tokens
        BY <3>1
      <3>2. CASE tokens' = [tokens EXCEPT ![t].revoked = TRUE]
        BY ZenonT(30), <3>2 DEF TokenRows
      <3> QED
        BY <1>6, <3>1, <3>2 DEF RevokePresented
    <2> QED
      BY <1>6, <2>1, <2>3, <2>4 DEF RevokePresented
  <1>7. ASSUME NEW r \in Refreshes, FindUser(r) PROVE TokensTypeOK'
    BY <1>7 DEF FindUser, RefreshStates
  <1>8. ASSUME NEW r \in Refreshes, IssueNext(r) PROVE TokensTypeOK'
    <2>1. refresh[r].presented \in Tokens \cup {"none"} /\ r \in Tokens
      BY DEF RefreshStates, Tokens
    <2>2. NewToken(refresh[r].presented) \in TokenRows
      BY <2>1 DEF NewToken, NoToken, TokenRows
    <2>3. tokens' \in [Tokens -> TokenRows]
      BY <1>8, <2>1, <2>2 DEF IssueNext
    <2> QED
      BY <1>8, <2>3 DEF IssueNext, RefreshStates
  <1>9. ASSUME NEW t \in Tokens, Logout(t) \/ TokenExpires(t) PROVE TokensTypeOK'
    <2>1. CASE Logout(t)
      BY <2>1 DEF Logout, TokenRows
    <2>2. CASE TokenExpires(t)
      BY <2>2 DEF TokenExpires, TokenRows
    <2> QED
      BY <1>9, <2>1, <2>2
  <1>10. CASE DeleteAccount
    BY <1>10 DEF DeleteAccount, TokenRows, NoToken
  <1>11. ASSUME NEW r \in Refreshes, RefreshCutOff(r) PROVE TokensTypeOK'
    BY <1>11 DEF RefreshCutOff, RefreshStates
  <1> QED
    BY <1>1, <1>2, <1>3, <1>4, <1>5, <1>6, <1>7, <1>8, <1>9, <1>10, <1>11 DEF TokensNext, Refresh

-----------------------------------------------------------------------------
(* The rest of the invariant, by what a step does *)

\* A step by which rows only wear, and no request finds a token live.
LEMMA WearingKept ==
  ASSUME TokensInv, OnlyWears, NoNewClaim,
         \A r \in Refreshes : /\ refresh[r].pc = "done" => refresh'[r].pc = "done"
                              /\ refresh'[r].pc = "idle" => refresh[r].pc = "idle"
                              /\ refresh'[r].pc # "idle" => refresh'[r].presented \in Tokens
                              /\ \A t \in Tokens :
                                   refresh'[r].pc \in {"revoked", "issuing"} /\ refresh'[r].presented = t
                                     => (refresh[r].pc \in {"revoked", "issuing"} /\ refresh[r].presented = t)
                                        \/ ~Live(t)',
         UNCHANGED <<account, overlapped, ended, racing>>,
         \A t \in Tokens : tokens[t].exists => tokens'[t].exists
  PROVE  (Begun /\ Rooted /\ Spent /\ ClaimedOnce /\ Ended)'
  <1> USE DEF TokensInv
  <1>1. \A r \in Refreshes : r \in Tokens
    BY DEF Tokens
  <1>2. \A r \in Refreshes, t \in Tokens : IsHeir(r, t)' => IsHeir(r, t)
    BY <1>1 DEF IsHeir, OnlyWears
  <1>3. \A r \in Refreshes, t \in Tokens : Claims(r, t)' => Claims(r, t)
    BY <1>2 DEF Claims, NoNewClaim
  <1>4. Begun'
    BY <1>1 DEF Begun, OnlyWears
  <1>5. Rooted'
    BY <1>3 DEF Rooted, OnlyWears
  <1>6. Spent'
    BY <1>2 DEF Spent, OnlyWears
  <1>7. ClaimedOnce'
    BY <1>3 DEF ClaimedOnce
  <1>8. ended \subseteq Tokens
    BY DEF TokensTypeOK
  <1>9. Ended'
    BY <1>1, <1>2, <1>8 DEF Ended, NoNewClaim, OnlyWears
  <1> QED
    BY <1>4, <1>5, <1>6, <1>7, <1>9

\* The steps that are of that kind, the revocation of the presented token included.
LEMMA WearingSteps ==
  ASSUME TokensInv,
         \/ UNCHANGED tokenVars
         \/ \E r \in Refreshes : FindReused(r) \/ RevokePresented(r) \/ FindUser(r) \/ RefreshCutOff(r)
         \/ \E t \in Tokens : Logout(t) \/ TokenExpires(t)
  PROVE  (Begun /\ Rooted /\ Spent /\ ClaimedOnce /\ Ended)'
  <1> USE DEF TokensInv, TokensTypeOK, tokenHistory
  <1> DEFINE Kept == \A r \in Refreshes :
               /\ refresh[r].pc = "done" => refresh'[r].pc = "done"
               /\ refresh'[r].pc = "idle" => refresh[r].pc = "idle"
               /\ refresh'[r].pc # "idle" => refresh'[r].presented \in Tokens
             Spending == \A r \in Refreshes, t \in Tokens :
               refresh'[r].pc \in {"revoked", "issuing"} /\ refresh'[r].presented = t
                 => (refresh[r].pc \in {"revoked", "issuing"} /\ refresh[r].presented = t) \/ ~Live(t)'
             Stays == /\ UNCHANGED <<account, overlapped, ended, racing>>
                      /\ \A t \in Tokens : tokens[t].exists => tokens'[t].exists
             Goal == OnlyWears /\ NoNewClaim /\ Kept /\ Spending /\ Stays
  <1>1. ASSUME UNCHANGED tokenVars PROVE Goal
    BY <1>1 DEF tokenVars, OnlyWears, NoNewClaim, Presents, Begun, Live
  <1>2. ASSUME NEW r \in Refreshes, FindReused(r) PROVE Goal
    BY <1>2 DEF FindReused, Moves, OnlyWears, NoNewClaim, Presents, Begun, Live, RefreshStates
  <1>3. ASSUME NEW r \in Refreshes, FindUser(r) PROVE Goal
    BY <1>3 DEF FindUser, Moves, OnlyWears, NoNewClaim, Presents, Begun, Live, RefreshStates
  <1>4. ASSUME NEW r \in Refreshes, RefreshCutOff(r) PROVE Goal
    BY <1>4 DEF RefreshCutOff, Moves, OnlyWears, NoNewClaim, Presents, Begun, Live, RefreshStates
  <1>5. ASSUME NEW u \in Tokens, Logout(u) PROVE Goal
    <2>1. OnlyWears /\ Stays
      BY <1>5 DEF Logout, OnlyWears, Live, TokenRows
    <2> QED
      BY <1>5, <2>1 DEF Logout, NoNewClaim, Presents, Begun
  <1>6. ASSUME NEW u \in Tokens, TokenExpires(u) PROVE Goal
    <2>1. OnlyWears /\ Stays
      BY <1>6 DEF TokenExpires, OnlyWears, Live, TokenRows
    <2> QED
      BY <1>6, <2>1 DEF TokenExpires, NoNewClaim, Presents, Begun
  <1>7. ASSUME NEW r \in Refreshes, RevokePresented(r) PROVE Goal
    <2> DEFINE u == refresh[r].presented
    <2>1. u \in Tokens
      BY <1>7 DEF RevokePresented, Begun
    <2>2. OnlyWears /\ Stays
      BY <1>7, <2>1 DEF RevokePresented, OnlyWears, Live, TokenRows
    <2>3. ASSUME NEW w \in Tokens, w = u, tokens[w].exists PROVE ~Live(w)'
      <3>1. tokens' = [tokens EXCEPT ![w].revoked = TRUE]
        BY <1>7, <2>3 DEF RevokePresented
      <3>2. tokens'[w].revoked
        BY <3>1 DEF TokenRows
      <3> QED
        BY <3>2 DEF Live
    <2>4. Kept /\ NoNewClaim
      BY <1>7 DEF RevokePresented, Moves, NoNewClaim, Presents, Begun, RefreshStates
    <2>5. Spending
      <3>1. CASE tokens[u].exists
        BY <1>7, <2>3, <3>1 DEF RevokePresented, Moves, RefreshStates
      <3>2. CASE ~tokens[u].exists
        BY <1>7, <3>2 DEF RevokePresented, Moves, RefreshStates
      <3> QED
        BY <3>1, <3>2
    <2> QED
      BY <2>2, <2>4, <2>5
  <1>8. Goal
    BY <1>1, <1>2, <1>3, <1>4, <1>5, <1>6, <1>7
  <1> QED
    BY <1>8, WearingKept

-----------------------------------------------------------------------------
(* The steps that write a row, find a token live, or end them all *)

\* A sign-in's token has no parent and nobody has presented it.
LEMMA SignInKept ==
  ASSUME TokensInv, NEW s \in SignIns, SignIn(s)
  PROVE  (Begun /\ Rooted /\ Spent /\ ClaimedOnce /\ Ended)'
  <1> USE DEF TokensInv, TokensTypeOK, tokenHistory
  <1>1. s \in Tokens /\ s \notin Refreshes /\ \A r \in Refreshes : r \in Tokens
    BY TokensAssumption DEF Tokens
  <1>2. tokens'[s].exists /\ \A t \in Tokens \ {s} : tokens'[t] = tokens[t]
    BY <1>1 DEF SignIn, NewToken, NoToken
  <1>3. /\ account = "active" /\ ~tokens[s].exists
        /\ UNCHANGED <<account, refresh, overlapped, ended, racing>>
    BY DEF SignIn
  <1>4. \A r \in Refreshes : tokens'[r] = tokens[r] /\ (Live(r)' <=> Live(r))
    BY <1>1, <1>2 DEF Live
  <1>5. \A r \in Refreshes, t \in Tokens : /\ Presents(r, t)' <=> Presents(r, t)
                                           /\ IsHeir(r, t)' <=> IsHeir(r, t)
    BY <1>3, <1>4 DEF Presents, IsHeir
  <1>6. \A r \in Refreshes : ~Claims(r, s)
    BY <1>1, <1>3 DEF Rooted
  <1>7. Begun'
    BY <1>3, <1>4 DEF Begun
  <1>8. Rooted'
    BY <1>2, <1>3, <1>5 DEF Rooted, Claims
  <1>9. Spent'
    <2> SUFFICES ASSUME NEW r \in Refreshes, NEW t \in Tokens,
                        (refresh[r].pc \in {"revoked", "issuing"} /\ refresh[r].presented = t) \/ IsHeir(r, t)
                 PROVE  ~Live(t)'
      BY <1>3, <1>5 DEF Spent
    <2>1. t # s
      BY <1>6 DEF Claims, Presents
    <2>2. ~Live(t)
      BY DEF Spent
    <2> QED
      BY <1>2, <2>1, <2>2 DEF Live
  <1>10. ClaimedOnce'
    BY <1>3, <1>5 DEF ClaimedOnce, Claims
  <1>11. \A t \in ended : t \in Tokens \ {s}
    BY <1>3 DEF Ended
  <1>12. Ended'
    <2>1. \A t \in ended : (Live(t)' <=> Live(t)) /\ tokens'[t] = tokens[t]
      BY <1>2, <1>11 DEF Live
    <2> QED
      BY <1>3, <1>4, <1>5, <1>11, <2>1 DEF Ended
  <1> QED
    BY <1>7, <1>8, <1>9, <1>10, <1>12

\* Whoever finds a token live is its only claimant, or it counts as overlapped.
LEMMA FindLiveKept ==
  ASSUME TokensInv, NEW r \in Refreshes, FindLive(r)
  PROVE  (Begun /\ Rooted /\ Spent /\ ClaimedOnce /\ Ended)'
  <1> USE DEF TokensInv, TokensTypeOK
  <1>1. PICK t \in Tokens :
          /\ tokens[t].exists
          /\ refresh' = [refresh EXCEPT ![r] =
                           [pc |-> IF Live(t) THEN "found" ELSE "missed", presented |-> t]]
          /\ overlapped' = IF Live(t) /\ InHand(t) # {} THEN overlapped \cup {t} ELSE overlapped
    BY DEF FindLive
  <1>2. refresh[r].pc = "idle" /\ UNCHANGED <<account, tokens, ended, racing>>
    BY DEF FindLive
  <1>3. refresh'[r] = [pc |-> IF Live(t) THEN "found" ELSE "missed", presented |-> t]
    BY <1>1
  <1>4. \A q \in Refreshes \ {r} : refresh'[q] = refresh[q]
    BY <1>1
  <1>5. ~tokens[r].exists /\ \A u \in Tokens : ~Claims(r, u)
    BY <1>2 DEF Begun, Claims, Presents, IsHeir
  <1>6. \A u \in Tokens : Live(u)' <=> Live(u)
    BY <1>2 DEF Live
  <1>7. \A q \in Refreshes, u \in Tokens : IsHeir(q, u)' <=> IsHeir(q, u)
    BY <1>2 DEF IsHeir
  <1>8. \A q \in Refreshes, u \in Tokens :
          Presents(q, u)' => Presents(q, u) \/ (q = r /\ u = t /\ Live(t))
    BY <1>3, <1>4 DEF Presents
  <1>9. Begun'
    BY <1>2, <1>3, <1>4, <1>5 DEF Begun
  <1>10. Rooted'
    BY <1>1, <1>2, <1>7, <1>8 DEF Rooted, Claims
  <1>11. Spent'
    BY <1>3, <1>4, <1>6, <1>7 DEF Spent
  <1>12. ClaimedOnce'
    <2> SUFFICES ASSUME NEW u \in Tokens \ overlapped', NEW p \in Refreshes, NEW q \in Refreshes,
                        Claims(p, u)', Claims(q, u)'
                 PROVE  p = q
      BY DEF ClaimedOnce
    <2>1. u \notin overlapped
      BY <1>1
    <2>2. CASE ~(u = t /\ Live(t))
      BY <1>7, <1>8, <2>1, <2>2 DEF ClaimedOnce, Claims
    <2>3. CASE u = t /\ Live(t)
      <3>1. InHand(t) = {}
        BY <1>1, <2>3
      <3>2. \A x \in Refreshes : ~Claims(x, t)
        BY <2>3, <3>1 DEF Claims, Presents, Spent, InHand
      <3> QED
        BY <1>7, <1>8, <2>3, <3>2 DEF Claims
    <2> QED
      BY <2>2, <2>3
  <1>13. Ended'
    <2>1. \A q \in Refreshes : q \in Tokens
      BY DEF Tokens
    <2>2. \A u \in ended : u \in Tokens /\ ~Live(u)
      BY DEF Ended
    <2>3. \A q \in Refreshes, u \in ended : Presents(q, u)' => Presents(q, u)
      BY <1>8, <2>2
    <2> QED
      BY <1>2, <1>6, <1>7, <2>1, <2>2, <2>3 DEF Ended
  <1> QED
    BY <1>9, <1>10, <1>11, <1>12, <1>13

\* The answer to a reuse leaves no live row, and counts who is under way.
LEMMA RevokeAllKept ==
  ASSUME TokensInv, NEW r \in Refreshes, RevokeAll(r)
  PROVE  (Begun /\ Rooted /\ Spent /\ ClaimedOnce /\ Ended)'
  <1> USE DEF TokensInv, TokensTypeOK
  <1>1. \A t \in Tokens : /\ tokens'[t].exists = tokens[t].exists
                          /\ tokens'[t].parent = tokens[t].parent
                          /\ tokens'[t].revoked = tokens[t].exists
    BY DEF RevokeAll, TokenRows
  <1>2. \A t \in Tokens : ~Live(t)'
    BY <1>1 DEF Live
  <1>3. \A q \in Refreshes : q \in Tokens
    BY DEF Tokens
  <1>4. refresh' = [refresh EXCEPT ![r].pc = "done"] /\ refresh[r].pc = "reused"
    BY DEF RevokeAll, Moves
  <1>5. \A q \in Refreshes : /\ refresh'[q].presented = refresh[q].presented
                             /\ refresh'[q].pc = refresh[q].pc \/ (q = r /\ refresh'[q].pc = "done")
    BY <1>4 DEF RefreshStates
  <1>6. \A q \in Refreshes, t \in Tokens : /\ Presents(q, t)' => Presents(q, t)
                                           /\ IsHeir(q, t)' <=> IsHeir(q, t)
    BY <1>1, <1>3, <1>5 DEF Presents, IsHeir
  <1>7. account' = account /\ overlapped' = overlapped
    BY DEF RevokeAll
  <1>8. Begun'
    BY <1>1, <1>3, <1>4, <1>5 DEF Begun
  <1>9. Rooted'
    BY <1>1, <1>6, <1>7 DEF Rooted, Claims
  <1>10. Spent'
    BY <1>2 DEF Spent
  <1>11. ClaimedOnce'
    BY <1>6, <1>7 DEF ClaimedOnce, Claims
  <1>12. Ended'
    <2>1. ended' = ended \cup {t \in Tokens : tokens[t].exists}
      BY DEF RevokeAll
    <2>2. \A t \in ended' : t \in Tokens /\ (account = "active" => tokens[t].exists)
      BY <2>1 DEF Ended
    <2>3. \A q \in Refreshes, t \in Tokens : Presents(q, t) => q \in racing'
      BY DEF RevokeAll, Presents
    <2> QED
      BY <1>1, <1>2, <1>3, <1>6, <1>7, <2>2, <2>3 DEF Ended
  <1> QED
    BY <1>8, <1>9, <1>10, <1>11, <1>12

\* The new row's parent is the token its request presented: the claim stays one.
LEMMA IssueNextKept ==
  ASSUME TokensInv, NEW r \in Refreshes, IssueNext(r), account = "active"
  PROVE  (Begun /\ Rooted /\ Spent /\ ClaimedOnce /\ Ended)'
  <1> USE DEF TokensInv, TokensTypeOK, tokenHistory
  <1> DEFINE u == refresh[r].presented
  <1>1. \A q \in Refreshes : q \in Tokens
    BY DEF Tokens
  <1>2. refresh[r].pc = "issuing" /\ u \in Tokens /\ ~tokens[r].exists
    BY DEF IssueNext, Begun
  <1>3. tokens' = [tokens EXCEPT ![r] = NewToken(u)]
    BY DEF IssueNext
  <1>4. tokens'[r].exists /\ tokens'[r].parent = u
    BY <1>1, <1>3 DEF NewToken, NoToken
  <1>5. \A t \in Tokens \ {r} : tokens'[t] = tokens[t] /\ (Live(t)' <=> Live(t))
    BY <1>3 DEF Live
  <1>6. /\ refresh' = [refresh EXCEPT ![r].pc = "done"]
        /\ UNCHANGED <<account, overlapped, ended, racing>>
    BY DEF IssueNext, Moves
  <1>7. /\ refresh'[r].pc = "done" /\ refresh'[r].presented = u
        /\ \A q \in Refreshes \ {r} : refresh'[q] = refresh[q]
    BY <1>6 DEF RefreshStates
  <1>8. Presents(r, u) /\ ~Live(u)
    BY <1>2 DEF Presents, Spent
  <1>9. \A q \in Refreshes, t \in Tokens : /\ Presents(q, t)' => Presents(q, t) /\ q # r
                                           /\ IsHeir(q, t)' => IsHeir(q, t) \/ (q = r /\ t = u)
    BY <1>1, <1>4, <1>5, <1>7 DEF Presents, IsHeir
  <1>10. \A q \in Refreshes, t \in Tokens : Claims(q, t)' => Claims(q, t)
    BY <1>8, <1>9 DEF Claims
  <1>11. \A q \in Refreshes : ~Claims(q, r)
    BY <1>1, <1>2 DEF Rooted
  <1>12. u # r
    BY <1>8, <1>11 DEF Claims
  <1>13. Begun'
    BY <1>1, <1>2, <1>5, <1>7 DEF Begun
  <1>14. Rooted'
    BY <1>4, <1>5, <1>6, <1>10 DEF Rooted
  <1>15. Spent'
    <2> SUFFICES ASSUME NEW q \in Refreshes, NEW t \in Tokens,
                        \/ refresh'[q].pc \in {"revoked", "issuing"} /\ refresh'[q].presented = t
                        \/ IsHeir(q, t)'
                 PROVE  ~Live(t)'
      BY DEF Spent
    <2>1. Claims(q, t)'
      BY DEF Claims, Presents
    <2>2. t # r
      BY <1>10, <1>11, <2>1
    <2>3. ~Live(t)
      BY <1>7, <1>8, <1>9 DEF Spent
    <2> QED
      BY <1>5, <2>2, <2>3
  <1>16. ClaimedOnce'
    BY <1>6, <1>10 DEF ClaimedOnce
  <1>17. Ended'
    <2> SUFFICES ASSUME NEW t \in ended
                 PROVE  /\ ~Live(t)' /\ tokens'[t].exists
                        /\ \A q \in Refreshes : /\ Presents(q, t)' => q \in racing
                                                /\ IsHeir(q, t)' /\ Live(q)' => q \in racing
      BY <1>6 DEF Ended
    <2>1. t \in Tokens /\ t # r /\ ~Live(t) /\ tokens[t].exists
      BY <1>2 DEF Ended
    <2>2. ~Live(t)' /\ tokens'[t].exists
      BY <1>5, <2>1
    <2>3. ASSUME NEW q \in Refreshes, IsHeir(q, t)', Live(q)' PROVE q \in racing
      <3>1. CASE q = r
        <4>1. t = u
          BY <1>4, <2>3, <3>1 DEF IsHeir
        <4> QED
          BY <1>8, <3>1, <4>1 DEF Ended
      <3>2. CASE q # r
        BY <1>1, <1>5, <1>9, <2>1, <2>3, <3>2 DEF Ended
      <3> QED
        BY <3>1, <3>2
    <2> QED
      BY <1>9, <2>1, <2>2, <2>3 DEF Ended
  <1> QED
    BY <1>13, <1>14, <1>15, <1>16, <1>17

\* No row is left, and no request moves.
LEMMA DeleteAccountKept ==
  ASSUME TokensInv, DeleteAccount
  PROVE  (Begun /\ Rooted /\ Spent /\ ClaimedOnce /\ Ended)'
  <1> USE DEF TokensInv, TokensTypeOK, tokenHistory
  <1>1. \A t \in Tokens : ~tokens'[t].exists
    BY DEF DeleteAccount, NoToken
  <1>2. account' = "deleted" /\ UNCHANGED <<refresh, overlapped, ended, racing>>
    BY DEF DeleteAccount
  <1>3. \A r \in Refreshes : ~tokens'[r].exists
    BY <1>1 DEF Tokens
  <1>4. \A t \in Tokens : ~Live(t)'
    BY <1>1 DEF Live
  <1>5. \A r \in Refreshes, t \in Tokens : ~IsHeir(r, t)' /\ (Presents(r, t)' <=> Presents(r, t))
    BY <1>2, <1>3 DEF IsHeir, Presents
  <1>6. Begun' /\ Rooted' /\ Spent'
    BY <1>1, <1>2, <1>3, <1>4 DEF Begun, Rooted, Spent
  <1>7. ClaimedOnce'
    BY <1>2, <1>5 DEF ClaimedOnce, Claims
  <1>8. Ended'
    BY <1>2, <1>4, <1>5 DEF Ended
  <1> QED
    BY <1>6, <1>7, <1>8

\* No row goes but all do with the account, and a request that leaves a token
\* without an heir has stored one or was cut off.
LEMMA ExchangesKept ==
  ASSUME TokensInv, [TokensNext]_tokenVars
  PROVE  ExchangesUnlessCutOff'
  <1> USE DEF TokensInv, TokensTypeOK, tokenHistory, Moves
  <1> SUFFICES ASSUME account' = "active", NEW t \in rotated'
               PROVE  \E r \in Refreshes : IsHeir(r, t)' \/ Exchanging(r, t)'
    BY DEF ExchangesUnlessCutOff, Heirs, IsHeir
  <1>1. \A r \in Refreshes : r \in Tokens
    BY DEF Tokens
  <1>2. account = "active" /\ rotated \subseteq Tokens
    BY DEF TokensNext, Refresh, SignIn, FindLive, FindReused, RevokeAll, RevokePresented, FindUser,
           IssueNext, Logout, DeleteAccount, TokenExpires, RefreshCutOff, tokenVars
  <1>3. t \in rotated => \E r \in Refreshes : IsHeir(r, t) \/ Exchanging(r, t)
    BY <1>2 DEF ExchangesUnlessCutOff, Heirs, IsHeir
  \* A step that keeps rows and parents, and in which nobody stops exchanging t.
  <1>4. ASSUME t \in rotated,
               \A r \in Refreshes : /\ IsHeir(r, t) => IsHeir(r, t)'
                                    /\ Exchanging(r, t) => Exchanging(r, t)'
        PROVE  \E r \in Refreshes : IsHeir(r, t)' \/ Exchanging(r, t)'
    BY <1>3, <1>4
  <1> DEFINE Goal == \E r \in Refreshes : IsHeir(r, t)' \/ Exchanging(r, t)'
  <1>5. CASE UNCHANGED tokenVars
    BY <1>4, <1>5 DEF tokenVars, IsHeir, Exchanging
  <1>6. ASSUME NEW s \in SignIns, SignIn(s) PROVE Goal
    <2>1. \A r \in Refreshes : tokens'[r] = tokens[r]
      BY <1>1, <1>6, TokensAssumption DEF SignIn, Tokens
    <2> QED
      BY <1>4, <1>6, <2>1 DEF SignIn, IsHeir, Exchanging
  <1>7. ASSUME NEW q \in Refreshes, FindLive(q) PROVE Goal
    BY <1>4, <1>7 DEF FindLive, IsHeir, Exchanging, RefreshStates
  <1>8. ASSUME NEW q \in Refreshes, FindReused(q) PROVE Goal
    BY <1>4, <1>8 DEF FindReused, IsHeir, Exchanging, RefreshStates
  <1>9. ASSUME NEW q \in Refreshes, RevokeAll(q) PROVE Goal
    <2>1. \A r \in Refreshes : /\ tokens'[r].exists = tokens[r].exists
                              /\ tokens'[r].parent = tokens[r].parent
      BY <1>1, <1>9 DEF RevokeAll, TokenRows
    <2> QED
      BY <1>4, <1>9, <2>1 DEF RevokeAll, IsHeir, Exchanging, RefreshStates
  <1>10. ASSUME NEW q \in Refreshes, RevokePresented(q) PROVE Goal
    <2>1. \A r \in Refreshes : /\ tokens'[r].exists = tokens[r].exists
                              /\ tokens'[r].parent = tokens[r].parent
      BY <1>1, <1>10 DEF RevokePresented, TokenRows
    <2>2. \A r \in Refreshes : Exchanging(r, t) => Exchanging(r, t)'
      BY <1>10 DEF RevokePresented, Exchanging, RefreshStates
    <2>3. CASE t \in rotated
      BY <1>4, <2>1, <2>2, <2>3 DEF IsHeir
    <2>4. CASE t \notin rotated
      BY <1>10, <2>4 DEF RevokePresented, Exchanging, RefreshStates
    <2> QED
      BY <2>3, <2>4
  <1>11. ASSUME NEW q \in Refreshes, FindUser(q) PROVE Goal
    BY <1>2, <1>4, <1>11 DEF FindUser, IsHeir, Exchanging, RefreshStates
  <1>12. ASSUME NEW q \in Refreshes, IssueNext(q) PROVE Goal
    <2>1. tokens' = [tokens EXCEPT ![q] = NewToken(refresh[q].presented)] /\ ~tokens[q].exists
      BY <1>2, <1>12 DEF IssueNext, Begun
    <2>2. tokens'[q].exists /\ tokens'[q].parent = refresh[q].presented
      BY <1>1, <2>1 DEF NewToken, NoToken
    <2>3. CASE refresh[q].presented = t
      BY <2>2, <2>3 DEF IsHeir
    <2>4. CASE refresh[q].presented # t
      BY <1>1, <1>4, <1>12, <2>1, <2>4 DEF IssueNext, IsHeir, Exchanging, RefreshStates
    <2> QED
      BY <2>3, <2>4
  <1>13. ASSUME NEW u \in Tokens, Logout(u) \/ TokenExpires(u) PROVE Goal
    <2>1. \A r \in Refreshes : /\ tokens'[r].exists = tokens[r].exists
                              /\ tokens'[r].parent = tokens[r].parent
      BY <1>1, <1>13 DEF Logout, TokenExpires, TokenRows
    <2> QED
      BY <1>4, <1>13, <2>1 DEF Logout, TokenExpires, IsHeir, Exchanging
  <1>14. CASE DeleteAccount
    BY <1>14 DEF DeleteAccount
  <1>15. ASSUME NEW q \in Refreshes, RefreshCutOff(q) PROVE Goal
    <2>1. t \in rotated /\ ~Exchanging(q, t)
      BY <1>15 DEF RefreshCutOff
    <2> QED
      BY <1>4, <1>15, <2>1 DEF RefreshCutOff, IsHeir, Exchanging, RefreshStates
  <1> QED
    BY <1>5, <1>6, <1>7, <1>8, <1>9, <1>10, <1>11, <1>12, <1>13, <1>14, <1>15 DEF TokensNext, Refresh

-----------------------------------------------------------------------------
(* The theorems *)

\* Every step keeps the invariant.
LEMMA TokensStepInv == TokensInv /\ [TokensNext]_tokenVars => TokensInv'
  <1> SUFFICES ASSUME TokensInv, [TokensNext]_tokenVars PROVE TokensInv'
    OBVIOUS
  <1>1. TokensTypeOK'
    BY TypesKept DEF TokensInv
  <1>2. ASSUME NEW r \in Refreshes, IssueNext(r), account # "active"
        PROVE  (Begun /\ Rooted /\ Spent /\ ClaimedOnce /\ Ended)'
    <2>1. UNCHANGED <<account, tokens, overlapped, ended, racing>>
      BY <1>2 DEF IssueNext, tokenHistory
    <2>2. refresh' = [refresh EXCEPT ![r].pc = "done"] /\ refresh[r].pc = "issuing"
      BY <1>2 DEF IssueNext, Moves
    <2>3. OnlyWears /\ NoNewClaim
      BY <2>1, <2>2 DEF OnlyWears, NoNewClaim, Presents, Live, TokensInv, TokensTypeOK, RefreshStates
    <2>4. \A q \in Refreshes :
            /\ refresh'[q].presented = refresh[q].presented
            /\ refresh'[q].pc = refresh[q].pc \/ (q = r /\ refresh'[q].pc = "done")
      BY <2>2 DEF TokensInv, TokensTypeOK, RefreshStates
    <2>5. \A q \in Refreshes : refresh[q].pc # "idle" => refresh[q].presented \in Tokens
      BY DEF TokensInv, Begun
    <2> QED
      BY <2>1, <2>2, <2>3, <2>4, <2>5, WearingKept
  <1>3. (Begun /\ Rooted /\ Spent /\ ClaimedOnce /\ Ended)'
    BY <1>2, WearingSteps, SignInKept, FindLiveKept, RevokeAllKept, IssueNextKept, DeleteAccountKept
       DEF TokensNext, Refresh
  <1> QED
    BY <1>1, <1>3, ExchangesKept DEF TokensInv

\* The invariant holds of every reachable state.
LEMMA TokensInvariance == TokensSpec => []TokensInv
  BY TokensInitInv, TokensStepInv, PTL DEF TokensSpec

\* The rows, the requests and the histories keep their types, whatever the
\* order of the statements of token.service.ts.
THEOREM TokensTyped == TokensSpec => []TokensTypeOK
  <1>1. TokensInv => TokensTypeOK
    BY DEF TokensInv
  <1> QED
    BY <1>1, TokensInvariance, PTL

\* What the invariant says of both.
LEMMA TokensInvSafe == TokensInv => ExchangedOnce /\ ReuseEndsSessions /\ ExchangesUnlessCutOff
  <1>1. ASSUME TokensInv PROVE ExchangedOnce
    <2> SUFFICES ASSUME NEW t \in Tokens \ overlapped
                 PROVE  Cardinality(Heirs(t)) <= 1 /\ (Heirs(t) # {} => ~Live(t))
      BY DEF ExchangedOnce
    <2>1. \A r \in Heirs(t) : r \in Refreshes /\ IsHeir(r, t)
      BY DEF Heirs, IsHeir
    <2>2. CASE Heirs(t) = {}
      BY <2>2, FS_EmptySet
    <2>3. CASE Heirs(t) # {}
      <3>1. PICK h \in Heirs(t) : TRUE
        BY <2>3
      <3>2. Heirs(t) = {h}
        BY <1>1, <2>1, <3>1 DEF TokensInv, ClaimedOnce, Claims
      <3>3. Cardinality(Heirs(t)) = 1
        BY <3>2, FS_Singleton
      <3>4. ~Live(t)
        BY <1>1, <2>1, <3>1 DEF TokensInv, Spent
      <3> QED
        BY <3>3, <3>4
    <2> QED
      BY <2>2, <2>3
  <1>2. ASSUME TokensInv PROVE ReuseEndsSessions
    BY <1>2 DEF TokensInv, Ended, ReuseEndsSessions, Heirs, IsHeir
  <1> QED
    BY <1>1, <1>2 DEF TokensInv

\* rotateRefreshToken exchanges a token for one new pair at most, and the
\* exchanged one never works again, unless two refreshes found it live at once.
THEOREM RotatesOnce == TokensSpec => []ExchangedOnce
  BY TokensInvSafe, TokensInvariance, PTL

\* The answer to a token presented again kills every session there is: only a
\* refresh that was past its first query by then can still hand one out.
THEOREM ReuseKillsSessions == TokensSpec => []ReuseEndsSessions
  BY TokensInvSafe, TokensInvariance, PTL

\* A client whose token rotateRefreshToken revoked gets a new one, whatever
\* happens in between, unless the user is deleted or the request cut off.
THEOREM ClientNotLockedOut == TokensSpec => []ExchangesUnlessCutOff
  BY TokensInvSafe, TokensInvariance, PTL

-----------------------------------------------------------------------------
(* Accounts: the inductive invariant *)

\* What a request holds at the steps that use it.
OnUser == {"asking", "retiring", "inserting", "verifying", "savingCode", "codeSelected",
           "marking", "saving", "selected"}
Saving == {"saving", "selected"}
SavingCode == {"savingCode", "codeSelected"}
HoldsUser(k) ==
  /\ k.pc \in OnUser => k.base \in Users
  /\ k.pc \in Saving => /\ k.entity \in Users /\ k.entity.id = k.base.id
                        /\ k.base.verified => k.entity.verified
  /\ k.pc \in SavingCode => k.code \in Calls /\ k.codeEntity \in Codes

AccountsTyped == AccountsTypeOK /\ \A c \in Calls : HoldsUser(call[c])

\* A request that may insert a user has an id nobody has heard of; so has a
\* code that is not inserted yet.
Names(k, id) == id \in {k.base.id, k.entity.id, k.seen.id}
BeforeUser == {"idle", "registering", "findingEmail", "creating"}
BeforeCode == {"idle", "asking", "retiring", "inserting"}
UserUnborn(c) == call[c].pc \in BeforeUser =>
  /\ user.id # c /\ c \notin deleted /\ c \notin confirmed
  /\ \A d \in Calls : ~Names(call[d], c)
CodeUnborn(c) == call[c].pc \in BeforeCode =>
  /\ codes[c] = NoCode /\ tries[c] = 0
  /\ \A d \in Calls : call[d].code # c

\* What a request is about to save is a sound account, if it has read one.
SoundUser(u) == ~SameLanguage(u) /\ (u.onboarded => Complete(u))
HoldsSound(k) == k.pc \in Saving => SoundUser(k.entity)
PersonSound ==
  /\ \A c \in Calls : UserUnborn(c)
  /\ AccountSound
  /\ ~staleSave => \A c \in Calls : HoldsSound(call[c])

\* A guess in progress is one attempt ahead of its code, of the guesses that
\* were answered, and of every other code of the address, which are consumed.
Open(k) == codes[k] # NoCode /\ ~codes[k].consumed
HoldsCode(k) ==
  /\ k.pc \in SavingCode =>
       /\ tries[k.code] < k.codeEntity.attempts
       /\ codes[k.code] # NoCode => /\ k.codeEntity.attempts = codes[k.code].attempts + 1
                                    /\ k.codeEntity.owner = codes[k.code].owner
       /\ \A j \in Calls \ {k.code} : Open(j) => codes[j].owner # k.codeEntity.owner
  /\ k.pc = "codeSelected" /\ k.codeSeen # NoCode /\ codes[k.code] # NoCode =>
       k.codeSeen.attempts = codes[k.code].attempts
  /\ k.pc = "inserting" => \A j \in Calls : Open(j) => codes[j].owner # k.base.id

CodesOrdered ==
  /\ \A c, d \in Calls : OnCodes(c) /\ OnCodes(d) => c = d
  /\ \A c \in Calls : HoldsCode(call[c])
  /\ \A k \in Calls : tries[k] <= MaxAttempts /\ (codes[k] # NoCode => tries[k] <= codes[k].attempts)
  /\ \A j, k \in Calls : Open(j) /\ Open(k) /\ codes[j].owner = codes[k].owner => j = k

CodesSound == (\A c \in Calls : CodeUnborn(c)) /\ (~codesOverlapped => CodesOrdered)

AccountsInv == AccountsTyped /\ PersonSound /\ CodesSound

\* A user without a profile, as the two sign-ups insert it.
FromSocial(id) == [NoUser EXCEPT !.id = id, !.verified = TRUE]

LEMMA NewUsers ==
  ASSUME NEW id \in Ids
  PROVE  /\ Registered(id) \in Users /\ FromSocial(id) \in Users
         /\ FromSocial(id).verified
         /\ \A u \in {Registered(id), FromSocial(id)} :
              u.id = id /\ ~u.onboarded /\ u.native = Null
  <1> DEFINE Columns == [id: Ids \cup {"nobody"}, password: BOOLEAN, verified: BOOLEAN,
                         onboarded: BOOLEAN, native: Languages \cup {Null},
                         target: Languages \cup {Null}, goals: BOOLEAN]
  <1>1. NoUser \in Columns /\ NoUser.native = Null /\ ~NoUser.onboarded
    BY DEF NoUser
  <1>2. PICK none \in Columns : none = NoUser /\ none.native = Null /\ ~none.onboarded
    BY <1>1
  <1>3. /\ [none EXCEPT !.id = id, !.password = TRUE] \in Users
        /\ [none EXCEPT !.id = id, !.verified = TRUE] \in Users
    BY DEF Users
  <1>4. /\ [none EXCEPT !.id = id, !.verified = TRUE].verified
        /\ \A u \in {[none EXCEPT !.id = id, !.password = TRUE],
                     [none EXCEPT !.id = id, !.verified = TRUE]} :
             u.id = id /\ ~u.onboarded /\ u.native = Null
    BY <1>2
  <1> QED
    BY <1>2, <1>3, <1>4 DEF Registered, FromSocial

LEMMA AccountsInitInv == AccountsInit => AccountsInv
  <1> SUFFICES ASSUME AccountsInit PROVE AccountsInv
    OBVIOUS
  <1> USE AccountsAssumption
  <1> "seed" \in Ids
    BY DEF Ids
  <1>1. NoUser.id = "nobody" /\ ~NoUser.onboarded /\ NoUser.native = Null
    BY DEF NoUser
  <1>2. \A u \in {NoUser, Registered("seed")} : ~SameLanguage(u) /\ ~u.onboarded
    <2>1. \A u \in {NoUser, Registered("seed")} : u.native = Null /\ ~u.onboarded
      BY <1>1, NewUsers
    <2> QED
      BY <2>1 DEF SameLanguage
  <1>3. Registered("seed") \in Users /\ Registered("seed").id = "seed"
    BY NewUsers
  <1>4. \A n \in Languages, t \in Languages :
          /\ Onboarded(n, t) \in Users /\ Onboarded(n, t).id = "seed" /\ Complete(Onboarded(n, t))
          /\ Onboarded(n, t).native = n /\ Onboarded(n, t).target = t /\ Onboarded(n, t).onboarded
    BY DEF Onboarded, Registered, NoUser, Users, Ids, Complete, Null
  <1>5. /\ user \in Users \cup {NoUser} /\ user.id \in {"nobody", "seed"}
        /\ ~SameLanguage(user) /\ (user.onboarded => Complete(user))
    BY <1>1, <1>2, <1>3, <1>4 DEF AccountsInit, SameLanguage
  <1>6. Idle \in CallStates /\ Idle.pc = "idle" /\ HoldsUser(Idle) /\ Idle.code = "nobody"
    BY DEF Idle, CallStates, HoldsUser, OnUser, Saving, SavingCode
  <1>7. \A id \in Calls : ~Names(Idle, id)
    BY <1>1 DEF Idle, Names
  <1>8. NoCode.consumed = FALSE /\ NoCode \notin Codes
    BY DEF NoCode, Codes, Ids
  <1>9. AccountsTyped
    <2>1. user \in Users \cup {NoUser}
      BY <1>5
    <2>2. identity \in Ids \cup {"nobody"} /\ accountFaults \in 0..MaxAccountFaults
      BY DEF AccountsInit
    <2>3. codes \in [Calls -> Codes \cup {NoCode}] /\ tries \in [Calls -> Nat]
      BY DEF AccountsInit
    <2>4. call \in [Calls -> CallStates] /\ (\A c \in Calls : HoldsUser(call[c]))
      BY <1>6 DEF AccountsInit
    <2>5. /\ mailed \in SUBSET Calls /\ deleted \in SUBSET Ids /\ confirmed \in SUBSET Ids
          /\ staleSave \in BOOLEAN /\ codesOverlapped \in BOOLEAN
      BY DEF AccountsInit
    <2> QED
      BY <2>1, <2>2, <2>3, <2>4, <2>5 DEF AccountsTyped, AccountsTypeOK
  <1>10. PersonSound
    <2>1. \A c \in Calls : UserUnborn(c)
      BY <1>5, <1>7 DEF AccountsInit, UserUnborn
    <2>2. AccountSound
      BY <1>5 DEF AccountsInit, AccountSound
    <2>3. \A c \in Calls : HoldsSound(call[c])
      BY <1>6 DEF AccountsInit, HoldsSound, Saving
    <2> QED
      BY <2>1, <2>2, <2>3 DEF PersonSound
  <1>11. CodesSound
    <2>1. \A c \in Calls : CodeUnborn(c)
      BY <1>6 DEF AccountsInit, CodeUnborn
    <2>2. \A c \in Calls : ~OnCodes(c) /\ ~Open(c) /\ HoldsCode(call[c])
      BY <1>6 DEF AccountsInit, OnCodes, Open, HoldsCode, SavingCode
    <2>3. \A k \in Calls : tries[k] = 0 /\ codes[k] = NoCode
      BY DEF AccountsInit
    <2> QED
      BY <2>1, <2>2, <2>3 DEF CodesSound, CodesOrdered
  <1> QED
    BY <1>9, <1>10, <1>11 DEF AccountsInv

-----------------------------------------------------------------------------
(* Accounts: the steps of one request *)

\* Request c moves on to k: it names users and codes it knows or reads.
Steps(c, k) ==
  /\ k \in CallStates /\ HoldsUser(k)
  /\ call' = [call EXCEPT ![c] = k]
  /\ k.pc \in BeforeUser => call[c].pc \in BeforeUser
  /\ k.pc \in BeforeCode => call[c].pc \in BeforeCode
  /\ \A id \in Calls : Names(k, id) => id \in {user.id, user'.id} \/ Names(call[c], id)
  /\ \A j \in Calls : k.code = j => call[c].code = j \/ codes[j] # NoCode

LEMMA EndsSteps ==
  ASSUME NEW c \in Calls, Ends(c)
  PROVE  \E k \in CallStates : Steps(c, k) /\ k.pc = "done"
  <1> USE AccountsAssumption
  <1> DEFINE k == [Idle EXCEPT !.pc = "done"]
  <1>1. /\ k \in CallStates /\ k.pc = "done" /\ k.code = "nobody" /\ k.base.id = "nobody"
        /\ k.entity.id = "nobody" /\ k.seen.id = "nobody"
    BY DEF Idle, CallStates, NoUser
  <1>2. call' = [call EXCEPT ![c] = k]
    BY DEF Ends
  <1> HIDE DEF k
  <1>3. HoldsUser(k) /\ k.pc \notin BeforeUser /\ k.pc \notin BeforeCode
    BY <1>1 DEF HoldsUser, OnUser, Saving, SavingCode, BeforeUser, BeforeCode
  <1>4. \A id \in Calls : ~Names(k, id)
    BY <1>1 DEF Names
  <1> QED
    BY <1>1, <1>2, <1>3, <1>4 DEF Steps

\* The request goes on with what it holds.
LEMMA GoesSteps ==
  ASSUME AccountsTyped, NEW c \in Calls,
         NEW pc \in {"registering", "findingEmail", "retiring", "inserting", "mailing", "unmailing"},
         Goes(c, pc),
         pc \in OnUser => call[c].pc \in OnUser,
         pc \in BeforeUser => call[c].pc \in BeforeUser,
         pc \in BeforeCode => call[c].pc \in BeforeCode
  PROVE  \E k \in CallStates : Steps(c, k) /\ k.pc = pc /\ k.base = call[c].base
  <1>1. PICK old \in CallStates : old = call[c] /\ HoldsUser(old)
    BY DEF AccountsTyped, AccountsTypeOK
  <1> DEFINE k == [old EXCEPT !.pc = pc]
  <1>2. /\ k \in CallStates /\ k.pc = pc /\ k.code = old.code /\ k.base = old.base
        /\ k.entity = old.entity /\ k.seen = old.seen
    BY DEF CallStates
  <1>3. call' = [call EXCEPT ![c] = k]
    BY <1>1 DEF Goes, AccountsTyped, AccountsTypeOK
  <1> HIDE DEF k
  <1>4. HoldsUser(k)
    BY <1>1, <1>2 DEF HoldsUser, Saving, SavingCode
  <1>5. \A id \in Calls : Names(k, id) => Names(call[c], id)
    BY <1>1, <1>2 DEF Names
  <1> QED
    BY <1>1, <1>2, <1>3, <1>4, <1>5 DEF Steps

\* The request goes on with the user it has read.
LEMMA ReadsSteps ==
  ASSUME AccountsTyped, NEW c \in Calls,
         NEW pc \in {"linking", "creating", "asking", "verifying"},
         call' = [call EXCEPT ![c].pc = pc, ![c].base = user],
         pc \in OnUser => user # NoUser,
         call[c].pc \in {"idle", "findingEmail"},
         pc \in BeforeCode => call[c].pc = "idle"
  PROVE  \E k \in CallStates : Steps(c, k) /\ k.pc = pc /\ k.base = user
  <1>1. PICK old \in CallStates : old = call[c]
    BY DEF AccountsTyped, AccountsTypeOK
  <1>2. PICK u \in Users \cup {NoUser} : u = user
    BY DEF AccountsTyped, AccountsTypeOK
  <1> DEFINE k == [old EXCEPT !.pc = pc, !.base = u]
  <1>3. /\ k \in CallStates /\ k.pc = pc /\ k.code = old.code /\ k.base = u
        /\ k.entity = old.entity /\ k.seen = old.seen
    BY DEF CallStates
  <1>4. call' = [call EXCEPT ![c] = k]
    BY <1>1, <1>2 DEF AccountsTyped, AccountsTypeOK
  <1> HIDE DEF k
  <1>5. HoldsUser(k)
    BY <1>2, <1>3 DEF HoldsUser, Saving, SavingCode
  <1>6. \A id \in Calls : Names(k, id) => Names(call[c], id) \/ id = user.id
    BY <1>1, <1>2, <1>3 DEF Names
  <1> QED
    BY <1>1, <1>2, <1>3, <1>4, <1>5, <1>6 DEF Steps, BeforeUser, BeforeCode

\* The request is to save a copy of the user it has read.
LEMMA SavesSteps ==
  ASSUME AccountsTyped, NEW c \in Calls, NEW e \in Users,
         user # NoUser, e.id = user.id, user.verified => e.verified,
         call' = [call EXCEPT ![c].pc = "saving", ![c].base = user, ![c].entity = e]
  PROVE  \E k \in CallStates : Steps(c, k) /\ k.pc = "saving" /\ k.base = user /\ k.entity = e
  <1>1. PICK old \in CallStates : old = call[c]
    BY DEF AccountsTyped, AccountsTypeOK
  <1>2. PICK u \in Users : u = user
    BY DEF AccountsTyped, AccountsTypeOK
  <1> DEFINE k == [old EXCEPT !.pc = "saving", !.base = u, !.entity = e]
  <1>3. /\ k \in CallStates /\ k.pc = "saving" /\ k.code = old.code /\ k.base = u
        /\ k.entity = e /\ k.seen = old.seen
    BY DEF CallStates
  <1>4. call' = [call EXCEPT ![c] = k]
    BY <1>1, <1>2 DEF AccountsTyped, AccountsTypeOK
  <1> HIDE DEF k
  <1>5. HoldsUser(k)
    BY <1>2, <1>3 DEF HoldsUser, Saving, SavingCode
  <1>6. \A id \in Calls : Names(k, id) => Names(call[c], id) \/ id = user.id
    BY <1>1, <1>2, <1>3 DEF Names
  <1> QED
    BY <1>1, <1>2, <1>3, <1>4, <1>5, <1>6 DEF Steps, BeforeUser, BeforeCode

-----------------------------------------------------------------------------
(* Accounts: what such a step keeps *)

LEMMA CallsTyped ==
  ASSUME AccountsTyped, NEW c \in Calls, NEW k \in CallStates, Steps(c, k)
  PROVE  call' \in [Calls -> CallStates] /\ \A d \in Calls : HoldsUser(call[d])'
  <1>1. call \in [Calls -> CallStates] /\ call' = [call EXCEPT ![c] = k] /\ HoldsUser(k)
    BY DEF Steps, AccountsTyped, AccountsTypeOK
  <1>2. ASSUME NEW d \in Calls PROVE HoldsUser(call'[d])
    <2>1. PICK q \in CallStates : q = call'[d] /\ (d = c => q = k) /\ (d # c => q = call[d])
      BY <1>1
    <2> QED
      BY <1>1, <2>1 DEF AccountsTyped
  <1>3. \A d \in Calls : HoldsUser(call[d])'
    BY <1>2 DEF HoldsUser
  <1> QED
    BY <1>1, <1>3

LEMMA PersonKept ==
  ASSUME AccountsInv, NEW c \in Calls, NEW k \in CallStates, Steps(c, k),
         UNCHANGED <<user, deleted, confirmed, staleSave>>, ~staleSave => HoldsSound(k)
  PROVE  PersonSound'
  <1>1. call \in [Calls -> CallStates] /\ call' = [call EXCEPT ![c] = k]
    BY DEF Steps, AccountsInv, AccountsTyped, AccountsTypeOK
  <1>2. \A d \in Calls : call'[d] = IF d = c THEN k ELSE call[d]
    BY <1>1
  <1>3. ASSUME NEW d \in Calls, call'[d].pc \in BeforeUser
        PROVE  /\ user.id # d /\ d \notin deleted /\ d \notin confirmed
               /\ \A x \in Calls : ~Names(call'[x], d)
    <2>1. UserUnborn(d) /\ call[d].pc \in BeforeUser
      BY <1>2, <1>3 DEF AccountsInv, PersonSound, Steps
    <2>2. \A x \in Calls : ~Names(call[x], d)
      BY <2>1 DEF UserUnborn
    <2>3. ~Names(k, d)
      BY <2>1, <2>2 DEF Steps, UserUnborn
    <2> QED
      BY <1>2, <2>1, <2>2, <2>3 DEF UserUnborn
  <1>4. \A d \in Calls : UserUnborn(d)'
    BY <1>3 DEF UserUnborn, BeforeUser, Names
  <1>5. AccountSound'
    BY DEF AccountsInv, PersonSound, AccountSound
  <1>6. ~staleSave => \A d \in Calls : HoldsSound(call'[d])
    BY <1>2 DEF AccountsInv, PersonSound
  <1>7. ~staleSave' => \A d \in Calls : HoldsSound(call[d])'
    BY <1>6 DEF HoldsSound, Saving
  <1> QED
    BY <1>4, <1>5, <1>7 DEF PersonSound

\* A step that changes the user, to one that is sound or by a stale save.
LEMMA UserChangeKept ==
  ASSUME AccountsInv, NEW c \in Calls, NEW k \in CallStates, Steps(c, k),
         k.pc \in {"done", "identifying"}, UNCHANGED deleted,
         user'.id \in {user.id, call[c].entity.id, c},
         confirmed' \subseteq confirmed \cup {user'.id},
         staleSave => staleSave', AccountSound'
  PROVE  PersonSound'
  <1>1. call \in [Calls -> CallStates] /\ call' = [call EXCEPT ![c] = k]
    BY DEF Steps, AccountsInv, AccountsTyped, AccountsTypeOK
  <1>2. \A d \in Calls : call'[d] = IF d = c THEN k ELSE call[d]
    BY <1>1
  <1>3. ASSUME NEW d \in Calls, call'[d].pc \in BeforeUser
        PROVE  /\ user'.id # d /\ d \notin deleted' /\ d \notin confirmed'
               /\ \A x \in Calls : ~Names(call'[x], d)
    <2>1. UserUnborn(d) /\ call[d].pc \in BeforeUser /\ d # c
      BY <1>2, <1>3 DEF AccountsInv, PersonSound, Steps, BeforeUser
    <2>2. user.id # d /\ (\A x \in Calls : ~Names(call[x], d))
      BY <2>1 DEF UserUnborn
    <2>3. user'.id # d
      BY <2>1, <2>2 DEF Names
    <2>4. ~Names(k, d)
      BY <2>2, <2>3 DEF Steps
    <2> QED
      BY <1>2, <2>1, <2>2, <2>3, <2>4 DEF UserUnborn
  <1>4. \A d \in Calls : UserUnborn(d)'
    BY <1>3 DEF UserUnborn, BeforeUser, Names
  <1>5. ~staleSave' => \A d \in Calls : HoldsSound(call'[d])
    BY <1>2 DEF AccountsInv, PersonSound, HoldsSound, Saving
  <1>6. ~staleSave' => \A d \in Calls : HoldsSound(call[d])'
    BY <1>5 DEF HoldsSound, Saving
  <1> QED
    BY <1>4, <1>6 DEF PersonSound

\* Codes may go, be consumed, lose what the clock takes; none changes otherwise.
CodesWear ==
  /\ UNCHANGED tries
  /\ \A j \in Calls : codes'[j] # NoCode =>
       /\ codes[j] # NoCode /\ codes'[j].owner = codes[j].owner
       /\ codes'[j].attempts = codes[j].attempts /\ (Open(j)' => Open(j))

LEMMA WearHolds ==
  ASSUME CodesWear, NEW k \in CallStates, HoldsUser(k), HoldsCode(k)
  PROVE  HoldsCode(k)'
  <1>1. ASSUME NEW j \in Calls, Open(j)' PROVE Open(j) /\ codes'[j].owner = codes[j].owner
    BY <1>1 DEF CodesWear, Open
  <1>2. k.pc \in SavingCode => k.code \in Calls
    BY DEF HoldsUser
  <1>3. CASE k.pc \in SavingCode
    <2>1. k.code \in Calls /\ tries' = tries
      BY <1>2, <1>3 DEF CodesWear
    <2>2. tries'[k.code] < k.codeEntity.attempts
      BY <1>3, <2>1 DEF HoldsCode
    <2>3. codes'[k.code] # NoCode => /\ k.codeEntity.attempts = codes'[k.code].attempts + 1
                                     /\ k.codeEntity.owner = codes'[k.code].owner
      BY <1>3, <2>1 DEF HoldsCode, CodesWear
    <2>4. \A j \in Calls \ {k.code} : Open(j)' => codes'[j].owner # k.codeEntity.owner
      BY <1>1, <1>3 DEF HoldsCode
    <2>5. k.pc = "codeSelected" /\ k.codeSeen # NoCode /\ codes'[k.code] # NoCode =>
            k.codeSeen.attempts = codes'[k.code].attempts
      BY <2>1 DEF HoldsCode, CodesWear
    <2>6. k.pc # "inserting"
      BY <1>3 DEF SavingCode
    <2> QED
      BY <1>3, <2>2, <2>3, <2>4, <2>5, <2>6 DEF HoldsCode, SavingCode
  <1>4. CASE k.pc \notin SavingCode
    <2>1. k.pc = "inserting" => \A j \in Calls : Open(j)' => codes'[j].owner # k.base.id
      BY <1>1 DEF HoldsCode
    <2> QED
      BY <1>4, <2>1 DEF HoldsCode, SavingCode
  <1> QED
    BY <1>3, <1>4

\* No request moves, or c moves to k.
LEMMA CodesWearKept ==
  ASSUME AccountsInv, CodesWear, codesOverlapped => codesOverlapped',
         \/ UNCHANGED call
         \/ \E c \in Calls, k \in CallStates :
              /\ Steps(c, k)
              /\ ~codesOverlapped' => /\ HoldsCode(k)'
                                      /\ OnCodes(c)' => \A d \in Calls \ {c} : ~OnCodes(d)
  PROVE  CodesSound'
  <1>1. /\ call \in [Calls -> CallStates] /\ tries \in [Calls -> Nat]
        /\ codes \in [Calls -> Codes \cup {NoCode}]
        /\ \A d \in Calls : HoldsUser(call[d])
    BY DEF AccountsInv, AccountsTyped, AccountsTypeOK
  <1>2. UNCHANGED tries /\ (\A j \in Calls : codes[j] = NoCode => codes'[j] = NoCode)
    BY DEF CodesWear
  <1>3. ASSUME NEW d \in Calls, call'[d].pc \in BeforeCode
        PROVE  /\ codes'[d] = NoCode /\ tries'[d] = 0
               /\ \A x \in Calls : call'[x].code # d
    <2>1. CodeUnborn(d) /\ call[d].pc \in BeforeCode
      BY <1>1, <1>3 DEF AccountsInv, CodesSound, Steps
    <2>2. codes[d] = NoCode /\ tries[d] = 0 /\ (\A x \in Calls : call[x].code # d)
      BY <2>1 DEF CodeUnborn
    <2>3. \A x \in Calls : call'[x].code # d
      BY <1>1, <2>2 DEF Steps
    <2> QED
      BY <1>2, <2>2, <2>3
  <1>4. \A d \in Calls : CodeUnborn(d)'
    BY <1>3 DEF CodeUnborn, BeforeCode
  <1>5. ASSUME ~codesOverlapped' PROVE CodesOrdered'
    <2>1. CodesOrdered
      BY <1>5 DEF AccountsInv, CodesSound
    <2>2. ASSUME NEW c \in Calls, NEW d \in Calls, OnCodes(c)', OnCodes(d)' PROVE c = d
      <3>1. CASE UNCHANGED call
        BY <2>1, <2>2, <3>1 DEF CodesOrdered, OnCodes
      <3>2. ASSUME NEW e \in Calls, NEW k \in CallStates, Steps(e, k),
                   OnCodes(e)' => \A x \in Calls \ {e} : ~OnCodes(x)
            PROVE  c = d
        <4>1. \A x \in Calls \ {e} : OnCodes(x)' => OnCodes(x)
          BY <1>1, <3>2 DEF Steps, OnCodes
        <4> QED
          BY <2>1, <2>2, <3>2, <4>1 DEF CodesOrdered
      <3> QED
        BY <1>5, <3>1, <3>2
    <2>3. ASSUME NEW d \in Calls PROVE HoldsCode(call[d])'
      <3>1. CASE call'[d] = call[d]
        <4>1. PICK k \in CallStates : k = call[d] /\ HoldsUser(k) /\ HoldsCode(k)
          BY <1>1, <2>1 DEF CodesOrdered
        <4>2. HoldsCode(k)'
          BY <4>1, WearHolds
        <4> QED
          BY <3>1, <4>1, <4>2 DEF HoldsCode
      <3>2. CASE call'[d] # call[d]
        <4>1. PICK k \in CallStates : k = call'[d] /\ HoldsCode(k)'
          BY <1>1, <1>5, <3>2 DEF Steps
        <4> QED
          BY <4>1 DEF HoldsCode
      <3> QED
        BY <3>1, <3>2
    <2>4. \A k \in Calls : /\ tries'[k] <= MaxAttempts
                           /\ codes'[k] # NoCode => tries'[k] <= codes'[k].attempts
      BY <1>2, <2>1 DEF CodesOrdered, CodesWear
    <2>5. ASSUME NEW j \in Calls, NEW k \in Calls, Open(j)', Open(k)', codes'[j].owner = codes'[k].owner
          PROVE  j = k
      <3>1. Open(j) /\ Open(k) /\ codes[j].owner = codes[k].owner
        BY <2>5 DEF CodesWear, Open
      <3> QED
        BY <2>1, <3>1 DEF CodesOrdered
    <2> QED
      BY <2>2, <2>3, <2>4, <2>5 DEF CodesOrdered
  <1> QED
    BY <1>4, <1>5 DEF CodesSound

-----------------------------------------------------------------------------
(* Accounts: the steps that change no row *)

\* What no step of a request but its own changes.
OthersTyped ==
  /\ user \in Users \cup {NoUser} /\ identity \in Ids \cup {"nobody"}
  /\ codes \in [Calls -> Codes \cup {NoCode}] /\ tries \in [Calls -> Nat]
  /\ mailed \in SUBSET Calls /\ accountFaults \in 0..MaxAccountFaults
  /\ deleted \in SUBSET Ids /\ confirmed \in SUBSET Ids
  /\ staleSave \in BOOLEAN /\ codesOverlapped \in BOOLEAN

LEMMA TypedParts == AccountsTyped <=>
  OthersTyped /\ call \in [Calls -> CallStates] /\ \A c \in Calls : HoldsUser(call[c])
  BY DEF AccountsTyped, AccountsTypeOK, OthersTyped

LEMMA CallOnlyKept ==
  ASSUME AccountsInv, NEW c \in Calls, NEW k \in CallStates, Steps(c, k),
         UNCHANGED <<rows, deleted, confirmed, tries, staleSave>>,
         accountFaults' \in 0..MaxAccountFaults, codesOverlapped' \in BOOLEAN,
         codesOverlapped => codesOverlapped', ~staleSave => HoldsSound(k),
         ~codesOverlapped' =>
           /\ k.pc \in SavingCode \cup {"inserting"} => HoldsCode(k)
           /\ OnCodes(c)' => OnCodes(c) \/ \A d \in Calls \ {c} : ~OnCodes(d)
  PROVE  AccountsInv'
  <1>1. /\ UNCHANGED <<user, identity, codes, mailed, tries, deleted, confirmed, staleSave>>
        /\ AccountsTyped /\ OthersTyped
    BY TypedParts DEF rows, AccountsInv
  <1>2. AccountsTyped'
    <2>1. OthersTyped'
      BY <1>1 DEF OthersTyped
    <2>2. call' \in [Calls -> CallStates] /\ \A d \in Calls : HoldsUser(call[d])'
      BY <1>1, CallsTyped
    <2> QED
      BY <2>1, <2>2 DEF AccountsTyped, AccountsTypeOK, OthersTyped
  <1>3. PersonSound'
    BY <1>1, PersonKept
  <1>4. CodesWear
    BY <1>1 DEF CodesWear, Open
  <1>5. ASSUME ~codesOverlapped' PROVE HoldsCode(k)'
    <2>1. HoldsCode(k)
      BY <1>5 DEF HoldsCode, SavingCode
    <2> QED
      BY <1>4, <2>1, WearHolds DEF Steps
  <1>6. ASSUME ~codesOverlapped', OnCodes(c)' PROVE \A d \in Calls \ {c} : ~OnCodes(d)
    BY <1>6 DEF AccountsInv, CodesSound, CodesOrdered
  <1>7. CodesSound'
    BY <1>4, <1>5, <1>6, CodesWearKept
  <1> QED
    BY <1>2, <1>3, <1>7 DEF AccountsInv

LEMMA EndsKept ==
  ASSUME AccountsInv, NEW c \in Calls, Ends(c), UNCHANGED <<rows, history>>,
         accountFaults' \in 0..MaxAccountFaults
  PROVE  AccountsInv'
  <1>1. PICK k \in CallStates : Steps(c, k) /\ k.pc = "done"
    BY EndsSteps
  <1>2. ~OnCodes(c)'
    BY <1>1 DEF Steps, OnCodes, AccountsInv, AccountsTyped, AccountsTypeOK
  <1>3. HoldsSound(k) /\ k.pc \notin SavingCode \cup {"inserting"}
    BY <1>1 DEF HoldsSound, Saving, SavingCode
  <1>4. codesOverlapped \in BOOLEAN
    BY DEF AccountsInv, AccountsTyped, AccountsTypeOK
  <1> QED
    BY <1>1, <1>2, <1>3, <1>4, CallOnlyKept DEF history

\* A step within the request that is neither about to save nor about a code.
LEMMA QuietStepKept ==
  ASSUME AccountsInv, NEW c \in Calls, NEW k \in CallStates, Steps(c, k), OnlyCalls,
         k.pc \notin SavingCode \cup {"inserting"}, ~staleSave => HoldsSound(k),
         OnCodes(c)' => OnCodes(c)
  PROVE  AccountsInv'
  <1>1. accountFaults \in 0..MaxAccountFaults /\ codesOverlapped \in BOOLEAN
    BY DEF AccountsInv, AccountsTyped, AccountsTypeOK
  <1> QED
    BY <1>1, CallOnlyKept DEF OnlyCalls, history

\* Where a step takes its request.
LEMMA OnCodesNext ==
  ASSUME AccountsInv, NEW c \in Calls, NEW k \in CallStates, Steps(c, k)
  PROVE  OnCodes(c)' <=> k.pc \in {"asking", "retiring", "inserting", "mailing", "unmailing",
                                   "verifying", "savingCode", "codeSelected"}
  BY DEF Steps, OnCodes, AccountsInv, AccountsTyped, AccountsTypeOK

LEMMA SignInReadsKept ==
  ASSUME AccountsInv, NEW c \in Calls, Register(c) \/ SocialSignIn(c) \/ FindEmail(c)
  PROVE  AccountsInv'
  <1> USE DEF At
  <1>1. AccountsTyped /\ accountFaults \in 0..MaxAccountFaults
    BY DEF AccountsInv, AccountsTyped, AccountsTypeOK
  <1>2. CASE Ends(c)
    BY <1>1, <1>2, EndsKept DEF Register, SocialSignIn, FindEmail, OnlyCalls
  <1>3. ASSUME NEW pc \in {"registering", "findingEmail"}, Goes(c, pc), At(c, "idle"), OnlyCalls
        PROVE  AccountsInv'
    <2>1. PICK k \in CallStates : Steps(c, k) /\ k.pc = pc
      BY <1>1, <1>3, GoesSteps DEF OnUser, BeforeUser, BeforeCode
    <2>2. HoldsSound(k) /\ ~OnCodes(c)' /\ k.pc \notin SavingCode \cup {"inserting"}
      BY <2>1, OnCodesNext DEF HoldsSound, Saving, SavingCode
    <2> QED
      BY <1>3, <2>1, <2>2, QuietStepKept
  <1>4. CASE FindEmail(c)
    <2>1. PICK pc \in {"linking", "creating"} : call' = [call EXCEPT ![c].pc = pc, ![c].base = user]
      BY <1>4 DEF FindEmail
    <2>2. PICK k \in CallStates : Steps(c, k) /\ k.pc = pc
      <3>1. call[c].pc \in {"idle", "findingEmail"} /\ pc \notin OnUser /\ pc \notin BeforeCode
        BY <1>4 DEF OnUser, BeforeCode, FindEmail
      <3> QED
        BY <1>1, <2>1, <3>1, ReadsSteps
    <2>3. HoldsSound(k) /\ ~OnCodes(c)' /\ k.pc \notin SavingCode \cup {"inserting"}
      BY <2>2, OnCodesNext DEF HoldsSound, Saving, SavingCode
    <2> QED
      BY <1>4, <2>2, <2>3, QuietStepKept DEF FindEmail
  <1> QED
    BY <1>2, <1>3, <1>4 DEF Register, SocialSignIn

\* AskForCode and Verify: the request joins those about codes.
LEMMA JoinsCodesKept ==
  ASSUME AccountsInv, NEW c \in Calls, AskForCode(c) \/ Verify(c)
  PROVE  AccountsInv'
  <1> USE DEF At
  <1>1. /\ AccountsTyped /\ accountFaults \in 0..MaxAccountFaults /\ codesOverlapped \in BOOLEAN
        /\ UNCHANGED <<rows, deleted, confirmed, tries, staleSave, accountFaults>>
        /\ call[c].pc = "idle"
    BY DEF AccountsInv, AccountsTyped, AccountsTypeOK, AskForCode, Verify
  <1>2. CASE Ends(c) /\ UNCHANGED codesOverlapped
    BY <1>1, <1>2, EndsKept DEF history
  <1>3. ASSUME NEW pc \in {"asking", "verifying"}, Overlaps(c), user # NoUser,
               call' = [call EXCEPT ![c].pc = pc, ![c].base = user]
        PROVE  AccountsInv'
    <2>1. PICK k \in CallStates : Steps(c, k) /\ k.pc = pc
      BY <1>1, <1>3, ReadsSteps
    <2>2. HoldsSound(k) /\ k.pc \notin SavingCode \cup {"inserting"}
      BY <2>1 DEF HoldsSound, Saving, SavingCode
    <2>3. /\ codesOverlapped' \in BOOLEAN /\ (codesOverlapped => codesOverlapped')
          /\ ~codesOverlapped' => \A d \in Calls \ {c} : ~OnCodes(d)
      BY <1>1, <1>3 DEF Overlaps
    <2> QED
      BY <1>1, <2>1, <2>2, <2>3, CallOnlyKept
  <1> QED
    BY <1>2, <1>3 DEF AskForCode, Verify, Exists

LEMMA CheckCooldownKept ==
  ASSUME AccountsInv, NEW c \in Calls, CheckCooldown(c)
  PROVE  AccountsInv'
  <1>1. AccountsTyped /\ accountFaults \in 0..MaxAccountFaults /\ call[c].pc = "asking" /\ OnlyCalls
    BY DEF AccountsInv, AccountsTyped, AccountsTypeOK, CheckCooldown, At
  <1>2. CASE Ends(c)
    BY <1>1, <1>2, EndsKept DEF OnlyCalls
  <1>3. CASE Goes(c, "retiring")
    <2>1. PICK k \in CallStates : Steps(c, k) /\ k.pc = "retiring"
      BY <1>1, <1>3, GoesSteps DEF OnUser, BeforeUser, BeforeCode
    <2>2. HoldsSound(k) /\ OnCodes(c) /\ k.pc \notin SavingCode \cup {"inserting"}
      BY <1>1, <2>1 DEF HoldsSound, Saving, SavingCode, OnCodes
    <2> QED
      BY <1>1, <2>1, <2>2, QuietStepKept
  <1> QED
    BY <1>2, <1>3 DEF CheckCooldown

LEMMA GuessedRow ==
  ASSUME AccountsTyped, NEW j \in Calls, codes[j] # NoCode, NEW right \in BOOLEAN
  PROVE  /\ Guessed(j, right) \in Codes /\ Guessed(j, right).owner = codes[j].owner
         /\ Guessed(j, right).attempts = codes[j].attempts + 1
         /\ codes[j].attempts \in Nat
  <1>1. PICK r \in Codes : r = codes[j]
    BY DEF AccountsTyped, AccountsTypeOK
  <1>2. PICK n \in Nat : n = r.attempts + 1
    BY DEF Codes
  <1>3. PICK b \in BOOLEAN : b = (right \/ r.attempts + 1 > MaxAttempts)
    OBVIOUS
  <1>4. Guessed(j, right) = [r EXCEPT !.attempts = n, !.consumed = b]
    BY <1>1, <1>2, <1>3 DEF Guessed
  <1> QED
    BY <1>1, <1>2, <1>4 DEF Codes

LEMMA GuessKept ==
  ASSUME AccountsInv, NEW c \in Calls, Guess(c)
  PROVE  AccountsInv'
  <1>1. /\ AccountsTyped /\ accountFaults \in 0..MaxAccountFaults /\ call[c].pc = "verifying"
        /\ OnlyCalls /\ codesOverlapped \in BOOLEAN /\ call \in [Calls -> CallStates]
        /\ tries \in [Calls -> Nat]
    BY DEF AccountsInv, AccountsTyped, AccountsTypeOK, Guess, At
  <1>2. CASE Ends(c)
    BY <1>1, <1>2, EndsKept DEF OnlyCalls
  <1>3. ASSUME NEW j \in Calls, NEW right \in BOOLEAN, LatestActive(j),
               call' = [call EXCEPT ![c].pc = "savingCode", ![c].code = j,
                                    ![c].right = right, ![c].codeEntity = Guessed(j, right)]
        PROVE  AccountsInv'
    <2>1. Open(j)
      BY <1>3 DEF LatestActive, Active, Open
    <2>2. PICK e \in Codes : /\ e = Guessed(j, right) /\ e.owner = codes[j].owner
                             /\ e.attempts = codes[j].attempts + 1 /\ codes[j].attempts \in Nat
      BY <1>1, <2>1, GuessedRow DEF Open
    <2>3. PICK old \in CallStates : old = call[c] /\ HoldsUser(old)
      BY <1>1 DEF AccountsTyped
    <2> DEFINE k == [old EXCEPT !.pc = "savingCode", !.code = j, !.right = right, !.codeEntity = e]
    <2>4. /\ k \in CallStates /\ k.pc = "savingCode" /\ k.code = j /\ k.codeEntity = e
          /\ k.base = old.base /\ k.entity = old.entity /\ k.seen = old.seen
      BY DEF CallStates, Ids
    <2>5. call' = [call EXCEPT ![c] = k]
      BY <1>1, <1>3, <2>2, <2>3
    <2> HIDE DEF k
    <2>6. HoldsUser(k)
      BY <1>1, <2>2, <2>3, <2>4 DEF HoldsUser, OnUser, Saving
    <2>7. \A id \in Calls : Names(k, id) => Names(call[c], id)
      BY <2>3, <2>4 DEF Names
    <2>8. Steps(c, k)
      BY <2>1, <2>4, <2>5, <2>6, <2>7 DEF Steps, BeforeUser, BeforeCode, Open
    <2>9. HoldsSound(k) /\ OnCodes(c)
      BY <1>1, <2>4 DEF HoldsSound, Saving, OnCodes
    <2>10. ASSUME ~codesOverlapped PROVE HoldsCode(k)
      <3>1. CodesOrdered
        BY <2>10 DEF AccountsInv, CodesSound
      <3>2. tries[j] <= codes[j].attempts /\ tries[j] \in Nat
        BY <1>1, <2>1, <3>1 DEF CodesOrdered, Open
      <3>3. tries[j] < e.attempts
        BY <2>2, <3>2
      <3>4. \A i \in Calls \ {j} : Open(i) => codes[i].owner # e.owner
        BY <2>1, <2>2, <3>1 DEF CodesOrdered
      <3> QED
        BY <2>2, <2>4, <3>3, <3>4 DEF HoldsCode, SavingCode
    <2> QED
      BY <1>1, <2>4, <2>8, <2>9, <2>10, CallOnlyKept DEF OnlyCalls, history
  <1> QED
    BY <1>2, <1>3 DEF Guess

LEMMA CodeSaveSelectKept ==
  ASSUME AccountsInv, NEW c \in Calls, CodeSaveSelect(c)
  PROVE  AccountsInv'
  <1>1. /\ AccountsTyped /\ accountFaults \in 0..MaxAccountFaults /\ call[c].pc = "savingCode"
        /\ OnlyCalls /\ codesOverlapped \in BOOLEAN /\ call \in [Calls -> CallStates]
        /\ codes \in [Calls -> Codes \cup {NoCode}]
    BY DEF AccountsInv, AccountsTyped, AccountsTypeOK, CodeSaveSelect, At
  <1>2. PICK old \in CallStates : old = call[c] /\ HoldsUser(old)
    BY <1>1 DEF AccountsTyped
  <1>3. old.code \in Calls /\ old.codeEntity \in Codes
    BY <1>1, <1>2 DEF HoldsUser, SavingCode
  <1>4. PICK r \in Codes \cup {NoCode} : r = codes[old.code]
    BY <1>1, <1>3
  <1> DEFINE k == [old EXCEPT !.pc = "codeSelected", !.codeSeen = r]
  <1>5. /\ k \in CallStates /\ k.pc = "codeSelected" /\ k.code = old.code /\ k.codeSeen = r
        /\ k.base = old.base /\ k.entity = old.entity /\ k.seen = old.seen
        /\ k.codeEntity = old.codeEntity
    BY DEF CallStates
  <1>6. call' = [call EXCEPT ![c] = k]
    BY <1>1, <1>2, <1>4 DEF CodeSaveSelect
  <1> HIDE DEF k
  <1>7. HoldsUser(k)
    BY <1>1, <1>2, <1>3, <1>5 DEF HoldsUser, OnUser, Saving
  <1>8. \A id \in Calls : Names(k, id) => Names(call[c], id)
    BY <1>2, <1>5 DEF Names
  <1>9. Steps(c, k)
    BY <1>2, <1>5, <1>6, <1>7, <1>8 DEF Steps, BeforeUser, BeforeCode
  <1>10. HoldsSound(k) /\ OnCodes(c)
    BY <1>1, <1>5 DEF HoldsSound, Saving, OnCodes
  <1>11. ASSUME ~codesOverlapped PROVE HoldsCode(k)
    <2>1. HoldsCode(old)
      BY <1>2, <1>11 DEF AccountsInv, CodesSound, CodesOrdered
    <2> QED
      BY <1>1, <1>2, <1>4, <1>5, <2>1 DEF HoldsCode, SavingCode
  <1> QED
    BY <1>1, <1>5, <1>9, <1>10, <1>11, CallOnlyKept DEF OnlyCalls, history

\* MarkVerified and UpdateProfile: a copy of the user, to be saved.
LEMMA CopyTakenKept ==
  ASSUME AccountsInv, NEW c \in Calls, NEW e \in Users, OnlyCalls,
         user # NoUser, e.id = user.id, user.verified => e.verified,
         call' = [call EXCEPT ![c].pc = "saving", ![c].base = user, ![c].entity = e],
         ~staleSave => SoundUser(e)
  PROVE  AccountsInv'
  <1>1. PICK k \in CallStates : Steps(c, k) /\ k.pc = "saving" /\ k.entity = e
    BY SavesSteps DEF AccountsInv
  <1>2. /\ ~staleSave => HoldsSound(k)
        /\ k.pc \notin SavingCode \cup {"inserting"}
    BY <1>1 DEF HoldsSound, SavingCode
  <1>3. ~OnCodes(c)'
    BY <1>1, OnCodesNext
  <1> QED
    BY <1>1, <1>2, <1>3, QuietStepKept

LEMMA MarkVerifiedKept ==
  ASSUME AccountsInv, NEW c \in Calls, MarkVerified(c)
  PROVE  AccountsInv'
  <1>1. /\ accountFaults \in 0..MaxAccountFaults /\ call[c].pc = "marking" /\ OnlyCalls
        /\ user \in Users \cup {NoUser} /\ HoldsUser(call[c])
    BY DEF AccountsInv, AccountsTyped, AccountsTypeOK, MarkVerified, At
  <1>2. CASE Ends(c)
    BY <1>1, <1>2, EndsKept DEF OnlyCalls
  <1>3. CASE ~(user.id # call[c].base.id \/ user.verified)
    <2>1. user \in Users
      BY <1>1, <1>3, AccountsAssumption DEF HoldsUser, OnUser, Users, Ids, NoUser
    <2>2. PICK u \in Users : u = user
      BY <2>1
    <2>3. PICK e \in Users : /\ e = [u EXCEPT !.verified = TRUE] /\ e.id = u.id /\ e.verified
                             /\ e.native = u.native /\ e.target = u.target /\ e.goals = u.goals
                             /\ e.onboarded = u.onboarded
      <3>1. [u EXCEPT !.verified = TRUE] \in Users
        BY DEF Users
      <3>2. PICK e \in Users : e = [u EXCEPT !.verified = TRUE]
        BY <3>1
      <3> QED
        BY <3>2 DEF Users
    <2>4. call' = [call EXCEPT ![c].pc = "saving", ![c].base = user, ![c].entity = e]
      BY <1>3, <2>2, <2>3 DEF MarkVerified
    <2>5. ~staleSave => SoundUser(e)
      BY <2>2, <2>3 DEF AccountsInv, PersonSound, AccountSound, SoundUser, SameLanguage, Complete
    <2>6. user # NoUser
      BY <2>1, AccountsAssumption DEF Users, Ids, NoUser
    <2> QED
      BY <1>1, <2>2, <2>3, <2>4, <2>5, <2>6, CopyTakenKept
  <1> QED
    BY <1>2, <1>3 DEF MarkVerified

LEMMA UpdateProfileKept ==
  ASSUME AccountsInv, NEW c \in Calls, UpdateProfile(c)
  PROVE  AccountsInv'
  <1>1. /\ accountFaults \in 0..MaxAccountFaults /\ OnlyCalls /\ user \in Users \cup {NoUser}
    BY DEF AccountsInv, AccountsTyped, AccountsTypeOK, UpdateProfile
  <1>2. CASE Ends(c)
    BY <1>1, <1>2, EndsKept DEF OnlyCalls
  <1>3. ASSUME NEW dto \in Profiles, Exists, ProfileAllowed(Merged(dto)),
               call' = [call EXCEPT ![c].pc = "saving", ![c].base = user,
                          ![c].entity = [user EXCEPT !.native = Merged(dto).native,
                                           !.target = Merged(dto).target,
                                           !.goals = Merged(dto).goals,
                                           !.onboarded = @ \/ Complete(Merged(dto))]]
        PROVE  AccountsInv'
    <2>1. PICK u \in Users : u = user
      BY <1>1, <1>3 DEF Exists
    <2>2. PICK n \in Languages \cup {Null} :
            n = Merged(dto).native /\ n = IF dto.native = Null THEN u.native ELSE dto.native
      BY <2>1 DEF Merged, Profiles, Users
    <2>3. PICK t \in Languages \cup {Null} :
            t = Merged(dto).target /\ t = IF dto.target = Null THEN u.target ELSE dto.target
      BY <2>1 DEF Merged, Profiles, Users
    <2>4. PICK g \in BOOLEAN : g = Merged(dto).goals /\ (u.goals => g)
      BY <2>1 DEF Merged, Profiles, Users
    <2>5. PICK o \in BOOLEAN : o = (u.onboarded \/ Complete(Merged(dto)))
      OBVIOUS
    <2>6. PICK e \in Users : /\ e = [u EXCEPT !.native = n, !.target = t, !.goals = g, !.onboarded = o]
                             /\ e.id = u.id /\ e.verified = u.verified
                             /\ e.native = n /\ e.target = t /\ e.goals = g /\ e.onboarded = o
      <3>1. [u EXCEPT !.native = n, !.target = t, !.goals = g, !.onboarded = o] \in Users
        BY DEF Users
      <3>2. PICK e \in Users :
              e = [u EXCEPT !.native = n, !.target = t, !.goals = g, !.onboarded = o]
        BY <3>1
      <3> QED
        BY <3>2 DEF Users
    <2>7. call' = [call EXCEPT ![c].pc = "saving", ![c].base = user, ![c].entity = e]
      BY <1>3, <2>1, <2>2, <2>3, <2>4, <2>5, <2>6
    <2>8. ~staleSave => SoundUser(e)
      <3>1. ~SameLanguage(e)
        BY <1>3, <2>2, <2>3, <2>6 DEF ProfileAllowed, SameLanguage
      <3>2. ASSUME ~staleSave, e.onboarded PROVE Complete(e)
        <4>1. u.onboarded => Complete(u)
          BY <2>1, <3>2 DEF AccountsInv, PersonSound, AccountSound
        <4> QED
          BY <2>2, <2>3, <2>4, <2>5, <2>6, <3>2, <4>1 DEF Complete
      <3> QED
        BY <3>1, <3>2 DEF SoundUser
    <2> QED
      BY <1>1, <1>3, <2>1, <2>6, <2>7, <2>8, CopyTakenKept DEF Exists
  <1> QED
    BY <1>2, <1>3 DEF UpdateProfile

LEMMA UserSaveSelectKept ==
  ASSUME AccountsInv, NEW c \in Calls, UserSaveSelect(c)
  PROVE  AccountsInv'
  <1>1. /\ call \in [Calls -> CallStates] /\ call[c].pc = "saving" /\ OnlyCalls
        /\ user \in Users \cup {NoUser} /\ HoldsUser(call[c])
    BY DEF AccountsInv, AccountsTyped, AccountsTypeOK, UserSaveSelect, At
  <1>2. PICK old \in CallStates : old = call[c]
    BY <1>1
  <1>3. PICK s \in Users \cup {NoUser} : s = IF user.id = old.entity.id THEN user ELSE NoUser
    BY <1>1
  <1> DEFINE k == [old EXCEPT !.pc = "selected", !.seen = s]
  <1>4. /\ k \in CallStates /\ k.pc = "selected" /\ k.code = old.code /\ k.seen = s
        /\ k.base = old.base /\ k.entity = old.entity
    BY DEF CallStates
  <1>5. call' = [call EXCEPT ![c] = k]
    BY <1>1, <1>2, <1>3 DEF UserSaveSelect
  <1> HIDE DEF k
  <1>6. HoldsUser(k)
    BY <1>1, <1>2, <1>4 DEF HoldsUser, OnUser, Saving, SavingCode
  <1>7. \A id \in Calls : Names(k, id) => Names(call[c], id) \/ id = user.id
    BY <1>2, <1>3, <1>4, AccountsAssumption DEF Names, NoUser
  <1>8. Steps(c, k)
    BY <1>2, <1>4, <1>5, <1>6, <1>7 DEF Steps, BeforeUser, BeforeCode
  <1>9. k.pc \notin SavingCode \cup {"inserting"} /\ ~OnCodes(c)'
    BY <1>4, <1>8, OnCodesNext DEF SavingCode
  <1>10. ~staleSave => HoldsSound(k)
    BY <1>1, <1>2, <1>4 DEF AccountsInv, PersonSound, HoldsSound, Saving
  <1> QED
    BY <1>1, <1>4, <1>8, <1>9, <1>10, QuietStepKept

-----------------------------------------------------------------------------
(* Accounts: the steps that change the user *)

LEMMA UserStepKept ==
  ASSUME AccountsInv, NEW c \in Calls, NEW k \in CallStates, Steps(c, k),
         k.pc \in {"done", "identifying"},
         UNCHANGED <<codes, mailed, deleted, tries, codesOverlapped, accountFaults>>,
         user' \in Users \cup {NoUser}, identity' \in Ids \cup {"nobody"},
         user'.id \in {user.id, call[c].entity.id, c},
         confirmed' \in SUBSET Ids, confirmed' \subseteq confirmed \cup {user'.id},
         staleSave' \in BOOLEAN, staleSave => staleSave', AccountSound'
  PROVE  AccountsInv'
  <1>1. AccountsTyped /\ OthersTyped
    BY TypedParts DEF AccountsInv
  <1>2. OthersTyped'
    BY <1>1 DEF OthersTyped
  <1>3. call' \in [Calls -> CallStates] /\ \A d \in Calls : HoldsUser(call[d])'
    BY <1>1, CallsTyped
  <1>4. AccountsTyped'
    BY <1>2, <1>3 DEF AccountsTyped, AccountsTypeOK, OthersTyped
  <1>5. PersonSound'
    BY UserChangeKept
  <1>6. CodesWear
    BY DEF CodesWear, Open
  <1>7. HoldsCode(k)' /\ ~OnCodes(c)'
    <2>1. k.pc \notin SavingCode \cup {"codeSelected", "inserting"}
      BY DEF SavingCode
    <2>2. HoldsCode(k)'
      BY <2>1 DEF HoldsCode, SavingCode
    <2> QED
      BY <2>2, OnCodesNext
  <1>8. CodesSound'
    BY <1>6, <1>7, CodesWearKept
  <1> QED
    BY <1>4, <1>5, <1>8 DEF AccountsInv

LEMMA ConfirmedNext == Confirmed = IF user'.verified THEN confirmed \cup {user'.id} ELSE confirmed
  BY DEF Confirmed

LEMMA UserIds == (\A u \in Users : u.id \in Ids /\ u # NoUser) /\ NoUser.id = "nobody" /\ "nobody" \notin Ids
  BY AccountsAssumption DEF Users, Ids, NoUser

\* Whom the step leaves alone is as sound as before.
LEMMA SameUserSound ==
  ASSUME AccountsInv, UNCHANGED <<user, deleted>>, confirmed' \in {confirmed, Confirmed},
         staleSave => staleSave'
  PROVE  AccountSound' /\ confirmed' \in SUBSET Ids /\ confirmed' \subseteq confirmed \cup {user'.id}
  <1>1. confirmed' = confirmed \/ (user.verified /\ confirmed' = confirmed \cup {user.id})
    BY ConfirmedNext
  <1>2. confirmed \in SUBSET Ids /\ user \in Users \cup {NoUser} /\ (user.verified => user.id \in Ids)
    <2>1. user = NoUser => ~user.verified
      BY DEF NoUser
    <2> QED
      BY <2>1, UserIds DEF AccountsInv, AccountsTyped, AccountsTypeOK
  <1>3. ASSUME ~staleSave'
        PROVE  /\ user.id \notin deleted
               /\ user.verified \/ user.id \notin confirmed'
               /\ ~SameLanguage(user) /\ (user.onboarded => Complete(user))
    BY <1>1, <1>3 DEF AccountsInv, PersonSound, AccountSound
  <1>4. AccountSound'
    BY <1>3 DEF AccountSound, SameLanguage, Complete
  <1> QED
    BY <1>1, <1>2, <1>4

\* A user of a new id is sound.
LEMMA NewUserSound ==
  ASSUME AccountsInv, NEW c \in Calls, call[c].pc \in BeforeUser, UNCHANGED <<deleted, staleSave>>,
         NEW u \in Users, user' = u, u.id = c, ~u.onboarded, u.native = Null,
         confirmed' = confirmed \/ (u.verified /\ confirmed' = Confirmed)
  PROVE  /\ AccountSound' /\ confirmed' \in SUBSET Ids
         /\ confirmed' \subseteq confirmed \cup {user'.id}
  <1>1. confirmed' = confirmed \/ (u.verified /\ confirmed' = confirmed \cup {c})
    BY ConfirmedNext
  <1>2. confirmed \in SUBSET Ids /\ c \in Ids
    BY DEF AccountsInv, AccountsTyped, AccountsTypeOK, Ids
  <1>3. c \notin deleted /\ c \notin confirmed
    BY DEF AccountsInv, PersonSound, UserUnborn
  <1>4. ~SameLanguage(u)
    BY DEF SameLanguage
  <1>5. AccountSound'
    BY <1>1, <1>3, <1>4 DEF AccountSound, SameLanguage, Complete
  <1> QED
    BY <1>1, <1>2, <1>5

LEMMA InsertUserKept ==
  ASSUME AccountsInv, NEW c \in Calls, InsertUser(c)
  PROVE  AccountsInv'
  <1>1. /\ user \in Users \cup {NoUser} /\ identity \in Ids \cup {"nobody"} /\ staleSave \in BOOLEAN
        /\ call[c].pc = "registering"
        /\ UNCHANGED <<identity, codes, mailed, deleted, confirmed, tries, staleSave,
                       codesOverlapped, accountFaults>>
    BY DEF AccountsInv, AccountsTyped, AccountsTypeOK, InsertUser, At, history
  <1>2. PICK k \in CallStates : Steps(c, k) /\ k.pc = "done"
    BY EndsSteps DEF InsertUser
  <1>3. CASE UNCHANGED user
    <2>1. AccountSound' /\ confirmed' \in SUBSET Ids /\ confirmed' \subseteq confirmed \cup {user'.id}
      BY <1>1, <1>3, SameUserSound
    <2> QED
      BY <1>1, <1>2, <1>3, <2>1, UserStepKept
  <1>4. CASE user' = Registered(c)
    <2>1. PICK u \in Users : user' = u /\ u.id = c /\ ~u.onboarded /\ u.native = Null
      <3>1. c \in Ids
        BY DEF Ids
      <3> QED
        BY <1>4, <3>1, NewUsers
    <2>2. AccountSound' /\ confirmed' \in SUBSET Ids /\ confirmed' \subseteq confirmed \cup {user'.id}
      <3>1. call[c].pc \in BeforeUser
        BY <1>1 DEF BeforeUser
      <3> QED
        BY <1>1, <2>1, <3>1, NewUserSound
    <2> QED
      BY <1>1, <1>2, <2>1, <2>2, UserStepKept
  <1> QED
    BY <1>3, <1>4 DEF InsertUser

LEMMA CreateFromSocialKept ==
  ASSUME AccountsInv, NEW c \in Calls, CreateFromSocial(c)
  PROVE  AccountsInv'
  <1>1. /\ user \in Users \cup {NoUser} /\ identity \in Ids \cup {"nobody"} /\ staleSave \in BOOLEAN
        /\ call[c].pc = "creating" /\ call \in [Calls -> CallStates] /\ confirmed' = Confirmed
        /\ UNCHANGED <<identity, codes, mailed, deleted, tries, staleSave,
                       codesOverlapped, accountFaults>>
    BY DEF AccountsInv, AccountsTyped, AccountsTypeOK, CreateFromSocial, At
  <1>2. CASE Ends(c) /\ UNCHANGED user
    <2>1. PICK k \in CallStates : Steps(c, k) /\ k.pc = "done"
      BY <1>2, EndsSteps
    <2>2. AccountSound' /\ confirmed' \in SUBSET Ids /\ confirmed' \subseteq confirmed \cup {user'.id}
      BY <1>1, <1>2, SameUserSound
    <2> QED
      BY <1>1, <1>2, <2>1, <2>2, UserStepKept
  <1>3. CASE /\ user' = FromSocial(c)
             /\ call' = [call EXCEPT ![c].pc = "identifying", ![c].base = user']
    <2>1. PICK u \in Users : user' = u /\ u.id = c /\ ~u.onboarded /\ u.native = Null /\ u.verified
      <3>1. c \in Ids
        BY DEF Ids
      <3> QED
        BY <1>3, <3>1, NewUsers
    <2>2. PICK old \in CallStates : old = call[c]
      BY <1>1
    <2> DEFINE k == [old EXCEPT !.pc = "identifying", !.base = u]
    <2>3. /\ k \in CallStates /\ k.pc = "identifying" /\ k.code = old.code /\ k.base = u
          /\ k.entity = old.entity /\ k.seen = old.seen
      BY DEF CallStates
    <2>4. call' = [call EXCEPT ![c] = k]
      BY <1>1, <1>3, <2>1, <2>2
    <2> HIDE DEF k
    <2>5. HoldsUser(k)
      BY <2>3 DEF HoldsUser, OnUser, Saving, SavingCode
    <2>6. \A id \in Calls : Names(k, id) => Names(call[c], id) \/ id = user'.id
      BY <2>1, <2>2, <2>3 DEF Names
    <2>7. Steps(c, k)
      BY <2>2, <2>3, <2>4, <2>5, <2>6 DEF Steps, BeforeUser, BeforeCode
    <2>8. AccountSound' /\ confirmed' \in SUBSET Ids /\ confirmed' \subseteq confirmed \cup {user'.id}
      <3>1. call[c].pc \in BeforeUser
        BY <1>1 DEF BeforeUser
      <3> QED
        BY <1>1, <2>1, <3>1, NewUserSound
    <2> QED
      BY <1>1, <2>1, <2>3, <2>7, <2>8, UserStepKept
  <1> QED
    BY <1>2, <1>3 DEF CreateFromSocial, FromSocial

LEMMA LinkIdentityKept ==
  ASSUME AccountsInv, NEW c \in Calls, LinkIdentity(c)
  PROVE  AccountsInv'
  <1>1. /\ user \in Users \cup {NoUser} /\ identity \in Ids \cup {"nobody"} /\ staleSave \in BOOLEAN
        /\ UNCHANGED <<user, codes, mailed, deleted, confirmed, tries, staleSave,
                       codesOverlapped, accountFaults>>
    BY DEF AccountsInv, AccountsTyped, AccountsTypeOK, LinkIdentity, history
  <1>2. PICK k \in CallStates : Steps(c, k) /\ k.pc = "done"
    BY EndsSteps DEF LinkIdentity
  <1>3. identity' \in Ids \cup {"nobody"}
    BY <1>1, UserIds DEF LinkIdentity
  <1>4. AccountSound' /\ confirmed' \in SUBSET Ids /\ confirmed' \subseteq confirmed \cup {user'.id}
    BY <1>1, SameUserSound
  <1> QED
    BY <1>1, <1>2, <1>3, <1>4, UserStepKept

\* What save writes: every column is the row's or the entity's, and over the
\* row it was read from it is the entity.
LEMMA MergedUser ==
  ASSUME NEW old \in Users, NEW seen \in Users, NEW entity \in Users
  PROVE  /\ Merge(old, seen, entity) \in Users
         /\ Merge(old, seen, entity).id \in {old.id, entity.id}
         /\ old = seen => Merge(old, seen, entity) = entity
  <1> DEFINE m == Merge(old, seen, entity)
             Columns == {"id", "password", "verified", "onboarded", "native", "target", "goals"}
  <1>1. DOMAIN old = Columns
    BY DEF Users
  <1>2. m = [f \in Columns |-> IF entity[f] # seen[f] THEN entity[f] ELSE old[f]]
    BY <1>1 DEF Merge
  <1>3. \A f \in Columns : m[f] \in {entity[f], old[f]}
    BY <1>2
  <1>4. m = [id |-> m.id, password |-> m.password, verified |-> m.verified,
             onboarded |-> m.onboarded, native |-> m.native, target |-> m.target,
             goals |-> m.goals]
    BY <1>2
  <1> HIDE DEF m
  <1>5. m.id \in {old.id, entity.id} /\ m.id \in Ids
    BY <1>3 DEF Users
  <1>6. m.password \in BOOLEAN /\ m.verified \in BOOLEAN /\ m.onboarded \in BOOLEAN /\ m.goals \in BOOLEAN
    BY <1>3 DEF Users
  <1>7. m.native \in Languages \cup {Null} /\ m.target \in Languages \cup {Null}
    BY <1>3 DEF Users
  <1>8. m \in Users
    BY <1>4, <1>5, <1>6, <1>7 DEF Users
  <1>9. ASSUME old = seen PROVE m = entity
    <2>1. entity = [f \in Columns |-> entity[f]]
      BY DEF Users
    <2> QED
      BY <1>2, <1>9, <2>1
  <1> QED
    BY <1>5, <1>8, <1>9 DEF m

LEMMA UserSaveCommitKept ==
  ASSUME AccountsInv, NEW c \in Calls, UserSaveCommit(c)
  PROVE  AccountsInv'
  <1>1. /\ user \in Users \cup {NoUser} /\ identity \in Ids \cup {"nobody"} /\ staleSave \in BOOLEAN
        /\ call[c].pc = "selected" /\ HoldsUser(call[c]) /\ call[c] \in CallStates
        /\ confirmed' = Confirmed /\ Ends(c) /\ confirmed \in SUBSET Ids
        /\ UNCHANGED <<identity, codes, mailed, deleted, tries, codesOverlapped, accountFaults>>
    BY DEF AccountsInv, AccountsTyped, AccountsTypeOK, UserSaveCommit, At
  <1>2. PICK k \in CallStates : Steps(c, k) /\ k.pc = "done"
    BY <1>1, EndsSteps
  <1>3. PICK base \in Users, entity \in Users, seen \in Users \cup {NoUser} :
          /\ base = call[c].base /\ entity = call[c].entity /\ seen = call[c].seen
          /\ entity.id = base.id /\ (base.verified => entity.verified)
    BY <1>1 DEF HoldsUser, OnUser, Saving, CallStates
  <1>4. staleSave' = (staleSave \/ (user' # user /\ {user, seen} # {base}))
    BY <1>3 DEF UserSaveCommit
  <1>5. \/ user' = user
        \/ seen = NoUser /\ user' = entity
        \/ seen # NoUser /\ user.id = entity.id /\ user' = Merge(user, seen, entity)
    BY <1>3 DEF UserSaveCommit
  <1>6. /\ user' \in Users \cup {NoUser} /\ user'.id \in {user.id, entity.id}
        /\ user' # user => user' \in Users
        /\ user' # user /\ user = base /\ seen = base => user' = entity
    <2>1. CASE user' = user
      BY <1>1, <2>1
    <2>2. CASE seen = NoUser /\ user' = entity
      BY <2>2
    <2>3. CASE seen # NoUser /\ user.id = entity.id /\ user' = Merge(user, seen, entity)
      <3>1. user \in Users /\ seen \in Users
        BY <1>1, <2>3, UserIds
      <3>2. PICK u \in Users : u = user
        BY <3>1
      <3> QED
        BY <2>3, <3>1, <3>2, MergedUser
    <2> QED
      BY <1>5, <2>1, <2>2, <2>3
  <1>7. CASE user' = user
    <2>1. AccountSound' /\ confirmed' \in SUBSET Ids /\ confirmed' \subseteq confirmed \cup {user'.id}
      BY <1>1, <1>4, <1>7, SameUserSound
    <2> QED
      BY <1>1, <1>2, <1>3, <1>4, <1>6, <2>1, UserStepKept
  <1>8. CASE user' # user
    <2>1. PICK u \in Users : user' = u
      BY <1>6, <1>8
    <2>2. confirmed' \in SUBSET Ids /\ confirmed' \subseteq confirmed \cup {user'.id}
      BY <1>1, <2>1, ConfirmedNext, UserIds
    <2>3. ASSUME ~staleSave'
          PROVE  /\ u.id \notin deleted
                 /\ u.verified \/ u.id \notin confirmed'
                 /\ ~SameLanguage(u) /\ (u.onboarded => Complete(u))
      <3>1. ~staleSave /\ user = base /\ seen = base
        BY <1>1, <1>4, <1>8, <2>3
      <3>2. u = entity
        BY <1>6, <1>8, <2>1, <3>1
      <3>3. SoundUser(entity)
        BY <1>1, <1>3, <3>1 DEF AccountsInv, PersonSound, HoldsSound, Saving
      <3>4. u.id \notin deleted /\ (u.verified \/ u.id \notin confirmed)
        BY <1>3, <3>1, <3>2 DEF AccountsInv, PersonSound, AccountSound
      <3>5. u.verified \/ u.id \notin confirmed'
        BY <1>1, <2>1, <3>4, ConfirmedNext
      <3> QED
        BY <3>2, <3>3, <3>4, <3>5 DEF SoundUser
    <2>4. AccountSound'
      BY <1>1, <2>1, <2>3 DEF AccountSound, SameLanguage, Complete
    <2>5. staleSave' \in BOOLEAN /\ (staleSave => staleSave')
      BY <1>1, <1>4
    <2> QED
      BY <1>1, <1>2, <1>3, <1>6, <2>2, <2>4, <2>5, UserStepKept
  <1> QED
    BY <1>7, <1>8

LEMMA DeleteUserKept ==
  ASSUME AccountsInv, DeleteUser
  PROVE  AccountsInv'
  <1>1. /\ AccountsTyped /\ OthersTyped /\ user # NoUser /\ user' = NoUser /\ identity' = "nobody"
        /\ codes' = [k \in Calls |-> IF codes[k].owner = user.id THEN NoCode ELSE codes[k]]
        /\ deleted' = deleted \cup {user.id}
        /\ UNCHANGED <<mailed, call, confirmed, tries, staleSave, codesOverlapped, accountFaults>>
    BY TypedParts DEF AccountsInv, DeleteUser, Exists
  <1>2. OthersTyped'
    BY <1>1, UserIds DEF OthersTyped
  <1>3. call' \in [Calls -> CallStates] /\ \A c \in Calls : HoldsUser(call[c])'
    BY <1>1 DEF AccountsTyped, AccountsTypeOK
  <1>4. AccountsTyped'
    BY <1>2, <1>3 DEF AccountsTyped, AccountsTypeOK, OthersTyped
  <1>5. \A c \in Calls : UserUnborn(c)'
    BY <1>1, UserIds, AccountsAssumption DEF AccountsInv, PersonSound, UserUnborn
  <1>6. AccountSound'
    <2>1. ~SameLanguage(NoUser) /\ ~NoUser.onboarded
      BY DEF SameLanguage, NoUser
    <2>2. NoUser.id \notin deleted' /\ NoUser.id \notin confirmed'
      BY <1>2, UserIds DEF OthersTyped
    <2> QED
      BY <1>1, <2>1, <2>2 DEF AccountSound
  <1>7. ~staleSave' => \A c \in Calls : HoldsSound(call[c])'
    BY <1>1 DEF AccountsInv, PersonSound, HoldsSound
  <1>8. CodesWear
    BY <1>1 DEF CodesWear, Open
  <1>9. CodesSound'
    BY <1>1, <1>8, CodesWearKept
  <1> QED
    BY <1>4, <1>5, <1>6, <1>7, <1>9 DEF AccountsInv, PersonSound

-----------------------------------------------------------------------------
(* Accounts: the steps that change codes *)

LEMMA CodeIds == NoCode \notin Codes /\ ~NoCode.fresh /\ NoCode.owner \notin Ids
  BY AccountsAssumption DEF NoCode, Codes, Ids

\* A step that changes codes only, whatever it does to them.
LEMMA CodeStepKept ==
  ASSUME AccountsInv, UNCHANGED <<user, identity, deleted, confirmed, staleSave, codesOverlapped,
                                  accountFaults>>,
         codes' \in [Calls -> Codes \cup {NoCode}], tries' \in [Calls -> Nat],
         mailed' \in SUBSET Calls, CodesSound',
         \/ UNCHANGED call
         \/ \E c \in Calls, k \in CallStates : Steps(c, k) /\ k.pc \notin Saving
  PROVE  AccountsInv'
  <1>1. AccountsTyped /\ OthersTyped
    BY TypedParts DEF AccountsInv
  <1>2. OthersTyped'
    BY <1>1 DEF OthersTyped
  <1>3. CASE UNCHANGED call
    <2>1. call' \in [Calls -> CallStates] /\ \A c \in Calls : HoldsUser(call[c])'
      BY <1>1, <1>3 DEF AccountsTyped, AccountsTypeOK
    <2>2. AccountsTyped'
      BY <1>2, <2>1 DEF AccountsTyped, AccountsTypeOK, OthersTyped
    <2>3. PersonSound'
      BY <1>3 DEF AccountsInv, PersonSound, UserUnborn, AccountSound, HoldsSound
    <2> QED
      BY <2>2, <2>3 DEF AccountsInv
  <1>4. ASSUME NEW c \in Calls, NEW k \in CallStates, Steps(c, k), k.pc \notin Saving
        PROVE  AccountsInv'
    <2>1. call' \in [Calls -> CallStates] /\ \A d \in Calls : HoldsUser(call[d])'
      BY <1>1, <1>4, CallsTyped
    <2>2. AccountsTyped'
      BY <1>2, <2>1 DEF AccountsTyped, AccountsTypeOK, OthersTyped
    <2>3. PersonSound'
      <3>1. HoldsSound(k)
        BY <1>4 DEF HoldsSound
      <3> QED
        BY <1>4, <3>1, PersonKept
    <2> QED
      BY <2>2, <2>3 DEF AccountsInv
  <1> QED
    BY <1>3, <1>4

\* A request's own code, or the one it guesses at, is all that changes, and the
\* request is then done with codes or with that part.
LEMMA OwnCodeKept ==
  ASSUME AccountsInv, NEW c \in Calls, NEW k \in CallStates, Steps(c, k), OnCodes(c),
         k.pc \notin SavingCode, k.pc # "inserting", k.pc \notin BeforeCode,
         UNCHANGED codesOverlapped,
         \A d \in Calls : d # c /\ d # call[c].code => codes'[d] = codes[d] /\ tries'[d] = tries[d],
         ~codesOverlapped =>
           /\ \A j \in Calls : /\ tries'[j] <= MaxAttempts
                               /\ codes'[j] # NoCode => tries'[j] <= codes'[j].attempts
           /\ \A i, j \in Calls : Open(i)' /\ Open(j)' /\ codes'[i].owner = codes'[j].owner => i = j
  PROVE  CodesSound'
  <1>1. /\ call \in [Calls -> CallStates]
        /\ \A d \in Calls : call'[d] = IF d = c THEN k ELSE call[d]
    BY DEF AccountsInv, AccountsTyped, AccountsTypeOK, Steps
  <1>2. ASSUME NEW d \in Calls, call'[d].pc \in BeforeCode
        PROVE  /\ codes'[d] = NoCode /\ tries'[d] = 0
               /\ \A x \in Calls : call'[x].code # d
    <2>1. d # c /\ CodeUnborn(d) /\ call[d].pc \in BeforeCode
      BY <1>1, <1>2 DEF AccountsInv, CodesSound
    <2>2. codes[d] = NoCode /\ tries[d] = 0 /\ (\A x \in Calls : call[x].code # d)
      BY <2>1 DEF CodeUnborn
    <2>3. k.code # d
      BY <2>2 DEF Steps
    <2> QED
      BY <1>1, <2>1, <2>2, <2>3
  <1>3. \A d \in Calls : CodeUnborn(d)'
    BY <1>2 DEF CodeUnborn, BeforeCode
  <1>4. ASSUME ~codesOverlapped PROVE CodesOrdered'
    <2>1. \A d \in Calls \ {c} : ~OnCodes(d)
      BY <1>4 DEF AccountsInv, CodesSound, CodesOrdered
    <2>2. \A d, x \in Calls : OnCodes(d)' /\ OnCodes(x)' => d = x
      BY <1>1, <2>1 DEF OnCodes
    <2>3. ASSUME NEW d \in Calls
          PROVE  call'[d].pc \notin SavingCode /\ call'[d].pc \notin {"codeSelected", "inserting"}
      BY <1>1, <2>1 DEF OnCodes, SavingCode
    <2>4. \A d \in Calls : HoldsCode(call[d])'
      BY <2>3 DEF HoldsCode, SavingCode
    <2> QED
      BY <1>4, <2>2, <2>4 DEF CodesOrdered
  <1> QED
    BY <1>3, <1>4 DEF CodesSound

LEMMA RowUpdates ==
  ASSUME NEW r \in Codes, NEW new,
         \/ new = [r EXCEPT !.consumed = TRUE]
         \/ new = [r EXCEPT !.fresh = FALSE]
         \/ new = [r EXCEPT !.expired = TRUE]
  PROVE  /\ new \in Codes /\ new.owner = r.owner /\ new.attempts = r.attempts
         /\ r.consumed => new.consumed
         /\ new = [r EXCEPT !.consumed = TRUE] => new.consumed
  <1>1. \A q \in Codes : LET u == [q EXCEPT !.consumed = TRUE]
                         IN u \in Codes /\ u.owner = q.owner /\ u.attempts = q.attempts /\ u.consumed
    BY DEF Codes
  <1>2. \A q \in Codes : LET u == [q EXCEPT !.fresh = FALSE]
                         IN u \in Codes /\ u.owner = q.owner /\ u.attempts = q.attempts
                            /\ (q.consumed => u.consumed)
    BY DEF Codes
  <1>3. \A q \in Codes : LET u == [q EXCEPT !.expired = TRUE]
                         IN u \in Codes /\ u.owner = q.owner /\ u.attempts = q.attempts
                            /\ (q.consumed => u.consumed)
    BY DEF Codes
  <1> QED
    BY <1>1, <1>2, <1>3

LEMMA RetireCodesKept ==
  ASSUME AccountsInv, NEW c \in Calls, RetireCodes(c)
  PROVE  AccountsInv'
  <1>1. /\ AccountsTyped /\ call[c].pc = "retiring" /\ codes \in [Calls -> Codes \cup {NoCode}]
        /\ tries \in [Calls -> Nat] /\ mailed \in SUBSET Calls
        /\ codesOverlapped \in BOOLEAN
        /\ UNCHANGED <<user, identity, mailed, deleted, confirmed, tries, staleSave,
                       codesOverlapped, accountFaults>>
    BY DEF AccountsInv, AccountsTyped, AccountsTypeOK, RetireCodes, At, history
  <1>2. PICK k \in CallStates : Steps(c, k) /\ k.pc = "inserting" /\ k.base = call[c].base
    BY <1>1, GoesSteps DEF RetireCodes, OnUser, BeforeUser, BeforeCode
  <1>3. \A r \in Codes : /\ [r EXCEPT !.consumed = TRUE] \in Codes
                         /\ [r EXCEPT !.consumed = TRUE].owner = r.owner
                         /\ [r EXCEPT !.consumed = TRUE].attempts = r.attempts
                         /\ [r EXCEPT !.consumed = TRUE].consumed
    BY DEF Codes
  <1>4. ASSUME NEW j \in Calls
        PROVE  /\ codes'[j] \in Codes \cup {NoCode}
               /\ codes'[j] # NoCode =>
                    /\ codes[j] # NoCode /\ codes'[j].owner = codes[j].owner
                    /\ codes'[j].attempts = codes[j].attempts
                    /\ codes'[j].consumed \/ (codes'[j] = codes[j] /\ codes[j].owner # call[c].base.id)
    <2>1. CASE codes[j] = NoCode \/ codes[j].owner # call[c].base.id
      BY <1>1, <2>1 DEF RetireCodes
    <2>2. CASE codes[j] # NoCode /\ codes[j].owner = call[c].base.id
      <3>1. PICK r \in Codes : r = codes[j]
        BY <1>1, <2>2
      <3>2. codes'[j] = [r EXCEPT !.consumed = TRUE]
        BY <2>2, <3>1 DEF RetireCodes
      <3> QED
        BY <1>3, <2>2, <3>1, <3>2
    <2> QED
      BY <2>1, <2>2
  <1>5. codes' \in [Calls -> Codes \cup {NoCode}]
    BY <1>4 DEF RetireCodes
  <1>6. CodesWear
    BY <1>1, <1>4 DEF CodesWear, Open
  <1>7. HoldsCode(k)'
    BY <1>2, <1>4 DEF HoldsCode, SavingCode, Open
  <1>8. OnCodes(c) /\ (~codesOverlapped => \A d \in Calls \ {c} : ~OnCodes(d))
    <2>1. OnCodes(c)
      BY <1>1 DEF OnCodes
    <2> QED
      BY <2>1 DEF AccountsInv, CodesSound, CodesOrdered
  <1>9. CodesSound'
    BY <1>1, <1>2, <1>6, <1>7, <1>8, CodesWearKept
  <1>10. k.pc \notin Saving
    BY <1>2 DEF Saving
  <1> QED
    BY <1>1, <1>2, <1>5, <1>9, <1>10, CodeStepKept

LEMMA InsertCodeKept ==
  ASSUME AccountsInv, NEW c \in Calls, InsertCode(c)
  PROVE  AccountsInv'
  <1>1. /\ AccountsTyped /\ call[c].pc = "inserting" /\ codes \in [Calls -> Codes \cup {NoCode}]
        /\ tries \in [Calls -> Nat] /\ mailed \in SUBSET Calls /\ accountFaults \in 0..MaxAccountFaults
        /\ user \in Users \cup {NoUser} /\ call \in [Calls -> CallStates]
        /\ UNCHANGED <<user, identity, mailed, deleted, confirmed, tries, staleSave,
                       codesOverlapped, accountFaults>>
        /\ HoldsUser(call[c])
    BY DEF AccountsInv, AccountsTyped, AccountsTypeOK, InsertCode, At, history
  <1>2. CASE Ends(c) /\ UNCHANGED codes
    BY <1>1, <1>2, EndsKept DEF rows, history
  <1>3. CASE /\ user.id = call[c].base.id /\ Goes(c, "mailing")
             /\ codes' = [codes EXCEPT ![c] = [NoCode EXCEPT !.owner = user.id, !.fresh = TRUE,
                                                             !.born = Born]]
    <2>1. PICK k \in CallStates : Steps(c, k) /\ k.pc = "mailing"
      BY <1>1, <1>3, GoesSteps DEF OnUser, BeforeUser, BeforeCode
    <2>2. user.id \in Ids
      BY <1>1, <1>3, UserIds DEF HoldsUser, OnUser
    <2>3. Born \in Nat
      <3>1. Cardinality({j \in Calls : codes[j] # NoCode}) \in Nat
        BY AccountsAssumption, FS_Subset, FS_CardinalityType
      <3> QED
        BY <3>1 DEF Born
    <2>4. PICK r \in Codes : /\ r = [NoCode EXCEPT !.owner = user.id, !.fresh = TRUE, !.born = Born]
                             /\ r.owner = user.id /\ r.attempts = 0 /\ r # NoCode
      <3>1. [NoCode EXCEPT !.owner = user.id, !.fresh = TRUE, !.born = Born] \in Codes
        BY <2>2, <2>3 DEF NoCode, Codes
      <3>2. /\ [NoCode EXCEPT !.owner = user.id, !.fresh = TRUE, !.born = Born].owner = user.id
            /\ [NoCode EXCEPT !.owner = user.id, !.fresh = TRUE, !.born = Born].attempts = 0
        BY DEF NoCode
      <3> QED
        BY <3>1, <3>2, CodeIds
    <2>5. \A d \in Calls : codes'[d] = IF d = c THEN r ELSE codes[d]
      BY <1>1, <1>3, <2>4
    <2>6. codes' \in [Calls -> Codes \cup {NoCode}]
      BY <1>1, <1>3, <2>4
    <2>7. tries[c] = 0 /\ OnCodes(c)
      BY <1>1 DEF AccountsInv, CodesSound, CodeUnborn, BeforeCode, OnCodes
    <2>8. ASSUME ~codesOverlapped, NEW j \in Calls
          PROVE  /\ tries'[j] <= MaxAttempts
                 /\ codes'[j] # NoCode => tries'[j] <= codes'[j].attempts
      <3>1. CASE j = c
        <4>1. tries'[c] = 0 /\ codes'[c] = r /\ MaxAttempts \in Nat
          BY <1>1, <2>5, <2>7, AccountsAssumption
        <4> QED
          BY <2>4, <3>1, <4>1
      <3>2. CASE j # c
        BY <1>1, <2>5, <2>8, <3>2 DEF AccountsInv, CodesSound, CodesOrdered
      <3> QED
        BY <3>1, <3>2
    <2>9. ASSUME ~codesOverlapped, NEW i \in Calls, NEW j \in Calls,
                 Open(i)', Open(j)', codes'[i].owner = codes'[j].owner
          PROVE  i = j
      <3>1. \A d \in Calls \ {c} : Open(d)' => Open(d) /\ codes'[d] = codes[d]
        BY <2>5 DEF Open
      <3>2. \A d \in Calls : Open(d) => codes[d].owner # user.id
        BY <1>1, <1>3, <2>9 DEF AccountsInv, CodesSound, CodesOrdered, HoldsCode
      <3>3. (i = c \/ j = c) => i = j
        BY <2>4, <2>5, <2>9, <3>1, <3>2
      <3>4. i # c /\ j # c => i = j
        BY <2>9, <3>1 DEF AccountsInv, CodesSound, CodesOrdered
      <3> QED
        BY <3>3, <3>4
    <2>10. k.pc \notin SavingCode /\ k.pc \notin BeforeCode /\ k.pc \notin Saving
      BY <2>1 DEF SavingCode, BeforeCode, Saving
    <2>11. CodesSound'
      BY <1>1, <2>1, <2>5, <2>7, <2>8, <2>9, <2>10, OwnCodeKept
    <2> QED
      BY <1>1, <2>1, <2>6, <2>10, <2>11, CodeStepKept
  <1> QED
    BY <1>2, <1>3 DEF InsertCode

\* The steps after which the codes are worn: the clock, a mail, a retired code.
LEMMA WornStepKept ==
  ASSUME AccountsInv, CodesWear, codes' \in [Calls -> Codes \cup {NoCode}], mailed' \in SUBSET Calls,
         UNCHANGED <<user, identity, deleted, confirmed, staleSave, codesOverlapped, accountFaults>>,
         \/ UNCHANGED call
         \/ \E c \in Calls, k \in CallStates :
              /\ Steps(c, k) /\ OnCodes(c) /\ k.pc \notin SavingCode \cup Saving
              /\ k.pc # "inserting"
  PROVE  AccountsInv'
  <1>1. tries' \in [Calls -> Nat] /\ codesOverlapped \in BOOLEAN
    BY DEF CodesWear, AccountsInv, AccountsTyped, AccountsTypeOK
  <1>2. CASE UNCHANGED call
    BY <1>1, <1>2, CodesWearKept, CodeStepKept
  <1>3. ASSUME NEW c \in Calls, NEW k \in CallStates, Steps(c, k), OnCodes(c),
               k.pc \notin SavingCode \cup Saving, k.pc # "inserting"
        PROVE  AccountsInv'
    <2>1. HoldsCode(k)'
      BY <1>3 DEF HoldsCode, SavingCode
    <2>2. ~codesOverlapped => \A d \in Calls \ {c} : ~OnCodes(d)
      BY <1>3 DEF AccountsInv, CodesSound, CodesOrdered
    <2>3. CodesSound'
      BY <1>1, <1>3, <2>1, <2>2, CodesWearKept
    <2> QED
      BY <1>1, <1>3, <2>3, CodeStepKept
  <1> QED
    BY <1>2, <1>3

LEMMA MailCodeKept ==
  ASSUME AccountsInv, NEW c \in Calls, MailCode(c)
  PROVE  AccountsInv'
  <1>1. /\ AccountsTyped /\ call[c].pc = "mailing" /\ codes \in [Calls -> Codes \cup {NoCode}]
        /\ mailed' \in SUBSET Calls
        /\ UNCHANGED <<user, identity, codes, deleted, confirmed, tries, staleSave,
                       codesOverlapped, accountFaults>>
    BY DEF AccountsInv, AccountsTyped, AccountsTypeOK, MailCode, At, history
  <1>2. PICK k \in CallStates : Steps(c, k) /\ k.pc \in {"done", "unmailing"}
    BY <1>1, EndsSteps, GoesSteps DEF MailCode, OnUser, BeforeUser, BeforeCode
  <1>3. OnCodes(c) /\ k.pc \notin SavingCode \cup Saving
    BY <1>1, <1>2 DEF OnCodes, SavingCode, Saving
  <1>4. CodesWear
    BY <1>1 DEF CodesWear, Open
  <1> QED
    BY <1>1, <1>2, <1>3, <1>4, WornStepKept

\* A column of one row changes that is neither its owner nor its attempts, and
\* does not open it.
LEMMA RowWorn ==
  ASSUME AccountsTyped, NEW j \in Calls, NEW r \in Codes, codes[j] \in Codes, UNCHANGED tries,
         codes' = [codes EXCEPT ![j] = r],
         r.owner = codes[j].owner, r.attempts = codes[j].attempts, codes[j].consumed => r.consumed
  PROVE  CodesWear /\ codes' \in [Calls -> Codes \cup {NoCode}]
  BY CodeIds DEF AccountsTyped, AccountsTypeOK, CodesWear, Open

LEMMA RetireUnmailedKept ==
  ASSUME AccountsInv, NEW c \in Calls, RetireUnmailed(c)
  PROVE  AccountsInv'
  <1>1. /\ AccountsTyped /\ call[c].pc = "unmailing" /\ codes \in [Calls -> Codes \cup {NoCode}]
        /\ mailed' \in SUBSET Calls
        /\ UNCHANGED <<user, identity, mailed, deleted, confirmed, tries, staleSave,
                       codesOverlapped, accountFaults>>
    BY DEF AccountsInv, AccountsTyped, AccountsTypeOK, RetireUnmailed, At, history
  <1>2. PICK k \in CallStates : Steps(c, k) /\ k.pc = "done"
    BY EndsSteps DEF RetireUnmailed
  <1>3. OnCodes(c) /\ k.pc \notin SavingCode \cup Saving
    BY <1>1, <1>2 DEF OnCodes, SavingCode, Saving
  <1>4. CodesWear /\ codes' \in [Calls -> Codes \cup {NoCode}]
    <2>1. CASE codes[c] = NoCode
      BY <1>1, <2>1 DEF RetireUnmailed, CodesWear, Open
    <2>2. CASE codes[c] # NoCode
      <3>1. PICK old \in Codes : old = codes[c]
        BY <1>1, <2>2
      <3>2. PICK r \in Codes : /\ r = [old EXCEPT !.consumed = TRUE] /\ r.owner = old.owner
                               /\ r.attempts = old.attempts /\ r.consumed
        BY RowUpdates
      <3>3. codes' = [codes EXCEPT ![c] = r]
        BY <2>2, <3>1, <3>2 DEF RetireUnmailed
      <3> QED
        BY <1>1, <3>1, <3>2, <3>3, RowWorn
    <2> QED
      BY <2>1, <2>2
  <1> QED
    BY <1>1, <1>2, <1>3, <1>4, WornStepKept

LEMMA ClockKept ==
  ASSUME AccountsInv, NEW j \in Calls, CoolDown(j) \/ Expire(j)
  PROVE  AccountsInv'
  <1>1. /\ AccountsTyped /\ codes \in [Calls -> Codes \cup {NoCode}] /\ mailed' \in SUBSET Calls
        /\ codes[j] # NoCode
        /\ UNCHANGED <<user, identity, mailed, call, deleted, confirmed, tries, staleSave,
                       codesOverlapped, accountFaults>>
    BY CodeIds DEF AccountsInv, AccountsTyped, AccountsTypeOK, CoolDown, Expire, history
  <1>2. PICK old \in Codes : old = codes[j]
    BY <1>1
  <1>3. PICK r \in Codes : /\ codes' = [codes EXCEPT ![j] = r] /\ r.owner = old.owner
                           /\ r.attempts = old.attempts /\ (old.consumed => r.consumed)
    <2>1. CASE CoolDown(j)
      <3>1. PICK r \in Codes : /\ r = [old EXCEPT !.fresh = FALSE] /\ r.owner = old.owner
                               /\ r.attempts = old.attempts /\ (old.consumed => r.consumed)
        BY RowUpdates
      <3>2. codes' = [codes EXCEPT ![j] = r]
        BY <1>2, <2>1, <3>1 DEF CoolDown
      <3> QED
        BY <3>1, <3>2
    <2>2. CASE Expire(j)
      <3>1. PICK r \in Codes : /\ r = [old EXCEPT !.expired = TRUE] /\ r.owner = old.owner
                               /\ r.attempts = old.attempts /\ (old.consumed => r.consumed)
        BY RowUpdates
      <3>2. codes' = [codes EXCEPT ![j] = r]
        BY <1>2, <2>2, <3>1 DEF Expire
      <3> QED
        BY <3>1, <3>2
    <2> QED
      BY <2>1, <2>2
  <1>4. CodesWear /\ codes' \in [Calls -> Codes \cup {NoCode}]
    BY <1>1, <1>2, <1>3, RowWorn
  <1> QED
    BY <1>1, <1>4, WornStepKept

LEMMA MergedCode ==
  ASSUME NEW old \in Codes, NEW seen \in Codes, NEW entity \in Codes
  PROVE  /\ Merge(old, seen, entity) \in Codes
         /\ Merge(old, seen, entity).owner \in {old.owner, entity.owner}
         /\ Merge(old, seen, entity).attempts =
              IF entity.attempts # seen.attempts THEN entity.attempts ELSE old.attempts
  <1> DEFINE m == Merge(old, seen, entity)
             Columns == {"owner", "attempts", "consumed", "fresh", "expired", "born"}
  <1>1. DOMAIN old = Columns
    BY DEF Codes
  <1>2. m = [f \in Columns |-> IF entity[f] # seen[f] THEN entity[f] ELSE old[f]]
    BY <1>1 DEF Merge
  <1>3. /\ \A f \in Columns : m[f] \in {entity[f], old[f]}
        /\ m.attempts = IF entity.attempts # seen.attempts THEN entity.attempts ELSE old.attempts
    BY <1>2
  <1>4. m = [owner |-> m.owner, attempts |-> m.attempts, consumed |-> m.consumed,
             fresh |-> m.fresh, expired |-> m.expired, born |-> m.born]
    BY <1>2
  <1> HIDE DEF m
  <1>5. m.owner \in {old.owner, entity.owner} /\ m.owner \in Ids
    BY <1>3 DEF Codes
  <1>6. m.consumed \in BOOLEAN /\ m.fresh \in BOOLEAN /\ m.expired \in BOOLEAN
    BY <1>3 DEF Codes
  <1>7. m.attempts \in Nat /\ m.born \in Nat
    BY <1>3 DEF Codes
  <1>8. m \in Codes
    BY <1>4, <1>5, <1>6, <1>7 DEF Codes
  <1> QED
    BY <1>3, <1>5, <1>8 DEF m

LEMMA CodeSaveCommitKept ==
  ASSUME AccountsInv, NEW c \in Calls, CodeSaveCommit(c)
  PROVE  AccountsInv'
  <1>1. /\ AccountsTyped /\ call[c].pc = "codeSelected" /\ codes \in [Calls -> Codes \cup {NoCode}]
        /\ tries \in [Calls -> Nat] /\ mailed \in SUBSET Calls /\ call \in [Calls -> CallStates]
        /\ UNCHANGED <<user, identity, mailed, deleted, confirmed, staleSave,
                       codesOverlapped, accountFaults>>
        /\ HoldsUser(call[c])
    BY DEF AccountsInv, AccountsTyped, AccountsTypeOK, CodeSaveCommit, At
  <1>2. PICK q \in Calls, e \in Codes, s \in Codes \cup {NoCode} :
          q = call[c].code /\ e = call[c].codeEntity /\ s = call[c].codeSeen
    BY <1>1 DEF HoldsUser, SavingCode, CallStates
  <1> DEFINE refused == s = NoCode /\ (user.id # e.owner \/ codes[q] # NoCode)
  <1>3. PICK k \in CallStates : Steps(c, k) /\ k.pc \in {"done", "marking"}
    <2>1. CASE Ends(c)
      BY <2>1, EndsSteps
    <2>2. CASE call' = [call EXCEPT ![c] = [Idle EXCEPT !.pc = "marking", !.base = call[c].base]]
      <3>1. PICK base \in Users : base = call[c].base
        BY <1>1 DEF HoldsUser, OnUser
      <3> DEFINE mark == [Idle EXCEPT !.pc = "marking", !.base = base]
      <3>2. /\ mark \in CallStates /\ mark.pc = "marking" /\ mark.base = base /\ mark.code = "nobody"
            /\ mark.entity.id = "nobody" /\ mark.seen.id = "nobody"
        BY DEF Idle, CallStates, NoUser
      <3>3. call' = [call EXCEPT ![c] = mark]
        BY <2>2, <3>1
      <3> HIDE DEF mark
      <3>4. HoldsUser(mark) /\ mark.pc \notin BeforeUser /\ mark.pc \notin BeforeCode
        BY <3>2 DEF HoldsUser, Saving, SavingCode, BeforeUser, BeforeCode
      <3>5. \A id \in Calls : Names(mark, id) => Names(call[c], id)
        BY <3>1, <3>2, AccountsAssumption DEF Names
      <3>6. Steps(c, mark)
        BY <3>2, <3>3, <3>4, <3>5, AccountsAssumption DEF Steps
      <3> QED
        BY <3>2, <3>6
    <2> QED
      BY <2>1, <2>2 DEF CodeSaveCommit
  <1>4. /\ codes' = IF s = NoCode THEN IF refused THEN codes ELSE [codes EXCEPT ![q] = e]
                    ELSE IF codes[q] = NoCode THEN codes
                    ELSE [codes EXCEPT ![q] = Merge(codes[q], s, e)]
        /\ tries' = IF e.attempts <= MaxAttempts /\ ~refused
                    THEN [tries EXCEPT ![q] = tries[q] + 1] ELSE tries
    BY <1>1, <1>2 DEF CodeSaveCommit
  <1>5. PICK n \in Codes \cup {NoCode} :
          /\ codes' = [codes EXCEPT ![q] = n]
          /\ \/ n = codes[q] /\ (codes[q] = NoCode \/ refused)
             \/ s = NoCode /\ ~refused /\ n = e
             \/ s # NoCode /\ codes[q] # NoCode /\ n = Merge(codes[q], s, e) /\ n \in Codes
    <2>1. CASE codes' = codes
      <3>1. codes' = [codes EXCEPT ![q] = codes[q]]
        BY <1>1, <2>1
      <3> QED
        BY <1>1, <1>4, <2>1, <3>1
    <2>2. CASE codes' # codes
      <3>1. s # NoCode /\ codes[q] # NoCode => Merge(codes[q], s, e) \in Codes
        BY <1>1, MergedCode
      <3> QED
        BY <1>4, <2>2, <3>1
    <2> QED
      BY <2>1, <2>2
  <1> HIDE DEF refused
  <1>6. codes' \in [Calls -> Codes \cup {NoCode}] /\ tries' \in [Calls -> Nat]
    BY <1>1, <1>4, <1>5
  <1>7. \A d \in Calls : d # q => codes'[d] = codes[d] /\ tries'[d] = tries[d]
    BY <1>1, <1>4, <1>5
  <1>8. codes'[q] = n /\ tries[q] \in Nat /\ e.attempts \in Nat
        /\ tries'[q] = IF e.attempts <= MaxAttempts /\ ~refused THEN tries[q] + 1 ELSE tries[q]
    BY <1>1, <1>4, <1>5 DEF Codes
  <1>9. ASSUME ~codesOverlapped
        PROVE  /\ tries[q] < e.attempts
               /\ codes[q] # NoCode => e.attempts = codes[q].attempts + 1 /\ e.owner = codes[q].owner
               /\ \A j \in Calls \ {q} : Open(j) => codes[j].owner # e.owner
               /\ s # NoCode /\ codes[q] # NoCode => s.attempts = codes[q].attempts
               /\ CodesOrdered
    BY <1>1, <1>2, <1>9 DEF AccountsInv, CodesSound, CodesOrdered, HoldsCode, SavingCode
  <1>10. ASSUME ~codesOverlapped
         PROVE  (n = codes[q] /\ (n = NoCode \/ refused)) \/ (n.attempts = e.attempts /\ n.owner = e.owner)
    <2>1. CASE s # NoCode /\ codes[q] # NoCode /\ n = Merge(codes[q], s, e)
      <3>1. PICK old \in Codes : old = codes[q] /\ s \in Codes /\ old.attempts \in Nat
        BY <1>1, <2>1 DEF Codes
      <3> QED
        BY <1>9, <1>10, <2>1, <3>1, MergedCode
    <2> QED
      BY <1>5, <2>1
  <1>11. ASSUME ~codesOverlapped, NEW j \in Calls
         PROVE  /\ tries'[j] <= MaxAttempts
                /\ codes'[j] # NoCode => tries'[j] <= codes'[j].attempts
    <2>1. tries[j] <= MaxAttempts /\ (codes[j] # NoCode => tries[j] <= codes[j].attempts)
      BY <1>9, <1>11 DEF CodesOrdered
    <2>2. CASE j # q
      BY <1>7, <2>1, <2>2
    <2>3. CASE j = q
      <3>1. tries'[q] <= MaxAttempts
        BY <1>8, <1>9, <1>11, <2>1, <2>3, AccountsAssumption
      <3>2. CASE n = codes[q] /\ (n = NoCode \/ refused)
        BY <1>8, <2>1, <2>3, <3>1, <3>2
      <3>3. CASE n.attempts = e.attempts
        BY <1>8, <1>9, <1>11, <2>3, <3>1, <3>3
      <3> QED
        BY <1>10, <1>11, <3>2, <3>3
    <2> QED
      BY <2>2, <2>3
  <1>12. ASSUME ~codesOverlapped, NEW i \in Calls, NEW j \in Calls,
                Open(i)', Open(j)', codes'[i].owner = codes'[j].owner
         PROVE  i = j
    <2>1. \A d \in Calls : d # q => (Open(d)' => Open(d)) /\ codes'[d] = codes[d]
      BY <1>7 DEF Open
    <2>2. CASE n = codes[q]
      <3>1. Open(i) /\ Open(j) /\ codes[i].owner = codes[j].owner
        BY <1>8, <1>12, <2>1, <2>2 DEF Open
      <3> QED
        BY <1>9, <1>12, <3>1 DEF CodesOrdered
    <2>3. CASE n.owner = e.owner
      <3>1. (i = q \/ j = q) => i = j
        BY <1>8, <1>9, <1>12, <2>1, <2>3
      <3>2. i # q /\ j # q => i = j
        BY <1>9, <1>12, <2>1 DEF CodesOrdered
      <3> QED
        BY <3>1, <3>2
    <2> QED
      BY <1>10, <1>12, <2>2, <2>3
  <1>13. /\ OnCodes(c) /\ k.pc \notin SavingCode /\ k.pc \notin BeforeCode /\ k.pc \notin Saving
         /\ k.pc # "inserting"
    BY <1>1, <1>3 DEF OnCodes, SavingCode, BeforeCode, Saving
  <1>14. CodesSound'
    BY <1>1, <1>2, <1>3, <1>7, <1>11, <1>12, <1>13, OwnCodeKept
  <1> QED
    BY <1>1, <1>3, <1>6, <1>13, <1>14, CodeStepKept

-----------------------------------------------------------------------------
LEMMA AccountsStepInv == AccountsInv /\ [AccountsNext]_accountVars => AccountsInv'
  <1> SUFFICES ASSUME AccountsInv, [AccountsNext]_accountVars PROVE AccountsInv'
    OBVIOUS
  <1>1. CASE UNCHANGED accountVars
    BY <1>1 DEF accountVars, AccountsInv, AccountsTyped, AccountsTypeOK, HoldsUser, PersonSound,
                UserUnborn, AccountSound, HoldsSound, CodesSound, CodeUnborn, CodesOrdered,
                OnCodes, HoldsCode, Open
  <1>2. ASSUME NEW c \in Calls, Register(c) \/ Social(c) \/ InsertUser(c) PROVE AccountsInv'
    BY <1>2, SignInReadsKept, CreateFromSocialKept, LinkIdentityKept, InsertUserKept DEF Social
  <1>3. ASSUME NEW c \in Calls, RequestCode(c) PROVE AccountsInv'
    BY <1>3, JoinsCodesKept, CheckCooldownKept, RetireCodesKept, InsertCodeKept, MailCodeKept,
       RetireUnmailedKept DEF RequestCode
  <1>4. ASSUME NEW c \in Calls, VerifyCode(c) PROVE AccountsInv'
    BY <1>4, JoinsCodesKept, GuessKept, CodeSaveSelectKept, CodeSaveCommitKept, MarkVerifiedKept
       DEF VerifyCode
  <1>5. ASSUME NEW c \in Calls, UpdateProfile(c) \/ SaveUser(c) PROVE AccountsInv'
    BY <1>5, UpdateProfileKept, UserSaveSelectKept, UserSaveCommitKept DEF SaveUser
  <1>6. ASSUME NEW c \in Calls, CutOff(c) PROVE AccountsInv'
    <2>1. accountFaults' \in 0..MaxAccountFaults
      BY <1>6, AccountsAssumption DEF CutOff, AccountsInv, AccountsTyped, AccountsTypeOK
    <2> QED
      BY <1>6, <2>1, EndsKept DEF CutOff
  <1>7. ASSUME NEW c \in Calls, CoolDown(c) \/ Expire(c) PROVE AccountsInv'
    BY <1>7, ClockKept
  <1> QED
    BY <1>1, <1>2, <1>3, <1>4, <1>5, <1>6, <1>7, DeleteUserKept DEF AccountsNext

LEMMA AccountsInvSafe == AccountsInv => AccountSound /\ GuessesLimited /\ OneActiveCode
  <1> SUFFICES ASSUME AccountsInv PROVE AccountSound /\ GuessesLimited /\ OneActiveCode
    OBVIOUS
  <1>1. AccountSound /\ GuessesLimited
    BY DEF AccountsInv, PersonSound, CodesSound, CodesOrdered, GuessesLimited
  <1>2. ASSUME ~codesOverlapped PROVE Cardinality({k \in Calls : Active(k)}) <= 1
    <2> DEFINE Actives == {k \in Calls : Active(k)}
    <2>1. \A j, k \in Actives : j = k
      BY <1>2 DEF AccountsInv, CodesSound, CodesOrdered, Active, Open
    <2>2. CASE Actives = {}
      BY <2>2, FS_EmptySet
    <2>3. ASSUME NEW k \in Actives PROVE Cardinality(Actives) = 1
      <3>1. Actives = {k}
        BY <2>1
      <3> HIDE DEF Actives
      <3> QED
        BY <3>1, FS_Singleton
    <2>4. Cardinality(Actives) \in {0, 1}
      BY <2>2, <2>3, FS_EmptySet
    <2> QED
      BY <2>4
  <1> QED
    BY <1>1, <1>2 DEF OneActiveCode

\* users.service.ts: an account that no stale copy was saved over stays sound, and
\* stays deleted (AccountSound).
THEOREM AccountStaysSound == AccountsSpec => []AccountSound
  BY AccountsInitInv, AccountsStepInv, AccountsInvSafe, PTL DEF AccountsSpec

\* email-verification.service.ts: without overlapping requests no more guesses
\* are answered than allowed, and one code is active.
THEOREM CodesGuarded == AccountsSpec => [](GuessesLimited /\ OneActiveCode)
  BY AccountsInitInv, AccountsStepInv, AccountsInvSafe, PTL DEF AccountsSpec

\* The state of the accounts is well formed.
THEOREM AccountsTypeCorrect == AccountsSpec => []AccountsTypeOK
  <1>1. AccountsInv => AccountsTypeOK
    BY DEF AccountsInv, AccountsTyped
  <1> QED
    BY <1>1, AccountsInitInv, AccountsStepInv, PTL DEF AccountsSpec
-----------------------------------------------------------------------------
(* The inductive invariant *)

Distinct(m) == \A v, w \in Words : m[v] # NotIn /\ m[v] = m[w] => v = w
DoneCalls == {c \in DeckCalls : Ready(c, "done")}
\* A bound on the positions when n requests are done.
Room(n) == Cardinality(Words) * (1 + n)
Appends(k) == k.pc \in {"numbering", "selecting", "appending"}
Updates(k) == k.pc \in {"saving", "selected"}

\* What an append has read of its deck still holds, unless it was overlapped.
AppendAlone(k) ==
  LET m == members[k.deck] IN
  Appends(k) /\ k.deck \notin appendsOverlapped =>
    /\ k.found = {} /\ k.ids \cap MembersOf(m) = {}
    /\ k.pc # "numbering" => \A w \in Words : m[w] < k.start

\* A request between two steps works on a deck that has existed; an update
\* changes the visibility of the row it has loaded.
CallSound(k) ==
  /\ k.pc \notin {"idle", "done"} => k.deck \in DeckIds
  /\ Appends(k) => k.ids # {} /\ k.found \subseteq k.ids /\ k.start <= Room(Cardinality(DoneCalls))
  /\ AppendAlone(k)
  /\ Updates(k) => k.base.exists /\ k.entity = [k.base EXCEPT !.visibility = k.entity.visibility]

CallsSound == \A c \in DeckCalls : CallSound(deckCall[c])

\* The deck of a request that has created none is not there, and nobody has it.
Unborn == \A c \in DeckCalls : deckCall[c].pc \in {"idle", "cloning"} =>
  /\ ~decks[c].exists /\ members[c] = NoMembers /\ vanished[c] = 0
  /\ \A q \in DeckCalls : deckCall[q].deck # c

\* Each append moves the last position on by the number of words at most.
PositionsBounded ==
  \A d \in DeckIds, w \in Words : members[d][w] < Room(Cardinality(DoneCalls))

AllDistinct == \A d \in DeckIds \ appendsOverlapped : Distinct(members[d])

DecksInv == DecksTypeOK /\ CallsSound /\ Unborn /\ PositionsBounded /\ AllDistinct
            /\ CountTracksMembers

-----------------------------------------------------------------------------
(* Sets of integers, members, positions *)

LEMMA LeastNat ==
  ASSUME NEW T \in SUBSET Nat, T # {}
  PROVE  \E x \in T : \A y \in T : x <= y
  <1> DEFINE R == OpToRel(<, Nat)
  <1>1. IsWellFoundedOn(R, Nat)
    BY NatLessThanWellFounded
  <1>2. \A x, y \in Nat : y < x => <<y, x>> \in R
    BY DEF OpToRel
  <1> HIDE DEF R
  <1>3. PICK x \in T : \A y \in T : ~(<<y, x>> \in R)
    BY <1>1, WFMin
  <1>4. \A y \in T : ~(y < x)
    BY <1>2, <1>3
  <1> QED
    BY <1>4

LEMMA MaxExists ==
  ASSUME NEW T \in SUBSET Int, T # {}, NEW bound \in Int, \A y \in T : y <= bound
  PROVE  \E x \in T : \A y \in T : y <= x
  <1> DEFINE D == {bound - y : y \in T}
  <1>1. \A y \in T : bound - y \in Nat
    OBVIOUS
  <1>2. PICK e \in D : \A f \in D : e <= f
    <2>1. D \in SUBSET Nat /\ D # {}
      BY <1>1
    <2> HIDE DEF D
    <2> QED
      BY <2>1, LeastNat
  <1>3. PICK x \in T : e = bound - x
    BY <1>2
  <1>4. \A y \in T : bound - x <= bound - y
    BY <1>2, <1>3
  <1> QED
    BY <1>4

\* A deck's last position is one of its positions, and no other is beyond it.
LEMMA MaxPositionLast ==
  ASSUME NEW m \in [Words -> Nat \cup {NotIn}], NEW bound \in Int, Words # {},
         \A w \in Words : m[w] <= bound
  PROVE  MaxPosition(m) \in Range(m) /\ \A w \in Words : m[w] <= MaxPosition(m)
  <1>1. Range(m) \in SUBSET Int /\ Range(m) # {} /\ \A p \in Range(m) : p <= bound
    BY DEF Range, NotIn
  <1>2. \E p \in Range(m) : \A q \in Range(m) : q <= p
    BY <1>1, MaxExists
  <1>3. \E p \in Range(m) : \A w \in Words : m[w] <= p
    BY <1>2 DEF Range
  <1> QED
    BY <1>3 DEF MaxPosition

LEMMA RoomGrows ==
  ASSUME NEW n \in Nat
  PROVE  Room(n) \in Nat /\ Room(n + 1) = Room(n) + Cardinality(Words)
  <1>1. Cardinality(Words) \in Nat
    BY DecksAssumption, FS_CardinalityType
  <1> QED
    BY <1>1 DEF Room

LEMMA RoomMonotone ==
  ASSUME NEW n \in Nat, NEW k \in Nat, n <= k
  PROVE  Room(n) <= Room(k)
  <1>1. Cardinality(Words) \in Nat
    BY DecksAssumption, FS_CardinalityType
  <1>2. PICK e \in Nat : k = n + e
    <2>1. k - n \in Nat /\ k = n + (k - n)
      OBVIOUS
    <2> QED
      BY <2>1
  <1>3. Room(k) = Room(n) + Cardinality(Words) * e
    BY <1>1, <1>2 DEF Room
  <1>4. Cardinality(Words) * e \in Nat /\ Room(n) \in Nat
    BY <1>1, <1>2, RoomGrows
  <1> QED
    BY <1>3, <1>4

LEMMA RowTypes ==
  ASSUME NEW r \in DeckRows, NEW n \in Int
  PROVE  /\ [r EXCEPT !.exists = TRUE, !.count = n] \in DeckRows
         /\ [r EXCEPT !.count = n] \in DeckRows
         /\ \A v \in {"private", "public"} : [r EXCEPT !.visibility = v] \in DeckRows
  BY DEF DeckRows

\* What save leaves of a row: each column is the entity's or the row's.
RowSaved(entity, seen, old) ==
  [f \in DOMAIN old |-> IF entity[f] # seen[f] THEN entity[f] ELSE old[f]]

LEMMA SavedColumns ==
  ASSUME NEW entity \in DeckRows, NEW seen \in DeckRows, NEW old \in DeckRows
  PROVE  LET new == RowSaved(entity, seen, old) IN
         new \in DeckRows /\ new.count \in {entity.count, old.count}
  <1> DEFINE new == RowSaved(entity, seen, old)
             Columns == {"exists", "visibility", "count"}
  <1>1. DOMAIN old = Columns
    BY DEF DeckRows
  <1>2. new = [f \in Columns |-> IF entity[f] # seen[f] THEN entity[f] ELSE old[f]]
    BY <1>1 DEF RowSaved
  <1>3. new = [exists |-> new.exists, visibility |-> new.visibility, count |-> new.count]
    BY <1>2
  <1>4. /\ new.exists = IF entity.exists # seen.exists THEN entity.exists ELSE old.exists
        /\ new.visibility = IF entity.visibility # seen.visibility
                            THEN entity.visibility ELSE old.visibility
        /\ new.count = IF entity.count # seen.count THEN entity.count ELSE old.count
    BY <1>2
  <1>5. new \in DeckRows
    BY <1>3, <1>4 DEF DeckRows
  <1> QED
    BY <1>4, <1>5

LEMMA IdleTyped ==
  DeckIdle \in DeckCallStates /\ DeckIdle.deck = "none" /\ DeckIdle.found = {} /\ DeckIdle.start = 0
  BY DEF DeckIdle, DeckCallStates, NoDeck, DeckRows

\* A request that has not ended changes, and may end.
LEMMA DoneGrow ==
  ASSUME deckCall \in [DeckCalls -> DeckCallStates], NEW c \in DeckCalls, ~Ready(c, "done"),
         NEW k, deckCall' = [deckCall EXCEPT ![c] = k]
  PROVE  /\ Cardinality(DoneCalls) \in Nat
         /\ Cardinality(DoneCalls) <= Cardinality(DeckCalls)
         /\ Cardinality(DoneCalls)' \in Nat
         /\ Cardinality(DoneCalls)' <= Cardinality(DeckCalls)
         /\ Cardinality(DeckCalls) \in Nat
         /\ Cardinality(DoneCalls)' = IF k.pc = "done" THEN Cardinality(DoneCalls) + 1
                                      ELSE Cardinality(DoneCalls)
  <1>1. DoneCalls \in SUBSET DeckCalls /\ DoneCalls' \in SUBSET DeckCalls
    BY DEF DoneCalls
  <1>2. IsFiniteSet(DeckCalls) /\ IsFiniteSet(DoneCalls) /\ IsFiniteSet(DoneCalls')
    BY <1>1, DecksAssumption, FS_Subset
  <1>3. c \notin DoneCalls
    BY DEF DoneCalls
  <1>4. DoneCalls' = IF k.pc = "done" THEN DoneCalls \cup {c} ELSE DoneCalls
    BY <1>3 DEF DoneCalls, Ready
  <1>5. Cardinality(DoneCalls \cup {c}) = Cardinality(DoneCalls) + 1
    BY <1>2, <1>3, FS_AddElement
  <1>6. Cardinality(DoneCalls) <= Cardinality(DeckCalls) /\ Cardinality(DoneCalls') <= Cardinality(DeckCalls)
    BY <1>1, <1>2, FS_Subset
  <1>7. /\ Cardinality(DoneCalls) \in Nat /\ Cardinality(DoneCalls') \in Nat
        /\ Cardinality(DeckCalls) \in Nat
    BY <1>2, FS_CardinalityType
  <1> QED
    BY <1>4, <1>5, <1>6, <1>7

\* Those of put take the positions that ord gives them, from start on.
PutIn(m, put, ord, start) == Placed(m, [w \in put |-> ord[w]], start)

\* Words that are put into a deck whose positions all lie before.
LEMMA PlacedAfter ==
  ASSUME NEW m \in [Words -> Nat \cup {NotIn}], NEW ids \in SUBSET Words, NEW start \in Nat,
         NEW put \in SUBSET ids, NEW ord \in Orders(ids)
  PROVE  LET new == PutIn(m, put, ord, start) IN
         /\ new \in [Words -> Nat \cup {NotIn}]
         /\ MembersOf(new) = MembersOf(m) \cup put
         /\ \A w \in Words : new[w] = m[w] \/ new[w] < start + Cardinality(Words)
         /\ Distinct(m) /\ (\A w \in Words : m[w] < start) => Distinct(new)
  <1> DEFINE new == PutIn(m, put, ord, start)
  <1>1. Cardinality(Words) \in Nat /\ Cardinality(ids) \in Nat /\ Cardinality(ids) <= Cardinality(Words)
    BY DecksAssumption, FS_CardinalityType, FS_Subset
  <1>2. /\ ord \in [ids -> 0..(Cardinality(ids) - 1)]
        /\ \A v, w \in ids : ord[v] = ord[w] => v = w
    BY DEF Orders, Bijection, Injection, IsInjective
  <1>3. \A w \in Words : new[w] = IF w \in put THEN start + ord[w] ELSE m[w]
    BY DEF PutIn, Placed
  <1>4. \A w \in put : ord[w] \in Nat /\ ord[w] < Cardinality(Words)
    BY <1>1, <1>2
  <1>5. new \in [Words -> Nat \cup {NotIn}]
    <2>1. \A w \in Words : new[w] \in Nat \cup {NotIn}
      BY <1>3, <1>4
    <2> QED
      BY <2>1 DEF PutIn, Placed
  <1>6. MembersOf(new) = MembersOf(m) \cup put
    BY <1>3, <1>4 DEF MembersOf, NotIn
  <1>7. \A w \in Words : new[w] = m[w] \/ new[w] < start + Cardinality(Words)
    BY <1>1, <1>3, <1>4
  <1>8. ASSUME Distinct(m), \A w \in Words : m[w] < start PROVE Distinct(new)
    <2> SUFFICES ASSUME NEW v \in Words, NEW w \in Words, new[v] # NotIn, new[v] = new[w]
                 PROVE  v = w
      BY DEF Distinct
    <2>1. CASE v \in put /\ w \in put
      <3>1. ord[v] = ord[w]
        BY <1>3, <1>4, <2>1
      <3> QED
        BY <1>2, <2>1, <3>1
    <2>2. CASE v \notin put /\ w \notin put
      BY <1>3, <1>8, <2>2 DEF Distinct
    <2>3. CASE (v \in put) # (w \in put)
      BY <1>3, <1>4, <1>8, <2>3 DEF NotIn
    <2> QED
      BY <2>1, <2>2, <2>3
  <1> QED
    BY <1>5, <1>6, <1>7, <1>8

-----------------------------------------------------------------------------
(* The invariant holds at the start, and every kind of step keeps it *)

LEMMA DecksInitInv == DecksInit => DecksInv
  <1> SUFFICES ASSUME DecksInit PROVE DecksInv
    OBVIOUS
  <1> USE DecksAssumption
  <1>1. PICK s \in {{}} \cup {{w} : w \in Words} :
          /\ decks = [d \in DeckIds |-> IF d = "shelf"
                       THEN [NoDeck EXCEPT !.exists = TRUE, !.count = Cardinality(s)]
                       ELSE NoDeck]
          /\ members = [d \in DeckIds |-> [w \in Words |->
                         IF d = "shelf" /\ w \in s THEN 0 ELSE NotIn]]
    BY DEF DecksInit
  <1>2. s \in SUBSET Words /\ IsFiniteSet(s) /\ Cardinality(s) \in Nat /\ Cardinality(Words) \in Nat
        /\ Cardinality(DeckCalls) \in Nat
    BY <1>1, FS_Subset, FS_CardinalityType
  <1>3. \A w \in Words : Cardinality(Words) > 0
    BY <1>2, FS_EmptySet
  <1>4. DoneCalls = {} /\ Cardinality(DoneCalls) = 0
    BY FS_EmptySet DEF DoneCalls, Ready, DecksInit, DeckIdle
  <1>5. Room(Cardinality(DoneCalls)) = Cardinality(Words)
    BY <1>2, <1>4 DEF Room
  <1>6. DecksTypeOK
    <2>1. decks \in [DeckIds -> DeckRows]
      <3>1. NoDeck \in DeckRows
        BY DEF NoDeck, DeckRows
      <3>2. [NoDeck EXCEPT !.exists = TRUE, !.count = Cardinality(s)] \in DeckRows
        <4>1. Cardinality(s) \in Int
          BY <1>2
        <4> HIDE DecksAssumption
        <4> QED
          BY <3>1, <4>1, RowTypes
      <3> QED
        BY <1>1, <3>1, <3>2
    <2>2. members \in [DeckIds -> Memberships]
      <3>1. 0 \in Positions
        <4>1. Cardinality(Words) * (1 + Cardinality(DeckCalls)) \in Nat
          BY <1>2
        <4> QED
          BY <4>1 DEF Positions
      <3> QED
        BY <1>1, <3>1 DEF Memberships
    <2>3. deckCall \in [DeckCalls -> DeckCallStates]
      BY DEF DecksInit, DeckIdle, DeckCallStates, NoDeck, DeckRows
    <2> QED
      BY <2>1, <2>2, <2>3 DEF DecksInit, DecksTypeOK
  <1>7. CallsSound
    BY DEF DecksInit, DeckIdle, CallsSound, CallSound, Appends, Updates, AppendAlone
  <1>8. Unborn
    BY <1>1 DEF DecksInit, DeckIdle, Unborn, NoDeck, NoMembers, DeckIds
  <1>9. PositionsBounded
    BY <1>1, <1>2, <1>3, <1>5 DEF PositionsBounded, NotIn
  <1>10. AllDistinct
    BY <1>1 DEF AllDistinct, Distinct
  <1>11. CountTracksMembers
    <2> SUFFICES ASSUME NEW d \in DeckIds, decks[d].exists
                 PROVE  decks[d].count = Cardinality(MembersOf(members[d])) + vanished[d]
      BY DEF CountTracksMembers
    <2>1. d = "shelf" /\ decks[d].count = Cardinality(s)
      BY <1>1 DEF NoDeck
    <2>2. MembersOf(members[d]) = s
      BY <1>1, <1>2, <2>1 DEF MembersOf, NotIn
    <2> QED
      BY <1>2, <2>1, <2>2 DEF DecksInit
  <1> QED
    BY <1>6, <1>7, <1>8, <1>9, <1>10, <1>11 DEF DecksInv

\* A request reads, or ends without a change.
LEMMA ReadKept ==
  ASSUME DecksInv, NEW c \in DeckCalls, ~Ready(c, "done"), OnlyDeckCalls,
         NEW k \in DeckCallStates, deckCall' = [deckCall EXCEPT ![c] = k],
         CallSound(k), k.pc # "idle", k.pc = "cloning" => Ready(c, "idle"),
         k.deck \in {"none", deckCall[c].deck} \/ decks[k.deck].exists
  PROVE  DecksInv'
  <1> USE DecksAssumption
  <1>1. /\ deckCall \in [DeckCalls -> DeckCallStates]
        /\ UNCHANGED <<decks, members, words, vanished, staleDeckSave, appendsOverlapped>>
    BY DEF DecksInv, DecksTypeOK, OnlyDeckCalls, deckHistory
  <1>2. /\ Cardinality(DoneCalls) \in Nat /\ Cardinality(DoneCalls)' \in Nat
        /\ Cardinality(DoneCalls) <= Cardinality(DoneCalls)'
    <2>1. /\ Cardinality(DoneCalls) \in Nat
          /\ Cardinality(DoneCalls)' \in Nat
          /\ Cardinality(DoneCalls)' = IF k.pc = "done" THEN Cardinality(DoneCalls) + 1
                                       ELSE Cardinality(DoneCalls)
      BY <1>1, DoneGrow
    <2> QED
      BY <2>1
  <1>3. Room(Cardinality(DoneCalls)) <= Room(Cardinality(DoneCalls)')
        /\ Room(Cardinality(DoneCalls)) \in Int /\ Room(Cardinality(DoneCalls)') \in Int
    BY <1>2, RoomMonotone, RoomGrows
  <1>4. Room(Cardinality(DoneCalls))' = Room(Cardinality(DoneCalls)')
    BY DEF Room
  <1>5. DecksTypeOK'
    BY <1>1 DEF DecksInv, DecksTypeOK
  <1>6. CallsSound'
    <2> SUFFICES ASSUME NEW q \in DeckCallStates, CallSound(q)
                 PROVE  CallSound(q)'
      <3>1. \A q \in DeckCalls : deckCall'[q] \in DeckCallStates /\ CallSound(deckCall'[q])
        BY <1>1 DEF DecksInv, CallsSound
      <3> QED
        BY <3>1 DEF CallsSound
    <2>1. q.start \in Int
      BY DEF DeckCallStates
    <2> QED
      BY <1>1, <1>3, <1>4, <2>1 DEF CallSound, AppendAlone, Appends, Updates
  <1>7. Unborn'
    BY <1>1 DEF DecksInv, Unborn, Ready, DeckIds
  <1>8. PositionsBounded'
    <2>1. \A d \in DeckIds, w \in Words : members[d][w] \in Int
      BY DEF DecksInv, DecksTypeOK, Memberships, Positions, NotIn
    <2> QED
      BY <1>1, <1>3, <1>4, <2>1 DEF DecksInv, PositionsBounded
  <1>9. AllDistinct' /\ CountTracksMembers'
    BY <1>1 DEF DecksInv, AllDistinct, Distinct, CountTracksMembers
  <1> QED
    BY <1>5, <1>6, <1>7, <1>8, <1>9 DEF DecksInv

\* Request c ends, and its own deck or the one it works on becomes d with row r,
\* members m, and n of them vanished; the others stay.
Commits(c, d, r, m, n) ==
  /\ ~Ready(c, "done") /\ Finish(c) /\ d \in {c, deckCall[c].deck}
  /\ decks' = [decks EXCEPT ![d] = r] /\ members' = [members EXCEPT ![d] = m]
  /\ vanished' = [vanished EXCEPT ![d] = n] /\ UNCHANGED words
  /\ staleDeckSave' \in BOOLEAN /\ (staleDeckSave => staleDeckSave')
  /\ appendsOverlapped' \in SUBSET DeckIds /\ appendsOverlapped \subseteq appendsOverlapped'
  /\ m = members[d] \/ InAppend(d) \ {c} = {} \/ d \in appendsOverlapped'

LEMMA CommitKept ==
  ASSUME DecksInv, NEW c \in DeckCalls, NEW d \in DeckIds, NEW r \in DeckRows,
         NEW m \in [Words -> Nat \cup {NotIn}], NEW n \in Nat, Commits(c, d, r, m, n),
         \A w \in Words : m[w] < Room(Cardinality(DoneCalls) + 1),
         d \notin appendsOverlapped' => Distinct(m),
         r.exists /\ ~staleDeckSave' /\ d \notin appendsOverlapped'
           => r.count = Cardinality(MembersOf(m)) + n
  PROVE  DecksInv'
  <1> USE DEF Commits
  <1> DEFINE done == [DeckIdle EXCEPT !.pc = "done"]
  <1>1. /\ deckCall \in [DeckCalls -> DeckCallStates] /\ members \in [DeckIds -> Memberships]
        /\ decks \in [DeckIds -> DeckRows] /\ vanished \in [DeckIds -> Nat]
    BY DEF DecksInv, DecksTypeOK
  <1>2. deckCall' = [deckCall EXCEPT ![c] = done]
    BY DEF Finish
  <1>3. /\ done.pc = "done" /\ done.deck = "none" /\ done \in DeckCallStates
        /\ CallSound(done)'
    <2>1. done \in DeckCallStates /\ done.pc = "done" /\ done.deck = "none"
      BY IdleTyped DEF DeckCallStates
    <2> QED
      BY <2>1 DEF CallSound, AppendAlone, Appends, Updates
  <1> HIDE DEF done
  <1>4. /\ Cardinality(DoneCalls) \in Nat
        /\ Cardinality(DoneCalls)' = Cardinality(DoneCalls) + 1
        /\ Cardinality(DoneCalls)' <= Cardinality(DeckCalls)
        /\ Cardinality(DeckCalls) \in Nat
    <2>1. /\ Cardinality(DoneCalls) \in Nat
          /\ Cardinality(DoneCalls)' <= Cardinality(DeckCalls)
          /\ Cardinality(DeckCalls) \in Nat
          /\ Cardinality(DoneCalls)' = IF done.pc = "done" THEN Cardinality(DoneCalls) + 1
                                       ELSE Cardinality(DoneCalls)
      BY <1>1, <1>2, DoneGrow
    <2> QED
      BY <1>3, <2>1
  <1>5. /\ Room(Cardinality(DoneCalls)) <= Room(Cardinality(DoneCalls) + 1)
        /\ Room(Cardinality(DoneCalls) + 1) <= Room(Cardinality(DeckCalls))
        /\ Room(Cardinality(DoneCalls)) \in Int /\ Room(Cardinality(DoneCalls) + 1) \in Int
        /\ Room(Cardinality(DeckCalls)) \in Nat
    <2>1. /\ Cardinality(DoneCalls) + 1 \in Nat
          /\ Cardinality(DoneCalls) <= Cardinality(DoneCalls) + 1
          /\ Cardinality(DoneCalls) + 1 <= Cardinality(DeckCalls)
      BY <1>4
    <2> QED
      BY <1>4, <2>1, RoomMonotone, RoomGrows
  <1>6. Room(Cardinality(DoneCalls))' = Room(Cardinality(DoneCalls) + 1)
    BY <1>4 DEF Room
  <1>7. DecksTypeOK'
    <2>1. Positions = 0..Room(Cardinality(DeckCalls))
      BY DEF Positions, Room
    <2>2. m \in Memberships
      BY <1>5, <2>1 DEF Memberships, NotIn
    <2> QED
      BY <1>1, <1>2, <1>3, <2>2 DEF DecksInv, DecksTypeOK
  <1>8. CallsSound'
    <2> SUFFICES ASSUME NEW q \in DeckCalls, q # c
                 PROVE  CallSound(deckCall[q])'
      BY <1>1, <1>2, <1>3 DEF CallsSound
    <2>1. deckCall'[q] = deckCall[q] /\ deckCall[q] \in DeckCallStates
      BY <1>1, <1>2
    <2>2. PICK k \in DeckCallStates : k = deckCall[q]
      BY <2>1
    <2>3. CallSound(k) /\ k.start \in Int
      BY <2>2 DEF DecksInv, CallsSound, DeckCallStates
    <2>4. AppendAlone(k)'
      <3> SUFFICES ASSUME Appends(k), k.deck \notin appendsOverlapped'
                   PROVE  AppendAlone(k)'
        BY DEF AppendAlone, Appends
      <3>1. k.deck \in DeckIds /\ AppendAlone(k) /\ k.deck \notin appendsOverlapped
        BY <2>3 DEF CallSound, Appends
      <3>2. k.deck = d => m = members[d]
        BY <2>2 DEF InAppend, Appends
      <3>3. members'[k.deck] = members[k.deck]
        BY <1>1, <3>1, <3>2
      <3> QED
        BY <3>1, <3>3 DEF AppendAlone, MembersOf, NotIn
    <2>5. CallSound(k)'
      BY <1>5, <1>6, <2>3, <2>4 DEF CallSound, Appends, Updates
    <2> QED
      BY <2>1, <2>2, <2>5
  <1>9. Unborn'
    <2> SUFFICES ASSUME NEW q \in DeckCalls, deckCall'[q].pc \in {"idle", "cloning"}
                 PROVE  /\ ~decks'[q].exists /\ members'[q] = NoMembers /\ vanished'[q] = 0
                        /\ \A p \in DeckCalls : deckCall'[p].deck # q
      BY DEF Unborn, NoMembers
    <2>1. q # c /\ deckCall'[q] = deckCall[q] /\ q # "none"
      BY <1>1, <1>2, <1>3, DecksAssumption
    <2>2. d # q
      BY <2>1 DEF DecksInv, Unborn
    <2> QED
      BY <1>1, <1>2, <1>3, <2>1, <2>2 DEF DecksInv, Unborn, DeckIds
  <1>10. PositionsBounded'
    <2> SUFFICES ASSUME NEW e \in DeckIds, NEW w \in Words
                 PROVE  members'[e][w] < Room(Cardinality(DoneCalls) + 1)
      BY <1>6 DEF PositionsBounded
    <2>1. members[e][w] \in Int /\ members[e][w] < Room(Cardinality(DoneCalls))
      BY <1>1 DEF DecksInv, PositionsBounded, Memberships, Positions, NotIn
    <2> QED
      BY <1>1, <1>5, <2>1
  <1>11. AllDistinct'
    BY <1>1 DEF DecksInv, AllDistinct, Distinct, NotIn
  <1>12. CountTracksMembers'
    <2> SUFFICES ASSUME NEW e \in DeckIds, decks'[e].exists, ~staleDeckSave',
                        e \notin appendsOverlapped'
                 PROVE  decks'[e].count = Cardinality(MembersOf(members'[e])) + vanished'[e]
      BY DEF CountTracksMembers, MembersOf, NotIn
    <2>1. CASE e = d
      BY <1>1, <2>1
    <2>2. CASE e # d
      BY <1>1, <2>2 DEF DecksInv, CountTracksMembers
    <2> QED
      BY <2>1, <2>2
  <1> QED
    BY <1>7, <1>8, <1>9, <1>10, <1>11, <1>12 DEF DecksInv

\* A request ends without a change.
LEMMA EndKept ==
  ASSUME DecksInv, NEW c \in DeckCalls, ~Ready(c, "done"), OnlyDeckCalls, Finish(c)
  PROVE  DecksInv'
  <1>1. PICK k \in DeckCallStates :
          /\ deckCall' = [deckCall EXCEPT ![c] = k]
          /\ k.pc = "done" /\ k.deck = "none"
    <2>1. /\ [DeckIdle EXCEPT !.pc = "done"] \in DeckCallStates
          /\ [DeckIdle EXCEPT !.pc = "done"].pc = "done"
          /\ [DeckIdle EXCEPT !.pc = "done"].deck = "none"
      BY IdleTyped DEF DeckCallStates
    <2> QED
      BY <2>1 DEF Finish
  <1>2. CallSound(k)
    BY <1>1 DEF CallSound, AppendAlone, Appends, Updates
  <1> QED
    BY <1>1, <1>2, ReadKept

\* A word is deleted, and its memberships with it.
LEMMA DeleteWordKept ==
  ASSUME DecksInv, NEW w \in Words, DeleteWord(w)
  PROVE  DecksInv'
  <1>1. /\ decks \in [DeckIds -> DeckRows] /\ members \in [DeckIds -> Memberships]
        /\ words \in SUBSET Words /\ deckCall \in [DeckCalls -> DeckCallStates]
        /\ vanished \in [DeckIds -> Nat] /\ staleDeckSave \in BOOLEAN
        /\ appendsOverlapped \in SUBSET DeckIds
    BY DEF DecksInv, DecksTypeOK
  <1>2. /\ UNCHANGED <<decks, deckCall, staleDeckSave>>
        /\ members' = [d \in DeckIds |-> [members[d] EXCEPT ![w] = NotIn]]
        /\ appendsOverlapped' = appendsOverlapped \cup
             {d \in DeckIds : members[d][w] # NotIn /\ InAppend(d) # {}}
        /\ vanished' = [d \in DeckIds |-> vanished[d] + IF members[d][w] # NotIn THEN 1 ELSE 0]
        /\ words' = words \ {w}
    BY DEF DeleteWord
  <1>3. \A d \in DeckIds : /\ members[d] \in Memberships
                           /\ members'[d] \in Memberships
                           /\ \A v \in Words : members'[d][v] = IF v = w THEN NotIn ELSE members[d][v]
    BY <1>1, <1>2 DEF Memberships
  <1>4. DoneCalls' = DoneCalls
    BY <1>2 DEF DoneCalls, Ready
  <1>5. Room(Cardinality(DoneCalls))' = Room(Cardinality(DoneCalls))
        /\ Room(Cardinality(DoneCalls)) \in Nat
    <2>1. IsFiniteSet(DoneCalls)
      BY DecksAssumption, FS_Subset DEF DoneCalls
    <2> QED
      BY <1>4, <2>1, FS_CardinalityType, RoomGrows DEF Room
  <1>6. DecksTypeOK'
    <2>1. \A d \in DeckIds : vanished'[d] \in Nat
      BY <1>1, <1>2
    <2>2. vanished' \in [DeckIds -> Nat]
      BY <1>2, <2>1
    <2> QED
      BY <1>1, <1>2, <1>3, <2>2 DEF DecksTypeOK
  <1>7. CallsSound'
    <2> SUFFICES ASSUME NEW c \in DeckCalls PROVE CallSound(deckCall[c])'
      BY DEF CallsSound
    <2>1. PICK k \in DeckCallStates : k = deckCall[c] /\ deckCall'[c] = k /\ CallSound(k)
      BY <1>1, <1>2 DEF DecksInv, CallsSound
    <2>2. AppendAlone(k)'
      <3> SUFFICES ASSUME Appends(k), k.deck \notin appendsOverlapped' PROVE AppendAlone(k)'
        BY DEF AppendAlone, Appends
      <3>1. k.deck \in DeckIds /\ k.deck \notin appendsOverlapped /\ c \in InAppend(k.deck)
        BY <1>2, <2>1 DEF CallSound, Appends, InAppend
      <3>2. members[k.deck][w] = NotIn
        BY <1>2, <3>1
      <3>3. \A v \in Words : members'[k.deck][v] = members[k.deck][v]
        BY <1>3, <3>1, <3>2
      <3> QED
        BY <2>1, <3>1, <3>3 DEF CallSound, AppendAlone, MembersOf, NotIn
    <2>3. CallSound(k)'
      BY <1>5, <2>1, <2>2 DEF CallSound, Appends, Updates
    <2> QED
      BY <2>1, <2>3
  <1>8. Unborn'
    <2> SUFFICES ASSUME NEW c \in DeckCalls, deckCall[c].pc \in {"idle", "cloning"}
                 PROVE  /\ ~decks[c].exists /\ members'[c] = NoMembers /\ vanished'[c] = 0
                        /\ \A q \in DeckCalls : deckCall[q].deck # c
      BY <1>2 DEF Unborn, NoMembers
    <2>1. members[c] = NoMembers /\ vanished[c] = 0 /\ c \in DeckIds /\ members[c][w] = NotIn
      BY DEF DecksInv, Unborn, DeckIds, NoMembers
    <2>2. members'[c] = NoMembers
      BY <1>2, <2>1 DEF NoMembers
    <2> QED
      BY <1>1, <1>2, <2>1, <2>2 DEF DecksInv, Unborn
  <1>9. PositionsBounded'
    BY <1>3, <1>5 DEF DecksInv, PositionsBounded, NotIn
  <1>10. AllDistinct'
    BY <1>2, <1>3 DEF DecksInv, AllDistinct, Distinct, NotIn
  <1>11. CountTracksMembers'
    <2> SUFFICES ASSUME NEW d \in DeckIds, decks[d].exists, ~staleDeckSave,
                        d \notin appendsOverlapped
                 PROVE  decks[d].count = Cardinality(MembersOf(members[d]))' + vanished'[d]
      BY <1>2 DEF CountTracksMembers
    <2>1. MembersOf(members[d])' = MembersOf(members[d]) \ {w}
      BY <1>3 DEF MembersOf, NotIn
    <2>2. IsFiniteSet(MembersOf(members[d]))
      BY DecksAssumption, FS_Subset DEF MembersOf
    <2>3. Cardinality(MembersOf(members[d]))' = IF members[d][w] # NotIn
            THEN Cardinality(MembersOf(members[d])) - 1 ELSE Cardinality(MembersOf(members[d]))
      BY ZenonT(30), <2>1, <2>2, FS_RemoveElement DEF MembersOf
    <2>4. Cardinality(MembersOf(members[d])) \in Nat
      BY <2>2, FS_CardinalityType
    <2>5. decks[d].count = Cardinality(MembersOf(members[d])) + vanished[d]
      BY DEF DecksInv, CountTracksMembers
    <2>6. vanished'[d] = vanished[d] + (IF members[d][w] # NotIn THEN 1 ELSE 0) /\ vanished[d] \in Nat
      BY <1>1, <1>2
    <2> QED
      BY <2>3, <2>4, <2>5, <2>6
  <1> QED
    BY <1>6, <1>7, <1>8, <1>9, <1>10, <1>11 DEF DecksInv

-----------------------------------------------------------------------------
(* The requests: an append *)

LEMMA AppendReadKept ==
  ASSUME DecksInv, NEW c \in DeckCalls, AppendRead(c)
  PROVE  DecksInv'
  <1>1. PICK d \in DeckIds, ids \in SUBSET Words :
          /\ OnlyDeckCalls /\ ids \cap MembersOf(members[d]) = {}
          /\ \/ Finish(c)
             \/ /\ ids # {} /\ decks[d].exists
                /\ deckCall' = [deckCall EXCEPT ![c] =
                     [DeckIdle EXCEPT !.pc = "numbering", !.deck = d, !.ids = ids]]
    <2>1. PICK d \in DeckIds, want \in SUBSET Words \ {{}} :
            LET new == (want \cap words) \ MembersOf(members[d]) IN
            IF new = {} \/ ~Owned(d) THEN Finish(c)
            ELSE deckCall' = [deckCall EXCEPT ![c] =
                   [DeckIdle EXCEPT !.pc = "numbering", !.deck = d, !.ids = new]]
      BY DEF AppendRead
    <2> DEFINE new == (want \cap words) \ MembersOf(members[d])
    <2>2. OnlyDeckCalls /\ new \in SUBSET Words /\ new \cap MembersOf(members[d]) = {}
      BY DEF AppendRead
    <2>3. \/ Finish(c)
          \/ /\ new # {} /\ decks[d].exists
             /\ deckCall' = [deckCall EXCEPT ![c] =
                  [DeckIdle EXCEPT !.pc = "numbering", !.deck = d, !.ids = new]]
      BY <2>1 DEF Owned
    <2> HIDE DEF new
    <2> QED
      BY <2>2, <2>3
  <1>2. Ready(c, "idle")
    BY DEF AppendRead
  <1>3. CASE Finish(c)
    BY <1>1, <1>2, <1>3, EndKept DEF Ready
  <1>4. CASE ids # {} /\ decks[d].exists /\ deckCall' = [deckCall EXCEPT ![c] =
               [DeckIdle EXCEPT !.pc = "numbering", !.deck = d, !.ids = ids]]
    <2> DEFINE k == [DeckIdle EXCEPT !.pc = "numbering", !.deck = d, !.ids = ids]
    <2>1. /\ k \in DeckCallStates /\ k.pc = "numbering" /\ k.deck = d /\ k.ids = ids
          /\ k.found = {} /\ k.start = 0
      BY IdleTyped DEF DeckCallStates
    <2>2. deckCall' = [deckCall EXCEPT ![c] = k]
      BY <1>4
    <2> HIDE DEF k
    <2>3. Room(Cardinality(DoneCalls)) \in Nat
      BY DecksAssumption, FS_Subset, FS_CardinalityType, RoomGrows DEF DoneCalls
    <2>4. CallSound(k)
      BY <1>1, <1>4, <2>1, <2>3 DEF CallSound, AppendAlone, Appends, Updates
    <2> QED
      BY <1>1, <1>2, <1>4, <2>1, <2>2, <2>4, ReadKept DEF Ready
  <1> QED
    BY <1>1, <1>3, <1>4

LEMMA AppendNumberKept ==
  ASSUME DecksInv, NEW c \in DeckCalls, AppendNumber(c)
  PROVE  DecksInv'
  <1>1. deckCall[c] \in DeckCallStates /\ CallSound(deckCall[c]) /\ deckCall[c].pc = "numbering"
        /\ deckCall \in [DeckCalls -> DeckCallStates] /\ members \in [DeckIds -> Memberships]
    BY DEF DecksInv, DecksTypeOK, CallsSound, AppendNumber, Ready
  <1>2. PICK old \in DeckCallStates : old = deckCall[c]
    BY <1>1
  <1>3. PICK m \in Memberships : m = members[old.deck]
    BY <1>1, <1>2 DEF CallSound
  <1>4. PICK room \in Nat : room = Room(Cardinality(DoneCalls)) /\ \A w \in Words : m[w] < room
    <2>1. Room(Cardinality(DoneCalls)) \in Nat
      BY DecksAssumption, FS_Subset, FS_CardinalityType, RoomGrows DEF DoneCalls
    <2> QED
      BY <1>1, <1>2, <1>3, <2>1 DEF DecksInv, PositionsBounded, CallSound
  <1>5. /\ MaxPosition(m) \in Nat \cup {NotIn} /\ MaxPosition(m) < room
        /\ \A w \in Words : m[w] <= MaxPosition(m)
    <2>1. Words # {}
      BY <1>1, <1>2 DEF CallSound, Appends, DeckCallStates
    <2>2. m \in [Words -> Nat \cup {NotIn}]
      BY DEF Memberships, Positions
    <2>3. \A w \in Words : m[w] <= room
      BY <1>4, <2>2 DEF NotIn
    <2>4. MaxPosition(m) \in Range(m) /\ \A w \in Words : m[w] <= MaxPosition(m)
      BY <2>1, <2>2, <2>3, MaxPositionLast
    <2> QED
      BY <1>4, <2>2, <2>4 DEF Range
  <1> DEFINE k == [old EXCEPT !.pc = "selecting", !.start = MaxPosition(m) + 1]
  <1>6. /\ k \in DeckCallStates /\ k.pc = "selecting" /\ k.start = MaxPosition(m) + 1
        /\ k.deck = old.deck /\ k.ids = old.ids /\ k.found = old.found
    <2>1. MaxPosition(m) + 1 \in Nat
      BY <1>5 DEF NotIn
    <2> QED
      BY <2>1 DEF DeckCallStates
  <1>7. deckCall' = [deckCall EXCEPT ![c] = k] /\ OnlyDeckCalls
    BY <1>1, <1>2, <1>3 DEF AppendNumber
  <1> HIDE DEF k
  <1>8. CallSound(k)
    <2>1. \A w \in Words : m[w] < k.start
      BY <1>5, <1>6 DEF NotIn, Memberships, Positions
    <2>2. k.start <= room
      BY <1>4, <1>5, <1>6 DEF NotIn
    <2> QED
      BY <1>1, <1>2, <1>3, <1>4, <1>6, <2>1, <2>2 DEF CallSound, AppendAlone, Appends, Updates
  <1> QED
    BY <1>1, <1>2, <1>6, <1>7, <1>8, ReadKept DEF Ready

LEMMA AppendSelectKept ==
  ASSUME DecksInv, NEW c \in DeckCalls, AppendSelect(c)
  PROVE  DecksInv'
  <1>1. deckCall[c] \in DeckCallStates /\ CallSound(deckCall[c]) /\ deckCall[c].pc = "selecting"
        /\ deckCall \in [DeckCalls -> DeckCallStates]
    BY DEF DecksInv, DecksTypeOK, CallsSound, AppendSelect, Ready
  <1>2. PICK old \in DeckCallStates : old = deckCall[c]
    BY <1>1
  <1> DEFINE met == old.ids \cap MembersOf(members[old.deck])
             k == [old EXCEPT !.pc = "appending", !.found = old.found \cup met]
  <1>3. /\ k \in DeckCallStates /\ k.pc = "appending" /\ k.start = old.start
        /\ k.deck = old.deck /\ k.ids = old.ids /\ k.found = old.found \cup met
    BY DEF DeckCallStates
  <1>4. deckCall' = [deckCall EXCEPT ![c] = k] /\ OnlyDeckCalls
    BY <1>1, <1>2 DEF AppendSelect
  <1> HIDE DEF k
  <1>5. CallSound(k)
    BY <1>1, <1>2, <1>3 DEF CallSound, AppendAlone, Appends, Updates
  <1> QED
    BY <1>1, <1>2, <1>3, <1>4, <1>5, ReadKept DEF Ready

LEMMA AppendCommitKept ==
  ASSUME DecksInv, NEW c \in DeckCalls, AppendCommit(c)
  PROVE  DecksInv'
  <1>1. deckCall[c] \in DeckCallStates /\ CallSound(deckCall[c]) /\ deckCall[c].pc = "appending"
        /\ members \in [DeckIds -> Memberships] /\ decks \in [DeckIds -> DeckRows]
        /\ vanished \in [DeckIds -> Nat] /\ appendsOverlapped \in SUBSET DeckIds
        /\ staleDeckSave \in BOOLEAN
    BY DEF DecksInv, DecksTypeOK, CallsSound, AppendCommit, Ready
  <1>2. PICK k \in DeckCallStates : k = deckCall[c]
    BY <1>1
  <1>3. /\ CallSound(k) /\ k.pc = "appending" /\ Appends(k) /\ k.deck \in DeckIds
        /\ k.ids \in SUBSET Words /\ k.found \in SUBSET Words /\ k.start \in Nat
    BY <1>1, <1>2 DEF CallSound, Appends, DeckCallStates
  <1>4. PICK d \in DeckIds : d = k.deck
    BY <1>3
  <1>5. PICK m \in Memberships : m = members[d]
    BY <1>1
  <1> DEFINE insert == k.ids \ k.found
             move == k.found \cap MembersOf(m)
             stays == UNCHANGED <<members, decks, appendsOverlapped>>
  <1>6. /\ Finish(c) /\ ~Ready(c, "done") /\ UNCHANGED <<words, vanished, staleDeckSave>>
        /\ \/ stays
           \/ \E ord \in Orders(k.ids) :
                /\ insert \subseteq words \ MembersOf(m)
                /\ members' = [members EXCEPT ![d] = Placed(m, [w \in insert \cup move |-> ord[w]], k.start)]
                /\ decks' = [decks EXCEPT ![d] = [decks[d] EXCEPT !.count = @ + Cardinality(k.ids)]]
                /\ Disturbs(c, d)
    BY <1>1, <1>2, <1>4, <1>5 DEF AppendCommit, Ready
  <1>7. CASE stays
    BY <1>6, <1>7, EndKept DEF OnlyDeckCalls, deckHistory
  <1>8. ASSUME NEW ord \in Orders(k.ids), insert \subseteq words \ MembersOf(m),
               members' = [members EXCEPT ![d] = Placed(m, [w \in insert \cup move |-> ord[w]], k.start)],
               decks' = [decks EXCEPT ![d] = [decks[d] EXCEPT !.count = @ + Cardinality(k.ids)]],
               Disturbs(c, d)
        PROVE  DecksInv'
    <2>1. d \notin appendsOverlapped => k.found = {} /\ k.ids \cap MembersOf(m) = {}
                                        /\ \A w \in Words : m[w] < k.start
      BY <1>3, <1>4, <1>5 DEF CallSound, AppendAlone
    <2>2. /\ IsFiniteSet(k.ids) /\ Cardinality(k.ids) \in Nat /\ IsFiniteSet(MembersOf(m))
          /\ Cardinality(MembersOf(m)) \in Nat /\ Cardinality(Words) \in Nat
      BY <1>3, DecksAssumption, FS_Subset, FS_CardinalityType DEF MembersOf
    <2>3. PICK count \in Int : count = decks[d].count
      BY <1>1 DEF DeckRows
    <2>4. PICK r \in DeckRows : r = [decks[d] EXCEPT !.count = @ + Cardinality(k.ids)]
                                /\ r.count = count + Cardinality(k.ids) /\ r.exists = decks[d].exists
      <3>1. PICK row \in DeckRows : row = decks[d]
        BY <1>1
      <3>2. [row EXCEPT !.count = @ + Cardinality(k.ids)] \in DeckRows
        BY <2>2 DEF DeckRows
      <3> QED
        BY <2>3, <3>1, <3>2 DEF DeckRows
    <2>5. PICK put \in SUBSET k.ids : put = insert \cup move /\ k.ids \in SUBSET Words
      BY <1>3 DEF CallSound
    <2>6. m \in [Words -> Nat \cup {NotIn}]
      BY DEF Memberships, Positions
    <2>7. PICK new \in [Words -> Nat \cup {NotIn}] :
            /\ new = PutIn(m, put, ord, k.start)
            /\ MembersOf(new) = MembersOf(m) \cup put
            /\ \A w \in Words : new[w] = m[w] \/ new[w] < k.start + Cardinality(Words)
            /\ Distinct(m) /\ (\A w \in Words : m[w] < k.start) => Distinct(new)
      <3> DEFINE placed == PutIn(m, put, ord, k.start)
      <3>1. /\ placed \in [Words -> Nat \cup {NotIn}]
            /\ MembersOf(placed) = MembersOf(m) \cup put
            /\ \A w \in Words : placed[w] = m[w] \/ placed[w] < k.start + Cardinality(Words)
            /\ Distinct(m) /\ (\A w \in Words : m[w] < k.start) => Distinct(placed)
        <4>1. PICK ids \in SUBSET Words : ids = k.ids
          BY <1>3
        <4>2. PICK start \in Nat : start = k.start
          BY <1>3
        <4>3. put \in SUBSET ids /\ ord \in Orders(ids)
          BY <4>1
        <4> QED
          BY <2>6, <4>1, <4>2, <4>3, PlacedAfter
      <3> HIDE DEF placed
      <3> QED
        BY <3>1 DEF placed
    <2>8. PICK n \in Nat :
            /\ n = vanished[d]
            /\ decks' = [decks EXCEPT ![d] = r] /\ members' = [members EXCEPT ![d] = new]
            /\ vanished' = [vanished EXCEPT ![d] = n]
      BY <1>1, <1>6, <1>8, <2>4, <2>5, <2>7 DEF PutIn
    <2>9. /\ appendsOverlapped' \in SUBSET DeckIds /\ appendsOverlapped \subseteq appendsOverlapped'
          /\ InAppend(d) \ {c} = {} \/ d \in appendsOverlapped'
      BY <1>1, <1>8 DEF Disturbs
    <2>10. \A w \in Words : new[w] < Room(Cardinality(DoneCalls) + 1)
      <3>1. PICK room \in Nat : /\ room = Room(Cardinality(DoneCalls))
                                /\ Room(Cardinality(DoneCalls) + 1) = room + Cardinality(Words)
        BY DecksAssumption, FS_Subset, FS_CardinalityType, RoomGrows DEF DoneCalls
      <3>2. k.start <= room /\ \A w \in Words : m[w] < room
        BY <1>3, <1>5, <3>1 DEF CallSound, DecksInv, PositionsBounded
      <3> QED
        BY <1>3, <2>2, <2>6, <2>7, <3>1, <3>2 DEF NotIn
    <2>11. d \notin appendsOverlapped' => Distinct(new)
      BY <1>5, <2>1, <2>7, <2>9 DEF DecksInv, AllDistinct
    <2>12. ASSUME r.exists, ~staleDeckSave', d \notin appendsOverlapped'
           PROVE  r.count = Cardinality(MembersOf(new)) + n
      <3>1. MembersOf(new) = MembersOf(m) \cup k.ids /\ k.ids \cap MembersOf(m) = {}
        BY <2>1, <2>5, <2>7, <2>9, <2>12
      <3>2. Cardinality(MembersOf(new)) = Cardinality(MembersOf(m)) + Cardinality(k.ids)
        <4>1. Cardinality(MembersOf(m) \cup k.ids) = Cardinality(MembersOf(m)) + Cardinality(k.ids)
                - Cardinality(MembersOf(m) \cap k.ids)
          BY <2>2, FS_Union
        <4>2. Cardinality(MembersOf(m) \cap k.ids) = 0
          BY <3>1, FS_EmptySet
        <4> QED
          BY <2>2, <3>1, <4>1, <4>2
      <3>3. count = Cardinality(MembersOf(m)) + vanished[d]
        BY <1>5, <1>6, <2>3, <2>4, <2>9, <2>12 DEF DecksInv, CountTracksMembers
      <3> QED
        BY <2>2, <2>3, <2>4, <2>8, <3>2, <3>3
    <2>13. Commits(c, d, r, new, n)
      BY <1>1, <1>2, <1>4, <1>6, <2>8, <2>9 DEF Commits
    <2> QED
      BY <2>10, <2>11, <2>12, <2>13, CommitKept
  <1> QED
    BY <1>6, <1>7, <1>8

-----------------------------------------------------------------------------
(* The requests: a deck that is created or cloned, a member that is removed *)

\* Nobody works on the deck of a request that has created none.
LEMMA NobodyHas ==
  ASSUME DecksInv, NEW c \in DeckCalls, deckCall[c].pc \in {"idle", "cloning"}
  PROVE  /\ c \in DeckIds /\ InAppend(c) = {} /\ members[c] = NoMembers /\ vanished[c] = 0
         /\ decks \in [DeckIds -> DeckRows] /\ members \in [DeckIds -> Memberships]
         /\ vanished \in [DeckIds -> Nat] /\ appendsOverlapped \in SUBSET DeckIds
         /\ staleDeckSave \in BOOLEAN
  BY DEF DecksInv, DecksTypeOK, Unborn, InAppend, DeckIds

LEMMA CreateDeckKept ==
  ASSUME DecksInv, NEW c \in DeckCalls, CreateDeck(c)
  PROVE  DecksInv'
  <1>1. deckCall[c].pc = "idle" /\ Finish(c) /\ UNCHANGED <<words, deckHistory>>
    BY DEF CreateDeck, Ready
  <1> DEFINE made(v, ids) == [exists |-> TRUE, visibility |-> v, count |-> Cardinality(ids)]
  <1>2. PICK ids \in SUBSET words, v \in {"private", "public"} :
          /\ decks' = [decks EXCEPT ![c] = made(v, ids)]
          /\ \E ord \in Orders(ids) : members' = [members EXCEPT ![c] = Placed(NoMembers, ord, 0)]
    BY DEF CreateDeck
  <1>3. PICK ord \in Orders(ids) : members' = [members EXCEPT ![c] = Placed(NoMembers, ord, 0)]
    BY <1>2
  <1>4. /\ ids \in SUBSET Words /\ IsFiniteSet(ids)
        /\ Cardinality(ids) \in Nat /\ Cardinality(Words) \in Nat
    BY DecksAssumption, FS_Subset, FS_CardinalityType DEF DecksInv, DecksTypeOK
  <1>5. PICK r \in DeckRows : r.count = Cardinality(ids) /\ decks' = [decks EXCEPT ![c] = r]
    <2> DEFINE r == made(v, ids)
    <2>1. r \in DeckRows /\ r.count = Cardinality(ids)
      BY <1>4 DEF DeckRows
    <2>2. decks' = [decks EXCEPT ![c] = r]
      BY <1>2
    <2> HIDE DEF r
    <2> QED
      BY <2>1, <2>2
  <1>6. PICK m \in [Words -> Nat \cup {NotIn}] :
          /\ members' = [members EXCEPT ![c] = m] /\ MembersOf(m) = ids
          /\ \A w \in Words : m[w] < Cardinality(Words)
          /\ Distinct(m)
    <2> DEFINE m == PutIn(NoMembers, ids, ord, 0)
    <2>1. NoMembers \in [Words -> Nat \cup {NotIn}] /\ MembersOf(NoMembers) = {}
          /\ Distinct(NoMembers) /\ \A w \in Words : NoMembers[w] < 0
      BY DEF NoMembers, NotIn, MembersOf, Distinct
    <2>2. /\ m \in [Words -> Nat \cup {NotIn}] /\ MembersOf(m) = MembersOf(NoMembers) \cup ids
          /\ \A w \in Words : m[w] = NoMembers[w] \/ m[w] < 0 + Cardinality(Words)
          /\ Distinct(NoMembers) /\ (\A w \in Words : NoMembers[w] < 0) => Distinct(m)
      <3>1. PICK none \in [Words -> Nat \cup {NotIn}], start \in Nat :
              none = NoMembers /\ start = 0
        BY <2>1
      <3>2. ids \in SUBSET ids /\ ids \in SUBSET Words
        BY <1>4
      <3>3. /\ PutIn(none, ids, ord, start) \in [Words -> Nat \cup {NotIn}]
            /\ MembersOf(PutIn(none, ids, ord, start)) = MembersOf(none) \cup ids
            /\ \A w \in Words : \/ PutIn(none, ids, ord, start)[w] = none[w]
                               \/ PutIn(none, ids, ord, start)[w] < start + Cardinality(Words)
            /\ Distinct(none) /\ (\A w \in Words : none[w] < start) =>
                 Distinct(PutIn(none, ids, ord, start))
        BY <3>2, PlacedAfter
      <3> QED
        BY <3>1, <3>3
    <2>3. m = Placed(NoMembers, ord, 0)
      <3>1. DOMAIN ord = ids
        BY DEF Orders, Bijection, Injection
      <3> QED
        BY <3>1 DEF PutIn, Placed
    <2>4. members' = [members EXCEPT ![c] = m]
      BY <1>3, <2>3
    <2> HIDE DEF m
    <2>5. MembersOf(m) = ids /\ Distinct(m)
      BY <2>1, <2>2
    <2>6. \A w \in Words : m[w] < Cardinality(Words)
      <3> SUFFICES ASSUME NEW w \in Words PROVE m[w] < Cardinality(Words)
        OBVIOUS
      <3>1. NoMembers[w] = -1 /\ (m[w] = NoMembers[w] \/ m[w] < 0 + Cardinality(Words))
        BY <2>2 DEF NoMembers, NotIn
      <3> QED
        BY <1>4, <3>1
    <2> QED
      BY <2>2, <2>4, <2>5, <2>6
  <1>7. \A w \in Words : m[w] < Room(Cardinality(DoneCalls) + 1)
    <2>1. PICK room \in Nat : Room(Cardinality(DoneCalls) + 1) = room + Cardinality(Words)
      BY DecksAssumption, FS_Subset, FS_CardinalityType, RoomGrows DEF DoneCalls
    <2> QED
      BY <1>4, <1>6, <2>1 DEF NotIn
  <1>8. Commits(c, c, r, m, 0)
    BY <1>1, <1>5, <1>6, NobodyHas DEF Commits, deckHistory, Ready
  <1>9. c \in DeckIds /\ r.count = Cardinality(MembersOf(m)) + 0
    BY <1>4, <1>5, <1>6 DEF DeckIds
  <1> QED
    BY <1>6, <1>7, <1>8, <1>9, CommitKept

LEMMA CloneLoadKept ==
  ASSUME DecksInv, NEW c \in DeckCalls, CloneLoad(c)
  PROVE  DecksInv'
  <1>1. Ready(c, "idle") /\ OnlyDeckCalls
    BY DEF CloneLoad
  <1>2. CASE Finish(c)
    BY <1>1, <1>2, EndKept DEF Ready
  <1>3. ASSUME NEW d \in DeckIds, decks[d].exists,
               deckCall' = [deckCall EXCEPT ![c] = [DeckIdle EXCEPT !.pc = "cloning", !.deck = d]]
        PROVE  DecksInv'
    <2> DEFINE k == [DeckIdle EXCEPT !.pc = "cloning", !.deck = d]
    <2>1. k \in DeckCallStates /\ k.pc = "cloning" /\ k.deck = d
      BY IdleTyped DEF DeckCallStates
    <2>2. deckCall' = [deckCall EXCEPT ![c] = k]
      BY <1>3
    <2> HIDE DEF k
    <2>3. CallSound(k)
      BY <2>1 DEF CallSound, AppendAlone, Appends, Updates
    <2> QED
      BY <1>1, <1>3, <2>1, <2>2, <2>3, ReadKept DEF Ready
  <1> QED
    BY <1>2, <1>3 DEF CloneLoad

LEMMA CloneCommitKept ==
  ASSUME DecksInv, NEW c \in DeckCalls, CloneCommit(c)
  PROVE  DecksInv'
  <1>1. deckCall[c].pc = "cloning" /\ Finish(c) /\ UNCHANGED <<words, vanished, staleDeckSave>>
    BY DEF CloneCommit, Ready
  <1>2. deckCall[c].deck \in DeckIds
    BY <1>1 DEF DecksInv, CallsSound, CallSound
  <1>3. PICK m \in Memberships : m = members[deckCall[c].deck]
    BY <1>2 DEF DecksInv, DecksTypeOK
  <1>4. m \in [Words -> Nat \cup {NotIn}]
    BY DEF Memberships, Positions
  <1>5. Cardinality(MembersOf(m)) \in Nat
    BY DecksAssumption, FS_Subset, FS_CardinalityType DEF MembersOf
  <1>6. PICK r \in DeckRows : r.count = Cardinality(MembersOf(m)) /\ decks' = [decks EXCEPT ![c] = r]
    <2> DEFINE n == Cardinality(MembersOf(m))
               r == [NoDeck EXCEPT !.exists = TRUE, !.count = n]
    <2>1. decks' = [decks EXCEPT ![c] = r]
      BY <1>3 DEF CloneCommit
    <2>2. n \in Int
      BY <1>5
    <2> HIDE DEF n
    <2>3. NoDeck \in DeckRows
      BY DEF NoDeck, DeckRows
    <2>4. r \in DeckRows /\ r.count = n
      BY <2>2, <2>3 DEF DeckRows
    <2> QED
      BY <2>1, <2>4 DEF n
  <1>7. /\ members' = [members EXCEPT ![c] = m]
        /\ appendsOverlapped' = appendsOverlapped \cup
             IF deckCall[c].deck \in appendsOverlapped THEN {c} ELSE {}
    BY <1>3 DEF CloneCommit
  <1>8. \A w \in Words : m[w] < Room(Cardinality(DoneCalls) + 1)
    <2>1. PICK room \in Nat : /\ room = Room(Cardinality(DoneCalls))
                              /\ Room(Cardinality(DoneCalls) + 1) = room + Cardinality(Words)
      BY DecksAssumption, FS_Subset, FS_CardinalityType, RoomGrows DEF DoneCalls
    <2>2. \A w \in Words : m[w] < room
      BY <1>2, <1>3, <2>1 DEF DecksInv, PositionsBounded
    <2>3. Cardinality(Words) \in Nat
      BY DecksAssumption, FS_CardinalityType
    <2> QED
      BY <1>4, <2>1, <2>2, <2>3 DEF NotIn
  <1>9. Commits(c, c, r, m, 0)
    BY <1>1, <1>6, <1>7, NobodyHas DEF Commits, Ready
  <1>10. c \notin appendsOverlapped' => Distinct(m)
    BY <1>2, <1>3, <1>7 DEF DecksInv, AllDistinct
  <1>11. c \in DeckIds /\ r.count = Cardinality(MembersOf(m)) + 0
    BY <1>5, <1>6 DEF DeckIds
  <1> QED
    BY <1>4, <1>8, <1>9, <1>10, <1>11, CommitKept

\* A request finds a deck to work on, other than to append to it.
LEMMA FindKept ==
  ASSUME DecksInv, NEW c \in DeckCalls, Ready(c, "idle"), OnlyDeckCalls,
         NEW k \in DeckCallStates, deckCall' = [deckCall EXCEPT ![c] = k],
         k.pc \in {"removing", "saving", "deleting"}, k.deck \in DeckIds, decks[k.deck].exists,
         Updates(k) => k.base.exists
                       /\ k.entity = [k.base EXCEPT !.visibility = k.entity.visibility]
  PROVE  DecksInv'
  <1>1. CallSound(k)
    BY DEF CallSound, AppendAlone, Appends, Updates
  <1> QED
    BY <1>1, ReadKept DEF Ready

LEMMA RemoveCheckKept ==
  ASSUME DecksInv, NEW c \in DeckCalls, RemoveCheck(c)
  PROVE  DecksInv'
  <1>1. Ready(c, "idle") /\ OnlyDeckCalls
    BY DEF RemoveCheck
  <1>2. CASE Finish(c)
    BY <1>1, <1>2, EndKept DEF Ready
  <1>3. ASSUME NEW d \in DeckIds, NEW w \in Words, decks[d].exists,
               deckCall' = [deckCall EXCEPT ![c] =
                 [DeckIdle EXCEPT !.pc = "removing", !.deck = d, !.ids = {w}]]
        PROVE  DecksInv'
    <2> DEFINE k == [DeckIdle EXCEPT !.pc = "removing", !.deck = d, !.ids = {w}]
    <2>1. k \in DeckCallStates /\ k.pc = "removing" /\ k.deck = d
      BY IdleTyped DEF DeckCallStates
    <2>2. deckCall' = [deckCall EXCEPT ![c] = k]
      BY <1>3
    <2> HIDE DEF k
    <2> QED
      BY <1>1, <1>3, <2>1, <2>2, FindKept DEF Updates
  <1> QED
    BY <1>2, <1>3 DEF RemoveCheck, Owned

LEMMA RemoveCommitKept ==
  ASSUME DecksInv, NEW c \in DeckCalls, RemoveCommit(c)
  PROVE  DecksInv'
  <1>1. /\ Ready(c, "removing") /\ Finish(c) /\ UNCHANGED <<words, vanished, staleDeckSave>>
        /\ decks \in [DeckIds -> DeckRows] /\ members \in [DeckIds -> Memberships]
        /\ vanished \in [DeckIds -> Nat] /\ appendsOverlapped \in SUBSET DeckIds
        /\ staleDeckSave \in BOOLEAN
    BY DEF RemoveCommit, DecksInv, DecksTypeOK
  <1>2. PICK d \in DeckIds : d = deckCall[c].deck
    BY <1>1 DEF DecksInv, CallsSound, CallSound, Ready
  <1>3. PICK m \in Memberships : m = members[d]
    BY <1>1
  <1>4. PICK hit \in SUBSET MembersOf(m) : hit = deckCall[c].ids \cap MembersOf(m)
    OBVIOUS
  <1>5. /\ members' = [members EXCEPT ![d] = [w \in Words |-> IF w \in hit THEN NotIn ELSE m[w]]]
        /\ decks' = [decks EXCEPT ![d] = [decks[d] EXCEPT !.count = @ - Cardinality(hit)]]
        /\ Disturbs(c, d)
    BY <1>1, <1>2, <1>3, <1>4 DEF RemoveCommit
  <1>6. PICK new \in [Words -> Nat \cup {NotIn}] :
          /\ members' = [members EXCEPT ![d] = new]
          /\ \A w \in Words : new[w] = IF w \in hit THEN NotIn ELSE m[w]
    <2> DEFINE new == [w \in Words |-> IF w \in hit THEN NotIn ELSE m[w]]
    <2>1. new \in [Words -> Nat \cup {NotIn}]
      BY DEF Memberships, Positions
    <2>2. \A w \in Words : new[w] = IF w \in hit THEN NotIn ELSE m[w]
      OBVIOUS
    <2>3. members' = [members EXCEPT ![d] = new]
      BY <1>5
    <2> HIDE DEF new
    <2> QED
      BY <2>1, <2>2, <2>3
  <1>7. /\ IsFiniteSet(MembersOf(m)) /\ Cardinality(MembersOf(m)) \in Nat
        /\ IsFiniteSet(hit) /\ Cardinality(hit) \in Nat
    <2>1. IsFiniteSet(MembersOf(m))
      BY DecksAssumption, FS_Subset DEF MembersOf
    <2> QED
      BY <2>1, FS_Subset, FS_CardinalityType
  <1>8. PICK row \in DeckRows : row = decks[d]
    BY <1>1
  <1>9. PICK r \in DeckRows :
          /\ r.count = row.count - Cardinality(hit) /\ r.exists = row.exists
          /\ decks' = [decks EXCEPT ![d] = r]
    <2> DEFINE n == row.count - Cardinality(hit)
               r == [row EXCEPT !.count = n]
    <2>1. n \in Int
      BY <1>7 DEF DeckRows
    <2>2. decks' = [decks EXCEPT ![d] = r]
      BY <1>5, <1>8
    <2> HIDE DEF n
    <2>3. r \in DeckRows /\ r.count = n /\ r.exists = row.exists
      BY <2>1 DEF DeckRows
    <2> QED
      BY <2>2, <2>3 DEF n
  <1>10. PICK n \in Nat : n = vanished[d] /\ vanished' = [vanished EXCEPT ![d] = n]
    BY <1>1
  <1>11. Commits(c, d, r, new, n)
    BY <1>1, <1>2, <1>5, <1>6, <1>9, <1>10 DEF Commits, Disturbs, Ready
  <1>12. \A w \in Words : new[w] < Room(Cardinality(DoneCalls) + 1)
    <2>1. PICK room \in Nat : /\ room = Room(Cardinality(DoneCalls))
                              /\ Room(Cardinality(DoneCalls) + 1) = room + Cardinality(Words)
      BY DecksAssumption, FS_Subset, FS_CardinalityType, RoomGrows DEF DoneCalls
    <2>2. \A w \in Words : new[w] < room
      BY <1>3, <1>6, <2>1 DEF DecksInv, PositionsBounded, NotIn
    <2>3. Cardinality(Words) \in Nat
      BY DecksAssumption, FS_CardinalityType
    <2> QED
      BY <1>6, <2>1, <2>2, <2>3 DEF NotIn
  <1>13. d \notin appendsOverlapped' => Distinct(new)
    BY <1>3, <1>5, <1>6 DEF DecksInv, AllDistinct, Distinct, Disturbs
  <1>14. ASSUME r.exists, ~staleDeckSave', d \notin appendsOverlapped'
         PROVE  r.count = Cardinality(MembersOf(new)) + n
    <2>1. row.count = Cardinality(MembersOf(m)) + n
      BY <1>1, <1>3, <1>5, <1>8, <1>9, <1>10, <1>14 DEF DecksInv, CountTracksMembers, Disturbs
    <2>2. MembersOf(new) = MembersOf(m) \ hit
      BY <1>6 DEF MembersOf
    <2>3. Cardinality(MembersOf(new)) = Cardinality(MembersOf(m)) - Cardinality(hit)
      <3>1. MembersOf(m) \cap hit = hit
        OBVIOUS
      <3> QED
        BY <1>7, <2>2, <3>1, FS_Difference
    <2> QED
      BY <1>7, <1>9, <2>1, <2>3
  <1> QED
    BY <1>11, <1>12, <1>13, <1>14, CommitKept

-----------------------------------------------------------------------------
(* The requests: a deck that is updated or deleted *)

LEMMA UpdateLoadKept ==
  ASSUME DecksInv, NEW c \in DeckCalls, UpdateLoad(c)
  PROVE  DecksInv'
  <1>1. Ready(c, "idle") /\ OnlyDeckCalls /\ decks \in [DeckIds -> DeckRows]
    BY DEF UpdateLoad, DecksInv, DecksTypeOK
  <1>2. CASE Finish(c)
    BY <1>1, <1>2, EndKept DEF Ready
  <1>3. ASSUME NEW d \in DeckIds, NEW v \in {"private", "public"}, decks[d].exists,
               deckCall' = [deckCall EXCEPT ![c] =
                 [DeckIdle EXCEPT !.pc = "saving", !.deck = d, !.base = decks[d],
                                  !.entity = [decks[d] EXCEPT !.visibility = v]]]
        PROVE  DecksInv'
    <2>1. PICK row \in DeckRows : row = decks[d]
      BY <1>1
    <2>2. PICK entity \in DeckRows :
            entity = [row EXCEPT !.visibility = v] /\ entity.visibility = v
      <3>1. [row EXCEPT !.visibility = v] \in DeckRows /\ [row EXCEPT !.visibility = v].visibility = v
        BY DEF DeckRows
      <3> QED
        BY <3>1
    <2> DEFINE k == [DeckIdle EXCEPT !.pc = "saving", !.deck = d, !.base = row, !.entity = entity]
    <2>3. k \in DeckCallStates /\ k.pc = "saving" /\ k.deck = d /\ k.base = row /\ k.entity = entity
      BY IdleTyped DEF DeckCallStates
    <2>4. deckCall' = [deckCall EXCEPT ![c] = k]
      BY <1>3, <2>1, <2>2
    <2> HIDE DEF k
    <2>5. k.base.exists /\ k.entity = [k.base EXCEPT !.visibility = k.entity.visibility]
      BY <1>3, <2>1, <2>2, <2>3
    <2> QED
      BY <1>1, <1>3, <2>3, <2>4, <2>5, FindKept
  <1> QED
    BY <1>2, <1>3 DEF UpdateLoad, Owned

LEMMA UpdateSelectKept ==
  ASSUME DecksInv, NEW c \in DeckCalls, UpdateSelect(c)
  PROVE  DecksInv'
  <1>1. deckCall[c] \in DeckCallStates /\ CallSound(deckCall[c]) /\ deckCall[c].pc = "saving"
        /\ deckCall \in [DeckCalls -> DeckCallStates] /\ decks \in [DeckIds -> DeckRows]
    BY DEF DecksInv, DecksTypeOK, CallsSound, UpdateSelect, Ready
  <1>2. PICK old \in DeckCallStates : old = deckCall[c]
    BY <1>1
  <1>3. PICK row \in DeckRows : row = decks[old.deck]
    BY <1>1, <1>2 DEF CallSound
  <1> DEFINE k == [old EXCEPT !.pc = "selected", !.seen = row]
  <1>4. /\ k \in DeckCallStates /\ k.pc = "selected" /\ k.deck = old.deck
        /\ k.base = old.base /\ k.entity = old.entity
    BY DEF DeckCallStates
  <1>5. deckCall' = [deckCall EXCEPT ![c] = k] /\ OnlyDeckCalls
    BY <1>1, <1>2, <1>3 DEF UpdateSelect
  <1> HIDE DEF k
  <1>6. CallSound(k)
    BY <1>1, <1>2, <1>4 DEF CallSound, AppendAlone, Appends, Updates
  <1> QED
    BY <1>1, <1>2, <1>4, <1>5, <1>6, ReadKept DEF Ready

\* Only a save over a row that its request has not read changes a count.
LEMMA UpdateCommitKept ==
  ASSUME DecksInv, NEW c \in DeckCalls, UpdateCommit(c)
  PROVE  DecksInv'
  <1>1. /\ Ready(c, "selected") /\ Finish(c)
        /\ UNCHANGED <<members, words, vanished, appendsOverlapped>>
        /\ deckCall \in [DeckCalls -> DeckCallStates] /\ decks \in [DeckIds -> DeckRows]
        /\ members \in [DeckIds -> Memberships] /\ vanished \in [DeckIds -> Nat]
        /\ appendsOverlapped \in SUBSET DeckIds /\ staleDeckSave \in BOOLEAN
    BY DEF UpdateCommit, DecksInv, DecksTypeOK
  <1>2. PICK k \in DeckCallStates : k = deckCall[c]
    BY <1>1
  <1>3. /\ k.pc = "selected" /\ k.deck \in DeckIds /\ k.base.exists
        /\ k.entity = [k.base EXCEPT !.visibility = k.entity.visibility]
    BY <1>1, <1>2 DEF DecksInv, CallsSound, CallSound, Updates, Ready
  <1>4. PICK d \in DeckIds : d = k.deck
    BY <1>3
  <1>5. PICK row \in DeckRows : row = decks[d]
    BY <1>1
  <1>6. PICK base \in DeckRows, entity \in DeckRows, seen \in DeckRows :
          base = k.base /\ entity = k.entity /\ seen = k.seen
    BY DEF DeckCallStates
  <1>7. base.exists /\ entity.exists = base.exists /\ entity.count = base.count
    <2>1. PICK v \in {"private", "public"} : entity = [base EXCEPT !.visibility = v]
      BY <1>3, <1>6 DEF DeckRows
    <2> QED
      BY <1>3, <1>6, <2>1 DEF DeckRows
  <1> DEFINE left == IF ~seen.exists THEN entity
                     ELSE IF ~row.exists THEN row ELSE RowSaved(entity, seen, row)
  <1>8. decks' = [decks EXCEPT ![d] = left]
        /\ staleDeckSave' = (staleDeckSave \/ (decks' # decks /\ row # base))
    BY <1>2, <1>4, <1>5, <1>6 DEF UpdateCommit, RowSaved
  <1>9. left \in DeckRows /\ left.count \in {entity.count, row.count}
    BY SavedColumns
  <1> HIDE DEF left
  <1>10. PICK n \in Nat : n = vanished[d] /\ vanished' = [vanished EXCEPT ![d] = n]
    BY <1>1
  <1>11. PICK m \in Memberships : m = members[d] /\ members' = [members EXCEPT ![d] = m]
    BY <1>1
  <1>12. m \in [Words -> Nat \cup {NotIn}]
    BY DEF Memberships, Positions
  <1>13. Commits(c, d, left, m, n)
    <2>1. staleDeckSave' \in BOOLEAN /\ (staleDeckSave => staleDeckSave')
      BY <1>8
    <2> QED
      BY <1>1, <1>2, <1>4, <1>8, <1>10, <1>11, <2>1 DEF Commits, Ready
  <1>14. \A w \in Words : m[w] < Room(Cardinality(DoneCalls) + 1)
    <2>1. PICK room \in Nat : /\ room = Room(Cardinality(DoneCalls))
                              /\ Room(Cardinality(DoneCalls) + 1) = room + Cardinality(Words)
      BY DecksAssumption, FS_Subset, FS_CardinalityType, RoomGrows DEF DoneCalls
    <2>2. \A w \in Words : m[w] < room
      BY <1>11, <2>1 DEF DecksInv, PositionsBounded
    <2>3. Cardinality(Words) \in Nat
      BY DecksAssumption, FS_CardinalityType
    <2> QED
      BY <1>12, <2>1, <2>2, <2>3 DEF NotIn
  <1>15. d \notin appendsOverlapped' => Distinct(m)
    BY <1>1, <1>11 DEF DecksInv, AllDistinct
  <1>16. ASSUME left.exists, ~staleDeckSave', d \notin appendsOverlapped'
         PROVE  left.count = Cardinality(MembersOf(m)) + n
    <2>1. ~staleDeckSave /\ d \notin appendsOverlapped
      BY <1>1, <1>8, <1>16
    <2>2. row.exists => row.count = Cardinality(MembersOf(m)) + n
      BY <1>5, <1>10, <1>11, <2>1 DEF DecksInv, CountTracksMembers
    <2>3. CASE decks' = decks
      BY <1>1, <1>5, <1>8, <1>16, <2>2, <2>3
    <2>4. CASE row = base
      BY <1>7, <1>9, <2>2, <2>4
    <2> QED
      BY <1>8, <1>16, <2>3, <2>4
  <1> QED
    BY <1>9, <1>12, <1>13, <1>14, <1>15, <1>16, CommitKept

LEMMA DeleteCheckKept ==
  ASSUME DecksInv, NEW c \in DeckCalls, DeleteCheck(c)
  PROVE  DecksInv'
  <1>1. Ready(c, "idle") /\ OnlyDeckCalls
    BY DEF DeleteCheck
  <1>2. CASE Finish(c)
    BY <1>1, <1>2, EndKept DEF Ready
  <1>3. ASSUME NEW d \in DeckIds, decks[d].exists,
               deckCall' = [deckCall EXCEPT ![c] = [DeckIdle EXCEPT !.pc = "deleting", !.deck = d]]
        PROVE  DecksInv'
    <2> DEFINE k == [DeckIdle EXCEPT !.pc = "deleting", !.deck = d]
    <2>1. k \in DeckCallStates /\ k.pc = "deleting" /\ k.deck = d
      BY IdleTyped DEF DeckCallStates
    <2>2. deckCall' = [deckCall EXCEPT ![c] = k]
      BY <1>3
    <2> HIDE DEF k
    <2> QED
      BY <1>1, <1>3, <2>1, <2>2, FindKept DEF Updates
  <1> QED
    BY <1>2, <1>3 DEF DeleteCheck, Owned

LEMMA DeleteCommitKept ==
  ASSUME DecksInv, NEW c \in DeckCalls, DeleteCommit(c)
  PROVE  DecksInv'
  <1>1. /\ Ready(c, "deleting") /\ Finish(c) /\ UNCHANGED <<words, staleDeckSave>>
        /\ decks \in [DeckIds -> DeckRows] /\ members \in [DeckIds -> Memberships]
        /\ vanished \in [DeckIds -> Nat] /\ appendsOverlapped \in SUBSET DeckIds
        /\ staleDeckSave \in BOOLEAN
    BY DEF DeleteCommit, DecksInv, DecksTypeOK
  <1>2. PICK d \in DeckIds : d = deckCall[c].deck
    BY <1>1 DEF DecksInv, CallsSound, CallSound, Ready
  <1>3. /\ decks' = [decks EXCEPT ![d] = NoDeck] /\ members' = [members EXCEPT ![d] = NoMembers]
        /\ vanished' = [vanished EXCEPT ![d] = 0] /\ Disturbs(c, d)
    BY <1>2 DEF DeleteCommit
  <1>4. NoDeck \in DeckRows /\ ~NoDeck.exists
    BY DEF NoDeck, DeckRows
  <1>5. NoMembers \in [Words -> Nat \cup {NotIn}] /\ Distinct(NoMembers)
    BY DEF NoMembers, Distinct
  <1>6. Commits(c, d, NoDeck, NoMembers, 0)
    BY <1>1, <1>2, <1>3 DEF Commits, Disturbs, Ready
  <1>7. \A w \in Words : NoMembers[w] < Room(Cardinality(DoneCalls) + 1)
    <2>1. PICK room \in Nat : Room(Cardinality(DoneCalls) + 1) = room + Cardinality(Words)
      BY DecksAssumption, FS_Subset, FS_CardinalityType, RoomGrows DEF DoneCalls
    <2>2. Cardinality(Words) \in Nat
      BY DecksAssumption, FS_CardinalityType
    <2> QED
      BY <2>1, <2>2 DEF NoMembers, NotIn
  <1> QED
    BY <1>4, <1>5, <1>6, <1>7, CommitKept

-----------------------------------------------------------------------------
(* The theorems *)

LEMMA DecksStepInv == DecksInv /\ [DecksNext]_deckVars => DecksInv'
  <1> SUFFICES ASSUME DecksInv, [DecksNext]_deckVars PROVE DecksInv'
    OBVIOUS
  <1>1. CASE UNCHANGED deckVars
    <2>1. UNCHANGED <<decks, members, words, deckCall, vanished, staleDeckSave, appendsOverlapped>>
      BY <1>1 DEF deckVars
    <2>2. DoneCalls' = DoneCalls /\ CountTracksMembers' /\ DecksTypeOK' /\ AllDistinct'
      BY <2>1 DEF DoneCalls, Ready, DecksInv, CountTracksMembers, DecksTypeOK, AllDistinct,
                  Distinct, MembersOf, NotIn
    <2>3. PositionsBounded' /\ Unborn'
      BY <2>1, <2>2 DEF DecksInv, PositionsBounded, Unborn, NoMembers, Room
    <2>4. CallsSound'
      BY <2>1, <2>2 DEF DecksInv, CallsSound, CallSound, AppendAlone, Appends, Updates, Room,
                        MembersOf, NotIn
    <2> QED
      BY <2>2, <2>3, <2>4 DEF DecksInv
  <1>2. ASSUME NEW c \in DeckCalls, AppendWords(c) PROVE DecksInv'
    BY <1>2, AppendReadKept, AppendNumberKept, AppendSelectKept, AppendCommitKept DEF AppendWords
  <1>3. ASSUME NEW c \in DeckCalls, CreateDeck(c) PROVE DecksInv'
    BY <1>3, CreateDeckKept
  <1>4. ASSUME NEW c \in DeckCalls, Clone(c) PROVE DecksInv'
    BY <1>4, CloneLoadKept, CloneCommitKept DEF Clone
  <1>5. ASSUME NEW c \in DeckCalls, RemoveMember(c) PROVE DecksInv'
    BY <1>5, RemoveCheckKept, RemoveCommitKept DEF RemoveMember
  <1>6. ASSUME NEW c \in DeckCalls, UpdateDeck(c) PROVE DecksInv'
    BY <1>6, UpdateLoadKept, UpdateSelectKept, UpdateCommitKept DEF UpdateDeck
  <1>7. ASSUME NEW c \in DeckCalls, DeleteDeck(c) PROVE DecksInv'
    BY <1>7, DeleteCheckKept, DeleteCommitKept DEF DeleteDeck
  <1>8. ASSUME NEW w \in Words, DeleteWord(w) PROVE DecksInv'
    BY <1>8, DeleteWordKept
  <1> QED
    BY <1>1, <1>2, <1>3, <1>4, <1>5, <1>6, <1>7, <1>8 DEF DecksNext

LEMMA DecksInvSafe == DecksInv => CountTracksMembers /\ PositionsDistinct
  <1> SUFFICES ASSUME DecksInv PROVE PositionsDistinct
    BY DEF DecksInv
  <1>1. \A d \in DeckIds : d \notin appendsOverlapped => Distinct(members[d])
    BY DEF DecksInv, AllDistinct
  <1> QED
    BY <1>1 DEF PositionsDistinct, Distinct, IsInjective, Restrict, MembersOf

\* deck-membership.service.ts and decks.service.ts: every state of the decks is
\* well formed, and positions stay within what the requests can have appended.
THEOREM DecksTyped == DecksSpec => []DecksTypeOK
  <1>1. DecksInv => DecksTypeOK
    BY DEF DecksInv
  <1> QED
    BY <1>1, DecksInitInv, DecksStepInv, PTL DEF DecksSpec

\* deck-membership.service.ts:97, decks.service.ts:283, 334: the count of a deck
\* is that of its members, plus those that went with a deleted word.
THEOREM CountsRight == DecksSpec => []CountTracksMembers
  BY DecksInitInv, DecksStepInv, DecksInvSafe, PTL DEF DecksSpec

\* deck-membership.service.ts:79-91: no two words of a deck have one position.
THEOREM PositionsApart == DecksSpec => []PositionsDistinct
  BY DecksInitInv, DecksStepInv, DecksInvSafe, PTL DEF DecksSpec

-----------------------------------------------------------------------------
(* Reports: sums of counts *)

\* SumOf, when each value counts the elements that have it as their key.
LEMMA SumOfCounts ==
  ASSUME NEW E, IsFiniteSet(E), NEW f, IsFiniteSet(DOMAIN f), NEW key,
         \A d \in DOMAIN f : f[d] = Cardinality({e \in E : key[e] = d})
  PROVE  SumOf(f) = Cardinality(KeyedIn(E, key, DOMAIN f))
  <1> DEFINE D == DOMAIN f
             Eq(g) == g = [s \in SUBSET D |-> IF s = {} THEN 0
                             ELSE f[CHOOSE x \in s : TRUE] + g[s \ {CHOOSE x \in s : TRUE}]]
             it == CHOOSE g : Eq(g)
             step == [p \in D \X Nat |-> f[p[1]] + p[2]]
  <1>0. \A d \in D : f[d] \in Nat
    <2> TAKE d \in D
    <2>1. {e \in E : key[e] = d} \in SUBSET E
      OBVIOUS
    <2>2. Cardinality({e \in E : key[e] = d}) \in Nat
      <3> DEFINE C == {e \in E : key[e] = d}
      <3> HIDE DEF C
      <3> QED
        BY <2>1, FS_Subset, FS_CardinalityType DEF C
    <2> QED
      BY <2>2
  <1>1. SumOf(f) = it[D]
    BY DEF SumOf, MapThenSumSet, MapThenFoldSet
  <1>2. step \in [D \X Nat -> Nat]
    BY <1>0
  <1>3. PICK pick : pick = [s \in SUBSET D |-> CHOOSE x \in s : TRUE]
    OBVIOUS
  <1>4. \A s \in SUBSET D : s # {} => pick[s] \in s
    BY <1>3
  <1>5. PICK g \in [SUBSET D -> Nat] : SolvesFold(g, D, 0, step, pick)
    <2> HIDE DEF D, step
    <2>1. IsFiniteSet(D)
      BY DEF D
    <2> QED
      BY <1>2, <1>4, <2>1, FoldExists, Zenon
  <1>6. Eq(g)
    <2>1. \A s \in SUBSET D : g[s] = IF s = {} THEN 0
                 ELSE f[CHOOSE x \in s : TRUE] + g[s \ {CHOOSE x \in s : TRUE}]
      <3> TAKE s \in SUBSET D
      <3>1. g[s] = IF s = {} THEN 0 ELSE step[<<pick[s], g[s \ {pick[s]}]>>]
        BY <1>5 DEF SolvesFold
      <3>2. pick[s] = CHOOSE x \in s : TRUE
        BY <1>3
      <3>3. CASE s = {}
        BY <3>1, <3>3
      <3>4. CASE s # {}
        <4>1. pick[s] \in D /\ g[s \ {pick[s]}] \in Nat
          BY <1>4, <3>4
        <4>2. step[<<pick[s], g[s \ {pick[s]}]>>] = f[pick[s]] + g[s \ {pick[s]}]
          BY <4>1
        <4> QED
          BY <3>1, <3>2, <3>4, <4>2
      <3> QED
        BY <3>3, <3>4
    <2> QED
      BY <2>1, Zenon
  <1>7. Eq(it)
    <2> HIDE DEF Eq
    <2> QED
      BY <1>6
  <1>8. it[{}] = 0 /\ \A s \in SUBSET D : s # {} =>
           \E x \in s : it[s] = Cardinality({e \in E : key[e] = x}) + it[s \ {x}]
    <2> HIDE DEF it
    <2>1. it[{}] = 0
      BY <1>7
    <2>2. ASSUME NEW s \in SUBSET D, s # {}
          PROVE  \E x \in s : it[s] = Cardinality({e \in E : key[e] = x}) + it[s \ {x}]
      <3>1. PICK x \in s : x = CHOOSE y \in s : TRUE
        BY <2>2
      <3>2. it[s] = f[x] + it[s \ {x}]
        BY <1>7, <2>2, <3>1
      <3>3. f[x] = Cardinality({e \in E : key[e] = x})
        OBVIOUS
      <3> QED
        BY <3>2, <3>3
    <2> QED
      BY <2>1, <2>2
  <1>9. it[D] = Cardinality(KeyedIn(E, key, D))
    <2>2. SumsUp(it, D, E, key)
      BY <1>8, Zenon DEF SumsUp
    <2> HIDE DEF it, D
    <2>1. IsFiniteSet(D)
      BY DEF D
    <2> QED
      BY <2>1, <2>2, SumOfClasses, Zenon
  <1> QED
    BY <1>1, <1>9

-----------------------------------------------------------------------------
(* The invariant of the reports *)

Events == [who: Learners, word: StudyWords \cup {"none"}, at: Nat, new: BOOLEAN]
SystemWords == {w \in StudyWords : Owner[w] = "system"}

\* The rows of words that exist.
RowsKept ==
  /\ time \in Nat /\ shelf \subseteq StudyWords /\ approved \subseteq SystemWords
  /\ progress \in [Learners -> [StudyWords -> SeenRows \cup {Unseen}]]
  /\ \A v \in Learners, w \in StudyWords : progress[v][w] # Unseen => w \in shelf

\* The log has every answer that moved a card, and the history its days.
LogKept ==
  /\ activity \in Seq(Events)
  /\ \A i \in DOMAIN activity : activity[i].at <= time /\ activity[i].word \in shelf \cup {"none"}
  /\ studied = {<<activity[i].who, DayOf(activity[i].at, Utc)>> : i \in DOMAIN activity}
  /\ \A v \in Learners, w \in StudyWords :
       progress[v][w] # Unseen /\ progress[v][w].last # Forever =>
         \E i \in DOMAIN activity : activity[i].who = v /\ activity[i].at = progress[v][w].last

ReaderStages ==
  {"idle", "counted", "due", "today", "streak", "answered", "dueRead", "picked", "filled", "suggested"}
ReaderFields == DOMAIN Reading

\* A request is of a learner and lasts a day at most.
ReaderKept ==
  /\ DOMAIN reader = ReaderFields /\ reader.pc \in ReaderStages /\ reader.disturbed \in BOOLEAN
  /\ reader.due \subseteq StudyWords /\ reader.fresh \subseteq StudyWords /\ reader.extra \subseteq StudyWords
  /\ reader.pc # "idle" =>
       /\ reader.who \in Learners /\ reader.at \in Nat
       /\ reader.at <= time /\ time - reader.at <= DayMinutes

\* An answer on the day of the request or a later one.
AnsweredLately(v, t) == \E i \in EventsOf(v) : DayOf(activity[i].at, Utc) >= DayOf(t, Utc)

\* What the queries of getStats have read is so still, unless a row has changed.
StatsKept ==
  /\ reader.pc \in {"counted", "due", "today", "streak"} /\ ~reader.disturbed =>
       reader.counts = ComputeCounts(reader.who)
  /\ reader.pc \in {"due", "today", "streak"} /\ ~reader.disturbed =>
       reader.dueNow = Cardinality(DueRows(reader.who, reader.at))
  /\ reader.pc = "today" /\ reader.today > 0 => AnsweredLately(reader.who, reader.at)
  /\ reader.pc \in {"streak", "answered"} /\ reader.today > 0 => reader.streak > 0
  /\ reader.pc = "answered" => reader.nextDue = Forever \/ reader.nextDue > reader.at
  /\ reader.pc = "answered" /\ ~reader.disturbed =>
       (reader.nextDue = Forever <=> reader.dueNow = SumOf(reader.counts))

Items(k) == k.due \cup k.fresh \cup k.extra

\* What the queries of getSuggestions have picked.
PicksKept ==
  reader.pc \in {"dueRead", "picked", "filled", "suggested"} =>
    /\ reader.due \cap reader.fresh = {} /\ (reader.due \cup reader.fresh) \cap reader.extra = {}
    /\ Cardinality(Items(reader)) <= Count
    /\ \A w \in reader.fresh \cup reader.extra : IsPracticeable(reader.who, w)
    /\ reader.pc = "dueRead" => reader.fresh = {}
    /\ reader.pc \in {"dueRead", "picked"} => reader.extra = {}
    /\ reader.pc = "dueRead" =>
         \A w \in reader.due : w \notin shelf \/ progress[reader.who][w] # Unseen
    /\ ~reader.disturbed => Items(reader) \subseteq shelf
    /\ reader.pc \in {"filled", "suggested"} /\ ~reader.disturbed /\ Cardinality(Items(reader)) < Count =>
         shelf \cap approved \subseteq Items(reader)

ReportsInv == RowsKept /\ LogKept /\ ReaderKept /\ StatsKept /\ PicksKept

-----------------------------------------------------------------------------
(* Days *)

LEMMA DayIsInt ==
  ASSUME NEW t \in Int, NEW o \in Int
  PROVE  DayOf(t, o) \in Int
  BY DEF DayOf, DayMinutes

LEMMA LaterDay ==
  ASSUME NEW t \in Int, NEW v \in Int, NEW o \in Int, t <= v
  PROVE  DayOf(t, o) <= DayOf(v, o)
  BY DEF DayOf, DayMinutes

\* Within a day the date moves by one at most.
LEMMA NextDay ==
  ASSUME NEW t \in Int, NEW v \in Int, NEW o \in Int, v - t <= DayMinutes
  PROVE  DayOf(v, o) <= DayOf(t, o) + 1
  BY DEF DayOf, DayMinutes

LEMMA DayIsNat ==
  ASSUME NEW t \in Nat
  PROVE  DayOf(t, Utc) \in Nat
  BY DEF DayOf, DayMinutes, Utc

LEMMA EventFacts ==
  ASSUME RowsKept, LogKept, NEW v
  PROVE  /\ IsFiniteSet(EventsOf(v)) /\ EventsOf(v) \subseteq DOMAIN activity
         /\ time \in Nat
         /\ \A i \in DOMAIN activity : activity[i] \in Events /\ activity[i].at \in Nat /\ activity[i].at <= time
  <1>1. activity \in Seq(Events) /\ time \in Nat /\ \A i \in DOMAIN activity : activity[i].at <= time
    BY DEF LogKept, RowsKept
  <1>2. IsFiniteSet(DOMAIN activity) /\ \A i \in DOMAIN activity : activity[i] \in Events
    BY <1>1, FS_Interval
  <1>3. EventsOf(v) \in SUBSET DOMAIN activity
    BY DEF EventsOf
  <1>4. IsFiniteSet(EventsOf(v))
    BY <1>2, <1>3, FS_Subset
  <1> QED
    BY <1>1, <1>2, <1>3, <1>4 DEF Events

-----------------------------------------------------------------------------
(* The heatmap has every answer of a year *)

LEMMA HeatmapHolds == RowsKept /\ LogKept => HeatmapComplete
  <1> SUFFICES ASSUME RowsKept, LogKept, NEW who \in Learners, NEW offset \in Offsets
      PROVE  LET days == GetActivity(who, offset)
                 recent == {i \in EventsOf(who) : DayOf(time, offset) - DayOf(activity[i].at, offset) <= 364}
             IN /\ TotalReviews(days) = Cardinality(recent)
                /\ TotalNewWords(days) = Cardinality({i \in recent : activity[i].new})
    BY DEF HeatmapComplete
  <1> DEFINE E == EventsOf(who)
             F == {i \in E : activity[i].new}
             key == [i \in E |-> DayOf(activity[i].at, offset)]
             days == GetActivity(who, offset)
             shown == {DayOf(activity[i].at, offset) : i \in E} \cap DefaultRange(offset)
             recent == {i \in E : DayOf(time, offset) - DayOf(activity[i].at, offset) <= 364}
  <1>1. offset \in Int
    BY ReportsAssumption DEF ReportsAssumption
  <1>2. IsFiniteSet(E) /\ IsFiniteSet(F)
    <2>1. F \in SUBSET E
      OBVIOUS
    <2> QED
      BY <2>1, EventFacts, FS_Subset
  <1>3. DOMAIN days = shown
    BY DEF GetActivity
  <1>4. \A d \in shown : /\ days[d].reviews = Cardinality({i \in E : DayOf(activity[i].at, offset) = d})
                         /\ days[d].newWords = Cardinality({i \in E : DayOf(activity[i].at, offset) = d /\ activity[i].new})
    BY DEF GetActivity
  <1>5. DayOf(time, offset) \in Int /\ \A i \in E : /\ DayOf(activity[i].at, offset) \in Int
                                                /\ DayOf(activity[i].at, offset) <= DayOf(time, offset)
    <2>1. time \in Int /\ \A i \in E : activity[i].at \in Int /\ activity[i].at <= time
      BY EventFacts
    <2> QED
      BY <1>1, <2>1, DayIsInt, LaterDay
  <1>6. IsFiniteSet(shown)
    <2>1. shown \in SUBSET DefaultRange(offset)
      OBVIOUS
    <2>2. DayOf(time, offset) - 364 \in Int
      BY <1>5
    <2>3. IsFiniteSet(DefaultRange(offset))
      BY <1>5, <2>2, FS_Interval DEF DefaultRange
    <2> QED
      BY <2>1, <2>3, FS_Subset
  <1>7. \A i \in E : key[i] \in shown <=> i \in recent
    <2> TAKE i \in E
    <2>1. PICK d \in Int : d = DayOf(activity[i].at, offset)
      BY <1>5
    <2>2. PICK today \in Int : today = DayOf(time, offset)
      BY <1>5
    <2>3. d <= today
      BY <1>5, <2>1, <2>2
    <2>4. d \in (today - 364)..today <=> today - d <= 364
      BY ONLY <2>3, today \in Int, d \in Int
    <2>5. key[i] = d /\ (d \in shown <=> d \in (today - 364)..today)
      BY <2>1, <2>2 DEF DefaultRange
    <2> QED
      BY <2>1, <2>2, <2>4, <2>5
  <1>8. KeyedIn(E, key, shown) = recent /\ KeyedIn(F, key, shown) = {i \in recent : activity[i].new}
    BY <1>7 DEF KeyedIn
  <1>9. TotalReviews(days) = Cardinality(recent)
    <2>1. PICK f : f = [d \in shown |-> days[d].reviews]
      OBVIOUS
    <2>2. TotalReviews(days) = SumOf(f)
      BY <1>3, <2>1 DEF TotalReviews
    <2>3. \A d \in DOMAIN f : f[d] = Cardinality({i \in E : key[i] = d})
      <3> TAKE d \in DOMAIN f
      <3>1. {i \in E : key[i] = d} = {i \in E : DayOf(activity[i].at, offset) = d}
        OBVIOUS
      <3> QED
        BY <1>4, <2>1, <3>1
    <2> HIDE DEF E, key, shown, days, recent
    <2>4. DOMAIN f = shown
      BY <2>1
    <2>5. SumOf(f) = Cardinality(KeyedIn(E, key, DOMAIN f))
      BY <1>2, <1>6, <2>3, <2>4, SumOfCounts, Zenon
    <2> QED
      BY <1>8, <2>2, <2>4, <2>5
  <1>10. TotalNewWords(days) = Cardinality({i \in recent : activity[i].new})
    <2>1. PICK f : f = [d \in shown |-> days[d].newWords]
      OBVIOUS
    <2>2. TotalNewWords(days) = SumOf(f)
      BY <1>3, <2>1 DEF TotalNewWords
    <2>3. \A d \in DOMAIN f : f[d] = Cardinality({i \in F : key[i] = d})
      <3> TAKE d \in DOMAIN f
      <3>1. {i \in F : key[i] = d} = {i \in E : DayOf(activity[i].at, offset) = d /\ activity[i].new}
        OBVIOUS
      <3> QED
        BY <1>4, <2>1, <3>1
    <2>4. DOMAIN f = shown
      BY <2>1
    <2> HIDE DEF E, F, key, shown, days, recent
    <2>5. SumOf(f) = Cardinality(KeyedIn(F, key, DOMAIN f))
      BY <1>2, <1>6, <2>3, <2>4, SumOfCounts, Zenon
    <2> QED
      BY <1>8, <2>2, <2>4, <2>5
  <1> QED
    BY <1>9, <1>10

\* The counts of getStats add up to the learner's rows.
LEMMA CountsAddUp ==
  ASSUME RowsKept, NEW who \in Learners
  PROVE  SumOf(ComputeCounts(who)) = Cardinality(RowsOf(who)) /\ IsFiniteSet(RowsOf(who))
  <1> DEFINE E == RowsOf(who)
             key == [w \in E |-> progress[who][w].status]
             D == {"new", "learning", "review", "mastered"}
  <1>1. IsFiniteSet(E)
    <2>1. E \in SUBSET StudyWords /\ IsFiniteSet(StudyWords)
      BY ReportsAssumption DEF ReportsAssumption, RowsOf
    <2> QED
      BY <2>1, FS_Subset
  <1>2. \A w \in E : key[w] \in D
    BY DEF RowsOf, RowsKept, SeenRows
  <1>3. IsFiniteSet(D)
    <2>1. IsFiniteSet({"new"}) /\ IsFiniteSet({"learning"}) /\ IsFiniteSet({"review"}) /\ IsFiniteSet({"mastered"})
      BY FS_Singleton
    <2>2. IsFiniteSet({"new"} \cup {"learning"}) /\ IsFiniteSet({"review"} \cup {"mastered"})
      BY <2>1, FS_Union
    <2>3. IsFiniteSet(({"new"} \cup {"learning"}) \cup ({"review"} \cup {"mastered"}))
      BY <2>2, FS_Union
    <2>4. D = ({"new"} \cup {"learning"}) \cup ({"review"} \cup {"mastered"})
      OBVIOUS
    <2> QED
      BY <2>3, <2>4
  <1>4. PICK f : f = ComputeCounts(who)
    OBVIOUS
  <1>5. DOMAIN f = D /\ \A d \in D : f[d] = Cardinality({w \in RowsOf(who) : progress[who][w].status = d})
    BY <1>4 DEF ComputeCounts
  <1>6. \A d \in DOMAIN f : f[d] = Cardinality({w \in E : key[w] = d})
    <2> TAKE d \in DOMAIN f
    <2>1. {w \in E : key[w] = d} = {w \in RowsOf(who) : progress[who][w].status = d}
      OBVIOUS
    <2> QED
      BY <1>5, <2>1
  <1>7. KeyedIn(E, key, D) = E
    BY <1>2 DEF KeyedIn
  <1> HIDE DEF E, key, D
  <1>8. SumOf(f) = Cardinality(KeyedIn(E, key, DOMAIN f))
    BY <1>1, <1>3, <1>5, <1>6, SumOfCounts, Zenon
  <1> QED
    BY <1>1, <1>4, <1>5, <1>7, <1>8 DEF E

-----------------------------------------------------------------------------
(* The streak is the run of lit days *)

DaysOf(v) == {DayOf(activity[i].at, Utc) : i \in EventsOf(v)}

StreakStates == [streak: Nat, cursor: Int]
\* The body of the loop in computeStreak.
StreakStep(acc, d) == IF d = acc.cursor THEN [streak |-> acc.streak + 1, cursor |-> d - 1] ELSE acc

\* g is what the loop has after each date.
StreakRun(g, dates) ==
  /\ g \in [0..Len(dates) -> StreakStates] /\ g[0] = [streak |-> 0, cursor |-> dates[1]]
  /\ \A k \in 1..Len(dates) : g[k] = StreakStep(g[k - 1], dates[k])

LEMMA StreakMoves ==
  ASSUME NEW acc \in StreakStates, NEW d \in Int
  PROVE  StreakStep(acc, d) \in StreakStates
  <1>1. PICK n \in Nat, m \in Int : acc = [streak |-> n, cursor |-> m]
    BY DEF StreakStates
  <1>2. PICK more \in Nat : more = n + 1
    OBVIOUS
  <1>3. PICK less \in Int : less = d - 1
    OBVIOUS
  <1>4. CASE d = m
    <2>1. StreakStep(acc, d) = [streak |-> more, cursor |-> less]
      BY <1>1, <1>2, <1>3, <1>4 DEF StreakStep
    <2> QED
      BY <2>1 DEF StreakStates
  <1>5. CASE d # m
    BY <1>1, <1>5 DEF StreakStep
  <1> QED
    BY <1>4, <1>5

\* The dates of a learner, the latest first, and the loop over them.
StreakLoop(dates, streak, g) ==
  /\ StreakRun(g, dates) /\ streak = g[Len(dates)].streak

LEMMA StreakLoops ==
  ASSUME NEW who, NEW dates, dates = Descending(DaysOf(who)), dates \in Seq(Int), dates # <<>>,
         dates[1] \in {DayOf(time, Utc), DayOf(time, Utc) - 1}
  PROVE  \E g : StreakLoop(dates, ComputeStreak(who), g)
  <1> DEFINE n == Len(dates)
             base == [streak |-> 0, cursor |-> dates[1]]
             step == [p \in (1..n) \X StreakStates |-> StreakStep(p[2], dates[p[1]])]
             Eq(f) == f = [s \in SUBSET DOMAIN dates |->
                             IF s = {} THEN base ELSE StreakStep(f[s \ {Max(s)}], dates[Max(s)])]
             it == CHOOSE f : Eq(f)
  <1>0. n \in Nat /\ DOMAIN dates = 1..n /\ IsFiniteSet(1..n) /\ n >= 1 /\ \A i \in 1..n : dates[i] \in Int
    BY FS_Interval
  <1>1. step \in [(1..n) \X StreakStates -> StreakStates]
    BY <1>0, StreakMoves
  <1>2. \A s \in SUBSET (1..n) : s # {} => Max(s) \in s
    <2> TAKE s \in SUBSET (1..n)
    <2>1. s \in SUBSET Int
      BY <1>0
    <2>2. IsFiniteSet(s)
      BY <1>0, FS_Subset, Zenon
    <2> QED
      BY <2>1, <2>2, GreatestOf, Zenon
  <1>3. ComputeStreak(who) = it[DOMAIN dates].streak
    <2>1. dates = Ranked({DayOf(activity[i].at, Utc) : i \in EventsOf(who)}, >)
      BY DEF Descending, DaysOf, Ranked
    <2>2. ComputeStreak(who) =
            FoldLeft(LAMBDA acc, d : IF d = acc.cursor THEN [streak |-> acc.streak + 1, cursor |-> d - 1] ELSE acc,
                     base, dates).streak
      BY <2>1 DEF ComputeStreak
    <2>3. FoldLeft(LAMBDA acc, d : IF d = acc.cursor THEN [streak |-> acc.streak + 1, cursor |-> d - 1] ELSE acc,
                     base, dates) = it[DOMAIN dates]
      BY DEF FoldLeft, MapThenFoldSet, StreakStep
    <2> QED
      BY <2>2, <2>3
  <1>4. PICK f \in [SUBSET (1..n) -> StreakStates] : SolvesMaxFold(f, n, base, step)
    <2>1. base \in StreakStates
      <3>1. PICK first \in Int : first = dates[1]
        BY <1>0
      <3>2. base = [streak |-> 0, cursor |-> first]
        BY <3>1
      <3> HIDE DEF base
      <3> QED
        BY <3>2 DEF StreakStates
    <2> HIDE DEF n, step, base
    <2> QED
      BY <1>0, <1>1, <2>1, FoldOfPrefixes, Zenon
  <1>5. Eq(f)
    <2>1. \A s \in SUBSET (1..n) : s # {} => step[<<Max(s), f[s \ {Max(s)}]>>] = StreakStep(f[s \ {Max(s)}], dates[Max(s)])
      <3> TAKE s \in SUBSET (1..n)
      <3> HAVE s # {}
      <3>1. Max(s) \in 1..n /\ f[s \ {Max(s)}] \in StreakStates
        BY <1>2
      <3> QED
        BY <3>1
    <2>2. \A s \in SUBSET (1..n) : f[s] = IF s = {} THEN base ELSE StreakStep(f[s \ {Max(s)}], dates[Max(s)])
      <3> HIDE DEF n, step, base
      <3> TAKE s \in SUBSET (1..n)
      <3>1. f[s] = IF s = {} THEN base ELSE step[<<Max(s), f[s \ {Max(s)}]>>]
        BY <1>4, Zenon DEF SolvesMaxFold
      <3> QED
        BY <3>1, <2>1, Zenon
    <2> QED
      BY <1>0, <2>2, Zenon
  <1>6. Eq(it)
    <2> HIDE DEF Eq
    <2> QED
      BY <1>5
  <1>7. it[{}] = base /\ \A s \in SUBSET (1..n) : s # {} => it[s] = StreakStep(it[s \ {Max(s)}], dates[Max(s)])
    <2> HIDE DEF it, base
    <2> QED
      BY <1>0, <1>6, Zenon
  <1>8. \A k \in 1..n : it[1..(k - 1)] \in StreakStates => it[1..k] = step[<<k, it[1..(k - 1)]>>]
    <2> TAKE k \in 1..n
    <2> HAVE it[1..(k - 1)] \in StreakStates
    <2>1. k \in Nat /\ k >= 1 /\ 1..k \in SUBSET (1..n) /\ 1..k # {}
      <3> HIDE DEF n
      <3>1. n \in Nat
        BY <1>0
      <3>2. k \in Nat /\ k >= 1 /\ k <= n
        BY ONLY k \in 1..n, <3>1
      <3> QED
        BY ONLY <3>1, <3>2
    <2>2. Max(1..k) = k /\ (1..k) \ {k} = 1..(k - 1)
      BY <2>1, MaxOfPrefix, Zenon
    <2>3. it[1..k] = StreakStep(it[1..(k - 1)], dates[k])
      <3> HIDE DEF it, n, base
      <3> QED
        BY <2>1, <2>2, <1>7, Zenon
    <2>4. <<k, it[1..(k - 1)]>> \in (1..n) \X StreakStates
      <3> HIDE DEF it, n
      <3> QED
        BY Zenon
    <2> HIDE DEF it, n
    <2> QED
      BY <2>3, <2>4
  <1>9. PICK g \in [0..n -> StreakStates] : RunsAlong(g, it, n, step)
    <2>1. base \in StreakStates
      <3>1. PICK first \in Int : first = dates[1]
        BY <1>0
      <3>2. base = [streak |-> 0, cursor |-> first]
        BY <3>1
      <3> HIDE DEF base
      <3> QED
        BY <3>2 DEF StreakStates
    <2>2. GoesOn(it, n, StreakStates, step)
      <3> HIDE DEF it, n, step
      <3> QED
        BY <1>8, Zenon DEF GoesOn
    <2> HIDE DEF it, n, step, base
    <2> QED
      BY <1>0, <1>1, <1>7, <2>1, <2>2, RunExists, Zenon
  <1>10. \A k \in 1..n : g[k] = StreakStep(g[k - 1], dates[k])
    <2> TAKE k \in 1..n
    <2>1. k - 1 \in 0..n
      BY <1>0
    <2>2. g[k - 1] \in StreakStates
      BY <2>1
    <2>3. g[k] = step[<<k, g[k - 1]>>]
      <3> HIDE DEF it, n, step
      <3> QED
        BY <1>9, Zenon DEF RunsAlong
    <2> HIDE DEF it, n
    <2> QED
      BY <2>2, <2>3
  <1>11. g[0] = base /\ g[n] = it[DOMAIN dates]
    <2> HIDE DEF it, n, step, base
    <2> QED
      BY <1>0, <1>7, <1>9, Zenon DEF RunsAlong
  <1> QED
    <2> HIDE DEF it
    <2> QED
      BY <1>3, <1>10, <1>11, Zenon DEF StreakRun, StreakLoop

\* r days up to m, and not the one before them.
RunOfDays(S, m, r) ==
  /\ m \in S /\ \A x \in S : x <= m
  /\ r \in Nat /\ m - r \notin S /\ \A k \in Nat : k < r => m - k \in S

\* The loop counts the run of days that ends with the latest.
LEMMA StreakLength ==
  ASSUME NEW S \in SUBSET Int, IsFiniteSet(S), NEW dates, Descends(dates, S), NEW g, StreakRun(g, dates),
         NEW m \in Int, NEW r, RunOfDays(S, m, r)
  PROVE  g[Len(dates)].streak = r
  <1> DEFINE n == Cardinality(S)
  <1>0. n \in Nat
    BY FS_CardinalityType
  <1>1. /\ dates \in [1..n -> S]
        /\ \A x \in S : \E i \in 1..n : dates[i] = x
        /\ \A i, j \in 1..n : i < j <=> dates[i] > dates[j]
    BY ONLY Descends(dates, S), Zenon DEF Descends
  <1>2. /\ m \in S /\ (\A x \in S : x <= m) /\ r \in Nat /\ m - r \notin S
        /\ \A k \in Nat : k < r => m - k \in S
    BY ONLY RunOfDays(S, m, r), Zenon DEF RunOfDays
  <1> HIDE DEF n
  <1>3. Len(dates) = n /\ \A i \in 1..n : dates[i] \in S /\ dates[i] \in Int
    <2>1. dates \in [1..n -> S]
      BY <1>1
    <2>2. dates \in Seq(S) /\ DOMAIN dates = 1..n
      BY <1>0, <2>1
    <2>3. Len(dates) = n
      BY <1>0, <2>2
    <2> QED
      BY <2>1, <2>3
  <1>4. n >= 1 /\ r >= 1
    <2>1. \E i \in 1..n : dates[i] = m
      BY <1>1, <1>2
    <2>2. r # 0
      BY <1>2
    <2> QED
      BY ONLY <1>0, <1>2, <2>1, <2>2
  <1>5. /\ g[0] = [streak |-> 0, cursor |-> dates[1]]
        /\ \A k \in 1..n : g[k] = StreakStep(g[k - 1], dates[k])
    BY ONLY <1>3, StreakRun(g, dates) DEF StreakRun
  \* The k-th latest day, when the k latest follow each other.
  <1> DEFINE T == {k \in Nat : k + 1 <= n /\ k < r => dates[k + 1] = m - k}
  <1>6. ASSUME NEW i \in 1..n PROVE dates[i] \in Int /\ dates[i] <= m
    BY <1>2, <1>3
  <1>7. 0 \in T
    <2>1. PICK i \in 1..n : dates[i] = m
      BY <1>1, <1>2
    <2>2. 1 \in 1..n
      BY <1>0, <1>4
    <2>3. i = 1 \/ 1 < i
      BY ONLY i \in 1..n, <1>0
    <2>4. dates[1] = m
      BY <1>1, <1>6, <2>1, <2>2, <2>3
    <2>5. 0 + 1 = 1 /\ m - 0 = m
      OBVIOUS
    <2> QED
      BY <2>4, <2>5
  <1>8. \A k \in Nat : k \in T => k + 1 \in T
    <2> TAKE k \in Nat
    <2> HAVE k \in T
    <2> SUFFICES ASSUME (k + 1) + 1 <= n, k + 1 < r PROVE dates[(k + 1) + 1] = m - (k + 1)
      OBVIOUS
    <2>1. dates[k + 1] = m - k
      BY <1>0, <1>2
    <2>2. PICK j \in 1..n : dates[j] = m - (k + 1)
      <3>1. k + 1 \in Nat
        OBVIOUS
      <3>2. m - (k + 1) \in S
        BY <1>2, <3>1
      <3> QED
        BY <1>1, <3>2
    <2>3. PICK p \in 1..n : p = k + 1
      BY <1>0
    <2>4. PICK q \in 1..n : q = (k + 1) + 1
      BY <1>0
    <2>5. p < q /\ p \in Int /\ q \in Int /\ j \in Int /\ q = p + 1
      BY ONLY <2>3, <2>4, k \in Nat, n \in Nat, p \in 1..n, q \in 1..n, j \in 1..n, <1>0
    <2>6. dates[p] = m - k /\ dates[p] > dates[j]
      BY <1>2, <2>1, <2>2, <2>3
    <2>7. p < j
      BY <1>1, <2>6
    <2>8. dates[p] > dates[q]
      BY <1>1, <2>5
    <2>9. j = q \/ q < j
      BY ONLY <2>5, <2>7
    <2>10. q < j => dates[q] > dates[j]
      BY <1>1
    <2>11. dates[q] \in Int /\ dates[j] \in Int
      BY <1>6
    <2>12. ~(q < j)
      BY ONLY <2>2, <2>6, <2>8, <2>10, <2>11, m \in Int, k \in Nat
    <2> QED
      BY <2>2, <2>4, <2>9, <2>12
  <1>9. Nat \subseteq T
    <2> HIDE DEF T
    <2> QED
      BY <1>7, <1>8, Induct
  <1>10. r <= n
    <2> SUFFICES ASSUME n < r PROVE FALSE
      BY <1>0, <1>2
    <2>1. PICK j \in 1..n : dates[j] = m - n
      BY <1>0, <1>1, <1>2
    <2>2. PICK k \in Nat : k = j - 1 /\ k + 1 = j
      BY <1>0
    <2>3. dates[k + 1] = m - k
      <3>1. k + 1 <= n /\ k < r
        BY <1>0, <1>2, <2>2
      <3> QED
        BY <1>9, <3>1
    <2> QED
      BY ONLY <1>0, <2>1, <2>2, <2>3, m \in Int, j \in 1..n
  <1> DEFINE Got(k) == IF k <= r THEN k ELSE r
             V == {k \in Nat : k <= n => g[k] = [streak |-> Got(k), cursor |-> m - Got(k)]}
  <1>11. 0 \in V
    <2>1. dates[1] = m
      <3>1. 0 + 1 <= n /\ 0 < r /\ 0 + 1 = 1 /\ m - 0 = m
        BY ONLY <1>0, <1>2, <1>4, m \in Int
      <3> QED
        BY <1>9, <3>1
    <2>2. Got(0) = 0 /\ m - Got(0) = m
      BY <1>2
    <2> QED
      BY <1>5, <2>1, <2>2
  <1>12. \A k \in Nat : k \in V => k + 1 \in V
    <2> TAKE k \in Nat
    <2> HAVE k \in V
    <2> SUFFICES ASSUME k + 1 <= n PROVE g[k + 1] = [streak |-> Got(k + 1), cursor |-> m - Got(k + 1)]
      OBVIOUS
    <2>1. (k + 1) - 1 = k /\ k + 1 \in 1..n /\ k <= n
      BY <1>0
    <2>2. PICK had : had = Got(k)
      OBVIOUS
    <2>3. g[k] = [streak |-> had, cursor |-> m - had] /\ g[k + 1] = StreakStep(g[k], dates[k + 1])
      BY <1>5, <2>1, <2>2
    <2>4. CASE k < r
      <3>1. Got(k) = k /\ Got(k + 1) = k + 1 /\ m - (k + 1) = (m - k) - 1
        BY ONLY <1>2, <2>4, k \in Nat, m \in Int
      <3>2. dates[k + 1] = m - k
        BY <1>9, <2>1, <2>4
      <3>3. PICK more, less : more = k + 1 /\ less = (m - k) - 1
        OBVIOUS
      <3>4. PICK day : day = m - k
        OBVIOUS
      <3>5. g[k] = [streak |-> k, cursor |-> day] /\ g[k + 1] = StreakStep(g[k], day)
        BY <2>2, <2>3, <3>1, <3>2, <3>4
      <3>6. g[k + 1] = [streak |-> more, cursor |-> less]
        BY <3>3, <3>4, <3>5 DEF StreakStep
      <3>7. Got(k + 1) = more /\ m - Got(k + 1) = less
        BY <3>1, <3>3
      <3> QED
        BY <3>6, <3>7
    <2>5. CASE ~(k < r)
      <3>1. Got(k) = r /\ Got(k + 1) = r
        BY ONLY <1>2, <2>5, k \in Nat
      <3>2. dates[k + 1] # m - r
        BY <1>2, <1>3, <2>1
      <3>3. g[k + 1] = g[k]
        BY <2>2, <2>3, <3>1, <3>2 DEF StreakStep
      <3> QED
        BY <2>2, <2>3, <3>1, <3>3
    <2> QED
      BY <2>4, <2>5
  <1>13. Nat \subseteq V
    <2> HIDE DEF V
    <2> QED
      BY <1>11, <1>12, Induct
  <1>14. g[n] = [streak |-> Got(n), cursor |-> m - Got(n)]
    BY <1>0, <1>13
  <1>15. Got(n) = r
    BY ONLY <1>0, <1>2, <1>10
  <1> QED
    BY <1>3, <1>14, <1>15

\* What computeStreak returns for the days S and today's date.
StreakOf(S, today, streak) ==
  /\ (S = {} \/ Max(S) \notin {today, today - 1}) => streak = 0
  /\ S # {} /\ Max(S) \in {today, today - 1} =>
       streak \in Nat /\ streak >= 1 /\ RunOfDays(S, Max(S), streak)

LEMMA DaysAreFinite ==
  ASSUME RowsKept, LogKept, NEW v
  PROVE  DaysOf(v) \in SUBSET Nat /\ IsFiniteSet(DaysOf(v))
         /\ \A d \in DaysOf(v) : d <= DayOf(time, Utc)
  <1> DEFINE E == EventsOf(v)
             f == [i \in E |-> DayOf(activity[i].at, Utc)]
  <1>1. IsFiniteSet(E) /\ time \in Nat /\ \A i \in E : activity[i].at \in Nat /\ activity[i].at <= time
    BY EventFacts
  <1>2. \A i \in E : /\ DayOf(activity[i].at, Utc) \in Nat
                   /\ DayOf(activity[i].at, Utc) <= DayOf(time, Utc)
    <2>1. Utc \in Int
      BY DEF Utc
    <2> QED
      BY <1>1, <2>1, DayIsNat, LaterDay
  <1>3. f \in Surjection(E, DaysOf(v))
    BY DEF Surjection, DaysOf
  <1>4. IsFiniteSet(DaysOf(v))
    <2> HIDE DEF E, f
    <2> QED
      BY <1>1, <1>3, FS_Surjection, Zenon
  <1> QED
    BY <1>2, <1>4 DEF DaysOf

\* A finite run of days that ends with m has a length.
LEMMA RunHasLength ==
  ASSUME NEW S \in SUBSET Nat, NEW m \in S, \A x \in S : x <= m
  PROVE  \E r \in Nat : r >= 1 /\ RunOfDays(S, m, r)
  <1> DEFINE T == {k \in Nat : m - k \notin S}
  <1>1. m \in Nat /\ m + 1 \in T
    BY SMT
  <1>2. PICK r \in T : \A k \in T : r <= k
    <2> HIDE DEF T
    <2>1. T \in SUBSET Nat
      BY DEF T
    <2>2. T # {}
      BY <1>1
    <2> QED
      BY <2>1, <2>2, LeastNatural
  <1>3. r \in Nat /\ m - r \notin S
    OBVIOUS
  <1>4. r # 0
    <2> SUFFICES ASSUME r = 0 PROVE FALSE
      OBVIOUS
    <2>1. m - r = m
      BY <1>1
    <2> QED
      BY <1>3, <2>1
  <1>5. \A k \in Nat : k < r => m - k \in S
    <2> TAKE k \in Nat
    <2> HAVE k < r
    <2>1. ~(r <= k)
      BY <1>3
    <2> QED
      BY <1>2, <2>1
  <1> QED
    BY <1>3, <1>4, <1>5 DEF RunOfDays

LEMMA StreakValue ==
  ASSUME RowsKept, LogKept, NEW v
  PROVE  StreakOf(DaysOf(v), DayOf(time, Utc), ComputeStreak(v))
  <1> DEFINE S == DaysOf(v)
             today == DayOf(time, Utc)
             dates == Descending(S)
  <1>1. S \in SUBSET Nat /\ S \in SUBSET Int /\ IsFiniteSet(S) /\ Cardinality(S) \in Nat
    BY DaysAreFinite, FS_CardinalityType
  <1>2. dates = Ranked({DayOf(activity[i].at, Utc) : i \in EventsOf(v)}, >)
    BY DEF Descending, DaysOf, Ranked
  <1>3. Descends(dates, S)
    <2> HIDE DEF S, dates
    <2>1. dates = Descending(S)
      BY DEF dates
    <2> QED
      BY <1>1, <2>1, DescendingList, Zenon
  <1>4. dates \in [1..Cardinality(S) -> S] /\ \A x \in S : \E i \in 1..Cardinality(S) : dates[i] = x
    <2> HIDE DEF S, dates
    <2> QED
      BY <1>3, Zenon DEF Descends
  <1>4a. \A i, j \in 1..Cardinality(S) : i < j <=> dates[i] > dates[j]
    <2> HIDE DEF S, dates
    <2> QED
      BY <1>3, Zenon DEF Descends
  <1>5. ComputeStreak(v) = 0 \/ (dates # <<>> /\ dates[1] \in {today, today - 1})
    BY <1>2 DEF ComputeStreak
  <1>6. dates = <<>> \/ dates[1] \notin {today, today - 1} => ComputeStreak(v) = 0
    BY <1>2 DEF ComputeStreak
  <1>7. CASE S = {}
    <2>1. Cardinality(S) = 0
      BY <1>7, FS_EmptySet
    <2>2. dates = <<>>
      <3> HIDE DEF S, dates
      <3> QED
        BY <1>4, <2>1
    <2> QED
      BY <1>6, <1>7, <2>2 DEF StreakOf
  <1>8. CASE S # {}
    <2>1. Max(S) \in S /\ \A x \in S : x <= Max(S)
      <3> HIDE DEF S
      <3> QED
        BY <1>1, <1>8, GreatestOf, Zenon
    <2> DEFINE n == Cardinality(S)
    <2>2. n \in Nat /\ n >= 1
      <3> HIDE DEF S
      <3>1. n # 0
        BY <1>1, <1>8, FS_EmptySet
      <3> QED
        BY <1>1, <3>1
    <2> HIDE DEF S, dates, n, today
    <2>3. dates \in [1..n -> S] /\ \A i \in 1..n : dates[i] \in Int
      BY <1>1, <1>4 DEF n
    <2>4. dates \in Seq(Int) /\ DOMAIN dates = 1..n /\ dates # <<>>
      BY <2>2, <2>3
    <2>5. dates[1] = Max(S)
      <3>1. PICK i \in 1..n : dates[i] = Max(S)
        BY <1>4, <2>1 DEF n
      <3>2. 1 \in 1..n /\ dates[1] \in S /\ dates[1] \in Int
        BY <2>2, <2>3
      <3>3. dates[1] <= Max(S) /\ Max(S) \in Int
        BY <1>1, <2>1, <3>2
      <3>4. 1 < i => dates[1] > dates[i]
        BY <1>4a, <3>2 DEF n
      <3>5. i = 1 \/ 1 < i
        BY ONLY <2>2, i \in 1..n
      <3> QED
        BY <3>1, <3>2, <3>3, <3>4, <3>5
    <2>6. CASE Max(S) \notin {today, today - 1}
      <3>1. ComputeStreak(v) = 0
        BY <1>6, <2>5, <2>6
      <3> QED
        BY <2>6, <3>1 DEF StreakOf, S, today
    <2>7. CASE Max(S) \in {today, today - 1}
      <3>1. PICK r \in Nat : r >= 1 /\ RunOfDays(S, Max(S), r)
        BY <1>1, <2>1, RunHasLength, Zenon
      <3>2. PICK g : StreakLoop(dates, ComputeStreak(v), g)
        <4>1. dates[1] \in {DayOf(time, Utc), DayOf(time, Utc) - 1}
          BY <2>5, <2>7 DEF today
        <4>2. dates = Descending(DaysOf(v))
          BY DEF dates, S
        <4> QED
          BY <2>4, <4>1, <4>2, StreakLoops, Zenon
      <3>3. StreakRun(g, dates) /\ ComputeStreak(v) = g[Len(dates)].streak
        BY <3>2, Zenon DEF StreakLoop
      <3>4. Max(S) \in Int
        BY <1>1, <2>1
      <3>5. g[Len(dates)].streak = r
        BY <1>1, <1>3, <3>1, <3>3, <3>4, StreakLength, Zenon
      <3>6. ComputeStreak(v) = r
        BY <3>3, <3>5
      <3> QED
        BY <1>8, <2>7, <3>1, <3>6 DEF StreakOf, S, today
    <2> QED
      BY <2>6, <2>7
  <1> QED
    BY <1>7, <1>8

\* The days of a run are the numbers between its ends.
LEMMA RunOfDaysIs ==
  ASSUME NEW S \in SUBSET Nat, NEW m \in S, NEW r \in Nat, r >= 1, RunOfDays(S, m, r)
  PROVE  Cardinality({d \in S : d..m \subseteq S}) = r
  <1>1. /\ \A x \in S : x <= m
        /\ m - r \notin S /\ \A k \in Nat : k < r => m - k \in S
    BY DEF RunOfDays
  <1>2. m \in Nat /\ \A x \in S : x \in Nat
    OBVIOUS
  <1>3. PICK first \in Int : first = m - r + 1
    BY <1>2
  <1>4. \A d \in first..m : d \in S
    <2> TAKE d \in first..m
    <2>1. PICK k \in Nat : k = m - d /\ k < r /\ m - k = d
      BY ONLY <1>2, <1>3, d \in first..m, r \in Nat, first \in Int
    <2> QED
      BY <1>1, <2>1
  <1>5. \A d \in S : d..m \subseteq S => d \in first..m
    <2> TAKE d \in S
    <2> HAVE d..m \subseteq S
    <2>1. d \in Nat /\ d <= m
      BY <1>1, <1>2
    <2>2. m - r \notin d..m
      BY <1>1
    <2>3. m - r <= m
      BY <1>2
    <2>4. ~(d <= m - r)
      BY ONLY <1>2, <2>1, <2>2, <2>3, r \in Nat
    <2> QED
      BY ONLY <1>2, <1>3, <2>1, <2>4, r \in Nat, first \in Int
  <1>6. \A d \in first..m : d..m \subseteq first..m
    BY ONLY <1>2, first \in Int
  <1>7. {d \in S : d..m \subseteq S} = first..m
    BY <1>4, <1>5, <1>6
  <1>8. Cardinality(first..m) = IF first > m THEN 0 ELSE m - first + 1
    BY <1>2, FS_Interval
  <1>9. ~(first > m) /\ m - first + 1 = r
    BY ONLY <1>2, <1>3, r \in Nat, r >= 1, first \in Int
  <1> QED
    BY <1>7, <1>8, <1>9

LEMMA StreakHolds == RowsKept /\ LogKept => StreakIsLit
  <1> SUFFICES ASSUME RowsKept, LogKept, NEW who \in Learners
      PROVE  LET lit == {answer[2] : answer \in {s \in studied : s[1] = who}}
                 run == {d \in lit : d..Max(lit) \subseteq lit}
             IN /\ DOMAIN GetActivity(who, Utc) = lit \cap DefaultRange(Utc)
                /\ ComputeStreak(who) =
                     IF lit = {} THEN 0 ELSE IF Max(lit) < DayOf(time, Utc) - 1 THEN 0 ELSE Cardinality(run)
    BY DEF StreakIsLit
  <1> DEFINE lit == {answer[2] : answer \in {s \in studied : s[1] = who}}
             today == DayOf(time, Utc)
  <1>1. lit = DaysOf(who)
    <2>1. studied = {<<activity[i].who, DayOf(activity[i].at, Utc)>> : i \in DOMAIN activity}
      BY DEF LogKept
    <2>2. ASSUME NEW d \in lit PROVE d \in DaysOf(who)
      <3>1. PICK s \in studied : s[1] = who /\ s[2] = d
        OBVIOUS
      <3>2. PICK i \in DOMAIN activity : s = <<activity[i].who, DayOf(activity[i].at, Utc)>>
        BY <2>1
      <3> QED
        BY <3>1, <3>2 DEF DaysOf, EventsOf
    <2>3. ASSUME NEW d \in DaysOf(who) PROVE d \in lit
      <3>1. PICK i \in EventsOf(who) : d = DayOf(activity[i].at, Utc)
        BY DEF DaysOf
      <3>2. i \in DOMAIN activity /\ activity[i].who = who
        BY DEF EventsOf
      <3>3. <<who, d>> \in studied
        BY <2>1, <3>1, <3>2
      <3>4. PICK s \in studied : s = <<who, d>>
        BY <3>3
      <3>5. s[1] = who /\ s[2] = d
        BY <3>4
      <3> QED
        BY <3>5
    <2> QED
      BY <2>2, <2>3
  <1>2. DOMAIN GetActivity(who, Utc) = lit \cap DefaultRange(Utc)
    <2>1. DOMAIN GetActivity(who, Utc) = DaysOf(who) \cap DefaultRange(Utc)
      BY DEF GetActivity, DaysOf
    <2> QED
      BY <1>1, <2>1
  <1> SUFFICES ComputeStreak(who) = IF lit = {} THEN 0 ELSE IF Max(lit) < today - 1 THEN 0
                                    ELSE Cardinality({d \in lit : d..Max(lit) \subseteq lit})
    BY <1>2
  <1> HIDE DEF lit
  <1>3. lit \in SUBSET Nat /\ IsFiniteSet(lit) /\ \A d \in lit : d <= today
    BY <1>1, DaysAreFinite
  <1>4. StreakOf(lit, today, ComputeStreak(who))
    <2> HIDE DEF today
    <2> QED
      BY <1>1, StreakValue DEF today
  <1>5. today \in Int
    BY DayIsNat DEF RowsKept
  <1> HIDE DEF today
  <1>6. CASE lit = {}
    BY <1>4, <1>6 DEF StreakOf
  <1>7. CASE lit # {}
    <2>1. PICK m \in Nat : m = Max(lit) /\ m \in lit /\ m <= today
      <3>1. lit \in SUBSET Int
        BY <1>3
      <3>2. Max(lit) \in lit
        BY <1>3, <1>7, <3>1, GreatestOf, Zenon
      <3> QED
        BY <1>3, <3>2
    <2>2. m \in {today, today - 1} <=> ~(m < today - 1)
      BY ONLY <1>5, <2>1
    <2>3. CASE m < today - 1
      <3>1. ComputeStreak(who) = 0
        BY <1>4, <2>1, <2>2, <2>3 DEF StreakOf
      <3> QED
        BY <1>7, <2>1, <2>3, <3>1
    <2>4. CASE ~(m < today - 1)
      <3>1. /\ ComputeStreak(who) \in Nat /\ ComputeStreak(who) >= 1
            /\ RunOfDays(lit, m, ComputeStreak(who))
        BY <1>4, <1>7, <2>1, <2>2, <2>4 DEF StreakOf
      <3>2. Cardinality({d \in lit : d..m \subseteq lit}) = ComputeStreak(who)
        BY <1>3, <2>1, <3>1, RunOfDaysIs, Zenon
      <3> QED
        BY <1>7, <2>1, <2>4, <3>2
    <2> QED
      BY <2>3, <2>4
  <1> QED
    BY <1>6, <1>7

-----------------------------------------------------------------------------
(* The board and the caller's own rank agree *)

LEMMA MasteredIsNat ==
  ASSUME NEW v PROVE Mastered(v) \in Nat
  <1> DEFINE W == {w \in RowsOf(v) : progress[v][w].status = "mastered"}
  <1>1. W \in SUBSET StudyWords /\ IsFiniteSet(StudyWords)
    BY ReportsAssumption DEF ReportsAssumption, RowsOf
  <1> HIDE DEF W
  <1>2. Cardinality(W) \in Nat
    BY <1>1, FS_Subset, FS_CardinalityType, Zenon
  <1> QED
    BY <1>2 DEF W, Mastered

\* Who is on the board, and who comes before whom.
Listed == {who \in Learners \ optedOut : Mastered(who) > 0}
Ahead(u, v) == \/ Mastered(u) > Mastered(v)
               \/ Mastered(u) = Mastered(v) /\ Alphabetical[u] < Alphabetical[v]
AheadPairs == {p \in Listed \X Listed : Ahead(p[1], p[2])}

LEMMA BoardLists == ListedBy(RankMasteredAllTime, Listed, AheadPairs) /\ Cardinality(Listed) \in Nat
  <1> DEFINE S == Listed
             R == AheadPairs
             list == RankMasteredAllTime
             Place(i) == CHOOSE x \in S : Cardinality({y \in S : Ahead(y, x)}) = i - 1
  <1>0. IsFiniteSet(S) /\ S \subseteq Learners
    <2>1. S \in SUBSET Learners /\ IsFiniteSet(Learners)
      BY ReportsAssumption DEF ReportsAssumption, Listed
    <2> HIDE DEF S
    <2> QED
      BY <2>1, FS_Subset, Zenon
  <1>1. list = [i \in 1..Cardinality(S) |-> Place(i)]
    BY DEF RankMasteredAllTime, Ranked, Listed, Ahead
  <1>2. \A x, y \in S : <<x, y>> \in R <=> Ahead(x, y)
    BY DEF AheadPairs
  <1>3. \A x \in S : {y \in S : <<y, x>> \in R} = {y \in S : Ahead(y, x)}
    BY <1>2
  <1>4. ASSUME NEW i \in 1..Cardinality(S), NEW x \in S, Cardinality({y \in S : Ahead(y, x)}) = i - 1
        PROVE  Place(i) \in S /\ Cardinality({y \in S : Ahead(y, Place(i))}) = i - 1
    <2> HIDE DEF S
    <2> QED
      BY <1>4, Zenon
  <1>5. \A x \in S : Mastered(x) \in Nat /\ Alphabetical[x] \in Nat /\ x \in Learners
    BY <1>0, MasteredIsNat, ReportsAssumption DEF ReportsAssumption
  <1>5a. \A x, y \in S : Alphabetical[x] = Alphabetical[y] => x = y
    BY <1>0, ReportsAssumption DEF ReportsAssumption
  <1> HIDE DEF S, R, Place, list
  <1>6. /\ \A x \in S : <<x, x>> \notin R
        /\ \A x, y, z \in S : <<x, y>> \in R /\ <<y, z>> \in R => <<x, z>> \in R
        /\ \A x, y \in S : x # y => <<x, y>> \in R \/ <<y, x>> \in R
    <2>1. \A x \in S : <<x, x>> \notin R
      BY ONLY <1>2, <1>5 DEF Ahead
    <2>2. ASSUME NEW x \in S, NEW y \in S, NEW z \in S, <<x, y>> \in R, <<y, z>> \in R PROVE <<x, z>> \in R
      <3>1. Ahead(x, y) /\ Ahead(y, z)
        BY <1>2, <2>2
      <3>2. Ahead(x, z)
        BY ONLY <1>5, <3>1, x \in S, y \in S, z \in S DEF Ahead
      <3> QED
        BY <1>2, <3>2
    <2>3. ASSUME NEW x \in S, NEW y \in S, x # y PROVE <<x, y>> \in R \/ <<y, x>> \in R
      <3>1. Alphabetical[x] # Alphabetical[y]
        BY <1>5a, <2>3
      <3>2. Ahead(x, y) \/ Ahead(y, x)
        BY ONLY <1>5, <3>1, x \in S, y \in S DEF Ahead
      <3> QED
        BY <1>2, <3>2
    <2> QED
      BY <2>1, <2>2, <2>3
  <1>7. /\ list = [i \in 1..Cardinality(S) |-> list[i]]
        /\ \A i \in 1..Cardinality(S) : list[i] = Place(i)
    BY ONLY <1>1
  <1>8. \A i \in 1..Cardinality(S), x \in S : Cardinality({y \in S : <<y, x>> \in R}) = i - 1 =>
          list[i] \in S /\ Cardinality({y \in S : <<y, list[i]>> \in R}) = i - 1
    BY <1>3, <1>4, <1>7, Zenon
  <1>9. ListedBy(list, S, R)
    <2>1. OrdersAll(R, S)
      BY <1>6 DEF OrdersAll
    <2>2. PlacedBy(list, S, R)
      BY <1>7, <1>8, Zenon DEF PlacedBy
    <2> QED
      BY ONLY <1>0, <2>1, <2>2, RankedLists, Zenon
  <1> QED
    BY <1>0, <1>9, FS_CardinalityType DEF S, R, list

LEMMA BoardHolds == BoardAgrees
  <1> DEFINE n == Cardinality(Listed)
  <1>1. /\ n \in Nat
        /\ RankMasteredAllTime \in [1..n -> Listed]
        /\ \A x \in Listed : \E i \in 1..n : RankMasteredAllTime[i] = x
        /\ \A i, j \in 1..n : i < j <=> <<RankMasteredAllTime[i], RankMasteredAllTime[j]>> \in AheadPairs
        /\ \A i, j \in 1..n : RankMasteredAllTime[i] = RankMasteredAllTime[j] => i = j
    BY BoardLists, Zenon DEF ListedBy
  <1>1a. \A x, y \in Listed : <<x, y>> \in AheadPairs <=> Ahead(x, y)
    BY DEF AheadPairs
  <1> HIDE DEF n
  <1>2. PICK list : list = RankMasteredAllTime
    OBVIOUS
  <1>3. list \in Seq(Listed) /\ DOMAIN list = 1..n /\ Len(list) = n /\ Range(list) = Listed
    <2>1. list \in [1..n -> Listed]
      BY <1>1, <1>2
    <2>2. list \in Seq(Listed) /\ DOMAIN list = 1..n
      BY <1>1, <2>1
    <2>3. Range(list) = Listed
      BY <1>1, <1>2, <2>1 DEF Range
    <2> QED
      BY <1>1, <2>2, <2>3
  \* The rank of who is listed is her place.
  <1>4. ASSUME NEW v \in Listed PROVE ResolveMe(v) \in 1..n /\ list[ResolveMe(v)] = v
    <2>1. ResolveMe(v) = CHOOSE i \in DOMAIN list : list[i] = v
      BY <1>2, <1>3 DEF ResolveMe
    <2>2. \E i \in DOMAIN list : list[i] = v
      BY <1>1, <1>2, <1>3
    <2>3. ResolveMe(v) \in DOMAIN list /\ list[ResolveMe(v)] = v
      BY <2>1, <2>2, Zenon
    <2> QED
      BY <1>3, <2>3
  <1>5. ASSUME NEW v, v \notin Listed PROVE ResolveMe(v) = 0
    BY <1>2, <1>3, <1>5 DEF ResolveMe
  <1> SUFFICES ASSUME NEW who \in Learners
      PROVE  /\ ResolveMe(who) = 0 <=> who \in optedOut \/ Mastered(who) = 0
             /\ ResolveMe(who) \in 1..BoardSize => Board[ResolveMe(who)] = who
             /\ \A other \in Learners :
                  ResolveMe(who) > 0 /\ ResolveMe(other) > 0 /\ Mastered(other) > Mastered(who) =>
                  ResolveMe(other) < ResolveMe(who)
    BY DEF BoardAgrees
  <1>6. who \in Listed <=> ~(who \in optedOut \/ Mastered(who) = 0)
    <2>1. Mastered(who) \in Nat
      BY MasteredIsNat
    <2> QED
      BY <2>1 DEF Listed
  <1>7. CASE who \notin Listed
    <2>1. ResolveMe(who) = 0 /\ ~(0 \in 1..BoardSize) /\ ~(0 > 0)
      BY <1>5, <1>7
    <2> QED
      BY <1>6, <1>7, <2>1
  <1>8. CASE who \in Listed
    <2>1. PICK rank \in 1..n : rank = ResolveMe(who) /\ list[rank] = who
      BY <1>4, <1>8
    <2>2. rank # 0
      BY <1>1
    <2>3. rank \in 1..BoardSize => Board[rank] = who
      <3> HAVE rank \in 1..BoardSize
      <3>1. PICK end : end = IF Len(list) < BoardSize THEN Len(list) ELSE BoardSize
        OBVIOUS
      <3>2. BoardSize \in Nat
        BY ReportsAssumption DEF ReportsAssumption
      <3>3. end \in Nat /\ rank \in 1..end /\ end <= n /\ rank \in Nat
        BY ONLY <1>1, <1>3, <3>1, <3>2, rank \in 1..BoardSize, rank \in 1..n
      <3>4. Board = SubSeq(list, 1, end)
        BY <1>2, <3>1 DEF Board
      <3>5. SubSeq(list, 1, end)[rank] = list[rank]
        <4>1. list \in Seq(Listed) /\ 1 \in Int /\ end \in Int
          BY <1>3, <3>3
        <4>2. SubSeq(list, 1, end) = [i \in 1..(1 + end - 1) |-> list[i + 1 - 1]]
          BY <3>3, <4>1
        <4>3. rank \in 1..(1 + end - 1) /\ rank + 1 - 1 = rank
          BY <3>3
        <4> QED
          BY <4>2, <4>3
      <3> QED
        BY <2>1, <3>4, <3>5
    <2>4. ASSUME NEW other \in Learners, ResolveMe(other) > 0, Mastered(other) > Mastered(who)
          PROVE  ResolveMe(other) < rank
      <3>1. other \in Listed
        <4> SUFFICES ASSUME other \notin Listed PROVE FALSE
          OBVIOUS
        <4>1. ResolveMe(other) = 0
          BY <1>5
        <4> QED
          BY <2>4, <4>1
      <3>2. PICK place \in 1..n : place = ResolveMe(other) /\ list[place] = other
        BY <1>4, <3>1
      <3>3. <<other, who>> \in AheadPairs
        BY <1>1a, <1>8, <2>4, <3>1 DEF Ahead
      <3> QED
        BY <1>1, <1>2, <2>1, <3>2, <3>3
    <2> QED
      BY <1>6, <1>8, <2>1, <2>2, <2>3, <2>4
  <1> QED
    BY <1>7, <1>8

-----------------------------------------------------------------------------
(* The invariant holds at first *)

LEMMA FirstRows == ReportsInit => RowsKept
  <1> SUFFICES ASSUME ReportsInit PROVE RowsKept
    OBVIOUS
  <1>1. time \in Nat
    <2>1. ReportMoments \in SUBSET Nat /\ ReportMoments # {}
      BY ReportsAssumption DEF ReportsAssumption
    <2>2. \E t \in ReportMoments : \A u \in ReportMoments : t <= u
      BY <2>1, LeastNatural, Zenon
    <2>3. Min(ReportMoments) \in ReportMoments
      BY <2>2, Zenon DEF Min
    <2> QED
      BY <2>1, <2>3 DEF ReportsInit
  <1>2. progress \in [Learners -> [StudyWords -> SeenRows \cup {Unseen}]]
    BY ReportsAssumption DEF ReportsInit, ReportsAssumption
  <1> QED
    BY <1>1, <1>2 DEF ReportsInit, RowsKept, SystemWords

LEMMA FirstLog == ReportsInit => LogKept
  <1> SUFFICES ASSUME ReportsInit PROVE LogKept
    OBVIOUS
  <1>1. RowsKept
    BY FirstRows
  <1>2. time \in ReportMoments
    <2>1. ReportMoments \in SUBSET Nat /\ ReportMoments # {}
      BY ReportsAssumption DEF ReportsAssumption
    <2>2. \E t \in ReportMoments : \A u \in ReportMoments : t <= u
      BY <2>1, LeastNatural, Zenon
    <2> QED
      BY <2>2, Zenon DEF Min, ReportsInit
  <1> DEFINE P == {q \in Learners \X StudyWords : progress[q[1]][q[2]].status \notin {"none", "new"}}
             event(p) == [who |-> p[1], word |-> p[2], at |-> progress[p[1]][p[2]].last, new |-> TRUE]
             S == {event(p) : p \in P}
  <1>3. \A v \in Learners, w \in StudyWords : progress[v][w] # Unseen =>
          /\ progress[v][w] \in SeenRows /\ progress[v][w].last <= time
          /\ progress[v][w].status = "new" <=> progress[v][w].last = Forever
    <2>1. progress \in [Learners -> [StudyWords -> SeenRows \cup {Unseen}]]
      BY <1>1 DEF RowsKept
    <2> QED
      BY SMTT(30), <1>2, <2>1, ReportsAssumption DEF ReportsInit, ReportsAssumption
  <1>4. \A p \in P : /\ event(p) \in Events /\ event(p).at <= time
                   /\ event(p).who = p[1] /\ event(p).at = progress[p[1]][p[2]].last
                   /\ event(p).word \in StudyWords
    <2> TAKE p \in P
    <2>1. PICK v \in Learners, w \in StudyWords : p[1] = v /\ p[2] = w
      OBVIOUS
    <2>2. progress[v][w] # Unseen /\ progress[v][w].status # "new"
      BY <2>1 DEF Unseen
    <2>3. PICK last \in Nat : last = progress[v][w].last /\ last <= time
      BY <1>3, <2>2 DEF SeenRows
    <2>4. event(p) = [who |-> v, word |-> w, at |-> last, new |-> TRUE]
      BY <2>1, <2>3
    <2>5. [who |-> v, word |-> w, at |-> last, new |-> TRUE] \in Events
      BY DEF Events
    <2> HIDE DEF event, P
    <2> QED
      BY <2>1, <2>3, <2>4, <2>5
  <1>5. \A v \in Learners, w \in StudyWords : progress[v][w] # Unseen /\ progress[v][w].last # Forever =>
          <<v, w>> \in P
    <2> TAKE v \in Learners, w \in StudyWords
    <2> HAVE progress[v][w] # Unseen /\ progress[v][w].last # Forever
    <2>1. progress[v][w].status \notin {"none", "new"}
      BY <1>3 DEF SeenRows
    <2> QED
      BY <2>1
  <1>6. activity = SetToSeq(S)
    BY DEF ReportsInit
  <1>7. IsFiniteSet(S)
    <2>1. IsFiniteSet(Learners \X StudyWords)
      BY FS_Product, ReportsAssumption, Zenon DEF ReportsAssumption
    <2>2. P \in SUBSET (Learners \X StudyWords)
      OBVIOUS
    <2>3. PICK f : f = [p \in P |-> event(p)]
      OBVIOUS
    <2>4. f \in Surjection(P, S)
      BY <2>3 DEF Surjection
    <2> HIDE DEF P, S, event
    <2>5. IsFiniteSet(P)
      BY <2>1, <2>2, FS_Subset, Zenon
    <2> QED
      BY <2>4, <2>5, FS_Surjection, Zenon
  <1>8. PICK n \in Nat : n = Cardinality(S)
    <2> HIDE DEF S
    <2> QED
      BY <1>7, FS_CardinalityType
  <1>9. activity \in [1..n -> S] /\ \A x \in S : \E i \in 1..n : activity[i] = x
    <2> HIDE DEF S
    <2> QED
      BY <1>6, <1>7, <1>8, SetToSeqLists
  <1>10. \A x \in S : \E p \in P : x = event(p)
    OBVIOUS
  <1>11. \A p \in P : event(p) \in S
    OBVIOUS
  <1> HIDE DEF S
  <1>12. DOMAIN activity = 1..n /\ \A i \in 1..n : activity[i] \in S
    BY <1>9
  <1>13. \A i \in 1..n : /\ activity[i] \in Events /\ activity[i].at <= time /\ activity[i].word \in StudyWords
    <2> HIDE DEF P, event
    <2> QED
      BY <1>4, <1>10, <1>12
  <1>14. activity \in Seq(Events)
    <2>1. activity \in [1..n -> Events]
      BY <1>9, <1>13
    <2> QED
      BY <2>1
  <1>15. ASSUME NEW v \in Learners, NEW w \in StudyWords,
                progress[v][w] # Unseen, progress[v][w].last # Forever
         PROVE  \E i \in DOMAIN activity : activity[i].who = v /\ activity[i].at = progress[v][w].last
    <2>1. PICK p \in P : p = <<v, w>>
      BY <1>5, <1>15
    <2>2. p[1] = v /\ p[2] = w
      BY <2>1
    <2>3. event(p) \in S /\ event(p).who = p[1] /\ event(p).at = progress[p[1]][p[2]].last
      BY <1>4, <1>11
    <2> HIDE DEF P, event
    <2>4. PICK i \in 1..n : activity[i] = event(p)
      BY <1>9, <2>3
    <2> QED
      BY <1>12, <2>2, <2>3, <2>4
  <1>16. shelf = StudyWords /\ studied = {<<activity[i].who, DayOf(activity[i].at, Utc)>> : i \in DOMAIN activity}
    BY DEF ReportsInit
  <1> HIDE DEF P, event
  <1> QED
    BY <1>12, <1>13, <1>14, <1>15, <1>16 DEF LogKept

LEMMA ReportsInitInv == ReportsInit => ReportsInv
  <1> SUFFICES ASSUME ReportsInit PROVE ReportsInv
    OBVIOUS
  <1>1. RowsKept /\ LogKept
    BY FirstRows, FirstLog
  <1>2. reader = Reading
    BY DEF ReportsInit
  <1>3. reader.pc = "idle" /\ reader.disturbed = FALSE /\ reader.due = {} /\ reader.fresh = {} /\ reader.extra = {}
    BY <1>2 DEF Reading
  <1>4. ReaderKept
    BY <1>2, <1>3 DEF ReaderKept, ReaderFields, ReaderStages
  <1> QED
    BY <1>1, <1>3, <1>4 DEF ReportsInv, StatsKept, PicksKept

LEMMA ReportsInvTypeOK == ReportsInv => ReportsTypeOK
  <1> SUFFICES ASSUME ReportsInv PROVE ReportsTypeOK
    OBVIOUS
  <1>1. \A i \in DOMAIN activity : /\ activity[i].who \in Learners /\ activity[i].word \in shelf \cup {"none"}
                                  /\ activity[i].at <= time
    <2>1. \A i \in DOMAIN activity : activity[i] \in Events
      BY EventFacts DEF ReportsInv
    <2> QED
      BY <2>1 DEF ReportsInv, LogKept, Events
  <1>2. time \in Nat /\ approved \subseteq StudyWords /\ shelf \subseteq StudyWords
    BY DEF ReportsInv, RowsKept, SystemWords
  <1>3. \A v \in Learners, w \in StudyWords :
          progress[v][w] \in SeenRows \cup {Unseen} /\ (progress[v][w] # Unseen => w \in shelf)
    BY DEF ReportsInv, RowsKept
  <1> QED
    BY <1>1, <1>2, <1>3 DEF ReportsInv, ReaderKept, ReaderStages, ReportsTypeOK

LEMMA ReportsInvStats == ReportsInv => StatsAgree
  BY DEF ReportsInv, StatsKept, StatsAgree

LEMMA DisjointCards ==
  ASSUME NEW A, NEW B, IsFiniteSet(A), IsFiniteSet(B), A \cap B = {}
  PROVE  /\ Cardinality(A \cup B) = Cardinality(A) + Cardinality(B)
         /\ IsFiniteSet(A \cup B) /\ Cardinality(A) \in Nat /\ Cardinality(B) \in Nat
  <1>1. Cardinality(A \cap B) = 0
    BY FS_EmptySet
  <1>2. IsFiniteSet(A \cup B) /\ Cardinality(A \cup B) = Cardinality(A) + Cardinality(B) - Cardinality(A \cap B)
    BY FS_Union
  <1>3. Cardinality(A) \in Nat /\ Cardinality(B) \in Nat
    BY FS_CardinalityType
  <1> QED
    BY <1>1, <1>2, <1>3

LEMMA StudyWordsFinite == ASSUME NEW A \in SUBSET StudyWords PROVE IsFiniteSet(A)
  <1>1. IsFiniteSet(StudyWords)
    BY ReportsAssumption DEF ReportsAssumption
  <1> QED
    BY <1>1, FS_Subset, Zenon

LEMMA ReportsInvSuggestions == ReportsInv => SuggestionsSound
  <1> SUFFICES ASSUME ReportsInv, reader.pc = "suggested" PROVE SuggestionsSound
    BY DEF SuggestionsSound
  <1>1. PICK due, fresh, extra : due = reader.due /\ fresh = reader.fresh /\ extra = reader.extra
    OBVIOUS
  <1>2. due \in SUBSET StudyWords /\ fresh \in SUBSET StudyWords /\ extra \in SUBSET StudyWords
    BY <1>1 DEF ReportsInv, ReaderKept
  <1>3. /\ due \cap fresh = {} /\ (due \cup fresh) \cap extra = {}
        /\ Cardinality((due \cup fresh) \cup extra) <= Count
        /\ \A w \in fresh \cup extra : IsPracticeable(reader.who, w)
        /\ ~reader.disturbed /\ Cardinality((due \cup fresh) \cup extra) < Count =>
             shelf \cap approved \subseteq (due \cup fresh) \cup extra
    BY <1>1 DEF ReportsInv, PicksKept, Items
  <1>4. IsFiniteSet(due) /\ IsFiniteSet(fresh) /\ IsFiniteSet(extra)
    BY <1>2, StudyWordsFinite
  <1>5. /\ Cardinality(due \cup fresh) = Cardinality(due) + Cardinality(fresh)
        /\ IsFiniteSet(due \cup fresh)
    BY <1>3, <1>4, DisjointCards, Zenon
  <1>6. Cardinality((due \cup fresh) \cup extra) = Cardinality(due \cup fresh) + Cardinality(extra)
    BY <1>3, <1>4, <1>5, DisjointCards, Zenon
  <1>7. fresh \cup extra \subseteq BuildSet(reader.who, due \cup fresh \cup extra) \cup (StudyWords \ shelf)
    BY <1>2, <1>3 DEF BuildSet
  <1>8. SuggestionsSound <=>
        /\ Cardinality(due) + Cardinality(fresh) + Cardinality(extra) <= Count
        /\ Cardinality((due \cup fresh) \cup extra) = Cardinality(due) + Cardinality(fresh) + Cardinality(extra)
        /\ fresh \cup extra \subseteq BuildSet(reader.who, (due \cup fresh) \cup extra) \cup (StudyWords \ shelf)
        /\ ~reader.disturbed /\ Cardinality((due \cup fresh) \cup extra) < Count => shelf \cap approved \subseteq (due \cup fresh) \cup extra
    BY <1>1 DEF SuggestionsSound
  <1>9. Cardinality(due) \in Nat /\ Cardinality(fresh) \in Nat /\ Cardinality(extra) \in Nat
    BY <1>4, FS_CardinalityType
  <1>10. /\ Cardinality(due) + Cardinality(fresh) + Cardinality(extra) <= Count
         /\ Cardinality((due \cup fresh) \cup extra) = Cardinality(due) + Cardinality(fresh) + Cardinality(extra)
    BY <1>3, <1>5, <1>6
  <1> QED
    BY <1>3, <1>7, <1>8, <1>10

LEMMA ReportsInvAgree ==
  ReportsInv => StreakIsLit /\ HeatmapComplete /\ StatsAgree /\ SuggestionsSound /\ BoardAgrees
  BY StreakHolds, HeatmapHolds, ReportsInvStats, ReportsInvSuggestions, BoardHolds DEF ReportsInv

-----------------------------------------------------------------------------
(* The queries keep the invariant *)

LEMMA QuietRows == RowsKept /\ LogKept /\ Quiet => RowsKept' /\ LogKept'
  <1> SUFFICES ASSUME RowsKept, LogKept, Quiet PROVE RowsKept' /\ LogKept'
    OBVIOUS
  <1>1. /\ time' = time /\ shelf' = shelf /\ approved' = approved /\ progress' = progress
        /\ activity' = activity /\ studied' = studied
    BY DEF Quiet
  <1> QED
    BY <1>1 DEF RowsKept, LogKept, SystemWords

\* A query that changes no row does not change what the others would read.
LEMMA QuietReads ==
  ASSUME Quiet, NEW v, NEW t
  PROVE  /\ ComputeCounts(v)' = ComputeCounts(v) /\ DueRows(v, t)' = DueRows(v, t)
         /\ RowsOf(v)' = RowsOf(v)
         /\ AnsweredLately(v, t)' = AnsweredLately(v, t)
         /\ time' = time /\ shelf' = shelf /\ approved' = approved /\ progress' = progress
         /\ activity' = activity
  <1>1. time' = time /\ progress' = progress /\ activity' = activity /\ shelf' = shelf /\ approved' = approved
    BY DEF Quiet
  <1>2. RowsOf(v)' = RowsOf(v) /\ EventsOf(v)' = EventsOf(v)
    BY <1>1 DEF RowsOf, EventsOf
  <1>3. DueRows(v, t)' = DueRows(v, t)
    BY <1>1, <1>2 DEF DueRows
  <1>4. ComputeCounts(v)' = ComputeCounts(v)
    BY <1>1, <1>2 DEF ComputeCounts
  <1>5. AnsweredLately(v, t)' = AnsweredLately(v, t)
    BY <1>1, <1>2 DEF AnsweredLately
  <1> QED
    BY <1>1, <1>2, <1>3, <1>4, <1>5

LEMMA StatsCountsKeeps ==
  ASSUME ReportsInv, NEW who \in Learners, StatsCounts(who)
  PROVE  ReportsInv'
  <1>1. RowsKept' /\ LogKept'
    BY QuietRows DEF ReportsInv, StatsCounts
  <1>2. reader' = [Reading EXCEPT !.pc = "counted", !.who = who, !.at = time, !.counts = ComputeCounts(who)]
    BY DEF StatsCounts
  <1>3. /\ DOMAIN reader' = ReaderFields /\ reader'.pc = "counted" /\ reader'.who = who /\ reader'.at = time
        /\ reader'.counts = ComputeCounts(who) /\ reader'.disturbed = FALSE
        /\ reader'.due = {} /\ reader'.fresh = {} /\ reader'.extra = {}
    BY <1>2 DEF Reading, ReaderFields
  <1>4. time' = time /\ time \in Nat /\ ComputeCounts(who)' = ComputeCounts(who)
    BY QuietReads DEF StatsCounts, ReportsInv, RowsKept
  <1>5. ReaderKept'
    <2>1. time <= time /\ time - time <= DayMinutes
      BY <1>4 DEF DayMinutes
    <2>2. "counted" \in ReaderStages /\ FALSE \in BOOLEAN
      BY DEF ReaderStages
    <2> QED
      BY <1>3, <1>4, <2>1, <2>2 DEF ReaderKept
  <1>6. StatsKept'
    <2>1. (ComputeCounts(reader.who))' = ComputeCounts(who)
      BY <1>3, <1>4 DEF ComputeCounts, RowsOf
    <2> QED
      BY <1>3, <2>1 DEF StatsKept
  <1>7. PicksKept'
    BY <1>3 DEF PicksKept
  <1> QED
    BY <1>1, <1>5, <1>6, <1>7 DEF ReportsInv

\* A later query of getStats keeps whose request it is.
GoesAhead(from, to) ==
  /\ reader.pc = from /\ DOMAIN reader' = ReaderFields /\ reader'.pc = to /\ to \in ReaderStages
  /\ reader'.who = reader.who /\ reader'.at = reader.at /\ reader'.counts = reader.counts
  /\ reader'.due = reader.due /\ reader'.fresh = reader.fresh /\ reader'.extra = reader.extra
  /\ reader'.disturbed = reader.disturbed

LEMMA GoesAheadKeeps ==
  ASSUME ReportsInv, Quiet, NEW from, from # "idle", NEW to, GoesAhead(from, to)
  PROVE  /\ RowsKept' /\ LogKept' /\ ReaderKept'
         /\ (ComputeCounts(reader.who))' = ComputeCounts(reader.who)
         /\ (DueRows(reader.who, reader.at))' = DueRows(reader.who, reader.at)
         /\ AnsweredLately(reader.who, reader.at)' = AnsweredLately(reader.who, reader.at)
         /\ reader.who \in Learners /\ reader.at \in Nat /\ reader.at <= time
         /\ time - reader.at <= DayMinutes /\ time \in Nat
  <1>1. RowsKept' /\ LogKept'
    BY QuietRows DEF ReportsInv
  <1>2. PICK v, t : v = reader.who /\ t = reader.at
    OBVIOUS
  <1>3. reader'.who = v /\ reader'.at = t
    BY <1>2 DEF GoesAhead
  <1>4. ComputeCounts(v)' = ComputeCounts(v) /\ DueRows(v, t)' = DueRows(v, t) /\ AnsweredLately(v, t)' = AnsweredLately(v, t)
        /\ time' = time /\ activity' = activity /\ progress' = progress
    BY QuietReads
  <1>5. (ComputeCounts(reader.who))' = ComputeCounts(v)' /\ (DueRows(reader.who, reader.at))' = DueRows(v, t)'
    BY <1>3 DEF ComputeCounts, DueRows, RowsOf
  <1>6. AnsweredLately(reader.who, reader.at)' = AnsweredLately(v, t)'
    BY <1>3 DEF AnsweredLately, EventsOf
  <1>7. /\ v \in Learners /\ t \in Nat /\ t <= time /\ time - t <= DayMinutes
    BY <1>2 DEF ReportsInv, ReaderKept, GoesAhead
  <1>8. ReaderKept'
    BY <1>3, <1>4, <1>7 DEF ReportsInv, ReaderKept, GoesAhead
  <1>9. time \in Nat
    BY DEF ReportsInv, RowsKept
  <1> QED
    BY <1>1, <1>2, <1>4, <1>5, <1>6, <1>7, <1>8, <1>9

LEMMA StatsDueNowKeeps == ASSUME ReportsInv, StatsDueNow PROVE ReportsInv'
  <1>1. Quiet /\ reader.pc = "counted"
        /\ reader' = [reader EXCEPT !.pc = "due", !.dueNow = Cardinality(DueRows(reader.who, reader.at))]
    BY DEF StatsDueNow
  <1>2. DOMAIN reader = DOMAIN Reading
    BY DEF ReportsInv, ReaderKept, ReaderFields
  <1>3. GoesAhead("counted", "due") /\ reader'.dueNow = Cardinality(DueRows(reader.who, reader.at))
    BY <1>1, <1>2 DEF GoesAhead, ReaderFields, ReaderStages, Reading
  <1>4. /\ RowsKept' /\ LogKept' /\ ReaderKept'
        /\ (ComputeCounts(reader.who))' = ComputeCounts(reader.who)
        /\ (DueRows(reader.who, reader.at))' = DueRows(reader.who, reader.at)
    BY <1>1, <1>3, GoesAheadKeeps
  <1>5. StatsKept'
    <2>1. ~reader.disturbed => reader.counts = ComputeCounts(reader.who)
      BY <1>1 DEF ReportsInv, StatsKept
    <2>2. reader'.pc = "due" /\ reader'.counts = reader.counts /\ reader'.disturbed = reader.disturbed
      BY <1>3 DEF GoesAhead
    <2> QED
      BY <1>3, <1>4, <2>1, <2>2 DEF StatsKept
  <1>6. PicksKept'
    BY <1>3 DEF PicksKept, GoesAhead
  <1> QED
    BY <1>4, <1>5, <1>6 DEF ReportsInv

LEMMA StatsReviewedTodayKeeps == ASSUME ReportsInv, StatsReviewedToday PROVE ReportsInv'
  <1>1. Quiet /\ reader.pc = "due"
        /\ reader' = [reader EXCEPT !.pc = "today", !.today = CountReviewedToday(reader.who)]
    BY DEF StatsReviewedToday
  <1>2. DOMAIN reader = DOMAIN Reading
    BY DEF ReportsInv, ReaderKept, ReaderFields
  <1>3. /\ GoesAhead("due", "today") /\ reader'.today = CountReviewedToday(reader.who)
        /\ reader'.dueNow = reader.dueNow
    BY <1>1, <1>2 DEF GoesAhead, ReaderFields, ReaderStages, Reading
  <1>4. /\ RowsKept' /\ LogKept' /\ ReaderKept'
        /\ (ComputeCounts(reader.who))' = ComputeCounts(reader.who)
        /\ (DueRows(reader.who, reader.at))' = DueRows(reader.who, reader.at)
        /\ AnsweredLately(reader.who, reader.at)' = AnsweredLately(reader.who, reader.at)
        /\ reader.who \in Learners /\ reader.at \in Nat /\ reader.at <= time /\ time \in Nat
    BY <1>1, <1>3, GoesAheadKeeps
  \* Who has reviewed today has an answer in the log.
  <1>5. CountReviewedToday(reader.who) > 0 => AnsweredLately(reader.who, reader.at)
    <2> HAVE CountReviewedToday(reader.who) > 0
    <2>1. PICK v \in Learners, t \in Nat : v = reader.who /\ t = reader.at /\ t <= time
      BY <1>4
    <2> DEFINE W == {w \in RowsOf(v) : /\ progress[v][w].last # Forever
                                       /\ DayOf(progress[v][w].last, Utc) = DayOf(time, Utc)}
    <2>2. Cardinality(W) > 0
      BY <2>1 DEF CountReviewedToday
    <2>3. W # {}
      <3> HIDE DEF W
      <3> SUFFICES ASSUME W = {} PROVE FALSE
        OBVIOUS
      <3>1. Cardinality(W) = 0
        BY FS_EmptySet
      <3> QED
        BY <2>2, <3>1
    <2>4. PICK w \in W : TRUE
      BY <2>3
    <2>5. /\ w \in StudyWords /\ progress[v][w] # Unseen /\ progress[v][w].last # Forever
          /\ DayOf(progress[v][w].last, Utc) = DayOf(time, Utc)
      BY DEF RowsOf
    <2>6. PICK i \in DOMAIN activity : activity[i].who = v /\ activity[i].at = progress[v][w].last
      BY <2>5 DEF ReportsInv, LogKept
    <2>7. DayOf(activity[i].at, Utc) = DayOf(time, Utc) /\ i \in EventsOf(v)
      BY <2>5, <2>6 DEF EventsOf
    <2>8. DayOf(t, Utc) <= DayOf(time, Utc)
      BY <1>4, <2>1, LaterDay DEF Utc
    <2>9. DayOf(t, Utc) \in Nat /\ DayOf(time, Utc) \in Nat
      BY <1>4, <2>1, DayIsNat
    <2>10. DayOf(activity[i].at, Utc) >= DayOf(t, Utc)
      BY ONLY <2>7, <2>8, <2>9
    <2> QED
      BY <2>1, <2>7, <2>10 DEF AnsweredLately
  <1>6. StatsKept'
    <2>1. /\ ~reader.disturbed => reader.counts = ComputeCounts(reader.who)
          /\ ~reader.disturbed => reader.dueNow = Cardinality(DueRows(reader.who, reader.at))
      BY <1>1 DEF ReportsInv, StatsKept
    <2>2. reader'.pc = "today" /\ reader'.counts = reader.counts /\ reader'.disturbed = reader.disturbed
      BY <1>3 DEF GoesAhead
    <2> QED
      BY <1>3, <1>4, <1>5, <2>1, <2>2 DEF StatsKept
  <1>7. PicksKept'
    BY <1>3 DEF PicksKept, GoesAhead
  <1> QED
    BY <1>4, <1>6, <1>7 DEF ReportsInv

LEMMA StatsStreakKeeps == ASSUME ReportsInv, StatsStreak PROVE ReportsInv'
  <1>1. Quiet /\ reader.pc = "today"
        /\ reader' = [reader EXCEPT !.pc = "streak", !.streak = ComputeStreak(reader.who)]
    BY DEF StatsStreak
  <1>2. DOMAIN reader = DOMAIN Reading
    BY DEF ReportsInv, ReaderKept, ReaderFields
  <1>3. /\ GoesAhead("today", "streak") /\ reader'.streak = ComputeStreak(reader.who)
        /\ reader'.dueNow = reader.dueNow /\ reader'.today = reader.today
    BY <1>1, <1>2 DEF GoesAhead, ReaderFields, ReaderStages, Reading
  <1>4. /\ RowsKept' /\ LogKept' /\ ReaderKept'
        /\ (ComputeCounts(reader.who))' = ComputeCounts(reader.who)
        /\ (DueRows(reader.who, reader.at))' = DueRows(reader.who, reader.at)
        /\ reader.who \in Learners /\ reader.at \in Nat /\ time - reader.at <= DayMinutes /\ time \in Nat
    BY <1>1, <1>3, GoesAheadKeeps
  \* An answer since the day of the request is of today or yesterday.
  <1>5. AnsweredLately(reader.who, reader.at) => ComputeStreak(reader.who) > 0
    <2> HAVE AnsweredLately(reader.who, reader.at)
    <2>1. PICK v \in Learners, t \in Nat : v = reader.who /\ t = reader.at /\ time - t <= DayMinutes
      BY <1>4
    <2> DEFINE S == DaysOf(v)
    <2>2. PICK today \in Nat : today = DayOf(time, Utc)
      BY <1>4, DayIsNat
    <2>3. PICK asked0 \in Nat : asked0 = DayOf(t, Utc)
      BY DayIsNat
    <2>4. today <= asked0 + 1
      BY <1>4, <2>1, <2>2, <2>3, NextDay DEF Utc
    <2>5. PICK d \in S : d >= asked0
      <3>1. PICK i \in EventsOf(v) : DayOf(activity[i].at, Utc) >= DayOf(t, Utc)
        BY <2>1 DEF AnsweredLately
      <3>2. DayOf(activity[i].at, Utc) \in S
        BY DEF DaysOf
      <3> QED
        BY <2>3, <3>1, <3>2
    <2>6. S \in SUBSET Nat /\ IsFiniteSet(S) /\ \A x \in S : x <= today
      BY <2>2, DaysAreFinite DEF ReportsInv
    <2>7. StreakOf(S, today, ComputeStreak(v))
      BY <2>2, StreakValue DEF ReportsInv
    <2> HIDE DEF S
    <2>8. Max(S) \in S /\ \A x \in S : x <= Max(S)
      <3>1. S \in SUBSET Int /\ S # {}
        BY <2>5, <2>6
      <3> QED
        BY <2>6, <3>1, GreatestOf, Zenon
    <2>9. PICK m \in Nat : m = Max(S) /\ m <= today /\ d <= m /\ d \in Nat
      BY <2>5, <2>6, <2>8
    <2>10. m \in {today, today - 1}
      BY ONLY <2>4, <2>5, <2>9, asked0 \in Nat, today \in Nat, m \in Nat
    <2>11. ComputeStreak(v) \in Nat /\ ComputeStreak(v) >= 1
      BY <2>5, <2>7, <2>9, <2>10 DEF StreakOf
    <2> QED
      BY <2>1, <2>11
  <1>6. StatsKept'
    <2>1. /\ ~reader.disturbed => reader.counts = ComputeCounts(reader.who)
          /\ ~reader.disturbed => reader.dueNow = Cardinality(DueRows(reader.who, reader.at))
          /\ reader.today > 0 => AnsweredLately(reader.who, reader.at)
      BY <1>1 DEF ReportsInv, StatsKept
    <2>2. reader'.pc = "streak" /\ reader'.counts = reader.counts /\ reader'.disturbed = reader.disturbed
      BY <1>3 DEF GoesAhead
    <2> QED
      BY <1>3, <1>4, <1>5, <2>1, <2>2 DEF StatsKept
  <1>7. PicksKept'
    BY <1>3 DEF PicksKept, GoesAhead
  <1> QED
    BY <1>4, <1>6, <1>7 DEF ReportsInv

LEMMA StatsNextDueKeeps == ASSUME ReportsInv, StatsNextDue PROVE ReportsInv'
  <1>1. Quiet /\ reader.pc = "streak"
        /\ reader' = [reader EXCEPT !.pc = "answered", !.nextDue = NextDueAt(reader.who, reader.at)]
    BY DEF StatsNextDue
  <1>2. DOMAIN reader = DOMAIN Reading
    BY DEF ReportsInv, ReaderKept, ReaderFields
  <1>3. /\ GoesAhead("streak", "answered") /\ reader'.nextDue = NextDueAt(reader.who, reader.at)
        /\ reader'.dueNow = reader.dueNow /\ reader'.today = reader.today /\ reader'.streak = reader.streak
    BY <1>1, <1>2 DEF GoesAhead, ReaderFields, ReaderStages, Reading
  <1>4. /\ RowsKept' /\ LogKept' /\ ReaderKept' /\ reader.who \in Learners /\ reader.at \in Nat
    BY <1>1, <1>3, GoesAheadKeeps
  <1>5. PICK v \in Learners, t \in Nat : v = reader.who /\ t = reader.at
    BY <1>4
  <1> DEFINE Rest == RowsOf(v) \ DueRows(v, t)
             coming == {progress[v][w].next : w \in Rest}
             next == NextDueAt(v, t)
  <1>6. next = IF coming = {} THEN Forever ELSE Min(coming)
    BY DEF NextDueAt
  <1>7. \A x \in coming : x \in Nat /\ x > t
    <2> TAKE x \in coming
    <2>1. PICK w \in RowsOf(v) : w \notin DueRows(v, t) /\ x = progress[v][w].next
      OBVIOUS
    <2>2. progress[v][w] \in SeenRows
      BY DEF ReportsInv, RowsKept, RowsOf
    <2>3. x \in Nat
      BY <2>1, <2>2 DEF SeenRows
    <2>4. ~(x <= t)
      BY <2>1 DEF DueRows
    <2> QED
      BY <2>3, <2>4
  <1>8. next = Forever \/ next > t
    <2>1. CASE coming = {}
      BY <1>6, <2>1
    <2>2. CASE coming # {}
      <3> HIDE DEF coming
      <3>1. coming \in SUBSET Nat
        BY <1>7
      <3>2. \E x \in coming : \A y \in coming : x <= y
        BY <2>2, <3>1, LeastNatural, Zenon
      <3>3. Min(coming) \in coming
        BY <3>2, Zenon DEF Min
      <3> QED
        BY <1>6, <1>7, <2>2, <3>3
    <2> QED
      BY <2>1, <2>2
  <1>9. next = Forever <=> Rest = {}
    <2>1. CASE Rest = {}
      BY <1>6, <2>1
    <2>2. CASE Rest # {}
      <3>1. coming # {}
        BY <2>2
      <3> HIDE DEF coming
      <3>2. coming \in SUBSET Nat
        BY <1>7
      <3>3. \E x \in coming : \A y \in coming : x <= y
        BY <3>1, <3>2, LeastNatural, Zenon
      <3>4. Min(coming) \in coming
        BY <3>3, Zenon DEF Min
      <3>5. Min(coming) \in Nat
        BY <3>2, <3>4
      <3> QED
        BY <1>6, <2>2, <3>1, <3>5 DEF Forever
    <2> QED
      BY <2>1, <2>2
  <1>10. next = Forever <=> Cardinality(DueRows(v, t)) = SumOf(ComputeCounts(v))
    <2>1. SumOf(ComputeCounts(v)) = Cardinality(RowsOf(v)) /\ IsFiniteSet(RowsOf(v))
      BY CountsAddUp DEF ReportsInv
    <2>2. DueRows(v, t) \in SUBSET RowsOf(v)
      BY DEF DueRows
    <2>3. Cardinality(DueRows(v, t)) = Cardinality(RowsOf(v)) <=> DueRows(v, t) = RowsOf(v)
      BY <2>1, <2>2, FS_Subset
    <2>4. Rest = {} <=> DueRows(v, t) = RowsOf(v)
      BY <2>2
    <2> HIDE DEF next, Rest
    <2> QED
      BY <1>9, <2>1, <2>3, <2>4
  <1>11. StatsKept'
    <2>1. /\ ~reader.disturbed => reader.counts = ComputeCounts(v)
          /\ ~reader.disturbed => reader.dueNow = Cardinality(DueRows(v, t))
          /\ reader.today > 0 => reader.streak > 0
      BY <1>1, <1>5 DEF ReportsInv, StatsKept
    <2>2. /\ reader'.pc = "answered" /\ reader'.counts = reader.counts /\ reader'.disturbed = reader.disturbed
          /\ reader'.at = t
      BY <1>3, <1>5 DEF GoesAhead
    <2>3. reader'.nextDue = next
      BY <1>3, <1>5
    <2> HIDE DEF next
    <2> QED
      BY <1>3, <1>8, <1>10, <2>1, <2>2, <2>3 DEF StatsKept
  <1>12. PicksKept'
    BY <1>3 DEF PicksKept, GoesAhead
  <1> QED
    BY <1>4, <1>11, <1>12 DEF ReportsInv

-----------------------------------------------------------------------------
(* Words are suggested once *)

\* What a query with LIMIT n takes of S.
LEMMA LeastTakes ==
  ASSUME NEW S, IsFiniteSet(S), NEW n \in Nat, NEW key, NEW T \in Least(n, S, key)
  PROVE  /\ T \in SUBSET S /\ IsFiniteSet(T) /\ Cardinality(T) \in Nat /\ Cardinality(T) <= n
         /\ Cardinality(T) < n => T = S
  <1>1. T \in SUBSET S /\ Cardinality(T) = IF Cardinality(S) < n THEN Cardinality(S) ELSE n
    BY DEF Least
  <1>2. IsFiniteSet(T) /\ Cardinality(S) \in Nat /\ Cardinality(T) \in Nat
    BY <1>1, FS_Subset, FS_CardinalityType
  <1>3. Cardinality(T) = Cardinality(S) => T = S
    BY <1>1, FS_Subset
  <1> QED
    BY <1>1, <1>2, <1>3

\* The picks d, f, e for v are sound in the stage pc.
PicksAre(pc, v, d, f, e, disturbed) ==
  /\ d \cap f = {} /\ (d \cup f) \cap e = {}
  /\ Cardinality((d \cup f) \cup e) <= Count
  /\ \A w \in f \cup e : IsPracticeable(v, w)
  /\ pc = "dueRead" => f = {}
  /\ pc \in {"dueRead", "picked"} => e = {}
  /\ pc = "dueRead" => \A w \in d : w \notin shelf \/ progress[v][w] # Unseen
  /\ ~disturbed => (d \cup f) \cup e \subseteq shelf
  /\ pc \in {"filled", "suggested"} /\ ~disturbed /\ Cardinality((d \cup f) \cup e) < Count =>
       shelf \cap approved \subseteq (d \cup f) \cup e

LEMMA PicksAgree ==
  ASSUME NEW pc, pc = reader.pc, NEW v, v = reader.who, NEW d, d = reader.due, NEW f, f = reader.fresh,
         NEW e, e = reader.extra, NEW x, x = reader.disturbed
  PROVE  PicksKept <=> pc \in {"dueRead", "picked", "filled", "suggested"} => PicksAre(pc, v, d, f, e, x)
  BY DEF PicksKept, PicksAre, Items

LEMMA PicksAgreeNext ==
  ASSUME Quiet, NEW pc, pc = reader'.pc, NEW v, v = reader'.who, NEW d, d = reader'.due, NEW f, f = reader'.fresh,
         NEW e, e = reader'.extra, NEW x, x = reader'.disturbed, PicksAre(pc, v, d, f, e, x)
  PROVE  PicksKept'
  <1>1. shelf' = shelf /\ approved' = approved /\ progress' = progress
    BY DEF Quiet
  <1>2. \A w : IsPracticeable(v, w)' <=> IsPracticeable(v, w)
    BY <1>1 DEF IsPracticeable
  <1> QED
    BY <1>1, <1>2 DEF PicksKept, PicksAre, Items

LEMMA SuggestDueKeeps == ASSUME ReportsInv, NEW who \in Learners, SuggestDue(who) PROVE ReportsInv'
  <1>1. Quiet
    BY DEF SuggestDue
  <1>2. RowsKept' /\ LogKept'
    BY <1>1, QuietRows DEF ReportsInv
  <1>3. PICK due \in FindDue(who, Count) :
          reader' = [Reading EXCEPT !.pc = IF Cardinality(due) = Count THEN "filled" ELSE "dueRead",
                                    !.who = who, !.at = time, !.due = due]
    BY DEF SuggestDue
  <1>4. PICK pc : pc = IF Cardinality(due) = Count THEN "filled" ELSE "dueRead"
    OBVIOUS
  <1>5. /\ DOMAIN reader' = ReaderFields /\ reader'.pc = pc /\ reader'.who = who /\ reader'.at = time
        /\ reader'.due = due /\ reader'.fresh = {} /\ reader'.extra = {} /\ reader'.disturbed = FALSE
    BY <1>3, <1>4 DEF Reading, ReaderFields
  <1>6. time' = time /\ time \in Nat
    BY <1>1 DEF Quiet, ReportsInv, RowsKept
  <1>7. DueRows(who, time) \in SUBSET RowsOf(who) /\ RowsOf(who) \in SUBSET StudyWords /\ RowsOf(who) \subseteq shelf
    BY DEF DueRows, RowsOf, ReportsInv, RowsKept
  <1>8. /\ due \in SUBSET DueRows(who, time) /\ Cardinality(due) \in Nat /\ Cardinality(due) <= Count
    <2>1. Count \in Nat
      BY ReportsAssumption DEF ReportsAssumption
    <2>2. IsFiniteSet(DueRows(who, time))
      <3>1. DueRows(who, time) \in SUBSET StudyWords
        BY <1>7
      <3> QED
        BY <3>1, StudyWordsFinite
    <2>3. PICK key : key = [w \in StudyWords |-> IF w \in RowsOf(who) THEN progress[who][w].next ELSE 0]
      OBVIOUS
    <2>4. PICK n \in Nat, overdue \in {DueRows(who, time)} : n = Count
      BY <2>1
    <2>5. due \in Least(n, overdue, key) /\ IsFiniteSet(overdue)
      BY <2>2, <2>3, <2>4 DEF FindDue
    <2>6. due \in SUBSET overdue /\ Cardinality(due) \in Nat /\ Cardinality(due) <= n
      BY ONLY <2>5, n \in Nat, LeastTakes, Zenon
    <2> QED
      BY <2>4, <2>6
  <1>9. due \subseteq StudyWords /\ due \subseteq shelf /\ \A w \in due : progress[who][w] # Unseen
    BY <1>7, <1>8 DEF RowsOf
  <1>10. pc \in {"dueRead", "filled"} /\ pc \in ReaderStages /\ pc # "idle"
    BY <1>4 DEF ReaderStages
  <1>11. ReaderKept'
    <2>1. time <= time /\ time - time <= DayMinutes
      BY <1>6 DEF DayMinutes
    <2> QED
      BY <1>5, <1>6, <1>9, <1>10, <2>1 DEF ReaderKept
  <1>12. StatsKept'
    BY <1>5, <1>10 DEF StatsKept
  <1>13. PicksAre(pc, who, due, {}, {}, FALSE)
    <2>1. (due \cup {}) \cup {} = due
      OBVIOUS
    <2>2. pc = "filled" => Cardinality(due) = Count
      BY <1>4
    <2>3. Count \in Nat
      BY ReportsAssumption DEF ReportsAssumption
    <2> QED
      BY <1>8, <1>9, <1>10, <2>1, <2>2, <2>3 DEF PicksAre
  <1>14. PicksKept'
    BY <1>1, <1>5, <1>13, PicksAgreeNext
  <1> QED
    BY <1>2, <1>11, <1>12, <1>14 DEF ReportsInv

\* A later query of getSuggestions keeps whose request it is.
FillsUp(from, to) ==
  /\ reader.pc = from /\ from # "idle" /\ DOMAIN reader' = ReaderFields /\ reader'.pc = to
  /\ to \in {"picked", "filled", "suggested"}
  /\ reader'.who = reader.who /\ reader'.at = reader.at /\ reader'.disturbed = reader.disturbed
  /\ reader'.due \subseteq StudyWords /\ reader'.fresh \subseteq StudyWords /\ reader'.extra \subseteq StudyWords

LEMMA FillsUpKeeps ==
  ASSUME ReportsInv, Quiet, NEW from, NEW to, FillsUp(from, to)
  PROVE  RowsKept' /\ LogKept' /\ ReaderKept' /\ StatsKept'
  <1>1. RowsKept' /\ LogKept'
    BY QuietRows DEF ReportsInv
  <1>2. time' = time
    BY DEF Quiet
  <1>3. /\ DOMAIN reader' = ReaderFields /\ reader'.pc = to /\ reader'.disturbed = reader.disturbed
        /\ reader'.who = reader.who /\ reader'.at = reader.at
        /\ reader'.due \subseteq StudyWords /\ reader'.fresh \subseteq StudyWords /\ reader'.extra \subseteq StudyWords
        /\ to \in {"picked", "filled", "suggested"} /\ to \in ReaderStages /\ reader.pc # "idle"
    BY DEF FillsUp, ReaderStages
  <1>4. /\ reader.disturbed \in BOOLEAN
        /\ reader.who \in Learners /\ reader.at \in Nat /\ reader.at <= time /\ time - reader.at <= DayMinutes
    BY <1>3 DEF ReportsInv, ReaderKept
  <1>5. ReaderKept'
    BY <1>2, <1>3, <1>4 DEF ReaderKept
  <1>6. StatsKept'
    BY <1>3 DEF StatsKept
  <1> QED
    BY <1>1, <1>5, <1>6

LEMMA SuggestFreshKeeps == ASSUME ReportsInv, SuggestFresh PROVE ReportsInv'
  <1>1. Quiet /\ reader.pc = "dueRead"
    BY DEF SuggestFresh
  <1>2. PICK fresh, request :
          /\ fresh \in FindFresh(reader.who, StillWanted(reader))
          /\ request = [reader EXCEPT !.fresh = fresh]
          /\ reader' = [request EXCEPT !.pc = IF StillWanted(request) = 0 THEN "filled" ELSE "picked"]
    BY DEF SuggestFresh
  <1>3. DOMAIN reader = DOMAIN Reading
    BY DEF ReportsInv, ReaderKept, ReaderFields
  <1>4. /\ DOMAIN request = DOMAIN Reading /\ request.fresh = fresh /\ request.due = reader.due
        /\ request.who = reader.who /\ request.at = reader.at /\ request.disturbed = reader.disturbed
        /\ request.extra = reader.extra
    BY <1>2, <1>3 DEF Reading
  <1>5. PICK v, due, x : v = reader.who /\ due = reader.due /\ x = reader.disturbed
    OBVIOUS
  <1>6. PICK pc : pc = IF StillWanted(request) = 0 THEN "filled" ELSE "picked"
    OBVIOUS
  <1>7. PicksAre("dueRead", v, due, reader.fresh, reader.extra, x)
    BY <1>1, <1>5, PicksAgree DEF ReportsInv
  <1>8. /\ reader.fresh = {} /\ reader.extra = {} /\ Cardinality((due \cup {}) \cup {}) <= Count
        /\ \A w \in due : w \notin shelf \/ progress[v][w] # Unseen
        /\ ~x => due \subseteq shelf
    BY <1>7 DEF PicksAre
  <1>9. /\ DOMAIN reader' = ReaderFields /\ reader'.pc = pc /\ reader'.who = v /\ reader'.at = reader.at
        /\ reader'.due = due /\ reader'.fresh = fresh /\ reader'.extra = {} /\ reader'.disturbed = x
    BY <1>2, <1>4, <1>5, <1>6, <1>8 DEF Reading, ReaderFields
  <1> DEFINE New == {w \in shelf : IsPracticeable(v, w) /\ progress[v][w] = Unseen}
  <1>10. due \in SUBSET StudyWords /\ New \in SUBSET StudyWords /\ due \cap New = {} /\ Count \in Nat
    BY <1>5, <1>8, ReportsAssumption DEF ReportsInv, ReaderKept, RowsKept, ReportsAssumption
  <1>11. IsFiniteSet(due) /\ IsFiniteSet(New) /\ Cardinality(due) \in Nat
    <2> HIDE DEF New
    <2> QED
      BY <1>10, StudyWordsFinite, FS_CardinalityType
  <1>12. PICK n \in Nat : n = StillWanted(reader) /\ n = Count - Cardinality(due)
    <2>1. due \cup {} = due /\ (due \cup {}) \cup {} = due
      OBVIOUS
    <2>2. StillWanted(reader) = Count - Cardinality(due) /\ Cardinality(due) <= Count
      BY <1>5, <1>8, <2>1 DEF StillWanted
    <2>3. Count - Cardinality(due) \in Nat
      BY ONLY <1>10, <1>11, <2>2
    <2> QED
      BY <2>2, <2>3
  <1>13. /\ fresh \in SUBSET New /\ IsFiniteSet(fresh) /\ Cardinality(fresh) \in Nat /\ Cardinality(fresh) <= n
    <2>1. fresh \in Least(n, New, Distance)
      BY <1>2, <1>5, <1>12 DEF FindFresh
    <2> HIDE DEF New
    <2> QED
      BY <1>11, <2>1, LeastTakes, Zenon
  <1>14. /\ due \cap fresh = {} /\ fresh \in SUBSET StudyWords
         /\ fresh \subseteq shelf /\ \A w \in fresh : IsPracticeable(v, w)
    BY <1>10, <1>13
  <1>15. Cardinality(due \cup fresh) = Cardinality(due) + Cardinality(fresh)
    BY <1>11, <1>13, <1>14, DisjointCards, Zenon
  <1>16. Cardinality(due \cup fresh) <= Count /\ Cardinality(due \cup fresh) \in Nat
    BY ONLY <1>10, <1>11, <1>12, <1>13, <1>15
  <1>17. pc = "filled" => Cardinality(due \cup fresh) = Count
    <2>1. StillWanted(request) = Count - Cardinality(due \cup fresh)
      BY <1>4, <1>5 DEF StillWanted
    <2> QED
      BY <1>6, <1>10, <1>16, <2>1
  <1>18. pc \in {"picked", "filled"}
    BY <1>6
  <1>19. PicksAre(pc, v, due, fresh, {}, x)
    <2>1. (due \cup fresh) \cup {} = due \cup fresh
      OBVIOUS
    <2> HIDE DEF New
    <2> QED
      BY <1>8, <1>10, <1>14, <1>16, <1>17, <1>18, <2>1 DEF PicksAre
  <1>20. PicksKept'
    BY <1>1, <1>9, <1>19, PicksAgreeNext
  <1>21. FillsUp("dueRead", pc)
    BY <1>1, <1>5, <1>9, <1>10, <1>14, <1>18 DEF FillsUp
  <1> QED
    BY <1>1, <1>20, <1>21, FillsUpKeeps DEF ReportsInv

LEMMA SuggestFallbackKeeps == ASSUME ReportsInv, SuggestFallback PROVE ReportsInv'
  <1>1. Quiet /\ reader.pc = "picked"
    BY DEF SuggestFallback
  <1>2. PICK v, due, fresh, x : v = reader.who /\ due = reader.due /\ fresh = reader.fresh /\ x = reader.disturbed
    OBVIOUS
  <1>3. PICK extra \in FindRandomFallback(StillWanted(reader), due \cup fresh) :
          reader' = [reader EXCEPT !.pc = "filled", !.extra = extra]
    BY <1>2 DEF SuggestFallback
  <1>4. DOMAIN reader = DOMAIN Reading
    BY DEF ReportsInv, ReaderKept, ReaderFields
  <1>5. /\ DOMAIN reader' = ReaderFields /\ reader'.pc = "filled" /\ reader'.who = v /\ reader'.at = reader.at
        /\ reader'.due = due /\ reader'.fresh = fresh /\ reader'.extra = extra /\ reader'.disturbed = x
    BY <1>2, <1>3, <1>4 DEF Reading, ReaderFields
  <1>6. PicksAre("picked", v, due, fresh, reader.extra, x)
    BY <1>1, <1>2, PicksAgree DEF ReportsInv
  <1>7. /\ reader.extra = {} /\ due \cap fresh = {} /\ Cardinality((due \cup fresh) \cup {}) <= Count
        /\ \A w \in fresh : IsPracticeable(v, w)
        /\ ~x => due \cup fresh \subseteq shelf
    BY <1>6 DEF PicksAre
  <1> DEFINE had == due \cup fresh
             Offered == {w \in (shelf \cap approved) \ had : Owner[w] = "system"}
  <1>8. /\ had \in SUBSET StudyWords /\ Offered \in SUBSET StudyWords /\ Offered = (shelf \cap approved) \ had
        /\ Count \in Nat /\ \A w \in Offered : IsPracticeable(v, w)
    <2>1. approved \subseteq StudyWords /\ (\A w \in approved : Owner[w] = "system") /\ shelf \subseteq StudyWords
      BY DEF ReportsInv, RowsKept, SystemWords
    <2>2. due \subseteq StudyWords /\ fresh \subseteq StudyWords /\ Count \in Nat
      BY <1>2, ReportsAssumption DEF ReportsInv, ReaderKept, ReportsAssumption
    <2> QED
      BY <2>1, <2>2 DEF IsPracticeable
  <1>9. IsFiniteSet(had) /\ IsFiniteSet(Offered) /\ Cardinality(had) \in Nat
    <2> HIDE DEF had, Offered
    <2> QED
      BY <1>8, StudyWordsFinite, FS_CardinalityType
  <1>10. PICK n \in Nat : n = StillWanted(reader) /\ n = Count - Cardinality(had)
    <2>1. had \cup {} = had
      OBVIOUS
    <2>2. StillWanted(reader) = Count - Cardinality(had) /\ Cardinality(had) <= Count
      BY <1>2, <1>7, <2>1 DEF StillWanted
    <2>3. Count - Cardinality(had) \in Nat
      BY ONLY <1>8, <1>9, <2>2
    <2> QED
      BY <2>2, <2>3
  <1>11. /\ extra \in SUBSET Offered /\ IsFiniteSet(extra) /\ Cardinality(extra) \in Nat /\ Cardinality(extra) <= n
         /\ Cardinality(extra) < n => extra = Offered
    <2>1. PICK key : key = [w \in StudyWords |-> IF Distance[w] = 0 THEN 0 ELSE 1]
      OBVIOUS
    <2>2. extra \in Least(n, Offered, key)
      BY <1>3, <1>10, <2>1 DEF FindRandomFallback
    <2> HIDE DEF Offered
    <2> QED
      BY <1>9, <2>2, LeastTakes, Zenon
  <1>12. /\ had \cap extra = {} /\ extra \in SUBSET StudyWords
         /\ extra \subseteq shelf /\ \A w \in extra : IsPracticeable(v, w)
    BY <1>8, <1>11
  <1>13. Cardinality(had \cup extra) = Cardinality(had) + Cardinality(extra)
    <2> HIDE DEF had
    <2> QED
      BY <1>9, <1>11, <1>12, DisjointCards, Zenon
  <1>14. Cardinality(had \cup extra) <= Count /\ (Cardinality(had \cup extra) < Count => Cardinality(extra) < n)
    <2> HIDE DEF had
    <2> QED
      BY ONLY <1>8, <1>9, <1>10, <1>11, <1>13
  <1>15. Cardinality(had \cup extra) < Count => shelf \cap approved \subseteq had \cup extra
    BY <1>8, <1>11, <1>14
  <1>16. PicksAre("filled", v, due, fresh, extra, x)
    <2>1. /\ due \cap fresh = {} /\ (due \cup fresh) \cap extra = {} /\ (~x => (due \cup fresh) \cup extra \subseteq shelf)
          /\ \A w \in fresh \cup extra : IsPracticeable(v, w)
      BY <1>7, <1>12
    <2> QED
      BY <1>14, <1>15, <2>1 DEF PicksAre
  <1>17. PicksKept'
    BY <1>1, <1>5, <1>16, PicksAgreeNext
  <1>18. FillsUp("picked", "filled")
    BY <1>1, <1>2, <1>5, <1>8, <1>12 DEF FillsUp
  <1> QED
    BY <1>1, <1>17, <1>18, FillsUpKeeps DEF ReportsInv

LEMMA SuggestItemsKeeps == ASSUME ReportsInv, SuggestItems PROVE ReportsInv'
  <1>1. Quiet /\ reader.pc = "filled"
    BY DEF SuggestItems
  <1>2. PICK v, due, fresh, extra, x : v = reader.who /\ due = reader.due /\ fresh = reader.fresh
                                       /\ extra = reader.extra /\ x = reader.disturbed
    OBVIOUS
  <1>3. reader' = [reader EXCEPT !.pc = "suggested", !.due = @ \cap shelf,
                                 !.fresh = @ \cap shelf, !.extra = @ \cap shelf]
    BY DEF SuggestItems
  <1>4. DOMAIN reader = DOMAIN Reading
    BY DEF ReportsInv, ReaderKept, ReaderFields
  <1>5. /\ DOMAIN reader' = ReaderFields /\ reader'.pc = "suggested" /\ reader'.who = v /\ reader'.at = reader.at
        /\ reader'.due = due \cap shelf /\ reader'.fresh = fresh \cap shelf /\ reader'.extra = extra \cap shelf
        /\ reader'.disturbed = x
    BY <1>2, <1>3, <1>4 DEF Reading, ReaderFields
  <1>6. PicksAre("filled", v, due, fresh, extra, x)
    BY <1>1, <1>2, PicksAgree DEF ReportsInv
  <1> DEFINE all == (due \cup fresh) \cup extra
             left == ((due \cap shelf) \cup (fresh \cap shelf)) \cup (extra \cap shelf)
  <1>7. all \in SUBSET StudyWords /\ left \in SUBSET all /\ (~x => left = all)
    <2>1. due \subseteq StudyWords /\ fresh \subseteq StudyWords /\ extra \subseteq StudyWords
      BY <1>2 DEF ReportsInv, ReaderKept
    <2>2. ~x => all \subseteq shelf
      BY <1>6 DEF PicksAre
    <2> QED
      BY <2>1, <2>2
  <1>8. Cardinality(left) <= Count
    <2>1. Cardinality(all) <= Count
      BY <1>6 DEF PicksAre
    <2> HIDE DEF all, left
    <2>2. Count \in Nat
      BY ReportsAssumption DEF ReportsAssumption
    <2>3. IsFiniteSet(all)
      BY <1>7, StudyWordsFinite
    <2>4. Cardinality(left) <= Cardinality(all) /\ Cardinality(left) \in Nat /\ Cardinality(all) \in Nat
      BY <1>7, <2>3, FS_Subset, FS_CardinalityType
    <2> QED
      BY <2>1, <2>2, <2>4
  <1>9. ~x /\ Cardinality(left) < Count => shelf \cap approved \subseteq left
    <2>1. ~x /\ Cardinality(all) < Count => shelf \cap approved \subseteq all
      BY <1>6 DEF PicksAre
    <2> HIDE DEF all, left
    <2> QED
      BY <1>7, <2>1
  <1>10. PicksAre("suggested", v, due \cap shelf, fresh \cap shelf, extra \cap shelf, x)
    <2>1. /\ due \cap fresh = {} /\ (due \cup fresh) \cap extra = {}
          /\ \A w \in fresh \cup extra : IsPracticeable(v, w)
      BY <1>6 DEF PicksAre
    <2>2. /\ (due \cap shelf) \cap (fresh \cap shelf) = {}
          /\ ((due \cap shelf) \cup (fresh \cap shelf)) \cap (extra \cap shelf) = {}
          /\ \A w \in (fresh \cap shelf) \cup (extra \cap shelf) : IsPracticeable(v, w)
          /\ left \subseteq shelf
      BY <2>1
    <2> QED
      BY <1>8, <1>9, <2>2 DEF PicksAre
  <1>11. PicksKept'
    BY <1>1, <1>5, <1>10, PicksAgreeNext
  <1>12. FillsUp("filled", "suggested")
    BY <1>1, <1>2, <1>5, <1>7 DEF FillsUp
  <1> QED
    BY <1>1, <1>11, <1>12, FillsUpKeeps DEF ReportsInv

-----------------------------------------------------------------------------
(* What happens between the queries keeps the invariant *)

\* What was in the log stays there, but for the names of deleted words.
LogGoesOn ==
  /\ DOMAIN activity \subseteq DOMAIN activity'
  /\ \A i \in DOMAIN activity : activity'[i].who = activity[i].who /\ activity'[i].at = activity[i].at

\* A step between the queries: d says whether the request was disturbed.
Meanwhile(d) ==
  /\ ~Answered /\ LogGoesOn
  /\ DOMAIN reader' = DOMAIN reader /\ reader'.pc = reader.pc /\ reader'.who = reader.who
  /\ reader'.at = reader.at /\ reader'.counts = reader.counts /\ reader'.dueNow = reader.dueNow
  /\ reader'.today = reader.today /\ reader'.streak = reader.streak /\ reader'.nextDue = reader.nextDue
  /\ reader'.due = reader.due /\ reader'.fresh = reader.fresh /\ reader'.extra = reader.extra
  /\ reader'.disturbed = d /\ d \in BOOLEAN /\ (reader.disturbed => d)
  /\ time' \in Nat /\ time <= time' /\ (reader.pc # "idle" => time' - reader.at <= DayMinutes)
  /\ approved \subseteq approved' /\ shelf' \subseteq shelf
  /\ \A v \in Learners, w \in StudyWords : progress'[v][w] = Unseen => progress[v][w] = Unseen \/ w \notin shelf'
  /\ reader.pc # "idle" /\ ~d =>
       shelf' = shelf /\ approved' = approved /\ progress'[reader.who] = progress[reader.who]

LEMMA MeanwhileKeeps ==
  ASSUME ReportsInv, NEW d, Meanwhile(d)
  PROVE  ReaderKept' /\ StatsKept' /\ PicksKept'
  <1>1. PICK v, t, pc : v = reader.who /\ t = reader.at /\ pc = reader.pc
    OBVIOUS
  <1>2. reader'.who = v /\ reader'.at = t /\ reader'.pc = pc /\ reader'.disturbed = d /\ d \in BOOLEAN
    BY <1>1 DEF Meanwhile
  <1>3. pc \notin {"answered", "suggested"}
    BY <1>1 DEF Meanwhile, Answered
  <1>4. ReaderKept'
    <2>1. reader.pc # "idle" => /\ reader.who \in Learners /\ reader.at \in Nat /\ reader.at <= time
      BY DEF ReportsInv, ReaderKept
    <2>2. time \in Nat /\ time' \in Nat /\ time <= time' /\ (reader.pc # "idle" => time' - reader.at <= DayMinutes)
      BY DEF ReportsInv, RowsKept, Meanwhile
    <2>3. reader.pc # "idle" => reader.at <= time'
      BY ONLY <2>1, <2>2
    <2>4. /\ DOMAIN reader' = DOMAIN reader /\ reader'.pc = reader.pc /\ reader'.who = reader.who
          /\ reader'.at = reader.at
          /\ reader'.due = reader.due /\ reader'.fresh = reader.fresh /\ reader'.extra = reader.extra
          /\ reader'.disturbed \in BOOLEAN
      BY DEF Meanwhile
    <2>5. /\ DOMAIN reader = ReaderFields /\ reader.pc \in ReaderStages
          /\ reader.due \subseteq StudyWords /\ reader.fresh \subseteq StudyWords /\ reader.extra \subseteq StudyWords
      BY DEF ReportsInv, ReaderKept
    <2> QED
      BY <2>1, <2>2, <2>3, <2>4, <2>5 DEF ReaderKept
  <1>5. AnsweredLately(v, t) => AnsweredLately(v, t)'
    <2> HAVE AnsweredLately(v, t)
    <2>1. PICK i \in DOMAIN activity : activity[i].who = v /\ DayOf(activity[i].at, Utc) >= DayOf(t, Utc)
      BY DEF AnsweredLately, EventsOf
    <2>2. i \in DOMAIN activity' /\ activity'[i].who = v /\ activity'[i].at = activity[i].at
      BY <2>1 DEF Meanwhile, LogGoesOn
    <2> QED
      BY <2>1, <2>2 DEF AnsweredLately, EventsOf
  <1>6. pc # "idle" /\ ~d => /\ progress'[v] = progress[v] /\ shelf' = shelf /\ approved' = approved
                           /\ ~reader.disturbed
    BY <1>1 DEF Meanwhile
  <1>7. pc # "idle" /\ ~d => ComputeCounts(v)' = ComputeCounts(v) /\ DueRows(v, t)' = DueRows(v, t)
    <2> HAVE pc # "idle" /\ ~d
    <2>1. progress'[v] = progress[v]
      BY <1>6
    <2>2. RowsOf(v)' = RowsOf(v)
      BY <2>1 DEF RowsOf
    <2> QED
      BY <2>1, <2>2 DEF ComputeCounts, DueRows
  <1>8. StatsKept'
    <2>1. /\ (ComputeCounts(reader.who))' = ComputeCounts(v)'
          /\ (DueRows(reader.who, reader.at))' = DueRows(v, t)'
          /\ AnsweredLately(reader.who, reader.at)' = AnsweredLately(v, t)'
      BY <1>2 DEF ComputeCounts, DueRows, RowsOf, AnsweredLately, EventsOf
    <2>2. /\ pc \in {"counted", "due", "today", "streak"} /\ ~reader.disturbed => reader.counts = ComputeCounts(v)
          /\ pc \in {"due", "today", "streak"} /\ ~reader.disturbed => reader.dueNow = Cardinality(DueRows(v, t))
          /\ pc = "today" /\ reader.today > 0 => AnsweredLately(v, t)
          /\ pc = "streak" /\ reader.today > 0 => reader.streak > 0
      BY <1>1 DEF ReportsInv, StatsKept
    <2>3. /\ reader'.counts = reader.counts /\ reader'.dueNow = reader.dueNow
          /\ reader'.today = reader.today /\ reader'.streak = reader.streak
      BY DEF Meanwhile
    <2> QED
      BY <1>2, <1>3, <1>5, <1>6, <1>7, <2>1, <2>2, <2>3 DEF StatsKept
  <1>9. PicksKept'
    <2>1. PICK due, fresh, extra, x : due = reader.due /\ fresh = reader.fresh /\ extra = reader.extra /\ x = reader.disturbed
      OBVIOUS
    <2>2. reader'.due = due /\ reader'.fresh = fresh /\ reader'.extra = extra
      BY <2>1 DEF Meanwhile
    <2> SUFFICES ASSUME pc \in {"dueRead", "picked", "filled"} PROVE PicksKept'
      BY <1>2, <1>3 DEF PicksKept
    <2>3. PicksAre(pc, v, due, fresh, extra, x)
      BY <1>1, <2>1, PicksAgree DEF ReportsInv
    <2>4. \A w \in fresh \cup extra : IsPracticeable(v, w)'
      <3>1. approved \subseteq approved'
        BY DEF Meanwhile
      <3>2. \A w \in fresh \cup extra : IsPracticeable(v, w)
        BY <2>3 DEF PicksAre
      <3> QED
        BY <3>1, <3>2 DEF IsPracticeable
    <2>5. pc = "dueRead" => \A w \in due : w \notin shelf' \/ progress'[v][w] # Unseen
      <3>1. v \in Learners /\ due \subseteq StudyWords
        BY <1>1, <2>1 DEF ReportsInv, ReaderKept
      <3>2. pc = "dueRead" => \A w \in due : w \notin shelf \/ progress[v][w] # Unseen
        BY <2>3 DEF PicksAre
      <3> QED
        BY <3>1, <3>2 DEF Meanwhile
    <2>6. ~d => ~x /\ shelf' = shelf /\ approved' = approved
      BY <1>6, <2>1
    <2>7. /\ due \cap fresh = {} /\ (due \cup fresh) \cap extra = {}
          /\ Cardinality((due \cup fresh) \cup extra) <= Count
          /\ pc = "dueRead" => fresh = {}
          /\ pc \in {"dueRead", "picked"} => extra = {}
          /\ ~d => (due \cup fresh) \cup extra \subseteq shelf'
          /\ pc \in {"filled", "suggested"} /\ ~d /\ Cardinality((due \cup fresh) \cup extra) < Count =>
               shelf' \cap approved' \subseteq (due \cup fresh) \cup extra
      BY <2>3, <2>6 DEF PicksAre
    <2>8. \A w \in fresh \cup extra : (IsPracticeable(reader.who, w))'
      BY <1>2, <2>4 DEF IsPracticeable
    <2> QED
      BY <1>2, <2>2, <2>5, <2>7, <2>8 DEF PicksKept, Items
  <1> QED
    BY <1>4, <1>8, <1>9

\* The log takes an answer.
LEMMA LogGrows ==
  ASSUME RowsKept, LogKept, NEW who \in Learners, NEW w \in shelf, NEW new \in BOOLEAN, Log(who, w, new),
         time' = time, shelf' = shelf,
         \A v \in Learners, u \in StudyWords :
           progress'[v][u] # Unseen /\ progress'[v][u].last # Forever =>
             \/ progress'[v][u] = progress[v][u]
             \/ v = who /\ progress'[v][u].last = time
  PROVE  LogKept' /\ LogGoesOn
  <1>1. PICK e : e = [who |-> who, word |-> w, at |-> time, new |-> new]
    OBVIOUS
  <1>2. time \in Nat /\ w \in StudyWords
    BY DEF RowsKept
  <1>3. e \in Events /\ e.who = who /\ e.word = w /\ e.at = time
    BY <1>1, <1>2 DEF Events
  <1>4. activity' = Append(activity, e) /\ studied' = studied \cup {<<who, DayOf(time, Utc)>>}
    BY <1>1 DEF Log
  <1>5. activity \in Seq(Events) /\ \A i \in DOMAIN activity : activity[i].at <= time /\ activity[i].word \in shelf \cup {"none"}
    BY DEF LogKept
  <1>6. PICK n \in Nat : n = Len(activity)
    BY <1>5
  <1>7. /\ activity' \in Seq(Events) /\ DOMAIN activity' = 1..(n + 1) /\ DOMAIN activity = 1..n
        /\ activity'[n + 1] = e /\ \A i \in 1..n : activity'[i] = activity[i]
    BY <1>3, <1>4, <1>5, <1>6
  <1>8. PICK m \in Nat : m = n + 1
    OBVIOUS
  <1>9. 1..m = (1..n) \cup {m}
    BY <1>8
  <1>10. \A i \in DOMAIN activity' : activity'[i].at <= time' /\ activity'[i].word \in shelf' \cup {"none"}
    <2> TAKE i \in DOMAIN activity'
    <2>1. CASE i = m
      <3>1. time <= time
        BY <1>2
      <3> QED
        BY <1>3, <1>7, <1>8, <2>1, <3>1
    <2>2. CASE i \in 1..n
      BY <1>5, <1>7, <2>2
    <2> QED
      BY <1>7, <1>8, <1>9, <2>1, <2>2
  <1>11. studied' = {<<activity'[i].who, DayOf(activity'[i].at, Utc)>> : i \in DOMAIN activity'}
    <2>1. studied = {<<activity[i].who, DayOf(activity[i].at, Utc)>> : i \in 1..n}
      BY <1>7 DEF LogKept
    <2>2. {<<activity'[i].who, DayOf(activity'[i].at, Utc)>> : i \in 1..n} = studied
      BY <1>7, <2>1
    <2>3. {<<activity'[i].who, DayOf(activity'[i].at, Utc)>> : i \in 1..m} =
            {<<activity'[i].who, DayOf(activity'[i].at, Utc)>> : i \in 1..n} \cup {<<activity'[m].who, DayOf(activity'[m].at, Utc)>>}
      BY <1>9
    <2>4. <<activity'[m].who, DayOf(activity'[m].at, Utc)>> = <<who, DayOf(time, Utc)>>
      BY <1>3, <1>7, <1>8
    <2> QED
      BY <1>4, <1>7, <1>8, <2>2, <2>3, <2>4
  <1>12. ASSUME NEW v \in Learners, NEW u \in StudyWords, progress'[v][u] # Unseen, progress'[v][u].last # Forever
         PROVE  \E i \in DOMAIN activity' : activity'[i].who = v /\ activity'[i].at = progress'[v][u].last
    <2>1. CASE v = who /\ progress'[v][u].last = time
      <3>1. m \in DOMAIN activity' /\ activity'[m] = e
        BY <1>7, <1>8, <1>9
      <3> QED
        BY <1>3, <2>1, <3>1
    <2>2. CASE progress'[v][u] = progress[v][u]
      <3>1. PICK i \in DOMAIN activity : activity[i].who = v /\ activity[i].at = progress[v][u].last
        BY <1>12, <2>2 DEF LogKept
      <3>2. i \in DOMAIN activity' /\ activity'[i] = activity[i]
        BY <1>7, <1>8, <1>9, <3>1
      <3> QED
        BY <2>2, <3>1, <3>2
    <2> QED
      BY <1>12, <2>1, <2>2
  <1>13. LogGoesOn
    BY <1>7, <1>8, <1>9 DEF LogGoesOn
  <1> QED
    BY <1>7, <1>10, <1>11, <1>12, <1>13 DEF LogKept

LEMMA AnswerCardKeeps ==
  ASSUME ReportsInv, ~Answered, NEW who \in Learners, NEW w \in StudyWords, AnswerCard(who, w)
  PROVE  ReportsInv'
  <1>1. /\ time' = time /\ shelf' = shelf /\ approved' = approved /\ w \in RowsOf(who)
    BY DEF AnswerCard
  <1>2. w \in shelf /\ progress[who][w] \in SeenRows /\ time \in Nat
        /\ progress \in [Learners -> [StudyWords -> SeenRows \cup {Unseen}]]
    BY <1>1 DEF RowsOf, ReportsInv, RowsKept
  <1>3. RowsKept /\ LogKept /\ DOMAIN reader = DOMAIN Reading /\ reader.disturbed \in BOOLEAN
    BY DEF ReportsInv, ReaderKept, ReaderFields
  <1>4. reader.pc # "idle" => time - reader.at <= DayMinutes
    BY DEF ReportsInv, ReaderKept
  <1>5. CASE Practised(progress[who][w])
    <2>1. Log(who, w, FALSE) /\ progress' = progress /\ reader' = reader
      BY <1>5 DEF AnswerCard
    <2>2. LogKept' /\ LogGoesOn
      BY <1>1, <1>2, <1>3, <2>1, LogGrows
    <2>3. RowsKept'
      BY <1>1, <1>3, <2>1 DEF RowsKept, SystemWords
    <2>4. time <= time'
      BY <1>1, <1>2
    <2>5. Meanwhile(reader.disturbed)
      BY <1>1, <1>2, <1>3, <1>4, <2>1, <2>2, <2>4 DEF Meanwhile
    <2> QED
      BY <2>2, <2>3, <2>5, MeanwhileKeeps DEF ReportsInv
  <1>6. CASE ~Practised(progress[who][w])
    <2>1. PICK new \in BOOLEAN : Log(who, w, new)
      <3>1. Log(who, w, progress[who][w].last = Forever)
        BY <1>6 DEF AnswerCard
      <3>2. PICK new : new = (progress[who][w].last = Forever)
        OBVIOUS
      <3> QED
        BY <3>1, <3>2
    <2>2. PICK outcome \in Outcomes :
            progress' = [progress EXCEPT ![who][w] =
                 [status |-> outcome.status, next |-> time + outcome.delay, last |-> time]]
      BY <1>6 DEF AnswerCard
    <2>3. Disturb(who = reader.who)
      BY <1>6 DEF AnswerCard
    <2>4. PICK status \in {"learning", "review", "mastered"}, next \in Nat :
            status = outcome.status /\ next = time + outcome.delay
      <3>1. outcome \in [status: {"learning", "review", "mastered"}, delay: Nat]
        BY ReportsAssumption DEF ReportsAssumption
      <3> QED
        BY <1>2, <3>1
    <2>5. PICK card \in SeenRows : card = [status |-> status, next |-> next, last |-> time]
      <3>1. [status |-> status, next |-> next, last |-> time] \in SeenRows
        BY <1>2 DEF SeenRows
      <3> QED
        BY <3>1
    <2>6. card # Unseen /\ card.last = time
      <3>1. card.status \in {"learning", "review", "mastered"} /\ card.last = time
        BY <2>5
      <3>2. Unseen.status = "none"
        BY DEF Unseen
      <3> QED
        BY <3>1, <3>2
    <2>7. progress' = [progress EXCEPT ![who][w] = card]
      BY <2>2, <2>4, <2>5
    <2>8. /\ progress' \in [Learners -> [StudyWords -> SeenRows \cup {Unseen}]]
          /\ progress'[who][w] = card
          /\ \A v \in Learners : v # who => progress'[v] = progress[v]
          /\ \A v \in Learners, u \in StudyWords : (v # who \/ u # w) => progress'[v][u] = progress[v][u]
      BY <1>2, <2>7
    <2>9. RowsKept'
      <3>1. \A v \in Learners, u \in StudyWords : progress'[v][u] # Unseen => u \in shelf
        BY <1>2, <2>8 DEF ReportsInv, RowsKept
      <3> QED
        BY <1>1, <1>3, <2>8, <3>1 DEF RowsKept, SystemWords
    <2>10. LogKept' /\ LogGoesOn
      <3>1. \A v \in Learners, u \in StudyWords :
              progress'[v][u] = progress[v][u] \/ (v = who /\ progress'[v][u].last = time)
        BY <2>6, <2>8
      <3> QED
        BY <1>1, <1>2, <1>3, <2>1, <3>1, LogGrows
    <2>11. PICK dd : dd = (reader.disturbed \/ ((who = reader.who) /\ reader.pc # "idle"))
      OBVIOUS
    <2>12. reader' = [reader EXCEPT !.disturbed = dd]
      BY <2>3, <2>11 DEF Disturb
    <2>13. /\ DOMAIN reader' = DOMAIN reader /\ reader'.pc = reader.pc /\ reader'.who = reader.who
           /\ reader'.at = reader.at /\ reader'.counts = reader.counts /\ reader'.dueNow = reader.dueNow
           /\ reader'.today = reader.today /\ reader'.streak = reader.streak /\ reader'.nextDue = reader.nextDue
           /\ reader'.due = reader.due /\ reader'.fresh = reader.fresh /\ reader'.extra = reader.extra
           /\ reader'.disturbed = dd
      BY <1>3, <2>12 DEF Reading
    <2>14. /\ dd \in BOOLEAN /\ (reader.disturbed => dd)
           /\ reader.pc # "idle" /\ ~dd => progress'[reader.who] = progress[reader.who]
      <3>1. reader.pc # "idle" => reader.who \in Learners
        BY DEF ReportsInv, ReaderKept
      <3> QED
        BY <2>8, <2>11, <3>1
    <2>15. time <= time'
      BY <1>1, <1>2
    <2>16. \A v \in Learners, u \in StudyWords : progress'[v][u] = Unseen => progress[v][u] = Unseen
      BY <2>6, <2>8
    <2>17. Meanwhile(dd)
      BY <1>1, <1>2, <1>4, <2>10, <2>13, <2>14, <2>15, <2>16 DEF Meanwhile
    <2> QED
      BY <2>9, <2>10, <2>17, MeanwhileKeeps DEF ReportsInv
  <1> QED
    BY <1>5, <1>6

LEMMA EnrollCardKeeps ==
  ASSUME ReportsInv, ~Answered, NEW who \in Learners, NEW w \in StudyWords, EnrollCard(who, w)
  PROVE  ReportsInv'
  <1>1. /\ time' = time /\ shelf' = shelf /\ approved' = approved /\ activity' = activity /\ studied' = studied
        /\ w \in shelf
        /\ progress' = [progress EXCEPT ![who][w] = [status |-> "new", next |-> time, last |-> Forever]]
        /\ Disturb(who = reader.who)
    BY DEF EnrollCard
  <1>2. time \in Nat /\ progress \in [Learners -> [StudyWords -> SeenRows \cup {Unseen}]]
    BY DEF ReportsInv, RowsKept
  <1>3. RowsKept /\ LogKept /\ DOMAIN reader = DOMAIN Reading /\ reader.disturbed \in BOOLEAN
    BY DEF ReportsInv, ReaderKept, ReaderFields
  <1>4. reader.pc # "idle" => time - reader.at <= DayMinutes /\ reader.who \in Learners
    BY DEF ReportsInv, ReaderKept
  <1>5. PICK card \in SeenRows : card = [status |-> "new", next |-> time, last |-> Forever]
    <2>1. [status |-> "new", next |-> time, last |-> Forever] \in SeenRows
      BY <1>2 DEF SeenRows
    <2> QED
      BY <2>1
  <1>6. card # Unseen /\ card.last = Forever
    <2>1. card.status = "new" /\ Unseen.status = "none" /\ card.last = Forever
      BY <1>5 DEF Unseen
    <2> QED
      BY <2>1
  <1>7. /\ progress' \in [Learners -> [StudyWords -> SeenRows \cup {Unseen}]]
        /\ progress'[who][w] = card
        /\ \A v \in Learners : v # who => progress'[v] = progress[v]
        /\ \A v \in Learners, u \in StudyWords : (v # who \/ u # w) => progress'[v][u] = progress[v][u]
    <2>1. progress' = [progress EXCEPT ![who][w] = card]
      BY <1>1, <1>5
    <2> QED
      BY <1>2, <2>1
  <1>8. RowsKept'
    <2>1. \A v \in Learners, u \in StudyWords : progress'[v][u] # Unseen => u \in shelf
      BY <1>1, <1>7 DEF ReportsInv, RowsKept
    <2> QED
      BY <1>1, <1>3, <1>7, <2>1 DEF RowsKept, SystemWords
  <1>9. LogKept'
    <2>1. \A v \in Learners, u \in StudyWords : progress'[v][u] # Unseen /\ progress'[v][u].last # Forever =>
            \E i \in DOMAIN activity : activity[i].who = v /\ activity[i].at = progress'[v][u].last
      BY <1>3, <1>6, <1>7 DEF LogKept
    <2> QED
      BY <1>1, <1>3, <2>1 DEF LogKept
  <1>10. PICK dd : dd = (reader.disturbed \/ ((who = reader.who) /\ reader.pc # "idle"))
    OBVIOUS
  <1>11. reader' = [reader EXCEPT !.disturbed = dd]
    BY <1>1, <1>10 DEF Disturb
  <1>12. /\ DOMAIN reader' = DOMAIN reader /\ reader'.pc = reader.pc /\ reader'.who = reader.who
         /\ reader'.at = reader.at /\ reader'.counts = reader.counts /\ reader'.dueNow = reader.dueNow
         /\ reader'.today = reader.today /\ reader'.streak = reader.streak /\ reader'.nextDue = reader.nextDue
         /\ reader'.due = reader.due /\ reader'.fresh = reader.fresh /\ reader'.extra = reader.extra
         /\ reader'.disturbed = dd
    BY <1>3, <1>11 DEF Reading
  <1>13. /\ dd \in BOOLEAN /\ (reader.disturbed => dd)
         /\ reader.pc # "idle" /\ ~dd => progress'[reader.who] = progress[reader.who]
    BY <1>4, <1>7, <1>10
  <1>14. /\ time <= time' /\ LogGoesOn
         /\ \A v \in Learners, u \in StudyWords : progress'[v][u] = Unseen => progress[v][u] = Unseen
    BY <1>1, <1>2, <1>6, <1>7 DEF LogGoesOn
  <1>15. Meanwhile(dd)
    BY <1>1, <1>2, <1>4, <1>12, <1>13, <1>14 DEF Meanwhile
  <1> QED
    BY <1>8, <1>9, <1>15, MeanwhileKeeps DEF ReportsInv

LEMMA DeleteStudyWordKeeps ==
  ASSUME ReportsInv, ~Answered, NEW w \in StudyWords, DeleteStudyWord(w)
  PROVE  ReportsInv'
  <1>1. /\ time' = time /\ approved' = approved /\ studied' = studied /\ shelf' = shelf \ {w}
        /\ progress' = [v \in Learners |-> [progress[v] EXCEPT ![w] = Unseen]]
        /\ activity' = [i \in DOMAIN activity |->
                    IF activity[i].word = w THEN [activity[i] EXCEPT !.word = "none"] ELSE activity[i]]
        /\ Disturb(TRUE)
    BY DEF DeleteStudyWord
  <1>2. time \in Nat /\ progress \in [Learners -> [StudyWords -> SeenRows \cup {Unseen}]]
    BY DEF ReportsInv, RowsKept
  <1>3. RowsKept /\ LogKept /\ DOMAIN reader = DOMAIN Reading /\ reader.disturbed \in BOOLEAN
    BY DEF ReportsInv, ReaderKept, ReaderFields
  <1>4. reader.pc # "idle" => time - reader.at <= DayMinutes
    BY DEF ReportsInv, ReaderKept
  <1>5. /\ progress' \in [Learners -> [StudyWords -> SeenRows \cup {Unseen}]]
        /\ \A v \in Learners : progress'[v][w] = Unseen
        /\ \A v \in Learners, u \in StudyWords : u # w => progress'[v][u] = progress[v][u]
    BY <1>1, <1>2
  <1>6. RowsKept'
    <2>1. \A v \in Learners, u \in StudyWords : progress'[v][u] # Unseen => u \in shelf'
      BY <1>1, <1>5 DEF ReportsInv, RowsKept
    <2>2. shelf' \subseteq StudyWords
      BY <1>1, <1>3 DEF RowsKept
    <2> QED
      BY <1>1, <1>3, <1>5, <2>1, <2>2 DEF RowsKept, SystemWords
  <1>7. activity \in Seq(Events) /\ DOMAIN activity' = DOMAIN activity
    BY <1>1, <1>3 DEF LogKept
  <1>8. ASSUME NEW i \in DOMAIN activity
        PROVE  /\ activity'[i] \in Events /\ activity'[i].who = activity[i].who /\ activity'[i].at = activity[i].at
               /\ activity'[i].word \in shelf' \cup {"none"}
    <2>1. activity[i] \in Events /\ activity[i].word \in shelf \cup {"none"}
      BY <1>3, <1>7 DEF LogKept
    <2>2. CASE activity[i].word = w
      <3>1. PICK e : e = activity[i]
        OBVIOUS
      <3>2. PICK k : k = [e EXCEPT !.word = "none"]
        OBVIOUS
      <3>3. activity'[i] = k
        BY <1>1, <2>2, <3>1, <3>2
      <3>4. e \in Events
        BY <2>1, <3>1
      <3>5. k \in Events /\ k.who = e.who /\ k.at = e.at /\ k.word = "none"
        BY ONLY <3>2, <3>4 DEF Events
      <3> QED
        BY <3>1, <3>3, <3>5
    <2>3. CASE activity[i].word # w
      BY <1>1, <2>1, <2>3
    <2> QED
      BY <2>2, <2>3
  <1>9. LogKept'
    <2>1. activity' \in Seq(Events)
      <3>1. PICK n \in Nat : DOMAIN activity = 1..n
        BY <1>7
      <3>2. activity' \in [1..n -> Events]
        <4>1. activity' = [i \in 1..n |-> activity'[i]]
          BY <1>1, <3>1
        <4> QED
          BY <1>8, <3>1, <4>1
      <3> QED
        BY <3>2
    <2>2. \A i \in DOMAIN activity' : activity'[i].at <= time' /\ activity'[i].word \in shelf' \cup {"none"}
      BY <1>1, <1>3, <1>7, <1>8 DEF LogKept
    <2>3. studied' = {<<activity'[i].who, DayOf(activity'[i].at, Utc)>> : i \in DOMAIN activity'}
      <3>1. studied = {<<activity[i].who, DayOf(activity[i].at, Utc)>> : i \in DOMAIN activity}
        BY <1>3 DEF LogKept
      <3> QED
        BY ONLY <1>1, <1>7, <1>8, <3>1
    <2>4. \A v \in Learners, u \in StudyWords : progress'[v][u] # Unseen /\ progress'[v][u].last # Forever =>
            \E i \in DOMAIN activity' : activity'[i].who = v /\ activity'[i].at = progress'[v][u].last
      <3> TAKE v \in Learners, u \in StudyWords
      <3> HAVE progress'[v][u] # Unseen /\ progress'[v][u].last # Forever
      <3>1. progress'[v][u] = progress[v][u]
        BY <1>5
      <3>2. PICK i \in DOMAIN activity : activity[i].who = v /\ activity[i].at = progress[v][u].last
        BY <1>3, <3>1 DEF LogKept
      <3> QED
        BY <1>7, <1>8, <3>1, <3>2
    <2> QED
      BY <2>1, <2>2, <2>3, <2>4 DEF LogKept
  <1>10. PICK dd : dd = (reader.disturbed \/ (TRUE /\ reader.pc # "idle"))
    OBVIOUS
  <1>11. reader' = [reader EXCEPT !.disturbed = dd]
    BY <1>1, <1>10 DEF Disturb
  <1>12. /\ DOMAIN reader' = DOMAIN reader /\ reader'.pc = reader.pc /\ reader'.who = reader.who
         /\ reader'.at = reader.at /\ reader'.counts = reader.counts /\ reader'.dueNow = reader.dueNow
         /\ reader'.today = reader.today /\ reader'.streak = reader.streak /\ reader'.nextDue = reader.nextDue
         /\ reader'.due = reader.due /\ reader'.fresh = reader.fresh /\ reader'.extra = reader.extra
         /\ reader'.disturbed = dd
    BY <1>3, <1>11 DEF Reading
  <1>13. dd \in BOOLEAN /\ (reader.disturbed => dd) /\ ~(reader.pc # "idle" /\ ~dd)
    BY <1>10
  <1>14. /\ time <= time' /\ LogGoesOn /\ shelf' \subseteq shelf
         /\ \A v \in Learners, u \in StudyWords : progress'[v][u] = Unseen => progress[v][u] = Unseen \/ u \notin shelf'
    BY <1>1, <1>2, <1>5, <1>7, <1>8 DEF LogGoesOn
  <1>15. Meanwhile(dd)
    BY <1>1, <1>2, <1>4, <1>12, <1>13, <1>14 DEF Meanwhile
  <1> QED
    BY <1>6, <1>9, <1>15, MeanwhileKeeps DEF ReportsInv

LEMMA ApproveDraftKeeps ==
  ASSUME ReportsInv, ~Answered, NEW w \in StudyWords, ApproveDraft(w)
  PROVE  ReportsInv'
  <1>1. /\ time' = time /\ shelf' = shelf /\ progress' = progress /\ activity' = activity /\ studied' = studied
        /\ approved' = approved \cup {w} /\ Owner[w] = "system" /\ Disturb(TRUE)
    BY DEF ApproveDraft
  <1>2. RowsKept /\ LogKept /\ DOMAIN reader = DOMAIN Reading /\ reader.disturbed \in BOOLEAN /\ time \in Nat
    BY DEF ReportsInv, ReaderKept, ReaderFields, RowsKept
  <1>3. reader.pc # "idle" => time - reader.at <= DayMinutes
    BY DEF ReportsInv, ReaderKept
  <1>4. RowsKept' /\ LogKept'
    BY <1>1, <1>2 DEF RowsKept, LogKept, SystemWords
  <1>5. PICK dd : dd = (reader.disturbed \/ (TRUE /\ reader.pc # "idle"))
    OBVIOUS
  <1>6. reader' = [reader EXCEPT !.disturbed = dd]
    BY <1>1, <1>5 DEF Disturb
  <1>7. /\ DOMAIN reader' = DOMAIN reader /\ reader'.pc = reader.pc /\ reader'.who = reader.who
        /\ reader'.at = reader.at /\ reader'.counts = reader.counts /\ reader'.dueNow = reader.dueNow
        /\ reader'.today = reader.today /\ reader'.streak = reader.streak /\ reader'.nextDue = reader.nextDue
        /\ reader'.due = reader.due /\ reader'.fresh = reader.fresh /\ reader'.extra = reader.extra
        /\ reader'.disturbed = dd
    BY <1>2, <1>6 DEF Reading
  <1>8. dd \in BOOLEAN /\ (reader.disturbed => dd) /\ ~(reader.pc # "idle" /\ ~dd)
    BY <1>2, <1>5
  <1>9. time <= time' /\ LogGoesOn
    BY <1>1, <1>2 DEF LogGoesOn
  <1>10. Meanwhile(dd)
    BY <1>1, <1>2, <1>3, <1>7, <1>8, <1>9 DEF Meanwhile
  <1> QED
    BY <1>4, <1>10, MeanwhileKeeps DEF ReportsInv

LEMMA TimePassesKeeps == ASSUME ReportsInv, ~Answered, TimePasses PROVE ReportsInv'
  <1>1. /\ shelf' = shelf /\ progress' = progress /\ activity' = activity /\ studied' = studied
        /\ approved' = approved /\ reader' = reader
    BY DEF TimePasses
  <1>2. PICK t \in ReportMoments : t > time /\ time' = t /\ (reader.pc # "idle" => t - reader.at <= DayMinutes)
    BY DEF TimePasses
  <1>3. t \in Nat
    BY ReportsAssumption DEF ReportsAssumption
  <1>4. RowsKept /\ LogKept /\ reader.disturbed \in BOOLEAN /\ time \in Nat
    BY DEF ReportsInv, ReaderKept, RowsKept
  <1>5. \A i \in DOMAIN activity : activity[i].at <= time'
    <2> TAKE i \in DOMAIN activity
    <2>1. activity[i].at \in Nat /\ activity[i].at <= time
      BY <1>4, EventFacts
    <2> QED
      BY ONLY <1>2, <1>3, <1>4, <2>1
  <1>6. RowsKept' /\ LogKept'
    BY <1>1, <1>2, <1>3, <1>4, <1>5 DEF RowsKept, LogKept, SystemWords
  <1>7. time <= time' /\ LogGoesOn
    BY <1>1, <1>2, <1>3, <1>4 DEF LogGoesOn
  <1>8. Meanwhile(reader.disturbed)
    BY <1>1, <1>2, <1>3, <1>4, <1>7 DEF Meanwhile
  <1> QED
    BY <1>6, <1>8, MeanwhileKeeps DEF ReportsInv

\* Nothing the invariant speaks of is written.
LEMMA ReportsRest ==
  ASSUME ReportsInv, UNCHANGED <<time, shelf, approved, progress, activity, reader, studied>>
  PROVE  ReportsInv'
  <1>1. /\ time' = time /\ shelf' = shelf /\ progress' = progress /\ activity' = activity /\ studied' = studied
        /\ approved' = approved /\ reader' = reader
    OBVIOUS
  <1> QED
    BY <1>1 DEF ReportsInv, RowsKept, LogKept, ReaderKept, StatsKept, PicksKept, SystemWords, EventsOf, RowsOf,
         AnsweredLately, ComputeCounts, DueRows, Items, IsPracticeable

LEMMA ReportsStepInv == ReportsInv /\ [ReportsNext]_reportVars => ReportsInv'
  <1> SUFFICES ASSUME ReportsInv, [ReportsNext]_reportVars PROVE ReportsInv'
    OBVIOUS
  <1>0. Attending \subseteq Learners
    BY ReportsAssumption DEF ReportsAssumption
  <1>1. CASE UNCHANGED reportVars
    BY <1>1, ReportsRest DEF reportVars
  <1>2. CASE \E who \in Attending : StatsCounts(who) \/ SuggestDue(who)
    BY <1>0, <1>2, StatsCountsKeeps, SuggestDueKeeps
  <1>3. CASE StatsDueNow \/ StatsReviewedToday \/ StatsStreak \/ StatsNextDue
    BY <1>3, StatsDueNowKeeps, StatsReviewedTodayKeeps, StatsStreakKeeps, StatsNextDueKeeps
  <1>4. CASE SuggestFresh \/ SuggestFallback \/ SuggestItems
    BY <1>4, SuggestFreshKeeps, SuggestFallbackKeeps, SuggestItemsKeeps
  <1>5. CASE ~Answered /\ \E who \in Attending, w \in StudyWords : AnswerCard(who, w) \/ EnrollCard(who, w)
    BY <1>0, <1>5, AnswerCardKeeps, EnrollCardKeeps
  <1>6. CASE \E who \in Attending : ToggleOptOut(who)
    BY <1>6, ReportsRest DEF ToggleOptOut
  <1>7. CASE ~Answered /\ \E w \in StudyWords : DeleteStudyWord(w) \/ ApproveDraft(w)
    BY <1>7, DeleteStudyWordKeeps, ApproveDraftKeeps
  <1>8. CASE ~Answered /\ TimePasses
    BY <1>8, TimePassesKeeps
  <1> QED
    BY <1>1, <1>2, <1>3, <1>4, <1>5, <1>6, <1>7, <1>8 DEF ReportsNext
=============================================================================
