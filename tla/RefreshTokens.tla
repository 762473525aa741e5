---------------------------- MODULE RefreshTokens ----------------------------
(***************************************************************************)
(* The refresh tokens of one user (src/src/auth/services/token.service.ts, *)
(* and the callers in src/src/auth/auth.service.ts): signing in, rotation, *)
(* logging out, and the answer to a token presented a second time.         *)
(*                                                                         *)
(* A token has the id of the request that creates it.                      *)
(***************************************************************************)
EXTENDS Naturals, FiniteSets

CONSTANTS
  SignIns,         \* register, login and social sign-in requests
  Refreshes,       \* POST auth/refresh
  MaxTokenFaults   \* bound: requests cut off by a failing query or a dying process

ASSUME TokensAssumption ==
  /\ SignIns \cap Refreshes = {} /\ "none" \notin SignIns \cup Refreshes
  /\ MaxTokenFaults \in Nat

VARIABLES
  account,         \* "active", or "deleted" by an admin: its tokens go with it
  tokens,          \* the rows of refresh_tokens
  refresh,         \* where each refresh request is, and the token it presents
  tokenFaults,
  overlapped,      \* history: tokens that two refreshes had in hand at once
  ended,           \* history: tokens that the answer to a reuse revoked, or found revoked
  racing,          \* history: refreshes that had found their token when a reuse revoked all
  rotated          \* history: tokens revoked by a refresh that has not been cut off since

tokenVars == <<account, tokens, refresh, tokenFaults, overlapped, ended, racing, rotated>>

Tokens == SignIns \cup Refreshes
NoToken == [exists |-> FALSE, revoked |-> FALSE, expired |-> FALSE, parent |-> "none"]
TokenRows == [exists: BOOLEAN, revoked: BOOLEAN, expired: BOOLEAN,
              parent: Tokens \cup {"none"}]
RefreshStates ==
  [pc: {"idle", "found", "missed", "reused", "revoked", "issuing", "done"},
   presented: Tokens \cup {"none"}]

TokensTypeOK ==
  /\ account \in {"active", "deleted"}
  /\ tokens \in [Tokens -> TokenRows]
  /\ refresh \in [Refreshes -> RefreshStates]
  /\ tokenFaults \in 0..MaxTokenFaults
  /\ overlapped \in SUBSET Tokens
  /\ ended \in SUBSET Tokens
  /\ racing \in SUBSET Refreshes
  /\ rotated \in SUBSET Tokens

TokensInit ==
  /\ account = "active"
  /\ tokens = [t \in Tokens |-> NoToken]
  /\ refresh = [r \in Refreshes |-> [pc |-> "idle", presented |-> "none"]]
  /\ tokenFaults = 0
  /\ overlapped = {} /\ ended = {} /\ racing = {} /\ rotated = {}

Live(t) == tokens[t].exists /\ ~tokens[t].revoked /\ ~tokens[t].expired
Moves(r, pc) == refresh' = [refresh EXCEPT ![r].pc = pc]
NewToken(parent) == [NoToken EXCEPT !.exists = TRUE, !.parent = parent]
\* The refresh has revoked t and has not issued what t is exchanged for.
Exchanging(r, t) == refresh[r].pc \in {"revoked", "issuing"} /\ refresh[r].presented = t
tokenHistory == <<overlapped, ended, racing, rotated>>

-----------------------------------------------------------------------------
\* issueTokens after register, login or social sign-in: one INSERT.
SignIn(s) ==
  /\ account = "active" /\ ~tokens[s].exists
  /\ tokens' = [tokens EXCEPT ![s] = NewToken("none")]
  /\ UNCHANGED <<account, refresh, tokenFaults, tokenHistory>>

InHand(t) == {r \in Refreshes : refresh[r].pc = "found" /\ refresh[r].presented = t}

\* rotateRefreshToken: the first query asks for a token that is neither
\* revoked nor expired.  A client presents a token it was once given.
FindLive(r) ==
  /\ refresh[r].pc = "idle"
  /\ \E t \in Tokens :
       /\ tokens[t].exists
       /\ refresh' = [refresh EXCEPT ![r] =
                        [pc |-> IF Live(t) THEN "found" ELSE "missed", presented |-> t]]
       /\ overlapped' = IF Live(t) /\ InHand(t) # {} THEN overlapped \cup {t} ELSE overlapped
  /\ UNCHANGED <<account, tokens, tokenFaults, ended, racing, rotated>>

\* The second query takes any row of that hash for a reuse, an expired one too.
FindReused(r) ==
  /\ refresh[r].pc = "missed"
  /\ Moves(r, IF tokens[refresh[r].presented].exists THEN "reused" ELSE "done")
  /\ UNCHANGED <<account, tokens, tokenFaults, tokenHistory>>

\* revokeAllForUser, one UPDATE, then 401.
RevokeAll(r) ==
  /\ refresh[r].pc = "reused"
  /\ tokens' = [t \in Tokens |-> [tokens[t] EXCEPT !.revoked = tokens[t].exists]]
  /\ ended' = ended \cup {t \in Tokens : tokens[t].exists}
  /\ racing' = racing \cup {q \in Refreshes : refresh[q].pc \in {"found", "revoked", "issuing"}}
  /\ Moves(r, "done")
  /\ UNCHANGED <<account, tokenFaults, overlapped, rotated>>

\* Mutant: the token presented stays valid.
RevokePresented_Not(r) ==
  /\ refresh[r].pc = "found" /\ Moves(r, "revoked")
  /\ UNCHANGED <<account, tokens, tokenFaults, tokenHistory>>

\* save(record): revoked_at differs from whatever the row holds by now.  A row
\* deleted with its user is inserted anew, which the foreign key refuses.
RevokePresented(r) ==
  LET t == refresh[r].presented IN
  /\ refresh[r].pc = "found"
  /\ IF tokens[t].exists
     THEN /\ tokens' = [tokens EXCEPT ![t].revoked = TRUE] /\ Moves(r, "revoked")
          /\ rotated' = rotated \cup {t}
     ELSE Moves(r, "done") /\ UNCHANGED <<tokens, rotated>>
  /\ UNCHANGED <<account, tokenFaults, overlapped, ended, racing>>

\* usersService.findById throws when the user is gone.
FindUser(r) ==
  /\ refresh[r].pc = "revoked"
  /\ Moves(r, IF account = "active" THEN "issuing" ELSE "done")
  /\ UNCHANGED <<account, tokens, tokenFaults, tokenHistory>>

IssueNext(r) ==
  /\ refresh[r].pc = "issuing"
  /\ tokens' = IF account = "active"
               THEN [tokens EXCEPT ![r] = NewToken(refresh[r].presented)] ELSE tokens
  /\ Moves(r, "done")
  /\ UNCHANGED <<account, tokenFaults, tokenHistory>>

\* revokeRefreshToken: one UPDATE of a row that is not revoked.
Logout(t) ==
  /\ tokens[t].exists /\ ~tokens[t].revoked
  /\ tokens' = [tokens EXCEPT ![t].revoked = TRUE]
  /\ UNCHANGED <<account, refresh, tokenFaults, tokenHistory>>

\* deleteAsAdmin: the rows go with the user.
DeleteAccount ==
  /\ account = "active"
  /\ account' = "deleted"
  /\ tokens' = [t \in Tokens |-> NoToken]
  /\ UNCHANGED <<refresh, tokenFaults, tokenHistory>>

TokenExpires(t) ==
  /\ tokens[t].exists /\ ~tokens[t].expired
  /\ tokens' = [tokens EXCEPT ![t].expired = TRUE]
  /\ UNCHANGED <<account, refresh, tokenFaults, tokenHistory>>

RefreshCutOff(r) ==
  /\ tokenFaults < MaxTokenFaults /\ refresh[r].pc \notin {"idle", "done"}
  /\ Moves(r, "done")
  /\ tokenFaults' = tokenFaults + 1
  /\ rotated' = {t \in rotated : ~Exchanging(r, t)}
  /\ UNCHANGED <<account, tokens, overlapped, ended, racing>>

Refresh(r) == FindLive(r) \/ FindReused(r) \/ RevokeAll(r) \/ RevokePresented(r)
              \/ FindUser(r) \/ IssueNext(r)

TokensNext ==
  \/ \E s \in SignIns : SignIn(s)
  \/ \E r \in Refreshes : Refresh(r) \/ RefreshCutOff(r)
  \/ \E t \in Tokens : Logout(t) \/ TokenExpires(t)
  \/ DeleteAccount

TokensSpec == TokensInit /\ [][TokensNext]_tokenVars

-----------------------------------------------------------------------------
(* Properties *)

Heirs(t) == {r \in Refreshes : tokens[r].exists /\ tokens[r].parent = t}

\* A token is exchanged for one new pair at most, and is dead once it has been,
\* unless two refreshes found it live at once: the find and the save that
\* revokes it are two statements (token.service.ts:48-67).
ExchangedOnce ==
  \A t \in Tokens : t \notin overlapped =>
    /\ Cardinality(Heirs(t)) <= 1
    /\ Heirs(t) # {} => ~Live(t)

\* Presenting a used token ends every session of the user: the tokens of that
\* moment are dead for good, and what is live of their heirs was on its way at
\* that moment already (token.service.ts:56-63).
ReuseEndsSessions ==
  \A t \in ended : ~Live(t) /\ \A h \in Heirs(t) : Live(h) => h \in racing

\* The old token is revoked before the new one is stored (token.service.ts:66-70).
\* Whatever other requests do between the two, the client is left with neither
\* only if the user is gone or the request was cut off between the two.
ExchangesUnlessCutOff ==
  account = "active" =>
    \A t \in rotated : Heirs(t) # {} \/ \E r \in Refreshes : Exchanging(r, t)
=============================================================================
