------------------------------ MODULE Accounts ------------------------------
(***************************************************************************)
(* One e-mail address and the account behind it: registration, social      *)
(* sign-in, the verification codes, the profile, deletion by an admin      *)
(* (src/src/users/users.service.ts, src/src/auth/auth.service.ts and       *)
(* src/src/auth/services/email-verification.service.ts).                   *)
(*                                                                         *)
(* Every await is a border between two actions.  save(entity) selects the  *)
(* row, and inserts the entity when the row is gone or updates the columns *)
(* that differ.  The ids of rows are those of the calls that insert them.  *)
(***************************************************************************)
EXTENDS Naturals, FiniteSets

CONSTANTS
  Calls,           \* requests, one id each
  Languages,
  MaxAttempts,     \* MAX_ATTEMPTS of a verification code
  MaxAccountFaults \* bound: requests cut off by a failing query or a dying process

ASSUME AccountsAssumption ==
  /\ {"nobody", "seed"} \cap Calls = {} /\ "null" \notin Languages
  /\ IsFiniteSet(Calls) /\ MaxAttempts \in Nat /\ MaxAccountFaults \in Nat

VARIABLES
  user,            \* the row of users with this address, or NoUser
  identity,        \* the user its Google account is linked to, or "nobody"
  codes,           \* the rows of email_verification_codes
  mailed,          \* the codes an e-mail was sent with
  call,            \* where each request is and what it holds
  accountFaults,
  deleted,         \* history: users an admin has deleted
  confirmed,       \* history: users whose address has been verified
  tries,           \* history: guesses at each code that were answered
  staleSave,       \* history: a user was saved over a row its request had not read,
                   \* now or at save's SELECT
  codesOverlapped  \* history: two requests worked on the address's codes at once

accountVars == <<user, identity, codes, mailed, call, accountFaults,
                 deleted, confirmed, tries, staleSave, codesOverlapped>>

Ids == Calls \cup {"seed"}
Null == "null"

\* goals stands for the level and the two goals, which are given together.
NoUser == [id |-> "nobody", password |-> FALSE, verified |-> FALSE,
           onboarded |-> FALSE, native |-> Null, target |-> Null, goals |-> FALSE]
Users == [id: Ids, password: BOOLEAN, verified: BOOLEAN, onboarded: BOOLEAN,
          native: Languages \cup {Null}, target: Languages \cup {Null}, goals: BOOLEAN]

\* born orders the rows by created_at; fresh and expired are the readings of
\* the clock against the cool-down and expires_at.
NoCode == [owner |-> "nobody", attempts |-> 0, consumed |-> FALSE,
           fresh |-> FALSE, expired |-> FALSE, born |-> 0]
Codes == [owner: Ids, attempts: Nat, consumed: BOOLEAN,
          fresh: BOOLEAN, expired: BOOLEAN, born: Nat]

\* base: the user as it was read; entity: the copy to save; seen: what save's
\* SELECT found.  code, right, and the same three of the code's row.
Idle == [pc |-> "idle", base |-> NoUser, entity |-> NoUser, seen |-> NoUser,
         code |-> "nobody", right |-> FALSE, codeEntity |-> NoCode, codeSeen |-> NoCode]
CallStates ==
  [pc: {"idle", "registering", "findingEmail", "linking", "creating", "identifying",
        "asking", "retiring", "inserting", "mailing", "unmailing", "verifying",
        "savingCode", "codeSelected", "marking", "saving", "selected", "done"},
   base: Users \cup {NoUser}, entity: Users \cup {NoUser}, seen: Users \cup {NoUser},
   code: Ids \cup {"nobody"}, right: BOOLEAN,
   codeEntity: Codes \cup {NoCode}, codeSeen: Codes \cup {NoCode}]

AccountsTypeOK ==
  /\ user \in Users \cup {NoUser}
  /\ identity \in Ids \cup {"nobody"}
  /\ codes \in [Calls -> Codes \cup {NoCode}]
  /\ mailed \in SUBSET Calls
  /\ call \in [Calls -> CallStates]
  /\ accountFaults \in 0..MaxAccountFaults
  /\ deleted \in SUBSET Ids /\ confirmed \in SUBSET Ids
  /\ tries \in [Calls -> Nat]
  /\ staleSave \in BOOLEAN /\ codesOverlapped \in BOOLEAN

Registered(id) == [NoUser EXCEPT !.id = id, !.password = TRUE]
Onboarded(n, t) ==
  [Registered("seed") EXCEPT !.onboarded = TRUE, !.native = n, !.target = t, !.goals = TRUE]

\* No account yet, one just registered, or one that is on board.
AccountsInit ==
  /\ user \in {NoUser, Registered("seed")} \cup
              {Onboarded(n, t) : n \in Languages, t \in Languages}
  /\ user.onboarded => user.native # user.target
  /\ identity = "nobody"
  /\ codes = [k \in Calls |-> NoCode] /\ mailed = {}
  /\ call = [c \in Calls |-> Idle]
  /\ accountFaults = 0
  /\ deleted = {} /\ confirmed = {} /\ tries = [k \in Calls |-> 0]
  /\ staleSave = FALSE /\ codesOverlapped = FALSE

Exists == user # NoUser
Goes(c, pc) == call' = [call EXCEPT ![c].pc = pc]
Ends(c) == call' = [call EXCEPT ![c] = [Idle EXCEPT !.pc = "done"]]
At(c, pc) == call[c].pc = pc

history == <<deleted, confirmed, tries, staleSave, codesOverlapped>>
rows == <<user, identity, codes, mailed>>
OnlyCalls == UNCHANGED <<rows, history, accountFaults>>
Confirmed == confirmed \cup {u.id : u \in {v \in {user'} : v.verified}}

-----------------------------------------------------------------------------
(* register, and sign-in with a Google account *)

\* createLocal: a taken address or name is refused; the hash takes a while.
Register(c) ==
  /\ At(c, "idle")
  /\ IF Exists THEN Ends(c) ELSE Goes(c, "registering") \/ Ends(c)
  /\ OnlyCalls

\* The unique index refuses a second row for the address.
InsertUser(c) ==
  /\ At(c, "registering")
  /\ IF Exists THEN UNCHANGED user ELSE user' = Registered(c)
  /\ Ends(c)
  /\ UNCHANGED <<identity, codes, mailed, history, accountFaults>>

\* The provider has vouched for the address; findByIdentity is the first query.
SocialSignIn(c) ==
  /\ At(c, "idle")
  /\ IF identity # "nobody" THEN Ends(c) ELSE Goes(c, "findingEmail")
  /\ OnlyCalls

FindEmail(c) ==
  /\ At(c, "findingEmail")
  /\ call' = [call EXCEPT ![c].pc = IF Exists THEN "linking" ELSE "creating",
                          ![c].base = user]
  /\ OnlyCalls

\* createFromSocial: two inserts, no transaction.
CreateFromSocial(c) ==
  /\ At(c, "creating")
  /\ IF Exists
     THEN Ends(c) /\ UNCHANGED user
     ELSE /\ user' = [NoUser EXCEPT !.id = c, !.verified = TRUE]
          /\ call' = [call EXCEPT ![c].pc = "identifying", ![c].base = user']
  /\ confirmed' = Confirmed
  /\ UNCHANGED <<identity, codes, mailed, deleted, tries, staleSave, codesOverlapped,
                 accountFaults>>

\* Both indexes of user_identities: the account must exist and be unlinked.
LinkIdentity(c) ==
  /\ call[c].pc \in {"linking", "identifying"}
  /\ identity' = IF identity = "nobody" /\ user.id = call[c].base.id THEN user.id ELSE identity
  /\ Ends(c)
  /\ UNCHANGED <<user, codes, mailed, history, accountFaults>>

-----------------------------------------------------------------------------
(* requestCode *)

Active(k) == codes[k] # NoCode /\ codes[k].owner = user.id
             /\ ~codes[k].consumed /\ ~codes[k].expired
LatestActive(k) == Active(k) /\ \A j \in Calls : Active(j) => codes[j].born <= codes[k].born
OnCodes(c) == call[c].pc \in {"asking", "retiring", "inserting", "mailing", "unmailing",
                              "verifying", "savingCode", "codeSelected"}
Overlaps(c) == codesOverlapped' = (codesOverlapped \/ \E d \in Calls \ {c} : OnCodes(d))

AskForCode(c) ==
  /\ At(c, "idle")
  /\ IF ~Exists \/ user.verified
     THEN Ends(c) /\ UNCHANGED codesOverlapped
     ELSE call' = [call EXCEPT ![c].pc = "asking", ![c].base = user] /\ Overlaps(c)
  /\ UNCHANGED <<rows, deleted, confirmed, tries, staleSave, accountFaults>>

\* The address still has an active code younger than the cool-down: refused.
CheckCooldown(c) ==
  /\ At(c, "asking")
  /\ IF \E k \in Calls : LatestActive(k) /\ codes[k].fresh THEN Ends(c) ELSE Goes(c, "retiring")
  /\ OnlyCalls

\* Mutant: the codes asked for earlier stay active.
RetireCodes_None(c) ==
  /\ At(c, "retiring") /\ Goes(c, "inserting")
  /\ UNCHANGED <<rows, history, accountFaults>>

\* One UPDATE retires every code that is not consumed yet.
RetireCodes(c) ==
  /\ At(c, "retiring")
  /\ codes' = [k \in Calls |-> IF codes[k] # NoCode /\ codes[k].owner = call[c].base.id
                               THEN [codes[k] EXCEPT !.consumed = TRUE] ELSE codes[k]]
  /\ Goes(c, "inserting")
  /\ UNCHANGED <<user, identity, mailed, history, accountFaults>>

Born == 1 + Cardinality({k \in Calls : codes[k] # NoCode})

InsertCode(c) ==
  /\ At(c, "inserting")
  /\ IF user.id = call[c].base.id
     THEN /\ codes' = [codes EXCEPT ![c] = [NoCode EXCEPT !.owner = user.id, !.fresh = TRUE,
                                                          !.born = Born]]
          /\ Goes(c, "mailing")
     ELSE Ends(c) /\ UNCHANGED codes
  /\ UNCHANGED <<user, identity, mailed, history, accountFaults>>

\* A code that could not be mailed is retired again, also when the mail went
\* out and only the answer of the mail server was lost.
MailCode(c) ==
  /\ At(c, "mailing")
  /\ \/ mailed' = mailed \cup {c} /\ Ends(c)
     \/ mailed' \in {mailed, mailed \cup {c}} /\ Goes(c, "unmailing")
  /\ UNCHANGED <<user, identity, codes, history, accountFaults>>

RetireUnmailed(c) ==
  /\ At(c, "unmailing")
  /\ codes' = IF codes[c] = NoCode THEN codes ELSE [codes EXCEPT ![c].consumed = TRUE]
  /\ Ends(c)
  /\ UNCHANGED <<user, identity, mailed, history, accountFaults>>

-----------------------------------------------------------------------------
(* verifyCode *)

Verify(c) ==
  /\ At(c, "idle")
  /\ IF ~Exists \/ user.verified
     THEN Ends(c) /\ UNCHANGED codesOverlapped
     ELSE call' = [call EXCEPT ![c].pc = "verifying", ![c].base = user] /\ Overlaps(c)
  /\ UNCHANGED <<rows, deleted, confirmed, tries, staleSave, accountFaults>>

\* The entity verifyCode goes on to save: one attempt more, consumed by the
\* right guess or by one attempt too many, which is not compared any more.
Guessed(k, right) ==
  [codes[k] EXCEPT !.attempts = @ + 1,
                   !.consumed = right \/ codes[k].attempts + 1 > MaxAttempts]

\* Only a code that was mailed can be guessed right.
Guess(c) ==
  /\ At(c, "verifying")
  /\ IF ~ \E k \in Calls : LatestActive(k)
     THEN Ends(c)
     ELSE \E k \in Calls, right \in BOOLEAN :
            /\ LatestActive(k)
            /\ right => k \in mailed /\ codes[k].attempts < MaxAttempts
            /\ call' = [call EXCEPT ![c].pc = "savingCode", ![c].code = k,
                                    ![c].right = right, ![c].codeEntity = Guessed(k, right)]
  /\ OnlyCalls

CodeSaveSelect(c) ==
  /\ At(c, "savingCode")
  /\ call' = [call EXCEPT ![c].pc = "codeSelected", ![c].codeSeen = codes[call[c].code]]
  /\ OnlyCalls

\* A column goes to the entity's value if save's SELECT found another one.
Merge(row, seen, entity) ==
  [f \in DOMAIN row |-> IF entity[f] # seen[f] THEN entity[f] ELSE row[f]]

\* A row that save did not find is inserted anew, if its user still exists.
CodeSaveCommit(c) ==
  LET k == call[c].code
      gone == call[c].codeSeen = NoCode
      refused == gone /\ (user.id # call[c].codeEntity.owner \/ codes[k] # NoCode)
  IN
  /\ At(c, "codeSelected")
  /\ codes' = IF gone THEN IF refused THEN codes ELSE [codes EXCEPT ![k] = call[c].codeEntity]
              ELSE IF codes[k] = NoCode THEN codes
              ELSE [codes EXCEPT ![k] = Merge(@, call[c].codeSeen, call[c].codeEntity)]
  /\ IF call[c].right /\ ~refused
     THEN call' = [call EXCEPT ![c] = [Idle EXCEPT !.pc = "marking", !.base = call[c].base]]
     ELSE Ends(c)
  /\ tries' = IF call[c].codeEntity.attempts <= MaxAttempts /\ ~refused
              THEN [tries EXCEPT ![k] = @ + 1] ELSE tries
  /\ UNCHANGED <<user, identity, mailed, deleted, confirmed, staleSave, codesOverlapped,
                 accountFaults>>

\* markEmailVerified reads the user again.
MarkVerified(c) ==
  /\ At(c, "marking")
  /\ IF user.id # call[c].base.id \/ user.verified
     THEN Ends(c)
     ELSE call' = [call EXCEPT ![c].pc = "saving", ![c].base = user,
                               ![c].entity = [user EXCEPT !.verified = TRUE]]
  /\ OnlyCalls

-----------------------------------------------------------------------------
(* updateProfile, the two steps of a user's save, deletion *)

Profiles == [native: Languages \cup {Null}, target: Languages \cup {Null}, goals: BOOLEAN]
Complete(p) == p.native # Null /\ p.target # Null /\ p.goals
SameLanguage(p) == p.native # Null /\ p.native = p.target

\* dto.x ?? user.x for every field
Merged(dto) ==
  [native |-> IF dto.native = Null THEN user.native ELSE dto.native,
   target |-> IF dto.target = Null THEN user.target ELSE dto.target,
   goals |-> dto.goals \/ user.goals]

ProfileAllowed(m) == ~SameLanguage(m) /\ (user.onboarded \/ Complete(m))

UpdateProfile(c) ==
  /\ At(c, "idle")
  /\ \E dto \in Profiles :
       LET m == Merged(dto) IN
       IF Exists /\ ProfileAllowed(m)
       THEN call' = [call EXCEPT ![c].pc = "saving", ![c].base = user,
                       ![c].entity = [user EXCEPT !.native = m.native, !.target = m.target,
                                        !.goals = m.goals,
                                        !.onboarded = @ \/ Complete(m)]]
       ELSE Ends(c)
  /\ OnlyCalls

UserSaveSelect(c) ==
  /\ At(c, "saving")
  /\ call' = [call EXCEPT ![c].pc = "selected",
                          ![c].seen = IF user.id = call[c].entity.id THEN user ELSE NoUser]
  /\ OnlyCalls

\* A row that save did not find is inserted: the deleted user is back, unless
\* the address has been taken since.
UserSaveCommit(c) ==
  LET gone == call[c].seen = NoUser
      same == user.id = call[c].entity.id
  IN
  /\ At(c, "selected")
  /\ user' = IF gone THEN IF Exists THEN user ELSE call[c].entity
             ELSE IF same THEN Merge(user, call[c].seen, call[c].entity) ELSE user
  /\ staleSave' = (staleSave \/ (user' # user /\ {user, call[c].seen} # {call[c].base}))
  /\ confirmed' = Confirmed
  /\ Ends(c)
  /\ UNCHANGED <<identity, codes, mailed, deleted, tries, codesOverlapped, accountFaults>>

\* The DELETE cascades to identities and codes.  The account is no admin's.
DeleteUser ==
  /\ Exists
  /\ user' = NoUser
  /\ identity' = "nobody"
  /\ codes' = [k \in Calls |-> IF codes[k].owner = user.id THEN NoCode ELSE codes[k]]
  /\ deleted' = deleted \cup {user.id}
  /\ UNCHANGED <<mailed, call, confirmed, tries, staleSave, codesOverlapped, accountFaults>>

-----------------------------------------------------------------------------
CoolDown(k) ==
  /\ codes[k].fresh
  /\ codes' = [codes EXCEPT ![k].fresh = FALSE]
  /\ UNCHANGED <<user, identity, mailed, call, history, accountFaults>>

Expire(k) ==
  /\ codes[k] # NoCode /\ ~codes[k].fresh /\ ~codes[k].expired
  /\ codes' = [codes EXCEPT ![k].expired = TRUE]
  /\ UNCHANGED <<user, identity, mailed, call, history, accountFaults>>

CutOff(c) ==
  /\ accountFaults < MaxAccountFaults /\ call[c].pc \notin {"idle", "done"}
  /\ Ends(c)
  /\ accountFaults' = accountFaults + 1
  /\ UNCHANGED <<rows, history>>

Social(c) == SocialSignIn(c) \/ FindEmail(c) \/ CreateFromSocial(c) \/ LinkIdentity(c)
RequestCode(c) == AskForCode(c) \/ CheckCooldown(c) \/ RetireCodes(c) \/ InsertCode(c)
                  \/ MailCode(c) \/ RetireUnmailed(c)
VerifyCode(c) == Verify(c) \/ Guess(c) \/ CodeSaveSelect(c) \/ CodeSaveCommit(c)
                 \/ MarkVerified(c)
SaveUser(c) == UserSaveSelect(c) \/ UserSaveCommit(c)

AccountsNext ==
  \/ \E c \in Calls : \/ Register(c) \/ InsertUser(c) \/ Social(c) \/ RequestCode(c)
                      \/ VerifyCode(c) \/ UpdateProfile(c) \/ SaveUser(c) \/ CutOff(c)
                      \/ CoolDown(c) \/ Expire(c)
  \/ DeleteUser

AccountsSpec == AccountsInit /\ [][AccountsNext]_accountVars

-----------------------------------------------------------------------------
(* Properties *)

\* A deleted account does not come back, a verified address stays verified,
\* the two languages differ and an account on board has a complete profile, as
\* long as no request saved its copy of the user over a row it had not read
\* (users.service.ts:190).
AccountSound ==
  ~staleSave => /\ user.id \notin deleted
                /\ user.verified \/ user.id \notin confirmed
                /\ ~SameLanguage(user)
                /\ user.onboarded => Complete(user)

\* No more than MAX_ATTEMPTS guesses at a code are answered unless requests
\* about codes overlap (email-verification.service.ts:107).
GuessesLimited == ~codesOverlapped => \A k \in Calls : tries[k] <= MaxAttempts

\* The address has one active code at most unless requests about codes
\* overlap (email-verification.service.ts:55).
OneActiveCode == ~codesOverlapped => Cardinality({k \in Calls : Active(k)}) <= 1
=============================================================================
