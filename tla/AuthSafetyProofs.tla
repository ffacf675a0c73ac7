--------------------------- MODULE AuthSafetyProofs ---------------------------
(***************************************************************************)
(* The safety properties of AuthService for every number of handlers,      *)
(* codes and attempts, from the types proved in AuthServiceProofs.  Each   *)
(* section says which facts about the places of the handlers carry the     *)
(* property, and that every step keeps them.                               *)
(***************************************************************************)
EXTENDS AuthServiceProofs, FiniteSetTheorems

-------------------------------------------------------------------------------
(* Rows of the users table *)

LEMMA RowStep ==
    ASSUME TypeInv, [Next]_vars
    PROVE  \/ UNCHANGED account
           \/ \E p \in Procs : CreateAccount(p)
           \/ \E u \in Known : Updated(u)
  <1>1. ASSUME NEW p \in Procs, Does(p)
        PROVE  UNCHANGED account \/ CreateAccount(p) \/ \E u \in Known : Updated(u)
    BY <1>1, AccountUpdated
  <1>2. CASE OtpExpires \/ Crash \/ UNCHANGED vars
    BY <1>2 DEF OtpExpires, Crash, vars
  <1> QED
    BY <1>1, <1>2, LockoutUpdated DEF Next, Does, Terminated

\* An insert is refused when the row is taken; no update touches a column that
\* must be unique.
LEMMA UniqueStep == TypeInv /\ UniqueAccounts /\ [Next]_vars => UniqueAccounts'
  <1> SUFFICES ASSUME TypeInv, UniqueAccounts, [Next]_vars PROVE UniqueAccounts'
    OBVIOUS
  <1>a. account \in [Accounts -> User \cup {None}] /\ None \notin User
    BY AuthAssumption DEF TypeInv, TypeOK
  <1>1. CASE UNCHANGED account
    BY <1>1 DEF UniqueAccounts, Known
  <1>2. ASSUME NEW p \in Procs, CreateAccount(p) PROVE UniqueAccounts'
    <2> DEFINE row == NewUser(req[p], who[p])
    <2>1. account' = [account EXCEPT ![p] = row]
      BY <1>2, AccountCreated
    <2>2. \A u \in Known : account[u].email # row.email /\ account[u].phone # row.phone
      BY <1>2 DEF CreateAccount, Taken, NewUser
    <2> HIDE DEF row
    <2>3. \A u \in Known' : u # p => u \in Known /\ account'[u] = account[u]
      BY <1>a, <2>1 DEF Known
    <2>4. p \in Accounts /\ account'[p] = row
      BY <1>a, <2>1 DEF Accounts
    <2> QED
      BY <2>2, <2>3, <2>4 DEF UniqueAccounts
  <1>3. ASSUME NEW v \in Known, Updated(v) PROVE UniqueAccounts'
    <2>1. PICK row : account' = [account EXCEPT ![v] = row] /\ Succeeds(row, account[v])
      BY <1>3 DEF Updated
    <2>2. Known' = Known
      BY <1>a, <2>1 DEF Known, Succeeds
    <2>3. \A u \in Known : /\ account'[u].email = account[u].email
                           /\ account'[u].phone = account[u].phone
      BY <1>a, <2>1 DEF Known, Succeeds
    <2> QED
      BY <2>2, <2>3 DEF UniqueAccounts
  <1> QED
    BY <1>1, <1>2, <1>3, RowStep

\* Two registrations may both find no duplicate, but only one of them inserts:
\* emails and phone numbers stay unique (register against User's unique
\* columns).
THEOREM AccountsAreUnique == Spec => []UniqueAccounts
  <1>1. Init => UniqueAccounts
    BY DEF Init, UniqueAccounts, Known
  <1> QED
    BY <1>1, UniqueStep, TypeInvariant, PTL DEF Spec

-------------------------------------------------------------------------------
(* One-time codes *)

\* Where a handler that may still send a code is.
BeforeSending == {"idle", "register", "resolve", "create", "welcome", "resend",
                  "login", "right", "unverified", "forgot"}

Keys == Purposes \X Phones

\* A handler sends one code, which is pending for one phone or used up by one
\* handler.
CodesInv ==
    /\ \A p \in Procs : pc[p] \in BeforeSending =>
         /\ \A k \in Keys : otp[k] # None => otp[k].by # p
         /\ \A q \in Procs : spent[q] # None => spent[q].by # p
    /\ \A k, l \in Keys : k # l /\ otp[k] # None /\ otp[l] # None =>
         otp[k].by # otp[l].by
    /\ \A k \in Keys, q \in Procs : otp[k] # None /\ spent[q] # None =>
         otp[k].by # spent[q].by
    /\ CodesAreSpentOnce

\* What a step does to the codes: it sends one, ...
Sends(p, k) ==
    /\ pc[p] \in BeforeSending /\ pc'[p] \notin BeforeSending
    /\ \E c \in Codes : otp' = [otp EXCEPT ![k] = [code |-> c, attempts |-> 0, by |-> p]]
    /\ UNCHANGED spent

\* ... uses one up, ...
Spends(p, k) ==
    /\ otp' = [otp EXCEPT ![k] = None]
    /\ spent' = [spent EXCEPT ![p] = otp[k]]

\* ... counts a wrong one or drops any.
Drops ==
    /\ \A k \in Keys : otp'[k] # None => otp[k] # None /\ otp'[k].by = otp[k].by
    /\ \A q \in Procs : spent'[q] # None => spent'[q] = spent[q]

LEMMA CheckCodes ==
    ASSUME TypeOK, NEW p \in Procs, NEW purpose \in Purposes, NEW n \in Phones,
           NEW code, NEW onward, Check(p, purpose, n, code, onward)
    PROVE  Drops \/ Spends(p, <<purpose, n>>)
  <1> DEFINE k == <<purpose, n>>
  <1>1. k \in Keys
    BY DEF Keys
  <1>2. otp \in [Keys -> Otp \cup {None}] /\ spent \in [Procs -> Otp \cup {None}]
    BY DEF TypeOK, Keys
  <1>3. Pending(k) => otp[k] # None /\ otp[k] \in Otp
    BY <1>1, <1>2 DEF Pending
  <1> HIDE DEF k
  <1>4. CASE Matches(k, code)
    BY <1>4 DEF Check, Spends, k
  <1>5. CASE Pending(k) /\ ~ Matches(k, code)
    <2>1. Counted(otp[k]).by = otp[k].by
      BY <1>3, <1>5 DEF Counted, Otp
    <2>2. /\ otp' = [otp EXCEPT ![k] = Counted(otp[k])]
          /\ spent' = [spent EXCEPT ![p] = None]
      BY <1>5 DEF Check, k
    <2> QED
      BY <1>1, <1>2, <1>3, <1>5, <2>1, <2>2 DEF Drops
  <1>6. CASE ~ Pending(k)
    <2>1. /\ otp' = [otp EXCEPT ![k] = None]
          /\ spent' = [spent EXCEPT ![p] = None]
      BY <1>6 DEF Check, Matches, k
    <2> QED
      BY <1>1, <1>2, <2>1 DEF Drops
  <1> QED
    BY <1>4, <1>5, <1>6 DEF k

LEMMA CodesHandled ==
    ASSUME TypeInv, NEW p \in Procs, Does(p)
    PROVE  /\ pc'[p] \in BeforeSending => pc[p] \in BeforeSending
           /\ Drops \/ \E k \in Keys : Sends(p, k) \/ Spends(p, k)
  <1> USE DEF Goto
  <1>a. TypeOK /\ Shape(p) /\ pc \in [Procs -> {"idle"} \cup Running \cup Ended]
    BY DEF TypeInv, TypeOK
  <1>b. /\ req[p] \in RegisterRequest \cup PhoneRequest \cup CodeRequest \cup ResetRequest
             => req[p].phone \in Phones
        /\ seen[p] \in User => seen[p].phone \in Phones
    BY DEF RegisterRequest, PhoneRequest, CodeRequest, ResetRequest, User
  <1>1. ASSUME UNCHANGED <<otp, spent>> PROVE Drops
    BY <1>1 DEF Drops
  <1>2. ASSUME NEW purpose \in Purposes, NEW n \in Phones, Generate(p, purpose, n),
               pc[p] \in BeforeSending, pc'[p] \notin BeforeSending, UNCHANGED spent
        PROVE  \E k \in Keys : Sends(p, k)
    BY <1>2 DEF Generate, Sends, Keys
  <1>3. CASE SendWelcomeOtp(p)
    BY <1>a, <1>b, <1>2, <1>3 DEF SendWelcomeOtp, Shape, Purposes, BeforeSending
  <1>4. CASE SendPhoneOtp(p)
    BY <1>a, <1>b, <1>1, <1>2, <1>4 DEF SendPhoneOtp, Shape, Purposes, BeforeSending
  <1>5. CASE SendResetOtp(p)
    BY <1>a, <1>b, <1>1, <1>2, <1>5 DEF SendResetOtp, Shape, Purposes, BeforeSending
  <1>6. CASE ReissueOtp(p)
    BY <1>a, <1>b, <1>2, <1>6 DEF ReissueOtp, Shape, Purposes, BeforeSending
  <1>7. CASE CheckPhoneOtp(p)
    <2>1. Check(p, "phone_verify", req[p].phone, req[p].code, "activate")
      BY <1>7 DEF CheckPhoneOtp
    <2>2. req[p].phone \in Phones
      BY <1>7, <1>a, <1>b DEF CheckPhoneOtp, Shape
    <2>3. pc'[p] \notin BeforeSending
      BY <1>a, <2>1 DEF Check, BeforeSending
    <2> QED
      BY <1>a, <2>1, <2>2, <2>3, CheckCodes DEF Purposes, Keys
  <1>8. CASE CheckResetOtp(p)
    <2>1. Check(p, "pwd_reset", req[p].phone, req[p].code, "newPassword")
      BY <1>8 DEF CheckResetOtp
    <2>2. req[p].phone \in Phones
      BY <1>8, <1>a, <1>b DEF CheckResetOtp, Shape
    <2>3. pc'[p] \notin BeforeSending
      BY <1>a, <2>1 DEF Check, BeforeSending
    <2> QED
      BY <1>a, <2>1, <2>2, <2>3, CheckCodes DEF Purposes, Keys
  <1>9. CASE Receipt(p)
    BY <1>1, <1>9 DEF Receipt, Receive, Register, VerifyOtp, ResendOtp, Login,
           RefreshToken, ForgotPassword, ResetPassword, ChangePassword, SetStatus,
           BeforeSending
  <1>10. CASE Fail(p)
    BY <1>a, <1>1, <1>10 DEF Fail, BeforeSending
  <1>11. CASE \/ CheckDuplicate(p) \/ ResolveReferrer(p) \/ CreateAccount(p)
              \/ DuplicateAccount(p) \/ ActivateUser(p) \/ IssueTokens(p)
              \/ FindUser(p) \/ LoginRefused(p) \/ CountFailure(p) \/ ResetFailures(p)
    BY <1>a, <1>1, <1>11 DEF CheckDuplicate, ResolveReferrer, CreateAccount,
           DuplicateAccount, ActivateUser, IssueTokens, FindUser, LoginRefused,
           CountFailure, ResetFailures, BeforeSending
  <1>12. CASE \/ FindToken(p) \/ TokenRefused(p) \/ CheckOwner(p) \/ RevokeToken(p)
              \/ StorePassword(p) \/ CheckPassword(p) \/ ReplacePassword(p)
              \/ RevokeAll(p) \/ UpdateUserStatus(p) \/ WriteAudit(p)
    BY <1>a, <1>1, <1>12 DEF FindToken, TokenRefused, CheckOwner, RevokeToken,
           StorePassword, CheckPassword, ReplacePassword, RevokeAll, UpdateUserStatus,
           WriteAudit, BeforeSending
  <1> QED
    BY <1>3, <1>4, <1>5, <1>6, <1>7, <1>8, <1>9, <1>10, <1>11, <1>12 DEF Does, Step

LEMMA CodesStep == TypeInv /\ CodesInv /\ [Next]_vars => CodesInv'
  <1> SUFFICES ASSUME TypeInv, CodesInv, [Next]_vars PROVE CodesInv'
    OBVIOUS
  <1>a. otp \in [Keys -> Otp \cup {None}] /\ spent \in [Procs -> Otp \cup {None}]
    BY DEF TypeInv, TypeOK, Keys
  <1>b. \A q \in Procs : pc'[q] \in BeforeSending => pc[q] \in BeforeSending
    <2>1. ASSUME NEW p \in Procs, Does(p)
          PROVE  \A q \in Procs : pc'[q] \in BeforeSending => pc[q] \in BeforeSending
      BY <2>1, CodesHandled, OthersKeep DEF TypeInv, Untouched
    <2>2. CASE OtpExpires \/ LockoutEnds \/ Crash \/ UNCHANGED vars
      BY <2>2 DEF OtpExpires, LockoutEnds, Crash, vars, BeforeSending
    <2> QED
      BY <2>1, <2>2 DEF Next, Does, Terminated
  <1>1. ASSUME Drops PROVE CodesInv'
    BY <1>1, <1>b DEF Drops, CodesInv, CodesAreSpentOnce
  <1>2. ASSUME NEW p \in Procs, NEW k \in Keys, Sends(p, k) PROVE CodesInv'
    <2>1. PICK c \in Codes : otp' = [otp EXCEPT ![k] = [code |-> c, attempts |-> 0, by |-> p]]
      BY <1>2 DEF Sends
    <2>2. \A l \in Keys : IF l = k THEN otp'[l].by = p ELSE otp'[l] = otp[l]
      BY <1>a, <2>1
    <2>3. /\ spent' = spent
          /\ pc[p] \in BeforeSending /\ pc'[p] \notin BeforeSending
      BY <1>2 DEF Sends
    <2> QED
      BY <1>b, <2>2, <2>3 DEF CodesInv, CodesAreSpentOnce
  <1>3. ASSUME NEW p \in Procs, NEW k \in Keys, Spends(p, k) PROVE CodesInv'
    <2>1. \A l \in Keys : otp'[l] = IF l = k THEN None ELSE otp[l]
      BY <1>a, <1>3 DEF Spends
    <2>2. \A q \in Procs : spent'[q] = IF q = p THEN otp[k] ELSE spent[q]
      BY <1>a, <1>3 DEF Spends
    <2> QED
      BY <1>b, <2>1, <2>2 DEF CodesInv, CodesAreSpentOnce
  <1>4. ASSUME NEW p \in Procs, Does(p) PROVE CodesInv'
    BY <1>1, <1>2, <1>3, <1>4, CodesHandled
  <1>5. CASE OtpExpires \/ LockoutEnds \/ Crash \/ UNCHANGED vars
    <2>1. Drops
      BY <1>a, <1>5 DEF OtpExpires, LockoutEnds, Crash, vars, Drops
    <2> QED
      BY <1>1, <2>1
  <1> QED
    BY <1>4, <1>5 DEF Next, Does, Terminated

\* However many handlers present a code at once, it verifies one phone or
\* resets one password, and a restart brings none back (OtpService.verify).
THEOREM CodesSpentOnce == Spec => []CodesAreSpentOnce
  <1>1. Init => CodesInv
    BY DEF Init, CodesInv, CodesAreSpentOnce, Keys
  <1>2. CodesInv => CodesAreSpentOnce
    BY DEF CodesInv
  <1> QED
    BY <1>1, <1>2, CodesStep, TypeInvariant, PTL DEF Spec

-------------------------------------------------------------------------------
(* Sessions *)

\* A handler stores its one token with its last step; a refresh has revoked the
\* row it found before it gets there.
ExchangeInv ==
    /\ \A i \in DOMAIN tokens : pc[tokens[i].by] = "loggedIn"
    /\ \A p \in Procs :
         /\ stored[p] # 0 =>
              pc[p] \in {"owner", "rotate", "issue", "loggedIn", "refused", "failed", "lost"}
         /\ pc[p] = "issue" /\ stored[p] # 0 => tokens[stored[p]].revoked
    /\ ExchangedIsRevoked

\* Where a handler that has stored something may be after its step.
LEMMA ExchangeMoves ==
    ASSUME TypeInv, ExchangeInv, NEW p \in Procs, Does(p)
    PROVE  /\ pc[p] # "loggedIn"
           /\ stored'[p] # 0 => pc'[p] \in {"owner", "rotate", "issue", "loggedIn",
                                            "refused", "failed", "lost"}
           /\ pc'[p] = "issue" /\ stored'[p] # 0 => RevokeToken(p)
  <1> USE DEF Goto
  <1>a. /\ pc \in [Procs -> {"idle"} \cup Running \cup Ended]
        /\ stored \in [Procs -> 0 .. Len(tokens)]
    BY DEF TypeInv, TypeOK
  <1>b. stored[p] # 0 =>
          pc[p] \in {"owner", "rotate", "issue", "loggedIn", "refused", "failed", "lost"}
    BY DEF ExchangeInv
  <1>1. CASE Receipt(p)
    BY <1>a, <1>b, <1>1 DEF Receipt, Receive, Register, VerifyOtp, ResendOtp, Login,
           RefreshToken, ForgotPassword, ResetPassword, ChangePassword, SetStatus
  <1>2. CASE Fail(p)
    BY <1>a, <1>b, <1>2 DEF Fail, Running
  <1>3. CASE CheckPhoneOtp(p) \/ CheckResetOtp(p)
    BY <1>a, <1>b, <1>3 DEF CheckPhoneOtp, CheckResetOtp, Check
  <1>4. CASE \/ CheckDuplicate(p) \/ ResolveReferrer(p) \/ CreateAccount(p)
             \/ DuplicateAccount(p) \/ SendWelcomeOtp(p) \/ ActivateUser(p)
             \/ SendPhoneOtp(p) \/ IssueTokens(p) \/ FindUser(p) \/ LoginRefused(p)
    BY <1>a, <1>b, <1>4 DEF CheckDuplicate, ResolveReferrer, CreateAccount,
           DuplicateAccount, SendWelcomeOtp, ActivateUser, SendPhoneOtp, IssueTokens,
           FindUser, LoginRefused
  <1>5. CASE \/ CountFailure(p) \/ ResetFailures(p) \/ ReissueOtp(p) \/ FindToken(p)
             \/ TokenRefused(p) \/ CheckOwner(p) \/ RevokeToken(p) \/ SendResetOtp(p)
    BY <1>a, <1>b, <1>5 DEF CountFailure, ResetFailures, ReissueOtp, FindToken,
           TokenRefused, CheckOwner, RevokeToken, SendResetOtp
  <1>6. CASE \/ StorePassword(p) \/ CheckPassword(p) \/ ReplacePassword(p)
             \/ RevokeAll(p) \/ UpdateUserStatus(p) \/ WriteAudit(p)
    BY <1>a, <1>b, <1>6 DEF StorePassword, CheckPassword, ReplacePassword, RevokeAll,
           UpdateUserStatus, WriteAudit
  <1> QED
    BY <1>1, <1>2, <1>3, <1>4, <1>5, <1>6 DEF Does, Step

LEMMA ExchangeStep == TypeInv /\ ExchangeInv /\ [Next]_vars => ExchangeInv'
  <1> SUFFICES ASSUME TypeInv, ExchangeInv, [Next]_vars PROVE ExchangeInv'
    OBVIOUS
  <1>a. /\ tokens \in Seq(Token) /\ Len(tokens) \in Nat
        /\ DOMAIN tokens = 1 .. Len(tokens)
        /\ \A i \in DOMAIN tokens : tokens[i].by \in Procs
        /\ \A q \in Procs : stored[q] \in 0 .. Len(tokens)
        /\ pc \in [Procs -> {"idle"} \cup Running \cup Ended]
    <2>1. tokens \in Seq(Token)
      BY DEF TypeInv, TypeOK
    <2>2. ASSUME NEW i \in DOMAIN tokens PROVE tokens[i].by \in Procs
      <3>1. tokens[i] \in Token
        BY <2>1
      <3> QED
        BY <3>1 DEF Token
    <2>3. /\ pc \in [Procs -> {"idle"} \cup Running \cup Ended]
          /\ \A q \in Procs : stored[q] \in 0 .. Len(tokens)
      BY DEF TypeInv, TypeOK
    <2> QED
      BY <2>1, <2>2, <2>3
  <1>1. ASSUME NEW p \in Procs, Does(p) PROVE ExchangeInv'
    <2>1. /\ tokens' \in Seq(Token) /\ Len(tokens') \in Nat
          /\ DOMAIN tokens' = 1 .. Len(tokens')
          /\ DOMAIN tokens \subseteq DOMAIN tokens'
          /\ \A i \in DOMAIN tokens : /\ tokens'[i].by = tokens[i].by
                                      /\ tokens[i].revoked => tokens'[i].revoked
      BY <1>1, TokensStep
    <2>2. \/ DOMAIN tokens' = DOMAIN tokens
          \/ /\ IssueTokens(p)
             /\ DOMAIN tokens' = DOMAIN tokens \cup {Len(tokens')}
             /\ Len(tokens') = Len(tokens) + 1
             /\ tokens'[Len(tokens')].by = p
      <3>1. CASE Len(tokens') = Len(tokens)
        BY <1>a, <2>1, <3>1
      <3>2. CASE Len(tokens') # Len(tokens)
        <4>1. /\ IssueTokens(p)
              /\ Len(tokens') = Len(tokens) + 1
              /\ tokens'[Len(tokens')].by = p
          BY <1>1, <3>2, TokensStep
        <4>2. 1 .. Len(tokens') = 1 .. Len(tokens) \cup {Len(tokens')}
          BY <1>a, <4>1
        <4> QED
          BY <1>a, <2>1, <4>1, <4>2
      <3> QED
        BY <3>1, <3>2
    <2>3. IssueTokens(p) => /\ pc[p] = "issue" /\ pc'[p] = "loggedIn"
                            /\ stored'[p] = stored[p]
      BY <1>a DEF IssueTokens, Goto
    <2>4. \A q \in Procs : q # p => pc'[q] = pc[q] /\ stored'[q] = stored[q]
      BY <1>1, OthersKeep DEF Untouched, TypeInv
    <2>5. \A i \in DOMAIN tokens : tokens[i].by # p
      BY <1>1, ExchangeMoves DEF ExchangeInv
    <2>6. \A i \in DOMAIN tokens' : pc'[tokens'[i].by] = "loggedIn"
      <3>1. ASSUME NEW i \in DOMAIN tokens PROVE pc'[tokens'[i].by] = "loggedIn"
        BY <1>a, <2>1, <2>4, <2>5 DEF ExchangeInv
      <3> QED
        BY <2>2, <2>3, <3>1
    <2>7. ASSUME NEW q \in Procs
          PROVE  /\ stored'[q] # 0 => pc'[q] \in {"owner", "rotate", "issue", "loggedIn",
                                                  "refused", "failed", "lost"}
                 /\ pc'[q] = "issue" /\ stored'[q] # 0 => tokens'[stored'[q]].revoked
      <3>1. CASE q # p
        BY <1>a, <2>1, <2>4, <3>1 DEF ExchangeInv
      <3>2. CASE q = p
        <4>1. RevokeToken(p) /\ stored'[p] # 0 => tokens'[stored'[p]].revoked
          <5>1. SUFFICES ASSUME RevokeToken(p), stored[p] # 0
                         PROVE  tokens'[stored[p]].revoked
            BY DEF RevokeToken
          <5>2. stored[p] \in DOMAIN tokens /\ tokens[stored[p]] \in Token
            BY <1>a, <5>1
          <5>3. tokens'[stored[p]] = [tokens[stored[p]] EXCEPT !.revoked = TRUE]
            BY <5>1, <5>2 DEF RevokeToken, Revoke
          <5> QED
            BY <5>2, <5>3 DEF Token
        <4> QED
          BY <1>1, <3>2, <4>1, ExchangeMoves
      <3> QED
        BY <3>1, <3>2
    <2>8. ASSUME NEW i \in DOMAIN tokens', stored'[tokens'[i].by] # 0
          PROVE  /\ stored'[tokens'[i].by] < i
                 /\ tokens'[stored'[tokens'[i].by]].revoked
      <3>1. CASE i \in DOMAIN tokens
        <4>1. tokens'[i].by = tokens[i].by /\ tokens[i].by \in Procs
          BY <1>a, <2>1, <3>1
        <4>2. stored'[tokens[i].by] = stored[tokens[i].by]
          BY <2>4, <2>5, <3>1, <4>1
        <4> QED
          BY <1>a, <2>1, <2>8, <3>1, <4>1, <4>2 DEF ExchangeInv, ExchangedIsRevoked
      <3>2. CASE i \notin DOMAIN tokens
        <4>1. i = Len(tokens) + 1 /\ tokens'[i].by = p /\ IssueTokens(p)
          BY <2>2, <2>8, <3>2
        <4>2. stored[p] # 0 /\ stored[p] \in DOMAIN tokens /\ tokens[stored[p]].revoked
          BY <1>a, <2>3, <2>8, <4>1 DEF ExchangeInv
        <4> QED
          BY <1>a, <2>1, <2>3, <4>1, <4>2
      <3> QED
        BY <3>1, <3>2
    <2> QED
      BY <2>6, <2>7, <2>8 DEF ExchangeInv, ExchangedIsRevoked
  <1>2. CASE OtpExpires \/ LockoutEnds \/ UNCHANGED vars
    BY <1>2 DEF OtpExpires, LockoutEnds, vars, ExchangeInv, ExchangedIsRevoked
  <1>3. CASE Crash
    <2>1. \A q \in Procs : pc'[q] = IF pc[q] \in Running THEN "lost" ELSE pc[q]
      BY <1>3 DEF Crash
    <2>2. UNCHANGED <<tokens, stored>>
      BY <1>3 DEF Crash
    <2>3. \A i \in DOMAIN tokens : pc'[tokens[i].by] = "loggedIn"
      BY <1>a, <2>1 DEF ExchangeInv, Running
    <2>4. ExchangedIsRevoked'
      BY <2>2 DEF ExchangeInv, ExchangedIsRevoked
    <2> QED
      BY <2>1, <2>2, <2>3, <2>4 DEF ExchangeInv
  <1> QED
    BY <1>1, <1>2, <1>3 DEF Next, Does, Terminated

\* Whoever else logs in, refreshes or changes a password meanwhile, a refresh
\* never leaves the row it compared usable beside the new one (refreshToken).
THEOREM ExchangedRevoked == Spec => []ExchangedIsRevoked
  <1>1. Init => ExchangeInv
    BY DEF Init, ExchangeInv, ExchangedIsRevoked
  <1>2. ExchangeInv => ExchangedIsRevoked
    BY DEF ExchangeInv
  <1> QED
    BY <1>1, <1>2, ExchangeStep, TypeInvariant, PTL DEF Spec

\* What a handler knows of a phone's verification where it stands.
Cleared(p) ==
    /\ pc[p] \in {"issue", "owner", "rotate"} => account[who[p]].verified
    /\ pc[p] = "right" /\ seen[p].verified => account[who[p]].verified
    /\ pc[p] = "refresh" => account[req[p].user].verified
    /\ pc[p] \in {"idle", "verify", "reset"} => spent[p] = None
    /\ pc[p] = "activate" => spent[p] # None
    /\ pc[p] \in {"idle", "register", "resolve", "create"} => p \notin Known

\* A code was used up for the phone of the account.
Proven(u) == \E p \in Procs :
    /\ spent[p] # None
    /\ req[p].phone = account[u].phone
    /\ DOMAIN req[p] = {"phone", "code"}

VerifiedInv ==
    /\ \A p \in Procs : Cleared(p)
    /\ \A i \in DOMAIN tokens : account[tokens[i].user].verified
    /\ \A u \in Known : account[u].verified /\ u # Seed => Proven(u)

\* No account is overwritten, and none loses its phone or its verification.
Kept == \A u \in Known :
    /\ u \in Known'
    /\ account'[u].email = account[u].email
    /\ account'[u].phone = account[u].phone
    /\ account[u].verified => account'[u].verified

LEMMA RowsKept ==
    ASSUME TypeInv, \A p \in Procs : Cleared(p),
           \/ UNCHANGED account
           \/ \E p \in Procs : CreateAccount(p)
           \/ \E u \in Known : Updated(u)
    PROVE  /\ Kept
           /\ \A u \in Known' : u \in Known \/ ~ account'[u].verified
  <1>a. account \in [Accounts -> User \cup {None}] /\ None \notin User
    BY AuthAssumption DEF TypeInv, TypeOK
  <1>1. CASE UNCHANGED account
    BY <1>1 DEF Kept, Known
  <1>2. ASSUME NEW p \in Procs, CreateAccount(p)
        PROVE  /\ Kept
               /\ \A u \in Known' : u \in Known \/ ~ account'[u].verified
    <2> DEFINE row == NewUser(req[p], who[p])
    <2>1. account' = [account EXCEPT ![p] = row]
      BY <1>2, AccountCreated
    <2>2. p \notin Known
      BY <1>2 DEF CreateAccount, Cleared
    <2>3. ~ row.verified
      BY DEF NewUser
    <2> HIDE DEF row
    <2> QED
      BY <1>a, <2>1, <2>2, <2>3 DEF Kept, Known
  <1>3. ASSUME NEW v \in Known, Updated(v)
        PROVE  /\ Kept
               /\ \A u \in Known' : u \in Known \/ ~ account'[u].verified
    <2>1. PICK row : account' = [account EXCEPT ![v] = row] /\ Succeeds(row, account[v])
      BY <1>3 DEF Updated
    <2> QED
      BY <1>a, <2>1 DEF Kept, Known, Succeeds
  <1> QED
    BY <1>1, <1>2, <1>3

\* Only verifyOtp verifies, and the account it verifies is the phone's.
LEMMA OnlyActivateVerifies ==
    ASSUME TypeInv, NEW p \in Procs, Does(p), NEW u \in Known,
           ~ account[u].verified, ~ CreateAccount(p), account'[u].verified
    PROVE  ActivateUser(p) /\ account[u].phone = req[p].phone
  <1>a. account \in [Accounts -> User \cup {None}] /\ u \in Accounts
    BY DEF TypeInv, TypeOK, Known
  <1>b. account[u] \in User
    BY <1>a DEF Known
  <1>1. CASE ActivateUser(p)
    <2>1. PICK v \in Known :
            /\ account[v].phone = req[p].phone
            /\ account' = [account EXCEPT ![v].verified = TRUE, ![v].status = "ACTIVE"]
      BY <1>1 DEF ActivateUser, Holders
    <2>2. u = v
      BY <1>a, <2>1
    <2> QED
      BY <1>1, <2>1, <2>2
  <1>2. CASE CountFailure(p)
    <2>1. account'[u].verified = account[u].verified
      BY <1>2, <1>a, <1>b DEF CountFailure, User
    <2> QED
      BY <2>1
  <1>3. CASE ResetFailures(p)
    <2>1. account'[u].verified = account[u].verified
      BY <1>3, <1>a, <1>b DEF ResetFailures, User
    <2> QED
      BY <2>1
  <1>4. CASE StorePassword(p)
    <2>1. account'[u].verified = account[u].verified
      BY <1>4, <1>a, <1>b DEF StorePassword, User
    <2> QED
      BY <2>1
  <1>5. CASE ReplacePassword(p)
    <2>1. account'[u].verified = account[u].verified
      BY <1>5, <1>a, <1>b DEF ReplacePassword, User
    <2> QED
      BY <2>1
  <1>6. CASE UpdateUserStatus(p)
    <2>1. account'[u].verified = account[u].verified
      BY <1>6, <1>a, <1>b DEF UpdateUserStatus, User
    <2> QED
      BY <2>1
  <1> QED
    BY <1>1, <1>2, <1>3, <1>4, <1>5, <1>6, AccountWriters

\* What a handler knows is still so after its step, and what it has used up
\* and was asked for stays.
LEMMA ClearedMoves ==
    ASSUME TypeInv, VerifiedInv, Kept, NEW p \in Procs, Does(p)
    PROVE  /\ Cleared(p)'
           /\ spent[p] # None => spent'[p] = spent[p] /\ req'[p] = req[p]
  <1> USE DEF Goto
  <1>a. /\ pc \in [Procs -> {"idle"} \cup Running \cup Ended]
        /\ req \in [Procs -> Request \cup {None}]
        /\ who \in [Procs -> Accounts \cup {Nobody}]
        /\ seen \in [Procs -> User \cup {None}]
        /\ spent \in [Procs -> Otp \cup {None}]
    BY DEF TypeInv, TypeOK
  <1>b. Cleared(p) /\ Shape(p)
    BY DEF TypeInv, VerifiedInv
  <1>c. UNCHANGED account => Known' = Known
    BY DEF Known
  <1>1. CASE Receipt(p)
    <2>1. /\ pc[p] = "idle" /\ p \notin Known /\ spent[p] = None
          /\ UNCHANGED <<account, who, seen, spent>>
      BY <1>b, <1>1 DEF Receipt, Receive, Register, VerifyOtp, ResendOtp, Login,
             RefreshToken, ForgotPassword, ResetPassword, ChangePassword, SetStatus,
             Cleared
    <2>2. CASE RefreshToken(p)
      <3>1. PICK i \in DOMAIN tokens :
              Receive(p, "refresh", [user |-> tokens[i].user, string |-> tokens[i].string])
        BY <2>2 DEF RefreshToken
      <3>2. pc'[p] = "refresh" /\ req'[p].user = tokens[i].user
        BY <1>a, <3>1 DEF Receive
      <3>3. account'[req'[p].user].verified
        BY <2>1, <3>2 DEF VerifiedInv
      <3> QED
        BY <2>1, <3>2, <3>3 DEF Cleared
    <2>3. CASE ~ RefreshToken(p)
      <3>1. pc'[p] \in {"register", "verify", "resend", "login", "forgot", "reset",
                        "change", "setStatus"}
        BY <1>a, <1>1, <2>3 DEF Receipt, Receive, Register, VerifyOtp, ResendOtp, Login,
               ForgotPassword, ResetPassword, ChangePassword, SetStatus
      <3> QED
        BY <1>c, <2>1, <3>1 DEF Cleared
    <2> QED
      BY <2>2, <2>3
  <1>2. CASE Fail(p)
    BY <1>a, <1>2 DEF Fail, Cleared
  <1>3. CASE CheckPhoneOtp(p)
    <2>1. /\ pc[p] = "verify" /\ spent[p] = None
          /\ Check(p, "phone_verify", req[p].phone, req[p].code, "activate")
      BY <1>b, <1>3 DEF CheckPhoneOtp, Cleared
    <2>2. pc'[p] = "activate" \/ pc'[p] = "refused"
      BY <1>a, <2>1 DEF Check
    <2>3. pc'[p] = "activate" => spent'[p] # None
      BY <1>a, <2>1 DEF Check, Matches, Pending
    <2> QED
      BY <2>1, <2>2, <2>3 DEF Cleared
  <1>4. CASE CheckResetOtp(p)
    <2>1. /\ pc[p] = "reset" /\ spent[p] = None
          /\ Check(p, "pwd_reset", req[p].phone, req[p].code, "newPassword")
      BY <1>b, <1>4 DEF CheckResetOtp, Cleared
    <2>2. pc'[p] = "newPassword" \/ pc'[p] = "refused"
      BY <1>a, <2>1 DEF Check
    <2> QED
      BY <2>1, <2>2 DEF Cleared
  <1>5. CASE ActivateUser(p)
    <2>1. PICK u \in Known :
            /\ who' = [who EXCEPT ![p] = u]
            /\ account' = [account EXCEPT ![u].verified = TRUE, ![u].status = "ACTIVE"]
      BY <1>5 DEF ActivateUser, Holders
    <2>2. account[u] \in User /\ u \in Accounts
          /\ account \in [Accounts -> User \cup {None}]
      BY DEF TypeInv, TypeOK, Known
    <2>3. account'[u].verified
      BY <2>1, <2>2 DEF User
    <2>4. who'[p] = u /\ pc'[p] = "issue" /\ UNCHANGED <<req, spent>>
      BY <1>a, <1>5, <2>1 DEF ActivateUser
    <2> QED
      BY <2>3, <2>4 DEF Cleared
  <1>6. CASE ResetFailures(p)
    <2>1. /\ pc[p] = "right" /\ who[p] \in Known
          /\ UNCHANGED <<req, who, seen, spent>>
          /\ pc'[p] = IF seen[p].verified THEN "issue" ELSE "unverified"
      BY <1>a, <1>b, <1>6 DEF ResetFailures, Shape
    <2>2. seen[p].verified => account'[who[p]].verified
      BY <1>b, <2>1 DEF Cleared, Kept
    <2> QED
      BY <2>1, <2>2 DEF Cleared
  <1>7. CASE FindUser(p)
    <2>1. PICK u \in Known :
            /\ who' = [who EXCEPT ![p] = u]
            /\ seen' = [seen EXCEPT ![p] = account[u]]
      BY <1>7 DEF FindUser, Holders
    <2>2. pc'[p] \in {"right", "wrong"} /\ UNCHANGED <<req, account, spent>>
      BY <1>a, <1>7 DEF FindUser
    <2>3. who'[p] = u /\ seen'[p] = account[u]
      BY <1>a, <2>1
    <2> QED
      BY <2>2, <2>3 DEF Cleared
  <1>8. CASE FindToken(p)
    <2>1. /\ pc[p] = "refresh" /\ pc'[p] = "owner" /\ who'[p] = req[p].user
          /\ UNCHANGED <<req, account, spent>>
      BY <1>a, <1>8 DEF FindToken
    <2> QED
      BY <1>b, <2>1 DEF Cleared
  <1>9. CASE CheckOwner(p) \/ RevokeToken(p)
    <2>1. /\ pc[p] \in {"owner", "rotate"} /\ pc'[p] \in {"rotate", "issue", "refused"}
          /\ UNCHANGED <<req, account, who, spent>>
      BY <1>a, <1>9 DEF CheckOwner, RevokeToken
    <2> QED
      BY <1>b, <2>1 DEF Cleared
  <1>10. CASE CheckDuplicate(p) \/ ResolveReferrer(p)
    <2>1. /\ pc[p] \in {"register", "resolve"}
          /\ pc'[p] \in {"resolve", "create", "conflict"}
          /\ UNCHANGED <<req, account, spent>>
      BY <1>a, <1>10 DEF CheckDuplicate, ResolveReferrer
    <2> QED
      BY <1>b, <1>c, <2>1 DEF Cleared
  <1>11. CASE \/ CreateAccount(p) \/ DuplicateAccount(p) \/ SendWelcomeOtp(p)
              \/ SendPhoneOtp(p) \/ IssueTokens(p) \/ LoginRefused(p) \/ CountFailure(p)
              \/ ReissueOtp(p) \/ TokenRefused(p) \/ SendResetOtp(p)
              \/ StorePassword(p) \/ CheckPassword(p) \/ ReplacePassword(p)
              \/ RevokeAll(p) \/ UpdateUserStatus(p) \/ WriteAudit(p)
    <2>1. /\ pc'[p] \in {"welcome", "failed", "registered", "sent", "refused", "loggedIn",
                         "changed", "replace", "revokeAll", "audit", "audited"}
          /\ UNCHANGED <<req, spent>>
      BY <1>a, <1>11 DEF CreateAccount, DuplicateAccount, SendWelcomeOtp, SendPhoneOtp,
             IssueTokens, LoginRefused, CountFailure, ReissueOtp, TokenRefused,
             SendResetOtp, StorePassword, CheckPassword, ReplacePassword, RevokeAll,
             UpdateUserStatus, WriteAudit
    <2> QED
      BY <2>1 DEF Cleared
  <1> QED
    BY <1>1, <1>2, <1>3, <1>4, <1>5, <1>6, <1>7, <1>8, <1>9, <1>10, <1>11 DEF Does, Step

LEMMA VerifiedStep == TypeInv /\ VerifiedInv /\ [Next]_vars => VerifiedInv'
  <1> SUFFICES ASSUME TypeInv, VerifiedInv, [Next]_vars PROVE VerifiedInv'
    OBVIOUS
  <1>a. /\ Kept
        /\ \A u \in Known' : u \in Known \/ ~ account'[u].verified
    BY RowStep, RowsKept DEF VerifiedInv
  <1>b. \A i \in DOMAIN tokens : tokens[i].user \in Known
    BY DEF TypeInv
  <1>1. ASSUME NEW p \in Procs, Does(p) PROVE VerifiedInv'
    <2>1. /\ Cleared(p)'
          /\ spent[p] # None => spent'[p] = spent[p] /\ req'[p] = req[p]
      BY <1>1, <1>a, ClearedMoves
    <2>2. Untouched(p)
      BY <1>1, OthersKeep DEF TypeInv
    <2>3. ASSUME NEW q \in Procs, q # p PROVE Cleared(q)'
      <3>1. Cleared(q) /\ Shape(q)
        BY DEF VerifiedInv, TypeInv
      <3>2. /\ pc'[q] = pc[q] /\ req'[q] = req[q] /\ who'[q] = who[q]
            /\ seen'[q] = seen[q] /\ spent'[q] = spent[q]
        BY <2>2, <2>3 DEF Untouched
      <3>3. q \notin Known => q \notin Known'
        <4>1. CASE UNCHANGED account
          BY <4>1 DEF Known
        <4>2. CASE CreateAccount(p)
          BY <2>3, <4>2 DEF CreateAccount, Known, Accounts, TypeInv, TypeOK
        <4>3. ASSUME NEW u \in Known, Updated(u) PROVE q \notin Known => q \notin Known'
          BY <4>3 DEF Updated, Known, TypeInv, TypeOK
        <4> QED
          BY <1>1, <4>1, <4>2, <4>3, AccountUpdated
      <3> QED
        BY <1>a, <3>1, <3>2, <3>3 DEF Cleared, Shape, Kept
    <2>4. ASSUME NEW u \in Known, Proven(u) PROVE Proven(u)'
      <3>1. PICK q \in Procs : /\ spent[q] # None
                               /\ req[q].phone = account[u].phone
                               /\ DOMAIN req[q] = {"phone", "code"}
        BY <2>4 DEF Proven
      <3>2. spent'[q] = spent[q] /\ req'[q] = req[q]
        BY <2>1, <2>2, <3>1 DEF Untouched
      <3>3. account'[u].phone = account[u].phone
        BY <1>a DEF Kept
      <3> QED
        BY <3>1, <3>2, <3>3 DEF Proven
    <2>5. ASSUME NEW u \in Known', account'[u].verified, u # Seed PROVE Proven(u)'
      <3>1. u \in Known
        BY <1>a, <2>5
      <3>2. CASE account[u].verified
        BY <2>4, <2>5, <3>1, <3>2 DEF VerifiedInv
      <3>3. CASE ~ account[u].verified
        <4>1. ~ CreateAccount(p)
          <5>1. SUFFICES ASSUME CreateAccount(p) PROVE FALSE
            OBVIOUS
          <5>2. p \notin Known
            BY <5>1 DEF CreateAccount, VerifiedInv, Cleared
          <5>3. account'[u] = account[u]
            BY <3>1, <5>1, <5>2 DEF CreateAccount, Known, TypeInv, TypeOK
          <5> QED
            BY <2>5, <3>3, <5>3
        <4>2. ActivateUser(p) /\ account[u].phone = req[p].phone
          BY <1>1, <2>5, <3>1, <3>3, <4>1, OnlyActivateVerifies
        <4>3. spent[p] # None /\ req[p] \in CodeRequest
          BY <4>2 DEF ActivateUser, VerifiedInv, Cleared, TypeInv, Shape
        <4>4. DOMAIN req[p] = {"phone", "code"}
          BY <4>3 DEF CodeRequest
        <4> QED
          BY <2>4, <3>1, <4>2, <4>3, <4>4 DEF Proven
      <3> QED
        BY <3>2, <3>3
    <2>6. ASSUME NEW i \in DOMAIN tokens' PROVE account'[tokens'[i].user].verified
      <3>1. CASE i \in DOMAIN tokens
        <4>1. tokens'[i].user = tokens[i].user
          BY <1>1, <3>1, TokensStep
        <4> QED
          BY <1>a, <1>b, <3>1, <4>1 DEF VerifiedInv, Kept
      <3>2. CASE i \notin DOMAIN tokens
        <4>1. /\ tokens \in Seq(Token) /\ tokens' \in Seq(Token)
          BY <1>1, TokensStep DEF TypeInv, TypeOK
        <4>2. IssueTokens(p) /\ tokens'[i].user = who[p]
          BY <1>1, <2>6, <3>2, <4>1, TokensStep
        <4>3. pc[p] = "issue" /\ UNCHANGED account
          BY <4>2 DEF IssueTokens
        <4> QED
          BY <4>2, <4>3 DEF VerifiedInv, Cleared
      <3> QED
        BY <3>1, <3>2
    <2> QED
      BY <2>1, <2>3, <2>5, <2>6 DEF VerifiedInv
  <1>2. CASE OtpExpires \/ UNCHANGED vars
    BY <1>2 DEF OtpExpires, vars, VerifiedInv, Cleared, Proven, Known
  <1>3. CASE LockoutEnds
    <2>1. PICK v \in Known : account' = [account EXCEPT ![v].lockout = "over"]
      BY <1>3 DEF LockoutEnds
    <2>2. \A u \in Known : account[u] \in User /\ u \in Accounts
          /\ account \in [Accounts -> User \cup {None}]
      BY DEF TypeInv, TypeOK, Known
    <2>3. UNCHANGED <<pc, req, otp, tokens, who, seen, stored, spent>>
      BY <1>3 DEF LockoutEnds
    <2>4. Known' = Known /\ \A u \in Known : account'[u].verified = account[u].verified
      <3>1. \A u \in Accounts : u # v => account'[u] = account[u]
        BY <2>1, <2>2
      <3>2. account'[v] = [account[v] EXCEPT !.lockout = "over"]
        BY <2>1, <2>2
      <3>3. account'[v] \in User /\ account'[v].verified = account[v].verified
        BY <2>2, <3>2 DEF User
      <3> QED
        BY <2>1, <2>2, <3>1, <3>3, AuthAssumption DEF Known
    <2>5. ASSUME NEW q \in Procs PROVE Cleared(q)'
      <3>1. Cleared(q) /\ Shape(q)
        BY DEF VerifiedInv, TypeInv
      <3> QED
        BY <2>3, <2>4, <3>1 DEF Cleared, Shape
    <2>6. \A u \in Known : Proven(u) => Proven(u)'
      BY <1>a, <2>3 DEF Proven, Kept
    <2> QED
      BY <1>b, <2>3, <2>4, <2>5, <2>6 DEF VerifiedInv
  <1>4. CASE Crash
    <2>1. UNCHANGED <<req, account, tokens, who, seen, stored, spent>>
      BY <1>4 DEF Crash
    <2>2. \A q \in Procs : pc'[q] = pc[q] \/ pc'[q] = "lost"
      BY <1>4 DEF Crash
    <2>3. Known' = Known
      BY <2>1 DEF Known
    <2>4. \A q \in Procs : Cleared(q)'
      BY <2>1, <2>2, <2>3 DEF VerifiedInv, Cleared
    <2>5. \A u \in Known : Proven(u)' = Proven(u)
      BY <2>1 DEF Proven
    <2> QED
      BY <2>1, <2>3, <2>4, <2>5 DEF VerifiedInv
  <1> QED
    BY <1>1, <1>2, <1>3, <1>4 DEF Next, Does, Terminated

\* Along every interleaving of registrations, logins, refreshes and restarts,
\* a session exists only for an account whose phone is verified, and for one
\* registered here a code for that phone was used up (verifyOtp, login).
THEOREM SessionsVerified == Spec => []SessionsAreVerified
  <1>1. Init => VerifiedInv
    BY AuthAssumption DEF Init, VerifiedInv, Cleared, Known, SeedUser
  <1>2. TypeInv /\ VerifiedInv => SessionsAreVerified
    BY DEF TypeInv, VerifiedInv, SessionsAreVerified, Proven
  <1> QED
    BY <1>1, <1>2, VerifiedStep, TypeInvariant, PTL DEF Spec

-------------------------------------------------------------------------------
(* Answers *)

\* What a client has been told, and the tokens a handler has stored.
Told(p) ==
    /\ pc[p] \in {"welcome", "registered"} => p \in Known
    /\ pc[p] = "conflict" => p \notin Known /\ Taken(req[p])
    /\ pc[p] = "loggedIn" =>
         \E i \in DOMAIN tokens : \A j \in DOMAIN tokens : tokens[j].by = p <=> j = i
    /\ pc[p] # "loggedIn" => \A i \in DOMAIN tokens : tokens[i].by # p

AnswersInv == \A p \in Procs : Told(p)

\* The one step that leads to each answer; a handler that has answered a login
\* does nothing more.
LEMMA AnswerMoves ==
    ASSUME TypeInv, NEW p \in Procs, Does(p)
    PROVE  /\ pc[p] # "loggedIn"
           /\ IssueTokens(p) <=> pc'[p] = "loggedIn"
           /\ pc'[p] = "conflict" => CheckDuplicate(p) /\ Taken(req[p])
           /\ pc'[p] = "welcome" => CreateAccount(p)
           /\ pc'[p] = "registered" => SendWelcomeOtp(p)
  <1> USE DEF Goto
  <1>a. pc \in [Procs -> {"idle"} \cup Running \cup Ended]
    BY DEF TypeInv, TypeOK
  <1>b. IssueTokens(p) => pc[p] = "issue" /\ pc'[p] = "loggedIn"
    BY <1>a DEF IssueTokens
  <1>1. CASE Receipt(p)
    BY <1>a, <1>b, <1>1 DEF Receipt, Receive, Register, VerifyOtp, ResendOtp, Login,
           RefreshToken, ForgotPassword, ResetPassword, ChangePassword, SetStatus
  <1>2. CASE Fail(p)
    BY <1>a, <1>b, <1>2 DEF Fail, Running
  <1>3. CASE CheckPhoneOtp(p) \/ CheckResetOtp(p)
    BY <1>a, <1>b, <1>3 DEF CheckPhoneOtp, CheckResetOtp, Check
  <1>4. CASE \/ CheckDuplicate(p) \/ ResolveReferrer(p) \/ CreateAccount(p)
             \/ DuplicateAccount(p) \/ SendWelcomeOtp(p) \/ ActivateUser(p)
             \/ SendPhoneOtp(p) \/ IssueTokens(p) \/ FindUser(p) \/ LoginRefused(p)
    BY <1>a, <1>b, <1>4 DEF CheckDuplicate, ResolveReferrer, CreateAccount,
           DuplicateAccount, SendWelcomeOtp, ActivateUser, SendPhoneOtp, IssueTokens,
           FindUser, LoginRefused
  <1>5. CASE \/ CountFailure(p) \/ ResetFailures(p) \/ ReissueOtp(p) \/ FindToken(p)
             \/ TokenRefused(p) \/ CheckOwner(p) \/ RevokeToken(p) \/ SendResetOtp(p)
    BY <1>a, <1>b, <1>5 DEF CountFailure, ResetFailures, ReissueOtp, FindToken,
           TokenRefused, CheckOwner, RevokeToken, SendResetOtp
  <1>6. CASE StorePassword(p) \/ CheckPassword(p) \/ ReplacePassword(p)
    <2>1. \/ pc[p] = "newPassword" /\ Goto(p, "changed")
          \/ pc[p] = "change" /\ (Goto(p, "replace") \/ Goto(p, "refused"))
          \/ pc[p] = "replace" /\ Goto(p, "revokeAll")
      BY <1>6, Zenon DEF StorePassword, CheckPassword, ReplacePassword
    <2> QED
      BY <1>a, <1>b, <2>1
  <1>7. CASE RevokeAll(p) \/ UpdateUserStatus(p) \/ WriteAudit(p)
    BY <1>a, <1>b, <1>7 DEF RevokeAll, UpdateUserStatus, WriteAudit
  <1> QED
    BY <1>1, <1>2, <1>3, <1>4, <1>5, <1>6, <1>7 DEF Does, Step

\* Only the handler that inserts an account makes it known.
LEMMA KnownBefore ==
    ASSUME TypeInv, NEW p \in Procs, Does(p), NEW q \in Procs, q \in Known'
    PROVE  q \in Known \/ (q = p /\ CreateAccount(p))
  <1>1. CASE UNCHANGED account
    BY <1>1 DEF Known
  <1>2. CASE CreateAccount(p)
    BY <1>2 DEF CreateAccount, Known, Accounts, TypeInv, TypeOK
  <1>3. ASSUME NEW u \in Known, Updated(u) PROVE q \in Known
    BY <1>3 DEF Updated, Known, TypeInv, TypeOK
  <1> QED
    BY <1>1, <1>2, <1>3, AccountUpdated

\* The tokens of a handler, before and after a step of p.
LEMMA TokensTold ==
    ASSUME TypeInv, NEW p \in Procs, Does(p), NEW q \in Procs, Told(q),
           q # p => pc'[q] = pc[q]
    PROVE  /\ pc'[q] = "loggedIn" =>
                \E i \in DOMAIN tokens' :
                    \A j \in DOMAIN tokens' : tokens'[j].by = q <=> j = i
           /\ pc'[q] # "loggedIn" => \A i \in DOMAIN tokens' : tokens'[i].by # q
  <1>1. /\ tokens \in Seq(Token) /\ tokens' \in Seq(Token)
        /\ Len(tokens) \in Nat /\ Len(tokens') \in Nat
        /\ DOMAIN tokens = 1 .. Len(tokens) /\ DOMAIN tokens' = 1 .. Len(tokens')
    BY TokensStep DEF TypeInv, TypeOK
  <1>2. \A i \in DOMAIN tokens : tokens'[i].by = tokens[i].by
    BY TokensStep
  <1>3. CASE Len(tokens') = Len(tokens) /\ ~ IssueTokens(p)
    BY <1>1, <1>2, <1>3, AnswerMoves DEF Told
  <1>4. CASE /\ IssueTokens(p) /\ Len(tokens') = Len(tokens) + 1
             /\ tokens'[Len(tokens')].by = p
    <2>1. /\ pc[p] # "loggedIn" /\ pc'[p] = "loggedIn"
          /\ Len(tokens') \in DOMAIN tokens' /\ Len(tokens') \notin DOMAIN tokens
          /\ \A j \in DOMAIN tokens' : j \in DOMAIN tokens \/ j = Len(tokens')
          /\ DOMAIN tokens \subseteq DOMAIN tokens'
      BY <1>1, <1>4, AnswerMoves
    <2>2. CASE q = p
      <3>1. \A j \in DOMAIN tokens' : tokens'[j].by = q <=> j = Len(tokens')
        BY <1>2, <1>4, <2>1, <2>2 DEF Told
      <3> QED
        BY <2>1, <2>2, <3>1
    <2>3. CASE q # p
      <3>1. \A j \in DOMAIN tokens' :
              tokens'[j].by = q <=> j \in DOMAIN tokens /\ tokens[j].by = q
        BY <1>2, <1>4, <2>1, <2>3
      <3>2. pc'[q] = "loggedIn" => pc[q] = "loggedIn"
        BY <2>3
      <3> QED
        BY <2>1, <2>3, <3>1, <3>2 DEF Told
    <2> QED
      BY <2>2, <2>3
  <1>5. IssueTokens(p) => Len(tokens') = Len(tokens) + 1
    BY <1>1 DEF IssueTokens
  <1>6. \/ Len(tokens') = Len(tokens)
        \/ /\ IssueTokens(p) /\ Len(tokens') = Len(tokens) + 1
           /\ tokens'[Len(tokens')].by = p
    BY TokensStep
  <1>7. \/ Len(tokens') = Len(tokens) /\ ~ IssueTokens(p)
        \/ /\ IssueTokens(p) /\ Len(tokens') = Len(tokens) + 1
           /\ tokens'[Len(tokens')].by = p
    <2> DEFINE n == Len(tokens)
    <2>0. n \in Nat
      BY <1>1
    <2> HIDE DEF n
    <2>1. n # n + 1
      BY <2>0
    <2>2. CASE IssueTokens(p)
      BY <1>5, <1>6, <2>1, <2>2 DEF n
    <2>3. CASE ~ IssueTokens(p)
      BY <1>6, <2>3
    <2> QED
      BY <2>2, <2>3
  <1> QED
    BY <1>3, <1>4, <1>7

LEMMA AnswersStep ==
    TypeInv /\ VerifiedInv /\ AnswersInv /\ [Next]_vars => AnswersInv'
  <1> SUFFICES ASSUME TypeInv, VerifiedInv, AnswersInv, [Next]_vars,
                      NEW q \in Procs
               PROVE  Told(q)'
    BY DEF AnswersInv
  <1>a. Kept
    BY RowStep, RowsKept DEF VerifiedInv
  <1>b. Told(q) /\ Cleared(q)
    BY DEF AnswersInv, VerifiedInv
  <1>1. ASSUME NEW p \in Procs, Does(p) PROVE Told(q)'
    <2>1. q # p => pc'[q] = pc[q] /\ req'[q] = req[q]
      BY <1>1, OthersKeep DEF Untouched, TypeInv
    <2>2. pc'[q] \in {"welcome", "registered"} => q \in Known'
      <3>1. CASE q # p
        BY <1>a, <1>b, <2>1, <3>1 DEF Told, Kept
      <3>2. CASE q = p /\ CreateAccount(p)
        BY <3>2, AccountCreated, AuthAssumption DEF Known, Accounts, TypeInv, TypeOK
      <3>3. CASE q = p /\ SendWelcomeOtp(p)
        BY <1>a, <1>b, <3>3 DEF SendWelcomeOtp, Told, Kept
      <3> QED
        BY <1>1, <3>1, <3>2, <3>3, AnswerMoves
    <2>3. pc'[q] = "conflict" => q \notin Known' /\ Taken(req[q])'
      <3>1. CASE q # p
        <4>1. pc'[q] = "conflict" => Taken(req[q])'
          BY <1>a, <1>b, <2>1, <3>1 DEF Told, Taken, Kept
        <4>2. pc'[q] = "conflict" => q \notin Known'
          BY <1>1, <1>b, <2>1, <3>1, KnownBefore DEF Told
        <4> QED
          BY <4>1, <4>2
      <3>2. CASE q = p /\ CheckDuplicate(p)
        <4>1. /\ UNCHANGED <<account, req>>
              /\ q \notin Known
          BY <1>b, <3>2 DEF CheckDuplicate, Cleared
        <4> QED
          BY <1>1, <4>1, <3>2, AnswerMoves DEF Taken, Known, Cleared
      <3> QED
        BY <1>1, <3>1, <3>2, AnswerMoves
    <2>4. /\ pc'[q] = "loggedIn" =>
               \E i \in DOMAIN tokens' :
                   \A j \in DOMAIN tokens' : tokens'[j].by = q <=> j = i
          /\ pc'[q] # "loggedIn" => \A i \in DOMAIN tokens' : tokens'[i].by # q
      BY <1>1, <1>b, <2>1, TokensTold
    <2> QED
      BY <2>2, <2>3, <2>4 DEF Told
  <1>2. CASE Crash
    <2>1. /\ UNCHANGED <<account, req, tokens>>
          /\ pc'[q] = pc[q] \/ (pc[q] \in Running /\ pc'[q] = "lost")
      BY <1>2 DEF Crash
    <2> QED
      BY <1>b, <2>1 DEF Told, Taken, Known, Running
  <1>3. CASE LockoutEnds
    <2>1. UNCHANGED <<pc, req, tokens>>
      BY <1>3 DEF LockoutEnds
    <2>2. Known' = Known
      <3>1. PICK u \in Known : Updated(u)
        BY <1>3, LockoutUpdated
      <3> QED
        BY <3>1, AuthAssumption DEF Updated, Succeeds, Known, TypeInv, TypeOK
    <2> QED
      BY <1>a, <1>b, <2>1, <2>2 DEF Told, Taken, Kept
  <1>4. CASE OtpExpires \/ UNCHANGED vars
    BY <1>b, <1>4 DEF OtpExpires, vars, Told, Taken, Known
  <1> QED
    BY <1>1, <1>2, <1>3, <1>4 DEF Next, Does, Terminated

\* A client is told the truth by every interleaving of handlers, failures and
\* restarts: a conflict has somebody else's row, a registration its own, a
\* login one token, a refusal none (register, login, verifyOtp, refreshToken).
THEOREM AnswersTrue == Spec => []AnswersAreTrue
  <1>1. Init => AnswersInv
    BY DEF Init, AnswersInv, Told
  <1>2. Init => VerifiedInv
    BY AuthAssumption DEF Init, VerifiedInv, Cleared, Known, SeedUser
  <1>3. ASSUME AnswersInv, NEW p \in Procs
        PROVE  LET issued == {i \in DOMAIN tokens : tokens[i].by = p} IN
               /\ pc[p] = "loggedIn" => Cardinality(issued) = 1
               /\ pc[p] \in {"refused", "failed", "lost"} => issued = {}
    <2> DEFINE issued == {i \in DOMAIN tokens : tokens[i].by = p}
    <2>1. Told(p)
      BY <1>3 DEF AnswersInv
    <2>2. CASE pc[p] = "loggedIn"
      <3>1. PICK i \in DOMAIN tokens :
              \A j \in DOMAIN tokens : tokens[j].by = p <=> j = i
        BY <2>1, <2>2 DEF Told
      <3>2. issued = {i}
        BY <3>1
      <3> QED
        BY <2>2, <3>2, FS_Singleton
    <2>3. CASE pc[p] # "loggedIn"
      BY <2>1, <2>3 DEF Told
    <2> QED
      BY <2>2, <2>3
  <1>4. AnswersInv => AnswersAreTrue
    <2> SUFFICES ASSUME AnswersInv, NEW p \in Procs
                 PROVE  LET issued == {i \in DOMAIN tokens : tokens[i].by = p} IN
                        /\ pc[p] = "registered" => p \in Known
                        /\ pc[p] = "conflict" => p \notin Known /\ Taken(req[p])
                        /\ pc[p] = "loggedIn" => Cardinality(issued) = 1
                        /\ pc[p] \in {"refused", "failed", "lost"} => issued = {}
      BY DEF AnswersAreTrue
    <2> QED
      BY <1>3 DEF AnswersInv, Told
  <1> QED
    BY <1>1, <1>2, <1>4, AnswersStep, VerifiedStep, TypeInvariant, PTL DEF Spec

-------------------------------------------------------------------------------
(* Lockouts *)

\* The count and the lockout are written together, each time.
LEMMA LockedStep ==
    ASSUME TypeInv, \A u \in Known : Locked(account[u]), [Next]_vars
    PROVE  \A u \in Known' : Locked(account'[u])
  <1>a. account \in [Accounts -> User \cup {None}] /\ None \notin User
    BY AuthAssumption DEF TypeInv, TypeOK
  <1>1. CASE UNCHANGED account
    BY <1>1 DEF Known
  <1>2. ASSUME NEW p \in Procs, CreateAccount(p)
        PROVE  \A u \in Known' : Locked(account'[u])
    <2> DEFINE row == NewUser(req[p], who[p])
    <2>1. account' = [account EXCEPT ![p] = row]
      BY <1>2, AccountCreated
    <2>2. row.lockout = "none" /\ row.attempts = 0
      BY DEF NewUser
    <2> HIDE DEF row
    <2>3. Locked(row)
      BY <2>2, AuthAssumption DEF Locked
    <2>4. \A u \in Known' : u # p => u \in Known /\ account'[u] = account[u]
      BY <1>a, <2>1 DEF Known
    <2>5. p \in Accounts /\ account'[p] = row
      BY <1>a, <2>1 DEF Accounts
    <2> QED
      BY <2>3, <2>4, <2>5
  <1>3. ASSUME NEW v \in Known, Updated(v)
        PROVE  \A u \in Known' : Locked(account'[u])
    <2>1. PICK row : account' = [account EXCEPT ![v] = row] /\ Succeeds(row, account[v])
      BY <1>3 DEF Updated
    <2>2. Known' = Known
      BY <1>a, <2>1 DEF Known, Succeeds
    <2>3. Locked(row)
      BY <2>1 DEF Succeeds
    <2>4. \A u \in Known : account'[u] = IF u = v THEN row ELSE account[u]
      BY <1>a, <2>1 DEF Known
    <2> QED
      BY <2>2, <2>3, <2>4
  <1> QED
    BY <1>1, <1>2, <1>3, RowStep

\* Where a login that has read its row may stand.
Seeing == {"wrong", "right", "unverified", "issue", "loggedIn", "refused", "failed",
           "lost"}

\* Only logins read a row, of an account there is, and then stand where the
\* password has sent them.
SeenInv ==
    \A p \in Procs :
        /\ seen[p] # None => pc[p] \in Seeing /\ who[p] \in Known
        /\ pc[p] = "wrong" => seen[p].password # req[p].password
        /\ pc[p] \in {"right", "unverified"} => seen[p].password = req[p].password

\* What a login has read, it keeps, ...
LEMMA LoginMoves ==
    ASSUME TypeInv, SeenInv, NEW p \in Procs, Does(p)
    PROVE  \/ seen[p] = None /\ seen'[p] = None
           \/ FindUser(p)
           \/ /\ seen[p] # None
              /\ seen'[p] = seen[p] /\ who'[p] = who[p] /\ req'[p] = req[p]
              /\ \/ CountFailure(p)
                 \/ pc[p] = "right" /\ pc'[p] \in {"issue", "unverified"}
                 \/ pc[p] = "unverified" /\ pc'[p] = "refused"
                 \/ pc'[p] \in {"loggedIn", "failed"}
  <1> USE DEF Goto
  <1>a. TypeOK /\ pc \in [Procs -> {"idle"} \cup Running \cup Ended]
    BY DEF TypeInv, TypeOK
  <1>b. seen[p] # None => pc[p] \in Seeing
    BY DEF SeenInv
  <1>c. Shape(p) /\ None \notin User
    BY AuthAssumption DEF TypeInv
  <1>1. CASE Receipt(p)
    <2>1. pc[p] = "idle" /\ UNCHANGED seen
      BY <1>1 DEF Receipt, Receive, Register, VerifyOtp, ResendOtp, Login, RefreshToken,
                  ForgotPassword, ResetPassword, ChangePassword, SetStatus
    <2> QED
      BY <2>1, <1>b DEF Seeing
  <1>2. CASE Fail(p)
    BY <1>2, <1>a DEF Fail
  <1>3. CASE CountFailure(p)
    BY <1>3, <1>c DEF CountFailure, Shape
  <1>4. CASE ResetFailures(p)
    BY <1>4, <1>a, <1>c DEF ResetFailures, Shape
  <1>5. CASE ReissueOtp(p)
    BY <1>5, <1>a, <1>c DEF ReissueOtp, Shape
  <1>6. CASE IssueTokens(p)
    BY <1>6, <1>a DEF IssueTokens
  <1>7. CASE CheckPhoneOtp(p) \/ CheckResetOtp(p)
    BY <1>7, <1>b DEF CheckPhoneOtp, CheckResetOtp, Seeing
  <1>8. CASE \/ CheckDuplicate(p) \/ ResolveReferrer(p) \/ CreateAccount(p)
             \/ DuplicateAccount(p) \/ SendWelcomeOtp(p) \/ ActivateUser(p)
             \/ SendPhoneOtp(p) \/ LoginRefused(p) \/ FindToken(p) \/ TokenRefused(p)
    BY <1>8, <1>b DEF CheckDuplicate, ResolveReferrer, CreateAccount, DuplicateAccount,
                      SendWelcomeOtp, ActivateUser, SendPhoneOtp, LoginRefused,
                      FindToken, TokenRefused, Seeing
  <1>9. CASE CheckOwner(p) \/ RevokeToken(p) \/ SendResetOtp(p) \/ StorePassword(p)
    <2>1. pc[p] \notin Seeing /\ UNCHANGED seen
      <3>1. CheckOwner(p) => pc[p] = "owner" /\ UNCHANGED seen
        BY DEF CheckOwner
      <3>2. RevokeToken(p) => pc[p] = "rotate" /\ UNCHANGED seen
        BY DEF RevokeToken
      <3>3. SendResetOtp(p) => pc[p] = "forgot" /\ UNCHANGED seen
        BY DEF SendResetOtp
      <3>4. StorePassword(p) => pc[p] = "newPassword" /\ UNCHANGED seen
        BY Zenon DEF StorePassword
      <3> QED
        BY <1>9, <3>1, <3>2, <3>3, <3>4 DEF Seeing
    <2> QED
      BY <2>1, <1>b
  <1>10. CASE \/ CheckPassword(p) \/ ReplacePassword(p) \/ RevokeAll(p)
              \/ UpdateUserStatus(p) \/ WriteAudit(p)
    BY <1>10, <1>b DEF CheckPassword, ReplacePassword, RevokeAll, UpdateUserStatus,
                       WriteAudit, Seeing
  <1> QED
    BY <1>1, <1>2, <1>3, <1>4, <1>5, <1>6, <1>7, <1>8, <1>9, <1>10 DEF Does, Step

\* ... and what it reads is the row as it is.
LEMMA RowRead ==
    ASSUME TypeInv, NEW p \in Procs, FindUser(p)
    PROVE  /\ UNCHANGED <<account, req>>
           /\ who'[p] \in Known /\ seen'[p] = account[who'[p]]
           /\ pc[p] = "login"
           /\ pc'[p] = IF seen'[p].password = req'[p].password THEN "right" ELSE "wrong"
  BY DEF FindUser, Holders, Goto, TypeInv, TypeOK

\* Rows are never deleted.
LEMMA KnownStays ==
    ASSUME TypeInv, [Next]_vars
    PROVE  Known \subseteq Known'
  BY RowStep, AccountStep

\* Everybody else rests, crashes or lives to see time pass.
LEMMA LoginRests ==
    ASSUME TypeInv, SeenInv, [Next]_vars, NEW q \in Procs
    PROVE  \/ Does(q)
           \/ /\ seen'[q] = seen[q] /\ who'[q] = who[q] /\ req'[q] = req[q]
              /\ pc'[q] = pc[q] \/ (pc[q] \in Running /\ pc'[q] = "lost")
  <1>1. ASSUME NEW p \in Procs, Does(p), p # q
        PROVE  seen'[q] = seen[q] /\ who'[q] = who[q] /\ req'[q] = req[q] /\ pc'[q] = pc[q]
    BY <1>1, OthersKeep DEF TypeInv, Untouched
  <1>2. CASE Crash
    BY <1>2 DEF Crash
  <1>3. CASE OtpExpires \/ LockoutEnds \/ UNCHANGED vars
    BY <1>3 DEF OtpExpires, LockoutEnds, vars
  <1> QED
    BY <1>1, <1>2, <1>3 DEF Next, Does, Terminated

LEMMA SeenStep ==
    ASSUME TypeInv, SeenInv, [Next]_vars
    PROVE  SeenInv'
  <1> SUFFICES ASSUME NEW q \in Procs
               PROVE  /\ seen'[q] # None => pc'[q] \in Seeing /\ who'[q] \in Known'
                      /\ pc'[q] = "wrong" => seen'[q].password # req'[q].password
                      /\ pc'[q] \in {"right", "unverified"} =>
                           seen'[q].password = req'[q].password
    BY DEF SeenInv
  <1>a. Known \subseteq Known'
    BY KnownStays
  <1>b. /\ seen[q] # None => pc[q] \in Seeing /\ who[q] \in Known
        /\ pc[q] = "wrong" => seen[q].password # req[q].password
        /\ pc[q] \in {"right", "unverified"} => seen[q].password = req[q].password
    BY DEF SeenInv
  <1>c. pc'[q] \in {"wrong", "right", "unverified"} => seen'[q] # None
    <2>1. TypeInv'
      BY TypeStep
    <2> QED
      BY <2>1, AuthAssumption DEF TypeInv, Shape
  <1>1. CASE seen[q] = None /\ seen'[q] = None
    BY <1>1, <1>c
  <1>2. CASE FindUser(q)
    BY <1>2, <1>a, RowRead DEF Seeing
  <1>3. CASE CountFailure(q) /\ who'[q] = who[q] /\ seen[q] # None
    <2>1. pc'[q] = "refused"
      BY <1>3 DEF CountFailure, Goto, TypeInv, TypeOK
    <2> QED
      BY <1>3, <1>a, <1>b, <2>1 DEF Seeing
  <1>4. CASE /\ seen[q] # None
             /\ seen'[q] = seen[q] /\ who'[q] = who[q] /\ req'[q] = req[q]
             /\ \/ pc[q] = "right" /\ pc'[q] \in {"issue", "unverified"}
                \/ pc[q] = "unverified" /\ pc'[q] = "refused"
                \/ pc'[q] \in {"loggedIn", "failed"}
    BY <1>4, <1>a, <1>b DEF Seeing
  <1>5. CASE /\ seen'[q] = seen[q] /\ who'[q] = who[q] /\ req'[q] = req[q]
             /\ pc'[q] = pc[q] \/ (pc[q] \in Running /\ pc'[q] = "lost")
    BY <1>5, <1>a, <1>b DEF Seeing
  <1> QED
    BY <1>1, <1>2, <1>3, <1>4, <1>5, LoginMoves, LoginRests

\* A row that was read stays, with the request and the account.
LEMMA SeenStays ==
    ASSUME TypeInv, SeenInv, [Next]_vars, NEW q \in Procs, seen[q] # None
    PROVE  seen'[q] = seen[q] /\ who'[q] = who[q] /\ req'[q] = req[q]
  <1>1. ~ FindUser(q)
    BY DEF FindUser, SeenInv, Seeing
  <1> QED
    BY <1>1, LoginMoves, LoginRests

\* Who has answered does nothing any more.
LEMMA AnsweredRests ==
    ASSUME NEW p \in Procs, pc[p] \in {"refused", "changed"}
    PROVE  ~ Does(p)
  <1>1. ~ Receipt(p)
    BY DEF Receipt, Receive, Register, VerifyOtp, ResendOtp, Login, RefreshToken,
           ForgotPassword, ResetPassword, ChangePassword, SetStatus
  <1>2. ~ Fail(p)
    BY DEF Fail, Running
  <1>3. ~ Step(p)
    <2>1. ~ (\/ CheckDuplicate(p) \/ ResolveReferrer(p) \/ CreateAccount(p)
             \/ DuplicateAccount(p) \/ SendWelcomeOtp(p) \/ CheckPhoneOtp(p)
             \/ ActivateUser(p) \/ SendPhoneOtp(p) \/ IssueTokens(p))
      BY DEF CheckDuplicate, ResolveReferrer, CreateAccount, DuplicateAccount,
             SendWelcomeOtp, CheckPhoneOtp, ActivateUser, SendPhoneOtp, IssueTokens
    <2>2. ~ (\/ FindUser(p) \/ LoginRefused(p) \/ CountFailure(p) \/ ResetFailures(p)
             \/ ReissueOtp(p) \/ FindToken(p) \/ TokenRefused(p) \/ CheckOwner(p)
             \/ RevokeToken(p))
      BY DEF FindUser, LoginRefused, CountFailure, ResetFailures, ReissueOtp,
             FindToken, TokenRefused, CheckOwner, RevokeToken
    <2>3. ~ (\/ SendResetOtp(p) \/ CheckResetOtp(p) \/ CheckPassword(p)
             \/ ReplacePassword(p) \/ RevokeAll(p) \/ UpdateUserStatus(p)
             \/ WriteAudit(p))
      BY DEF SendResetOtp, CheckResetOtp, CheckPassword, ReplacePassword, RevokeAll,
             UpdateUserStatus, WriteAudit
    <2>4. ~ StorePassword(p)
      <3>1. StorePassword(p) => pc[p] = "newPassword"
        BY Zenon DEF StorePassword
      <3> QED
        BY <3>1
    <2> QED
      BY <2>1, <2>2, <2>3, <2>4 DEF Step
  <1> QED
    BY <1>1, <1>2, <1>3 DEF Does

\* One more wrong password is counted, or none, and no other is forgotten.
LEMMA FailuresStep ==
    ASSUME TypeInv, SeenInv, [Next]_vars, NEW u
    PROVE  \/ Failures(u)' = Failures(u) /\ \A p \in Procs : CountFailure(p) => who[p] # u
           \/ \E p \in Procs \ Failures(u) :
                /\ CountFailure(p) /\ who[p] = u
                /\ Failures(u)' = Failures(u) \cup {p}
  <1> DEFINE Wrong(p) == /\ pc[p] = "refused" /\ seen[p] # None /\ who[p] = u
                         /\ seen[p].password # req[p].password
             WrongNow(p) == /\ pc'[p] = "refused" /\ seen'[p] # None /\ who'[p] = u
                            /\ seen'[p].password # req'[p].password
  <1>a. /\ Failures(u) = {p \in Procs : Wrong(p)}
        /\ Failures(u)' = {p \in Procs : WrongNow(p)}
    BY DEF Failures
  <1>1. ASSUME NEW p \in Procs, Wrong(p) PROVE WrongNow(p)
    <2>1. seen'[p] = seen[p] /\ who'[p] = who[p] /\ req'[p] = req[p]
      BY <1>1, SeenStays
    <2>2. pc'[p] = "refused"
      <3>1. ~ Does(p)
        BY <1>1, AnsweredRests
      <3> QED
        BY <1>1, <3>1, LoginRests DEF Running
    <2> QED
      BY <1>1, <2>1, <2>2
  <1>2. ASSUME NEW p \in Procs, WrongNow(p), ~ Wrong(p)
        PROVE  CountFailure(p) /\ who[p] = u
    <2>1. CASE FindUser(p)
      BY <1>2, <2>1, RowRead
    <2>2. CASE ~ Does(p)
      BY <1>2, <2>2, LoginRests
    <2>3. CASE Does(p) /\ ~ FindUser(p)
      <3>1. pc[p] \in {"right", "unverified"} => seen[p].password = req[p].password
        BY DEF SeenInv
      <3> QED
        BY <1>2, <2>3, <3>1, LoginMoves
    <2> QED
      BY <2>1, <2>2, <2>3
  <1>3. ASSUME NEW p \in Procs, CountFailure(p), who[p] = u
        PROVE  WrongNow(p) /\ ~ Wrong(p)
    <2>1. pc[p] = "wrong" /\ pc'[p] = "refused"
      BY <1>3 DEF CountFailure, Goto, TypeInv, TypeOK
    <2>2. seen[p] # None
      BY <2>1, AuthAssumption DEF TypeInv, Shape
    <2>3. seen[p].password # req[p].password
      BY <2>1 DEF SeenInv
    <2> QED
      BY <1>3, <2>1, <2>2, <2>3, SeenStays
  <1>4. \A p, q \in Procs : CountFailure(p) /\ CountFailure(q) => p = q
    <2> SUFFICES ASSUME NEW p \in Procs, NEW q \in Procs, p # q,
                        CountFailure(p), CountFailure(q)
                 PROVE  FALSE
      OBVIOUS
    <2>1. pc'[q] = "refused" /\ pc[q] = "wrong"
      BY DEF CountFailure, Goto, TypeInv, TypeOK
    <2>2. pc'[q] = pc[q]
      BY DEF CountFailure, Goto, TypeInv, TypeOK
    <2> QED
      BY <2>1, <2>2
  <1> HIDE DEF Wrong, WrongNow
  <1>5. CASE \E p \in Procs : CountFailure(p) /\ who[p] = u
    BY <1>5, <1>a, <1>1, <1>2, <1>3, <1>4
  <1>6. CASE \A p \in Procs : CountFailure(p) => who[p] # u
    BY <1>6, <1>a, <1>1, <1>2
  <1> QED
    BY <1>5, <1>6

\* A login that is about to count has read the count when it came.
LEMMA WrongStep ==
    ASSUME TypeInv, SeenInv, [Next]_vars, NEW p \in Procs, pc'[p] = "wrong"
    PROVE  \/ pc[p] = "wrong" /\ seen'[p] = seen[p] /\ who'[p] = who[p]
           \/ seen'[p] = account[who'[p]]
  <1>1. CASE Does(p) /\ seen[p] = None /\ seen'[p] = None
    <2>1. TypeInv'
      BY TypeStep
    <2> QED
      BY <1>1, <2>1, AuthAssumption DEF TypeInv, Shape
  <1>2. CASE FindUser(p)
    BY <1>2, RowRead
  <1>3. CASE CountFailure(p)
    BY <1>3 DEF CountFailure, Goto, TypeInv, TypeOK
  <1>4. CASE ~ Does(p)
    BY <1>4, LoginRests
  <1> QED
    BY <1>1, <1>2, <1>3, <1>4, LoginMoves

\* A phone number stays with its account.
LEMMA PhoneStays ==
    ASSUME TypeInv, VerifiedInv, [Next]_vars, NEW u \in Known
    PROVE  account'[u].phone = account[u].phone
  BY RowStep, RowsKept DEF VerifiedInv, Kept

\* A count is one more than the one that was read, or it starts again.
LEMMA CountStep ==
    ASSUME TypeInv, VerifiedInv, [Next]_vars, NEW u \in Known
    PROVE  \/ account'[u].attempts = account[u].attempts
           \/ \E p \in Procs :
                /\ CountFailure(p) /\ who[p] = u
                /\ account'[u].attempts = seen[p].attempts + 1
           \/ /\ account'[u].attempts = 0
              /\ \E p \in Procs : \/ ResetFailures(p) /\ who[p] = u
                                  \/ StorePassword(p) /\ req[p].phone = account[u].phone
  <1>a. account \in [Accounts -> User \cup {None}] /\ u \in Accounts /\ account[u] \in User
    BY DEF TypeInv, TypeOK, Known
  <1>b. \A p \in Procs : pc[p] \in {"wrong", "right"} => who[p] \in Accounts
    BY DEF TypeInv, Shape, Known
  <1>1. ASSUME NEW p \in Procs, CreateAccount(p)
        PROVE  account'[u] = account[u]
    <2>1. p # u
      BY <1>1 DEF CreateAccount, VerifiedInv, Cleared
    <2>2. account' = [account EXCEPT ![p] = NewUser(req[p], who[p])]
      BY <1>1, AccountCreated
    <2> QED
      BY <1>a, <2>1, <2>2
  <1>2. ASSUME NEW p \in Procs, CountFailure(p)
        PROVE  account'[u] = account[u] \/
               (who[p] = u /\ account'[u].attempts = seen[p].attempts + 1)
    BY <1>2, <1>a, <1>b DEF CountFailure, User
  <1>3. ASSUME NEW p \in Procs, ResetFailures(p)
        PROVE  account'[u] = account[u] \/ (who[p] = u /\ account'[u].attempts = 0)
    BY <1>3, <1>a, <1>b DEF ResetFailures, User
  <1>4. ASSUME NEW p \in Procs, StorePassword(p)
        PROVE  account'[u] = account[u] \/
               (req[p].phone = account[u].phone /\ account'[u].attempts = 0)
    <2>1. PICK v \in Holders(req[p].phone) : account' =
            [account EXCEPT ![v].password = req[p].password,
                            ![v].attempts = 0, ![v].lockout = "none"]
      BY <1>4, Zenon DEF StorePassword
    <2> DEFINE row == [account[v] EXCEPT !.password = req[p].password,
                                         !.attempts = 0, !.lockout = "none"]
    <2>2. account' = [account EXCEPT ![v] = row]
      BY <2>1
    <2>3. v \in Accounts /\ account[v] \in User /\ account[v].phone = req[p].phone
      BY <1>a, AuthAssumption DEF Holders, Known, TypeInv, TypeOK
    <2>4. row.attempts = 0
      BY <2>3 DEF User
    <2> HIDE DEF row
    <2> QED
      BY <1>a, <2>2, <2>3, <2>4
  <1>5. ASSUME NEW p \in Procs, ActivateUser(p)
        PROVE  account'[u].attempts = account[u].attempts
    <2>1. PICK v \in Known : account' =
            [account EXCEPT ![v].verified = TRUE, ![v].status = "ACTIVE"]
      BY <1>5 DEF ActivateUser, Holders
    <2> QED
      BY <2>1, <1>a DEF Known, User
  <1>6. ASSUME NEW p \in Procs, ReplacePassword(p) \/ UpdateUserStatus(p)
        PROVE  account'[u].attempts = account[u].attempts
    BY <1>6, <1>a DEF ReplacePassword, UpdateUserStatus, User
  <1>7. CASE LockoutEnds
    BY <1>7, <1>a DEF LockoutEnds, Known, User
  <1>8. CASE OtpExpires \/ Crash \/ UNCHANGED vars
    BY <1>8 DEF OtpExpires, Crash, vars
  <1> QED
    BY <1>1, <1>2, <1>3, <1>4, <1>5, <1>6, <1>7, <1>8, AccountWriters
       DEF Next, Does, Terminated

\* Who has been pardoned stays so.
LEMMA PardonStays ==
    ASSUME TypeInv, SeenInv, VerifiedInv, [Next]_vars, NEW u \in Known, Pardoned(u)
    PROVE  Pardoned(u)'
  <1>1. PICK p \in Procs :
          \/ seen[p] # None /\ who[p] = u /\ seen[p].password = req[p].password
          \/ /\ pc[p] = "changed" /\ req[p] \in ResetRequest
             /\ req[p].phone = account[u].phone
    BY DEF Pardoned
  <1>2. CASE seen[p] # None /\ who[p] = u /\ seen[p].password = req[p].password
    BY <1>2, SeenStays DEF Pardoned
  <1>3. CASE /\ pc[p] = "changed" /\ req[p] \in ResetRequest
             /\ req[p].phone = account[u].phone
    <2>1. pc'[p] = pc[p] /\ req'[p] = req[p]
      BY <1>3, AnsweredRests, LoginRests DEF Running
    <2>2. account'[u].phone = account[u].phone
      BY PhoneStays
    <2> QED
      BY <1>3, <2>1, <2>2 DEF Pardoned
  <1> QED
    BY <1>1, <1>2, <1>3

\* A count that starts again has been pardoned.
LEMMA ResetIsPardon ==
    ASSUME TypeInv, SeenInv, VerifiedInv, [Next]_vars, NEW u \in Known, NEW p \in Procs,
           \/ ResetFailures(p) /\ who[p] = u
           \/ StorePassword(p) /\ req[p].phone = account[u].phone
    PROVE  Pardoned(u)'
  <1>1. CASE ResetFailures(p) /\ who[p] = u
    <2>1. /\ pc[p] = "right" /\ seen[p].password = req[p].password /\ seen[p] # None
      BY <1>1, AuthAssumption DEF ResetFailures, SeenInv, TypeInv, Shape
    <2>2. Pardoned(u)
      BY <1>1, <2>1 DEF Pardoned
    <2> QED
      BY <2>2, PardonStays
  <1>2. CASE StorePassword(p) /\ req[p].phone = account[u].phone
    <2>1. pc'[p] = "changed" /\ req'[p] = req[p] /\ req[p] \in ResetRequest
      <3>1. pc[p] = "newPassword" /\ Goto(p, "changed") /\ UNCHANGED req
        BY <1>2, Zenon DEF StorePassword
      <3> QED
        BY <3>1 DEF Goto, TypeInv, TypeOK, Shape
    <2>2. account'[u].phone = account[u].phone
      BY PhoneStays
    <2> QED
      BY <1>2, <2>1, <2>2 DEF Pardoned
  <1> QED
    BY <1>1, <1>2

\* The counts that were read, by those who failed.
Read(u) == {seen[q].attempts : q \in Failures(u)}

\* A count, and one that is about to be written, is backed by wrong passwords.
\* Where they have failed in turn, each has read how many there were before.
Backed(u) ==
    /\ Locked(account[u])
    /\ IsFiniteSet(Failures(u))
    /\ account[u].attempts <= Cardinality(Failures(u))
    /\ \A p \in Procs : pc[p] = "wrong" /\ who[p] = u =>
         seen[p].attempts <= Cardinality(Failures(u))
    /\ ~ Pardoned(u) /\ FailedInTurn(u) =>
         /\ account[u].attempts = Cardinality(Failures(u))
         /\ Read(u) = 0 .. (Cardinality(Failures(u)) - 1)

LockoutInv == SeenInv /\ \A u \in Known : Backed(u)

\* Of the failures before, and the one that is counted now.
LEMMA OneMore ==
    ASSUME TypeInv, LockoutInv, [Next]_vars, NEW u \in Known,
           NEW p \in Procs \ Failures(u), CountFailure(p), who[p] = u,
           Failures(u)' = Failures(u) \cup {p}, ~ Pardoned(u)', FailedInTurn(u)',
           VerifiedInv
    PROVE  /\ seen[p].attempts = Cardinality(Failures(u))
           /\ Read(u)' = 0 .. Cardinality(Failures(u))
  <1> DEFINE F == Failures(u)
             n == Cardinality(F)
             k == seen[p].attempts
  <1>a. SeenInv /\ Backed(u)
    BY DEF LockoutInv
  <1>b. /\ \A q \in F : seen'[q] = seen[q] /\ seen'[q] # None
        /\ seen'[p] = seen[p] /\ pc[p] = "wrong"
    BY <1>a DEF CountFailure, Failures, SeenInv
  <1>1. ~ Pardoned(u)
    BY <1>a, PardonStays
  <1>2. /\ \A q, r \in F : q # r => seen[q].attempts # seen[r].attempts
        /\ \A q \in F : seen[q].attempts # k
    BY <1>b DEF FailedInTurn
  <1>3. n \in Nat /\ k \in Nat /\ k <= n
    <2>1. n \in Nat
      BY <1>a, FS_CardinalityType DEF Backed
    <2>2. k \in Nat
      BY <1>b DEF TypeInv, Shape, User
    <2> QED
      BY <1>a, <1>b, <2>1, <2>2 DEF Backed
  <1>4. {seen[q].attempts : q \in F} = 0 .. (n - 1)
    BY <1>a, <1>1, <1>2 DEF Backed, FailedInTurn, Read
  <1>5. Read(u)' = {seen[q].attempts : q \in F} \cup {k}
    BY <1>b DEF Read
  <1> HIDE DEF F, n, k
  <1>6. k \notin 0 .. (n - 1)
    BY <1>2, <1>4
  <1>7. k = n
    BY <1>3, <1>6
  <1>8. 0 .. (n - 1) \cup {n} = 0 .. n
    BY <1>3
  <1> QED
    BY <1>4, <1>5, <1>7, <1>8 DEF F, n, k

LEMMA CountedNow ==
    ASSUME TypeInv, NEW p \in Procs, CountFailure(p)
    PROVE  account'[who[p]].attempts = seen[p].attempts + 1
  <1>1. who[p] \in Known /\ account[who[p]] \in User
    BY DEF CountFailure, TypeInv, TypeOK, Shape, Known
  <1> QED
    BY <1>1 DEF CountFailure, User, TypeInv, TypeOK, Known

LEMMA BackedStep ==
    ASSUME TypeInv, VerifiedInv, LockoutInv, [Next]_vars, NEW u \in Known
    PROVE  Backed(u)'
  <1> DEFINE F == Failures(u)
             n == Cardinality(F)
             a == account[u].attempts
  <1>a. SeenInv /\ Backed(u)
    BY DEF LockoutInv
  <1>b. u \in Known' /\ Locked(account'[u])
    BY KnownStays, LockedStep DEF LockoutInv, Backed
  <1>c. n \in Nat /\ a \in Nat /\ IsFiniteSet(F)
    BY <1>a, FS_CardinalityType DEF Backed, Known, TypeInv, TypeOK, User
  <1>1. CASE F' = F /\ \A p \in Procs : CountFailure(p) => who[p] # u
    <2>1. a' = a \/ (a' = 0 /\ Pardoned(u)')
      BY <1>1, <1>a, CountStep, ResetIsPardon
    <2>2. a' <= n'
      BY <1>1, <1>a, <1>c, <2>1 DEF Backed
    <2>3. ASSUME NEW p \in Procs, pc'[p] = "wrong", who'[p] = u
          PROVE  seen'[p].attempts <= n'
      BY <1>1, <1>a, <2>3, WrongStep DEF Backed
    <2>4. ASSUME ~ Pardoned(u)', FailedInTurn(u)'
          PROVE  a' = n' /\ Read(u)' = 0 .. (n' - 1)
      <3>1. \A q \in F : seen'[q] = seen[q]
        BY <1>a, SeenStays DEF Failures
      <3>2. Read(u)' = Read(u) /\ FailedInTurn(u)
        BY <1>1, <2>4, <3>1 DEF Read, FailedInTurn
      <3>3. ~ Pardoned(u)
        BY <1>a, <2>4, PardonStays
      <3> QED
        BY <1>1, <1>a, <2>1, <2>4, <3>2, <3>3 DEF Backed
    <2> QED
      BY <1>1, <1>b, <1>c, <2>2, <2>3, <2>4 DEF Backed
  <1>2. ASSUME NEW p \in Procs \ F, CountFailure(p), who[p] = u, F' = F \cup {p}
        PROVE  Backed(u)'
    <2>1. IsFiniteSet(F') /\ n' = n + 1
      BY <1>2, <1>c, FS_AddElement
    <2>2. pc[p] = "wrong" /\ seen[p].attempts \in Nat /\ seen[p].attempts <= n
      BY <1>2, <1>a DEF CountFailure, Backed, TypeInv, Shape, User
    <2>3. a' = seen[p].attempts + 1
      BY <1>2, <1>a, CountedNow
    <2>4. a' <= n'
      BY <1>c, <2>1, <2>2, <2>3
    <2>5. ASSUME NEW q \in Procs, pc'[q] = "wrong", who'[q] = u
          PROVE  seen'[q].attempts <= n'
      <3>1. seen'[q].attempts <= n \/ seen'[q] = account[u]
        BY <1>a, <2>5, WrongStep DEF Backed
      <3>2. account[u].attempts <= n
        BY <1>a DEF Backed
      <3>3. seen'[q].attempts \in Nat
        <4>1. TypeInv'
          BY TypeStep
        <4> QED
          BY <2>5, <4>1 DEF TypeInv, Shape, User
      <3>4. seen'[q].attempts <= n
        BY <3>1, <3>2
      <3> HIDE DEF n
      <3> QED
        BY <1>c, <2>1, <3>3, <3>4
    <2>6. ASSUME ~ Pardoned(u)', FailedInTurn(u)'
          PROVE  a' = n' /\ Read(u)' = 0 .. (n' - 1)
      <3>1. seen[p].attempts = n /\ Read(u)' = 0 .. n
        BY <1>2, <2>6, OneMore
      <3>2. n' - 1 = n
        BY <1>c, <2>1
      <3> QED
        BY <2>1, <2>3, <3>1, <3>2
    <2> QED
      BY <1>b, <2>1, <2>4, <2>5, <2>6 DEF Backed
  <1> QED
    BY <1>1, <1>2, <1>a, FailuresStep

\* Nobody has tried the password of a new account yet.
LEMMA NewIsBacked ==
    ASSUME TypeInv, VerifiedInv, LockoutInv, [Next]_vars, NEW u \in Known', u \notin Known
    PROVE  Backed(u)'
  <1>a. SeenInv /\ None \notin User
    BY AuthAssumption DEF LockoutInv
  <1>b. \A p \in Procs : pc[p] = "wrong" => who[p] \in Known
    BY DEF TypeInv, Shape
  <1>1. PICK p \in Procs : CreateAccount(p)
    <2>1. UNCHANGED account => Known' = Known
      BY DEF Known
    <2>2. ASSUME NEW v \in Known, Updated(v) PROVE Known' = Known
      BY <1>a, <2>2 DEF Updated, Succeeds, Known, TypeInv, TypeOK
    <2> QED
      BY <2>1, <2>2, RowStep
  <1>2. /\ account' = [account EXCEPT ![p] = NewUser(req[p], who[p])]
        /\ UNCHANGED <<who, seen, req>> /\ pc' = [pc EXCEPT ![p] = "welcome"]
    BY <1>1 DEF CreateAccount, Goto
  <1>3. account'[u] = NewUser(req[p], who[p])
    BY <1>2 DEF Known, TypeInv, TypeOK
  <1>4. account'[u].attempts = 0 /\ account'[u].lockout = "none"
    BY <1>3 DEF NewUser
  <1>5. \A q \in Procs : pc'[q] \in {"refused", "wrong"} => pc'[q] = pc[q]
    BY <1>2 DEF TypeInv, TypeOK
  <1>6. Failures(u)' = {}
    BY <1>a, <1>2, <1>5 DEF Failures, SeenInv
  <1>7. \A q \in Procs : ~ (pc'[q] = "wrong" /\ who'[q] = u)
    BY <1>b, <1>2, <1>5
  <1>8. IsFiniteSet({}) /\ Cardinality({}) = 0
    BY FS_EmptySet
  <1>9. Read(u)' = {}
    BY <1>6 DEF Read
  <1>10. Locked(account[u])'
    BY <1>4, AuthAssumption DEF Locked
  <1>11. 0 .. (0 - 1) = {}
    OBVIOUS
  <1> QED
    BY <1>4, <1>6, <1>7, <1>8, <1>9, <1>10, <1>11 DEF Backed

LEMMA LockoutStep ==
    ASSUME TypeInv, VerifiedInv, LockoutInv, [Next]_vars
    PROVE  LockoutInv'
  <1>1. SeenInv'
    BY SeenStep DEF LockoutInv
  <1> QED
    BY <1>1, BackedStep, NewIsBacked DEF LockoutInv

LEMMA LockoutInit == Init => LockoutInv
  <1> SUFFICES ASSUME Init PROVE LockoutInv
    OBVIOUS
  <1>1. SeenInv
    BY DEF Init, SeenInv
  <1>2. ASSUME NEW u \in Known PROVE Backed(u)
    <2>1. account[u].attempts = 0 /\ account[u].lockout = "none"
      BY DEF Init, SeedUser, Known
    <2>2. Failures(u) = {} /\ Read(u) = {}
      BY DEF Init, Failures, Read
    <2>3. IsFiniteSet({}) /\ Cardinality({}) = 0
      BY FS_EmptySet
    <2>4. Locked(account[u])
      BY <2>1, AuthAssumption DEF Locked
    <2>5. 0 .. (0 - 1) = {}
      OBVIOUS
    <2>6. \A p \in Procs : pc[p] # "wrong"
      BY DEF Init
    <2> QED
      BY <2>1, <2>2, <2>3, <2>4, <2>5, <2>6 DEF Backed
  <1> QED
    BY <1>1, <1>2 DEF LockoutInv

LEMMA LockoutInvariant == Spec => [](TypeInv /\ LockoutInv)
  <1>1. Init => VerifiedInv
    BY AuthAssumption DEF Init, VerifiedInv, Cleared, Known, SeedUser
  <1> QED
    BY <1>1, LockoutInit, LockoutStep, VerifiedStep, TypeInvariant, PTL DEF Spec

\* A count never exceeds the wrong passwords there were, and a lockout takes as
\* many as the limit, for every limit and any number of racing logins, resets
\* and status changes (login, resetPassword).
THEOREM LockoutsAreEarned == Spec => []LockoutIsEarned
  <1>1. ASSUME TypeInv, LockoutInv, NEW u \in Known
        PROVE  /\ account[u].attempts <= Cardinality(Failures(u))
               /\ account[u].lockout # "none" =>
                    Cardinality(Failures(u)) >= LoginAttempts
    <2>1. Backed(u)
      BY <1>1 DEF LockoutInv
    <2>2. account[u].attempts \in Nat /\ Cardinality(Failures(u)) \in Nat
      BY <1>1, <2>1, FS_CardinalityType DEF Backed, Known, TypeInv, TypeOK, User
    <2> QED
      BY <2>1, <2>2, AuthAssumption DEF Backed, Locked
  <1>2. TypeInv /\ LockoutInv => LockoutIsEarned
    BY <1>1 DEF LockoutIsEarned
  <1> QED
    BY <1>2, LockoutInvariant, PTL

\* Where no two logins have read the same count, and nobody knew the password
\* or set a new one, every wrong password has been counted, and the account is
\* locked out exactly when they have reached the limit (login).
THEOREM FailuresCounted == Spec => []FailuresAreCounted
  <1>1. LockoutInv => FailuresAreCounted
    BY DEF LockoutInv, Backed, Locked, FailuresAreCounted
  <1> QED
    BY <1>1, LockoutInvariant, PTL

-------------------------------------------------------------------------------
(* A session is exchanged once, where its refreshes do not overlap *)

\* Two sessions never come from one refresh, or from one row: what was
\* exchanged is gone (refreshToken).
ExchangedOnce ==
    \A i, j \in DOMAIN tokens :
        stored[tokens[i].by] # 0 /\ stored[tokens[i].by] = stored[tokens[j].by] => i = j

\* No two refreshes are between the row they found and its revocation at once.
\* The code does not see to it: two requests of one client may be.
OneRefreshAtATime ==
    \A p, q \in Procs :
        /\ pc[p] \in {"owner", "rotate"} /\ pc[q] \in {"owner", "rotate"}
        /\ stored[p] = stored[q]
        => p = q

Exchanging == {"owner", "rotate", "issue", "loggedIn"}
Exchanged == {"issue", "loggedIn"}

\* The row a handler has exchanged is revoked, and no other handler has it.
ExchangedInv ==
    /\ \A p \in Procs : pc[p] \in Exchanged /\ stored[p] # 0 => tokens[stored[p]].revoked
    /\ \A p, q \in Procs :
         p # q /\ pc[p] \in Exchanging /\ pc[q] \in Exchanged /\ stored[p] # 0 =>
           stored[p] # stored[q]
    /\ \A i, j \in DOMAIN tokens : tokens[i].by = tokens[j].by => i = j

\* How a handler that has found a row comes to hold it.
LEMMA ExchangeHandled ==
    ASSUME TypeInv, ExchangeInv, NEW p \in Procs, Does(p),
           pc'[p] \in Exchanging, stored'[p] # 0
    PROVE  \/ pc'[p] = "owner" /\ FindToken(p)
           \/ /\ stored'[p] = stored[p]
              /\ \/ pc[p] = "owner" /\ pc'[p] = "rotate"
                 \/ pc[p] = "rotate" /\ pc'[p] = "issue"
                 \/ pc[p] = "issue" /\ pc'[p] = "loggedIn"
  <1> USE DEF Goto, Exchanging
  <1>a. /\ pc \in [Procs -> {"idle"} \cup Running \cup Ended]
        /\ stored \in [Procs -> 0 .. Len(tokens)]
    BY DEF TypeInv, TypeOK
  <1>b. stored[p] # 0 =>
          pc[p] \in {"owner", "rotate", "issue", "loggedIn", "refused", "failed", "lost"}
    BY DEF ExchangeInv
  <1>1. CASE Receipt(p)
    BY <1>a, <1>b, <1>1 DEF Receipt, Receive, Register, VerifyOtp, ResendOtp, Login,
           RefreshToken, ForgotPassword, ResetPassword, ChangePassword, SetStatus
  <1>2. CASE Fail(p)
    BY <1>a, <1>b, <1>2 DEF Fail, Running
  <1>3. CASE CheckPhoneOtp(p) \/ CheckResetOtp(p)
    BY <1>a, <1>b, <1>3 DEF CheckPhoneOtp, CheckResetOtp, Check
  <1>4. CASE \/ CheckDuplicate(p) \/ ResolveReferrer(p) \/ CreateAccount(p)
             \/ DuplicateAccount(p) \/ SendWelcomeOtp(p) \/ ActivateUser(p)
             \/ SendPhoneOtp(p) \/ IssueTokens(p) \/ FindUser(p) \/ LoginRefused(p)
    BY <1>a, <1>b, <1>4 DEF CheckDuplicate, ResolveReferrer, CreateAccount,
           DuplicateAccount, SendWelcomeOtp, ActivateUser, SendPhoneOtp, IssueTokens,
           FindUser, LoginRefused
  <1>5. CASE FindToken(p)
    BY <1>a, <1>5 DEF FindToken
  <1>6. CASE \/ CountFailure(p) \/ ResetFailures(p) \/ ReissueOtp(p)
             \/ TokenRefused(p) \/ CheckOwner(p) \/ RevokeToken(p) \/ SendResetOtp(p)
    BY <1>a, <1>b, <1>6 DEF CountFailure, ResetFailures, ReissueOtp,
           TokenRefused, CheckOwner, RevokeToken, SendResetOtp
  <1>7. CASE \/ StorePassword(p) \/ CheckPassword(p) \/ ReplacePassword(p)
             \/ RevokeAll(p) \/ UpdateUserStatus(p) \/ WriteAudit(p)
    BY <1>a, <1>b, <1>7 DEF StorePassword, CheckPassword, ReplacePassword, RevokeAll,
           UpdateUserStatus, WriteAudit
  <1> QED
    BY <1>1, <1>2, <1>3, <1>4, <1>5, <1>6, <1>7 DEF Does, Step

\* The row a refresh finds is not one that has been exchanged.
LEMMA ExchangedStep ==
    TypeInv /\ ExchangeInv /\ ExchangeInv' /\ ExchangedInv /\ OneRefreshAtATime
      /\ [Next]_vars => ExchangedInv'
  <1> SUFFICES ASSUME TypeInv, ExchangeInv, ExchangeInv', ExchangedInv, OneRefreshAtATime,
                      [Next]_vars
               PROVE  ExchangedInv'
    OBVIOUS
  <1>a. /\ tokens \in Seq(Token) /\ Len(tokens) \in Nat
        /\ DOMAIN tokens = 1 .. Len(tokens)
        /\ \A q \in Procs : stored[q] \in 0 .. Len(tokens)
        /\ pc \in [Procs -> {"idle"} \cup Running \cup Ended]
    BY DEF TypeInv, TypeOK
  <1>b. \A q \in Procs : stored[q] # 0 => stored[q] \in DOMAIN tokens
    BY <1>a
  <1>1. ASSUME NEW p \in Procs, Does(p) PROVE ExchangedInv'
    <2>1. /\ tokens' \in Seq(Token)
          /\ DOMAIN tokens \subseteq DOMAIN tokens'
          /\ \A i \in DOMAIN tokens : /\ tokens'[i].user = tokens[i].user
                                      /\ tokens'[i].by = tokens[i].by
                                      /\ tokens[i].revoked => tokens'[i].revoked
          /\ \/ Len(tokens') = Len(tokens)
             \/ /\ IssueTokens(p)
                /\ Len(tokens') = Len(tokens) + 1
                /\ tokens'[Len(tokens')].user = who[p]
                /\ tokens'[Len(tokens')].by = p
      BY <1>1, TokensStep
    <2>2. \A q \in Procs : q # p => pc'[q] = pc[q] /\ stored'[q] = stored[q]
      BY <1>1, OthersKeep DEF Untouched, TypeInv
    <2>3. pc'[p] \in Exchanging /\ stored'[p] # 0 =>
            \/ pc'[p] = "owner" /\ FindToken(p)
            \/ /\ stored'[p] = stored[p]
               /\ \/ pc[p] = "owner" /\ pc'[p] = "rotate"
                  \/ pc[p] = "rotate" /\ pc'[p] = "issue"
                  \/ pc[p] = "issue" /\ pc'[p] = "loggedIn"
      BY <1>1, ExchangeHandled
    <2>4. ASSUME NEW q \in Procs, pc'[q] \in Exchanged, stored'[q] # 0
          PROVE  tokens'[stored'[q]].revoked
      <3>1. CASE pc'[q] = "issue"
        BY <2>4, <3>1 DEF ExchangeInv
      <3>2. CASE pc'[q] = "loggedIn"
        <4>1. stored'[q] = stored[q] /\ pc[q] \in Exchanged
          BY <2>2, <2>3, <2>4, <3>2 DEF Exchanged, Exchanging
        <4>2. stored[q] \in DOMAIN tokens /\ tokens[stored[q]].revoked
          BY <1>b, <2>4, <4>1 DEF ExchangedInv
        <4> QED
          BY <2>1, <4>1, <4>2
      <3> QED
        BY <2>4, <3>1, <3>2 DEF Exchanged
    <2>5. FindToken(p) => stored'[p] \in DOMAIN tokens /\ ~ tokens[stored'[p]].revoked
      <3> SUFFICES ASSUME FindToken(p)
                   PROVE  stored'[p] \in DOMAIN tokens /\ ~ tokens[stored'[p]].revoked
        OBVIOUS
      <3>1. stored \in [Procs -> 0 .. Len(tokens)]
        BY DEF TypeInv, TypeOK
      <3> QED
        BY <3>1 DEF FindToken, Accepted, Live
    <2>6. ASSUME NEW q \in Procs, NEW r \in Procs, q # r, pc'[q] \in Exchanging,
                 pc'[r] \in Exchanged, stored'[q] # 0, stored'[q] = stored'[r]
          PROVE  FALSE
      <3>1. CASE q # p /\ r # p
        BY <2>2, <2>6, <3>1 DEF ExchangedInv
      <3>2. CASE q = p /\ r # p
        <4>1. pc[r] \in Exchanged /\ stored[r] # 0 /\ stored'[r] = stored[r]
          BY <2>2, <2>6, <3>2
        <4>2. ~ FindToken(p)
          BY <2>5, <2>6, <3>2, <4>1 DEF ExchangedInv
        <4>3. pc[p] \in Exchanging /\ stored'[p] = stored[p]
          BY <2>3, <2>6, <3>2, <4>2 DEF Exchanging
        <4> QED
          BY <2>6, <3>2, <4>1, <4>3 DEF ExchangedInv
      <3>3. CASE q # p /\ r = p
        <4>1. pc[q] \in Exchanging /\ stored[q] # 0 /\ stored'[q] = stored[q]
          BY <2>2, <2>6, <3>3
        <4>2. /\ stored'[p] = stored[p]
              /\ pc[p] \in {"rotate", "issue"}
          BY <2>3, <2>6, <3>3 DEF Exchanging, Exchanged
        <4>3. pc[p] # "rotate" \/ pc[q] \in Exchanged
          BY <2>6, <3>3, <4>1, <4>2 DEF OneRefreshAtATime, Exchanging, Exchanged
        <4>4. \/ pc[p] \in Exchanged
              \/ pc[p] \in Exchanging /\ pc[q] \in Exchanged
          BY <4>2, <4>3 DEF Exchanging, Exchanged
        <4> QED
          BY <2>6, <3>3, <4>1, <4>2, <4>4 DEF ExchangedInv
      <3> QED
        BY <2>6, <3>1, <3>2, <3>3
    <2>7. ASSUME NEW i \in DOMAIN tokens', NEW j \in DOMAIN tokens',
                 tokens'[i].by = tokens'[j].by
          PROVE  i = j
      <3>1. CASE Len(tokens') = Len(tokens)
        <4>1. DOMAIN tokens' = DOMAIN tokens
          BY <1>a, <2>1, <3>1
        <4> QED
          BY <2>1, <2>7, <4>1 DEF ExchangedInv
      <3>2. CASE Len(tokens') # Len(tokens)
        <4>1. pc[p] = "issue"
          BY <2>1, <3>2 DEF IssueTokens
        <4>2. \A k \in DOMAIN tokens : tokens[k].by # p
          BY <4>1 DEF ExchangeInv
        <4>3. \A k \in DOMAIN tokens' : k \in DOMAIN tokens \/ k = Len(tokens')
          BY <1>a, <2>1, <3>2
        <4> QED
          BY <2>1, <2>7, <3>2, <4>2, <4>3 DEF ExchangedInv
      <3> QED
        BY <3>1, <3>2
    <2> QED
      BY <2>4, <2>6, <2>7 DEF ExchangedInv
  <1>2. CASE OtpExpires \/ LockoutEnds \/ UNCHANGED vars
    BY <1>2 DEF OtpExpires, LockoutEnds, vars, ExchangedInv
  <1>3. CASE Crash
    <2>1. \A q \in Procs : pc'[q] = IF pc[q] \in Running THEN "lost" ELSE pc[q]
      BY <1>3 DEF Crash
    <2>2. UNCHANGED <<tokens, stored>>
      BY <1>3 DEF Crash
    <2>3. \A q \in Procs : /\ pc'[q] \in Exchanged => pc[q] \in Exchanged
                           /\ pc'[q] \in Exchanging => pc[q] \in Exchanging
      BY <2>1 DEF Exchanged, Exchanging
    <2> QED
      BY <2>2, <2>3 DEF ExchangedInv
  <1> QED
    BY <1>1, <1>2, <1>3 DEF Next, Does, Terminated

\* One session is not turned into two: a row is exchanged by one refresh unless
\* two of them compared it before either had revoked it (refreshToken reads
\* the row, and then the account, before its update by id).
THEOREM ExchangedOnceUnlessTwice == Spec /\ []OneRefreshAtATime => []ExchangedOnce
  <1>1. Init => ExchangeInv /\ ExchangedInv
    BY DEF Init, ExchangeInv, ExchangedIsRevoked, ExchangedInv, Exchanging, Exchanged
  <1>2. TypeInv /\ ExchangeInv /\ ExchangedInv => ExchangedOnce
    <2> SUFFICES ASSUME TypeInv, ExchangeInv, ExchangedInv,
                        NEW i \in DOMAIN tokens, NEW j \in DOMAIN tokens,
                        stored[tokens[i].by] # 0,
                        stored[tokens[i].by] = stored[tokens[j].by]
                 PROVE  i = j
      BY DEF ExchangedOnce
    <2>1. tokens \in Seq(Token)
      BY DEF TypeInv, TypeOK
    <2>2. tokens[i] \in Token /\ tokens[j] \in Token
      BY <2>1
    <2>3. tokens[i].by \in Procs /\ tokens[j].by \in Procs
      BY <2>2 DEF Token
    <2>4. pc[tokens[i].by] = "loggedIn" /\ pc[tokens[j].by] = "loggedIn"
      BY DEF ExchangeInv
    <2> QED
      BY <2>3, <2>4 DEF ExchangedInv, Exchanging, Exchanged
  <1> QED
    BY <1>1, <1>2, ExchangeStep, ExchangedStep, TypeInvariant, PTL DEF Spec
===============================================================================
