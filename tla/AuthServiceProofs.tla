-------------------------- MODULE AuthServiceProofs --------------------------
(***************************************************************************)
(* What holds of accounts, codes and sessions for every number of handlers,*)
(* codes and attempts.  Each property is carried by a few facts about      *)
(* where a handler stands and what it has found there; TypeInv says those  *)
(* of the types, and the part before each theorem the others.              *)
(***************************************************************************)
EXTENDS AuthService, FiniteSetTheorems, TLAPS

-------------------------------------------------------------------------------
(* Types *)

\* What a handler was asked for, and has found, at each place.
Shape(p) ==
    /\ pc[p] \in {"register", "resolve", "create", "welcome", "conflict"} =>
         req[p] \in RegisterRequest
    /\ pc[p] \in {"resend", "forgot"} => req[p] \in PhoneRequest
    /\ pc[p] \in {"verify", "activate"} => req[p] \in CodeRequest
    /\ pc[p] = "login" => req[p] \in LoginRequest
    /\ pc[p] \in {"reset", "newPassword"} => req[p] \in ResetRequest
    /\ pc[p] = "refresh" => req[p] \in RefreshRequest
    /\ pc[p] \in {"change", "replace", "revokeAll"} => req[p] \in ChangeRequest
    /\ pc[p] = "setStatus" => req[p] \in StatusRequest
    /\ pc[p] \in {"change", "replace", "setStatus"} => req[p].user \in Known
    /\ pc[p] = "refresh" => req[p].user \in Known
    /\ pc[p] \in {"wrong", "right", "issue", "owner", "rotate"} => who[p] \in Known
    /\ pc[p] \in {"wrong", "right", "unverified"} => seen[p] \in User

TypeInv ==
    /\ TypeOK
    /\ \A p \in Procs : Shape(p)
    /\ \A i \in DOMAIN tokens : tokens[i].user \in Known

\* Before its first step a handler has asked nothing and found nothing.
LEMMA TypeInit == Init => TypeInv
  <1> SUFFICES ASSUME Init PROVE TypeInv
    OBVIOUS
  <1>1. SeedUser \in User
    BY AuthAssumption DEF SeedUser, User, UserStatus
  <1>2. account \in [Accounts -> User \cup {None}]
    BY <1>1 DEF Init
  <1>3. tokens \in Seq(Token) /\ Len(tokens) = 0
    BY DEF Init
  <1> QED
    BY <1>2, <1>3 DEF Init, TypeInv, TypeOK, Shape

\* The operations on a code keep the type of the store.
LEMMA GenerateType ==
    ASSUME TypeOK, NEW p \in Procs, NEW purpose \in Purposes, NEW n \in Phones,
           Generate(p, purpose, n)
    PROVE  otp' \in [Purposes \X Phones -> Otp \cup {None}]
  <1>1. PICK c \in Codes :
          otp' = [otp EXCEPT ![<<purpose, n>>] = [code |-> c, attempts |-> 0, by |-> p]]
    BY DEF Generate
  <1>2. [code |-> c, attempts |-> 0, by |-> p] \in Otp
    BY AuthAssumption DEF Otp
  <1> QED
    BY <1>1, <1>2 DEF TypeOK

LEMMA CheckType ==
    ASSUME TypeOK, NEW p \in Procs, NEW purpose \in Purposes, NEW n \in Phones,
           NEW code, NEW onward, Check(p, purpose, n, code, onward)
    PROVE  /\ otp' \in [Purposes \X Phones -> Otp \cup {None}]
           /\ spent' \in [Procs -> Otp \cup {None}]
  <1> DEFINE k == <<purpose, n>>
  <1>1. k \in Purposes \X Phones
    OBVIOUS
  <1>2. Pending(k) => otp[k] \in Otp
    BY <1>1 DEF Pending, TypeOK
  <1>3. ASSUME NEW o \in Otp, o.attempts < OtpAttempts
        PROVE  Counted(o) \in Otp
    BY <1>3, AuthAssumption DEF Counted, Otp
  <1>4. Pending(k) => Counted(otp[k]) \in Otp
    BY <1>2, <1>3 DEF Pending
  <1>5. Matches(k, code) => otp[k] \in Otp
    BY <1>2 DEF Matches
  <1> QED
    BY <1>1, <1>4, <1>5 DEF Check, TypeOK

\* Steps of one handler leave what the others stand at and have found.
Untouched(p) ==
    \A q \in Procs : q # p =>
        /\ pc'[q] = pc[q] /\ req'[q] = req[q] /\ who'[q] = who[q]
        /\ seen'[q] = seen[q] /\ stored'[q] = stored[q] /\ spent'[q] = spent[q]

Does(p) == Receipt(p) \/ Step(p) \/ Fail(p)

LEMMA OthersKeep ==
    ASSUME TypeOK, NEW p \in Procs, Does(p)
    PROVE  Untouched(p)
  <1> USE DEF Untouched, Goto, TypeOK
  <1>1. CASE Receipt(p)
    BY <1>1 DEF Receipt, Receive, Register, VerifyOtp, ResendOtp, Login, RefreshToken,
                ForgotPassword, ResetPassword, ChangePassword, SetStatus
  <1>2. CASE Fail(p)
    BY <1>2 DEF Fail
  <1>3. CASE Step(p)
    <2>1. CASE CheckPhoneOtp(p) \/ CheckResetOtp(p)
      BY <2>1 DEF CheckPhoneOtp, CheckResetOtp, Check
    <2>2. CASE \/ CheckDuplicate(p) \/ ResolveReferrer(p) \/ CreateAccount(p)
               \/ DuplicateAccount(p) \/ SendWelcomeOtp(p) \/ ActivateUser(p)
               \/ SendPhoneOtp(p) \/ IssueTokens(p) \/ FindUser(p) \/ LoginRefused(p)
      BY <2>2 DEF CheckDuplicate, ResolveReferrer, CreateAccount, DuplicateAccount,
                  SendWelcomeOtp, ActivateUser, SendPhoneOtp, IssueTokens, FindUser,
                  LoginRefused
    <2>3. CASE \/ CountFailure(p) \/ ResetFailures(p) \/ ReissueOtp(p) \/ FindToken(p)
               \/ TokenRefused(p) \/ CheckOwner(p) \/ RevokeToken(p) \/ SendResetOtp(p)
      BY <2>3 DEF CountFailure, ResetFailures, ReissueOtp, FindToken, TokenRefused,
                  CheckOwner, RevokeToken, SendResetOtp
    <2>4. CASE \/ StorePassword(p) \/ CheckPassword(p) \/ ReplacePassword(p)
               \/ RevokeAll(p) \/ UpdateUserStatus(p) \/ WriteAudit(p)
      BY <2>4 DEF StorePassword, CheckPassword, ReplacePassword, RevokeAll,
                  UpdateUserStatus, WriteAudit
    <2> QED
      BY <1>3, <2>1, <2>2, <2>3, <2>4 DEF Step
  <1> QED
    BY <1>1, <1>2, <1>3 DEF Does

\* A shape survives while its handler rests and no account vanishes.
LEMMA ShapeFrame ==
    ASSUME NEW q \in Procs, Shape(q), Known \subseteq Known',
           pc'[q] = pc[q], req'[q] = req[q], who'[q] = who[q], seen'[q] = seen[q]
    PROVE  Shape(q)'
  BY DEF Shape

\* The handlers that write a users row.
LEMMA AccountWriters ==
    ASSUME NEW p \in Procs, Does(p)
    PROVE  \/ UNCHANGED account \/ CreateAccount(p) \/ ActivateUser(p)
           \/ CountFailure(p) \/ ResetFailures(p) \/ StorePassword(p)
           \/ ReplacePassword(p) \/ UpdateUserStatus(p)
  BY DEF Does, Receipt, Receive, Register, VerifyOtp, ResendOtp, Login, RefreshToken,
         ForgotPassword, ResetPassword, ChangePassword, SetStatus, Fail, Step,
         CheckDuplicate, ResolveReferrer, DuplicateAccount, SendWelcomeOtp,
         CheckPhoneOtp, SendPhoneOtp, IssueTokens, FindUser, LoginRefused, ReissueOtp,
         FindToken, TokenRefused, CheckOwner, RevokeToken, SendResetOtp,
         CheckResetOtp, CheckPassword, RevokeAll, WriteAudit

\* An update leaves the identity and a verification made, and a lockout that
\* matched the failed logins still does.
Locked(row) == row.lockout # "none" <=> row.attempts >= LoginAttempts

Succeeds(row, old) ==
    /\ row \in User
    /\ row.email = old.email
    /\ row.phone = old.phone
    /\ old.verified => row.verified
    /\ Locked(old) => Locked(row)

Updated(u) == \E row : account' = [account EXCEPT ![u] = row] /\ Succeeds(row, account[u])

LEMMA AccountUpdated ==
    ASSUME TypeInv, NEW p \in Procs, Does(p)
    PROVE  UNCHANGED account \/ CreateAccount(p) \/ \E u \in Known : Updated(u)
  <1>a. \A u \in Known : account[u] \in User
    BY DEF TypeInv, TypeOK, Known
  <1>b. Shape(p)
    BY DEF TypeInv
  <1>c. LoginAttempts \in Nat \ {0}
    BY AuthAssumption
  <1>1. CASE ActivateUser(p)
    <2>1. PICK u \in Known : account' = [account EXCEPT ![u].verified = TRUE,
                                                       ![u].status = "ACTIVE"]
      BY <1>1 DEF ActivateUser, Holders
    <2> DEFINE row == [account[u] EXCEPT !.verified = TRUE, !.status = "ACTIVE"]
    <2>2. account' = [account EXCEPT ![u] = row]
      BY <2>1
    <2>3. Succeeds(row, account[u])
      BY <1>a, <2>1 DEF Succeeds, Locked, User, UserStatus
    <2> QED
      BY <2>2, <2>3 DEF Updated
  <1>2. CASE CountFailure(p)
    <2> DEFINE n == seen[p].attempts + 1
               l == IF n >= LoginAttempts THEN "running" ELSE "none"
               row == [account[who[p]] EXCEPT !.attempts = n, !.lockout = l]
    <2>1. who[p] \in Known /\ seen[p] \in User
      BY <1>2, <1>b DEF CountFailure, Shape
    <2>2. n \in Nat
      BY <2>1 DEF User
    <2>3. account' = [account EXCEPT ![who[p]] = row]
      BY <1>2 DEF CountFailure
    <2>4. l \in {"none", "running"} /\ (l # "none" <=> n >= LoginAttempts)
      BY <2>2, <1>c
    <2> HIDE DEF n, l
    <2>5. Succeeds(row, account[who[p]])
      BY <1>a, <2>1, <2>2, <2>4 DEF Succeeds, Locked, User
    <2> QED
      BY <2>1, <2>3, <2>5 DEF Updated
  <1>3. CASE ResetFailures(p)
    <2> DEFINE row == [account[who[p]] EXCEPT !.attempts = 0, !.lockout = "none"]
    <2>1. who[p] \in Known
      BY <1>3, <1>b DEF ResetFailures, Shape
    <2>2. account' = [account EXCEPT ![who[p]] = row]
      BY <1>3 DEF ResetFailures
    <2>3. row.attempts = 0 /\ row.lockout = "none" /\ row \in User
      BY <1>a, <2>1 DEF User
    <2>4. Locked(row)
      BY <1>c, <2>3 DEF Locked
    <2>5. Succeeds(row, account[who[p]])
      BY <1>a, <2>1, <2>3, <2>4 DEF Succeeds, User
    <2> QED
      BY <2>1, <2>2, <2>5 DEF Updated
  <1>4. CASE StorePassword(p)
    <2>1. req[p] \in ResetRequest
      BY <1>4, <1>b DEF StorePassword, Shape
    <2>2. req[p].password \in Passwords
      BY <2>1 DEF ResetRequest
    <2>3. PICK u \in Known : account' =
            [account EXCEPT ![u].password = req[p].password,
                            ![u].attempts = 0, ![u].lockout = "none"]
      BY <1>4 DEF StorePassword, Holders
    <2> DEFINE row == [account[u] EXCEPT !.password = req[p].password,
                                         !.attempts = 0, !.lockout = "none"]
    <2>4. account' = [account EXCEPT ![u] = row]
      BY <2>3
    <2>5. row.attempts = 0 /\ row.lockout = "none" /\ row \in User
      BY <1>a, <2>2, <2>3 DEF User
    <2>6. Locked(row)
      BY <1>c, <2>5 DEF Locked
    <2>7. Succeeds(row, account[u])
      BY <1>a, <2>3, <2>5, <2>6 DEF Succeeds, User
    <2> QED
      BY <2>4, <2>7 DEF Updated
  <1>5. CASE ReplacePassword(p)
    <2> DEFINE u == req[p].user
               row == [account[u] EXCEPT !.password = req[p].password]
    <2>1. req[p] \in ChangeRequest /\ u \in Known
      BY <1>5, <1>b DEF ReplacePassword, Shape
    <2>2. req[p].password \in Passwords
      BY <2>1 DEF ChangeRequest
    <2>3. account' = [account EXCEPT ![u] = row]
      BY <1>5 DEF ReplacePassword
    <2>4. Succeeds(row, account[u])
      BY <1>a, <2>1, <2>2 DEF Succeeds, Locked, User
    <2> QED
      BY <2>1, <2>3, <2>4 DEF Updated
  <1>6. CASE UpdateUserStatus(p)
    <2> DEFINE u == req[p].user
               row == [account[u] EXCEPT !.status = req[p].status]
    <2>1. req[p] \in StatusRequest /\ u \in Known
      BY <1>6, <1>b DEF UpdateUserStatus, Shape
    <2>2. req[p].status \in UserStatus
      BY <2>1 DEF StatusRequest
    <2>3. account' = [account EXCEPT ![u] = row]
      BY <1>6 DEF UpdateUserStatus
    <2>4. Succeeds(row, account[u])
      BY <1>a, <2>1, <2>2 DEF Succeeds, Locked, User
    <2> QED
      BY <2>1, <2>3, <2>4 DEF Updated
  <1> QED
    BY <1>1, <1>2, <1>3, <1>4, <1>5, <1>6, AccountWriters

LEMMA LockoutUpdated ==
    ASSUME TypeInv, LockoutEnds
    PROVE  \E u \in Known : Updated(u)
  <1>1. PICK u \in Known :
          /\ account[u].lockout = "running"
          /\ account' = [account EXCEPT ![u] = [account[u] EXCEPT !.lockout = "over"]]
    BY DEF LockoutEnds
  <1>2. account[u] \in User
    BY <1>1 DEF TypeInv, TypeOK, Known
  <1>3. Succeeds([account[u] EXCEPT !.lockout = "over"], account[u])
    BY <1>1, <1>2 DEF Succeeds, Locked, User
  <1> QED
    BY <1>1, <1>3 DEF Updated

\* The row that is inserted.
LEMMA AccountCreated ==
    ASSUME TypeInv, NEW p \in Procs, CreateAccount(p)
    PROVE  /\ NewUser(req[p], who[p]) \in User
           /\ account' = [account EXCEPT ![p] = NewUser(req[p], who[p])]
  <1>1. req[p] \in RegisterRequest /\ who[p] \in Accounts \cup {Nobody}
    BY DEF CreateAccount, Shape, TypeInv, TypeOK
  <1>2. NewUser(req[p], who[p]) \in User
    BY <1>1 DEF NewUser, User, UserStatus, RegisterRequest
  <1> QED
    BY <1>2 DEF CreateAccount

\* Rows are inserted and updated, never deleted, and keep their type.
LEMMA AccountStep ==
    ASSUME TypeInv,
           \/ UNCHANGED account
           \/ \E p \in Procs : CreateAccount(p)
           \/ \E u \in Known : Updated(u)
    PROVE  /\ account' \in [Accounts -> User \cup {None}]
           /\ Known \subseteq Known'
  <1>a. account \in [Accounts -> User \cup {None}] /\ None \notin User
    BY AuthAssumption DEF TypeInv, TypeOK
  <1>1. ASSUME NEW u \in Accounts, NEW row \in User, account' = [account EXCEPT ![u] = row]
        PROVE  account' \in [Accounts -> User \cup {None}] /\ Known \subseteq Known'
    BY <1>a, <1>1 DEF Known
  <1>2. ASSUME NEW p \in Procs, CreateAccount(p)
        PROVE  account' \in [Accounts -> User \cup {None}] /\ Known \subseteq Known'
    BY <1>1, <1>2, AccountCreated DEF Accounts
  <1>3. ASSUME NEW u \in Known, Updated(u)
        PROVE  account' \in [Accounts -> User \cup {None}] /\ Known \subseteq Known'
    BY <1>1, <1>3 DEF Updated, Succeeds, Known
  <1> QED
    BY <1>a, <1>2, <1>3 DEF Known

\* Rows of refresh_tokens are appended and revoked, never removed, and their
\* accounts exist.
LEMMA TokensStep ==
    ASSUME TypeInv, NEW p \in Procs, Does(p)
    PROVE  /\ tokens' \in Seq(Token)
           /\ DOMAIN tokens \subseteq DOMAIN tokens'
           /\ \A i \in DOMAIN tokens : /\ tokens'[i].user = tokens[i].user
                                       /\ tokens'[i].by = tokens[i].by
                                       /\ tokens[i].revoked => tokens'[i].revoked
           /\ \/ Len(tokens') = Len(tokens)
              \/ /\ IssueTokens(p)
                 /\ Len(tokens') = Len(tokens) + 1
                 /\ tokens'[Len(tokens')].user = who[p]
                 /\ tokens'[Len(tokens')].by = p
  <1>a. tokens \in Seq(Token)
    BY DEF TypeInv, TypeOK
  <1>b. \A i \in DOMAIN tokens : tokens[i] \in Token
    BY <1>a
  <1>c. Shape(p)
    BY DEF TypeInv
  <1>1. CASE UNCHANGED tokens
    BY <1>1, <1>a
  <1>2. CASE IssueTokens(p)
    <2>1. who[p] \in Accounts
      BY <1>2, <1>c DEF IssueTokens, Shape, Known
    <2>2. PICK s \in Strings(p) :
            tokens' = Append(tokens, [user |-> who[p], string |-> s,
                                      revoked |-> FALSE, by |-> p])
      BY <1>2 DEF IssueTokens
    <2>3. s \in Procs
      BY <2>2, <1>b DEF Strings, Token
    <2>4. [user |-> who[p], string |-> s, revoked |-> FALSE, by |-> p] \in Token
      BY <2>1, <2>3 DEF Token
    <2> QED
      BY <1>2, <1>a, <2>2, <2>4
  <1>3. ASSUME NEW I, Revoke(I)
        PROVE  /\ tokens' \in Seq(Token) /\ Len(tokens') = Len(tokens)
               /\ \A i \in DOMAIN tokens : /\ tokens'[i].user = tokens[i].user
                                           /\ tokens'[i].by = tokens[i].by
                                           /\ tokens[i].revoked => tokens'[i].revoked
    <2>1. \A t \in Token : LET r == [t EXCEPT !.revoked = TRUE] IN
            r \in Token /\ r.user = t.user /\ r.by = t.by /\ r.revoked
      BY DEF Token
    <2> QED
      BY <1>3, <1>a, <1>b, <2>1 DEF Revoke
  <1>4. CASE RevokeToken(p) \/ RevokeAll(p)
    BY <1>3, <1>4, <1>a DEF RevokeToken, RevokeAll
  <1>5. UNCHANGED tokens \/ IssueTokens(p) \/ RevokeToken(p) \/ RevokeAll(p)
    BY DEF Does, Receipt, Receive, Register, VerifyOtp, ResendOtp, Login, RefreshToken,
           ForgotPassword, ResetPassword, ChangePassword, SetStatus, Fail, Step,
           CheckDuplicate, ResolveReferrer, CreateAccount, DuplicateAccount,
           SendWelcomeOtp, CheckPhoneOtp, ActivateUser, SendPhoneOtp, FindUser,
           LoginRefused, CountFailure, ResetFailures, ReissueOtp, FindToken,
           TokenRefused, CheckOwner, SendResetOtp, CheckResetOtp, StorePassword,
           CheckPassword, ReplacePassword, UpdateUserStatus, WriteAudit
  <1> QED
    BY <1>1, <1>2, <1>4, <1>5

\* A request arrives whole, and about accounts that exist.
LEMMA ReceiptStep ==
    ASSUME TypeInv, NEW p \in Procs, Receipt(p)
    PROVE  /\ TypeOK'
           /\ Shape(p)'
           /\ UNCHANGED <<account, otp, tokens>>
  <1> USE DEF TypeOK, Shape, Receive, Goto, Running, Ended, Known
  <1>a. TypeOK /\ Shape(p)
    BY DEF TypeInv
  <1>b. \A i \in DOMAIN tokens : tokens[i] \in Token /\ tokens[i].user \in Known
    BY DEF TypeInv
  <1>1. CASE Register(p)
    <2>1. PICK r \in RegisterRequest : Receive(p, "register", r)
      BY <1>1 DEF Register, RegisterRequest
    <2> QED
      BY <2>1, <1>a DEF Request
  <1>2. CASE VerifyOtp(p)
    <2>1. PICK r \in CodeRequest : Receive(p, "verify", r)
      BY <1>2 DEF VerifyOtp, CodeRequest
    <2> QED
      BY <2>1, <1>a DEF Request
  <1>3. CASE ResendOtp(p) \/ ForgotPassword(p)
    <2>1. PICK r \in PhoneRequest, l \in {"resend", "forgot"} : Receive(p, l, r)
      BY <1>3 DEF ResendOtp, ForgotPassword, PhoneRequest
    <2> QED
      BY <2>1, <1>a DEF Request
  <1>4. CASE Login(p)
    <2>1. PICK r \in LoginRequest : Receive(p, "login", r)
      BY <1>4 DEF Login, LoginRequest
    <2> QED
      BY <2>1, <1>a DEF Request
  <1>5. CASE ResetPassword(p)
    <2>1. PICK r \in ResetRequest : Receive(p, "reset", r)
      BY <1>5 DEF ResetPassword, ResetRequest
    <2> QED
      BY <2>1, <1>a DEF Request
  <1>6. CASE RefreshToken(p)
    <2>1. PICK r \in RefreshRequest : r.user \in Known /\ Receive(p, "refresh", r)
      BY <1>6, <1>b DEF RefreshToken, RefreshRequest, Token
    <2> QED
      BY <2>1, <1>a DEF Request
  <1>7. CASE ChangePassword(p)
    <2>1. PICK r \in ChangeRequest : r.user \in Known /\ Receive(p, "change", r)
      BY <1>7, <1>b DEF ChangePassword, ChangeRequest, Token
    <2> QED
      BY <2>1, <1>a DEF Request
  <1>8. CASE SetStatus(p)
    <2>1. PICK r \in StatusRequest : r.user \in Known /\ Receive(p, "setStatus", r)
      BY <1>8 DEF SetStatus, StatusRequest
    <2> QED
      BY <2>1, <1>a DEF Request
  <1> QED
    BY <1>1, <1>2, <1>3, <1>4, <1>5, <1>6, <1>7, <1>8 DEF Receipt

\* The variables of the handlers and the codes keep their types.
LocalsOK ==
    /\ pc \in [Procs -> {"idle"} \cup Running \cup Ended]
    /\ req \in [Procs -> Request \cup {None}]
    /\ otp \in [Purposes \X Phones -> Otp \cup {None}]
    /\ who \in [Procs -> Accounts \cup {Nobody}]
    /\ seen \in [Procs -> User \cup {None}]
    /\ stored \in [Procs -> 0 .. Len(tokens)]
    /\ spent \in [Procs -> Otp \cup {None}]

\* The step of a handler keeps them, and what it finds fits its new place.
LEMMA LocalsStep ==
    ASSUME TypeInv, NEW p \in Procs, Step(p), Known \subseteq Known',
           Len(tokens) <= Len(tokens'), Len(tokens) \in Nat, Len(tokens') \in Nat
    PROVE  LocalsOK' /\ Shape(p)'
  <1> USE DEF LocalsOK, Shape, Goto, Running, Ended
  <1>a. LocalsOK /\ Shape(p)
    BY DEF TypeInv, TypeOK
  <1>b. 0 .. Len(tokens) \subseteq 0 .. Len(tokens')
    OBVIOUS
  <1>c. Known \subseteq Accounts /\ \A u \in Known : account[u] \in User
    BY DEF TypeInv, TypeOK, Known
  <1>d. TypeOK
    BY DEF TypeInv
  <1>1. CASE CheckDuplicate(p)
    BY <1>1, <1>a, <1>b, <1>c DEF CheckDuplicate
  <1>2. CASE ResolveReferrer(p)
    BY <1>2, <1>a, <1>b, <1>c DEF ResolveReferrer
  <1>3. CASE CreateAccount(p)
    BY <1>3, <1>a, <1>b, <1>c DEF CreateAccount
  <1>4. CASE DuplicateAccount(p)
    BY <1>4, <1>a, <1>b, <1>c DEF DuplicateAccount
  <1>5. CASE IssueTokens(p)
    BY <1>5, <1>a, <1>b, <1>c DEF IssueTokens
  <1>6. CASE LoginRefused(p)
    BY <1>6, <1>a, <1>b, <1>c DEF LoginRefused
  <1>7. CASE CountFailure(p)
    BY <1>7, <1>a, <1>b, <1>c DEF CountFailure
  <1>8. CASE ResetFailures(p)
    BY <1>8, <1>a, <1>b, <1>c DEF ResetFailures
  <1>9. CASE TokenRefused(p)
    BY <1>9, <1>a, <1>b, <1>c DEF TokenRefused
  <1>10. CASE CheckOwner(p)
    BY <1>10, <1>a, <1>b, <1>c DEF CheckOwner
  <1>11. CASE RevokeToken(p)
    BY <1>11, <1>a, <1>b, <1>c DEF RevokeToken
  <1>12. CASE StorePassword(p)
    BY <1>12, <1>a, <1>b, <1>c DEF StorePassword
  <1>13. CASE CheckPassword(p)
    BY <1>13, <1>a, <1>b, <1>c DEF CheckPassword
  <1>14. CASE ReplacePassword(p)
    BY <1>14, <1>a, <1>b, <1>c DEF ReplacePassword
  <1>15. CASE RevokeAll(p)
    BY <1>15, <1>a, <1>b, <1>c DEF RevokeAll
  <1>16. CASE UpdateUserStatus(p)
    BY <1>16, <1>a, <1>b, <1>c DEF UpdateUserStatus
  <1>17. CASE WriteAudit(p)
    BY <1>17, <1>a, <1>b, <1>c DEF WriteAudit
  <1>18. CASE ActivateUser(p)
    <2>1. PICK u \in Known : who' = [who EXCEPT ![p] = u]
      BY <1>18 DEF ActivateUser, Holders
    <2> QED
      BY <1>18, <2>1, <1>a, <1>b, <1>c DEF ActivateUser
  <1>19. CASE FindUser(p)
    <2>1. PICK u \in Known :
            /\ who' = [who EXCEPT ![p] = u]
            /\ seen' = [seen EXCEPT ![p] = account[u]]
            /\ \/ pc' = [pc EXCEPT ![p] = "right"]
               \/ pc' = [pc EXCEPT ![p] = "wrong"]
      BY <1>19 DEF FindUser, Holders
    <2>2. /\ pc[p] = "login"
          /\ UNCHANGED <<req, account, otp, tokens, stored, spent>>
      BY <1>19 DEF FindUser
    <2> QED
      BY <2>1, <2>2, <1>a, <1>b, <1>c
  <1>20. CASE SendWelcomeOtp(p)
    <2>1. req[p].phone \in Phones
      BY <1>20, <1>a DEF SendWelcomeOtp, RegisterRequest
    <2>2. otp' \in [Purposes \X Phones -> Otp \cup {None}]
      BY <1>20, <2>1, <1>d, GenerateType DEF SendWelcomeOtp, Purposes
    <2> QED
      BY <1>20, <2>2, <1>a, <1>b DEF SendWelcomeOtp
  <1>21. CASE SendPhoneOtp(p)
    <2>1. req[p].phone \in Phones
      BY <1>21, <1>a DEF SendPhoneOtp, PhoneRequest
    <2>2. otp' \in [Purposes \X Phones -> Otp \cup {None}]
      BY <1>21, <2>1, <1>a, <1>d, GenerateType DEF SendPhoneOtp, Purposes
    <2> QED
      BY <1>21, <2>2, <1>a, <1>b DEF SendPhoneOtp
  <1>22. CASE SendResetOtp(p)
    <2>1. req[p].phone \in Phones
      BY <1>22, <1>a DEF SendResetOtp, PhoneRequest
    <2>2. otp' \in [Purposes \X Phones -> Otp \cup {None}]
      BY <1>22, <2>1, <1>a, <1>d, GenerateType DEF SendResetOtp, Purposes
    <2> QED
      BY <1>22, <2>2, <1>a, <1>b DEF SendResetOtp
  <1>23. CASE ReissueOtp(p)
    <2>1. seen[p].phone \in Phones
      BY <1>23, <1>a DEF ReissueOtp, User
    <2>2. otp' \in [Purposes \X Phones -> Otp \cup {None}]
      BY <1>23, <2>1, <1>d, GenerateType DEF ReissueOtp, Purposes
    <2> QED
      BY <1>23, <2>2, <1>a, <1>b DEF ReissueOtp
  <1>24. CASE CheckPhoneOtp(p)
    <2>1. req[p].phone \in Phones
      BY <1>24, <1>a DEF CheckPhoneOtp, CodeRequest
    <2>2. Check(p, "phone_verify", req[p].phone, req[p].code, "activate")
      BY <1>24 DEF CheckPhoneOtp
    <2>3. /\ otp' \in [Purposes \X Phones -> Otp \cup {None}]
          /\ spent' \in [Procs -> Otp \cup {None}]
      BY <2>1, <2>2, <1>d, CheckType DEF Purposes
    <2>4. pc' = [pc EXCEPT ![p] = "activate"] \/ pc' = [pc EXCEPT ![p] = "refused"]
      BY <2>2 DEF Check
    <2> HIDE DEF Goto
    <2>5. pc[p] = "verify" /\ UNCHANGED <<req, account, tokens, who, seen, stored>>
      BY <1>24 DEF CheckPhoneOtp
    <2> QED
      BY <2>3, <2>4, <2>5, <1>a, <1>b
  <1>25. CASE CheckResetOtp(p)
    <2>1. req[p].phone \in Phones
      BY <1>25, <1>a DEF CheckResetOtp, ResetRequest
    <2>2. Check(p, "pwd_reset", req[p].phone, req[p].code, "newPassword")
      BY <1>25 DEF CheckResetOtp
    <2>3. /\ otp' \in [Purposes \X Phones -> Otp \cup {None}]
          /\ spent' \in [Procs -> Otp \cup {None}]
      BY <2>1, <2>2, <1>d, CheckType DEF Purposes
    <2>4. pc' = [pc EXCEPT ![p] = "newPassword"] \/ pc' = [pc EXCEPT ![p] = "refused"]
      BY <2>2 DEF Check
    <2> HIDE DEF Goto
    <2>5. pc[p] = "reset" /\ UNCHANGED <<req, account, tokens, who, seen, stored>>
      BY <1>25 DEF CheckResetOtp
    <2> QED
      BY <2>3, <2>4, <2>5, <1>a, <1>b
  <1>26. CASE FindToken(p)
    <2>1. req[p].user \in Known /\ req[p].user \in Accounts
      BY <1>26, <1>a, <1>c DEF FindToken
    <2>2. PICK i \in 0 .. Len(tokens) : stored' = [stored EXCEPT ![p] = i]
    <3>1. PICK i \in DOMAIN tokens : stored' = [stored EXCEPT ![p] = i]
      BY <1>26 DEF FindToken
    <3>2. tokens \in Seq(Token)
      BY <1>d DEF TypeOK
    <3>3. i \in 0 .. Len(tokens)
      BY <3>1, <3>2
    <3> QED
      BY <3>1, <3>3
    <2>3. /\ pc[p] = "refresh"
          /\ who' = [who EXCEPT ![p] = req[p].user]
          /\ pc' = [pc EXCEPT ![p] = "owner"]
          /\ UNCHANGED <<req, account, otp, tokens, seen, spent>>
      BY <1>26 DEF FindToken
    <2> QED
      BY <2>1, <2>2, <2>3, <1>a, <1>b, <1>c
  <1> QED
    BY <1>1, <1>2, <1>3, <1>4, <1>5, <1>6, <1>7, <1>8, <1>9, <1>10, <1>11, <1>12,
       <1>13, <1>14, <1>15, <1>16, <1>17, <1>18, <1>19, <1>20, <1>21, <1>22, <1>23,
       <1>24, <1>25, <1>26 DEF Step

LEMMA TypeStep == TypeInv /\ [Next]_vars => TypeInv'
  <1> SUFFICES ASSUME TypeInv, [Next]_vars PROVE TypeInv'
    OBVIOUS
  <1>a. /\ TypeOK
        /\ \A q \in Procs : Shape(q)
        /\ \A i \in DOMAIN tokens : tokens[i].user \in Known
    BY DEF TypeInv
  <1>1. ASSUME NEW p \in Procs, Does(p) PROVE TypeInv'
    <2>1. account' \in [Accounts -> User \cup {None}] /\ Known \subseteq Known'
      BY <1>1, AccountStep, AccountUpdated
    <2>2. /\ tokens' \in Seq(Token) /\ Len(tokens) \in Nat /\ Len(tokens') \in Nat
          /\ Len(tokens) <= Len(tokens')
      BY <1>1, <1>a, TokensStep DEF TypeOK
    <2>3. ASSUME NEW i \in DOMAIN tokens' PROVE tokens'[i].user \in Known'
      <3>1. CASE i \in DOMAIN tokens
        BY <1>1, <1>a, <2>1, <3>1, TokensStep
      <3>2. CASE i \notin DOMAIN tokens
        <4>1. tokens \in Seq(Token)
          BY <1>a DEF TypeOK
        <4>2. i = Len(tokens') /\ IssueTokens(p) /\ tokens'[i].user = who[p]
          BY <1>1, <2>2, <2>3, <3>2, <4>1, TokensStep
        <4> QED
          BY <1>a, <2>1, <4>2 DEF IssueTokens, Shape
      <3> QED
        BY <3>1, <3>2
    <2>4. \A q \in Procs : q # p => Shape(q)'
      BY <1>1, <1>a, <2>1, OthersKeep, ShapeFrame DEF Untouched
    <2>5. CASE Receipt(p)
      BY <2>3, <2>4, <2>5, ReceiptStep DEF TypeInv
    <2>6. CASE Fail(p)
      <3>1. TypeOK'
        BY <1>a, <2>6 DEF Fail, Goto, TypeOK, Ended
      <3>2. Shape(p)'
        BY <1>a, <2>6 DEF Fail, Goto, TypeOK, Shape
      <3> QED
        BY <2>3, <2>4, <3>1, <3>2 DEF TypeInv
    <2>7. CASE Step(p)
      <3>1. LocalsOK' /\ Shape(p)'
        BY <2>1, <2>2, <2>7, LocalsStep
      <3>2. TypeOK'
        BY <2>1, <2>2, <3>1 DEF LocalsOK, TypeOK
      <3> QED
        BY <2>3, <2>4, <3>1, <3>2 DEF TypeInv
    <2> QED
      BY <1>1, <2>5, <2>6, <2>7 DEF Does
  <1>2. CASE OtpExpires
    <2>1. TypeOK'
      BY <1>a, <1>2 DEF OtpExpires, TypeOK
    <2> QED
      BY <1>a, <1>2, <2>1 DEF OtpExpires, TypeInv, Shape, Known
  <1>3. CASE LockoutEnds
    <2>1. account' \in [Accounts -> User \cup {None}] /\ Known \subseteq Known'
      BY <1>3, LockoutUpdated, AccountStep
    <2> QED
      BY <1>3, <1>a, <2>1 DEF LockoutEnds, TypeInv, TypeOK, Shape
  <1>4. CASE Crash
    <2>1. TypeOK'
      BY <1>a, <1>4 DEF Crash, TypeOK, Ended
    <2>2. Known' = Known /\ tokens' = tokens
      BY <1>4 DEF Crash, Known
    <2>3. ASSUME NEW q \in Procs PROVE Shape(q)'
      <3>1. pc'[q] = "lost" \/ pc'[q] = pc[q]
        BY <1>4 DEF Crash
      <3>2. req'[q] = req[q] /\ who'[q] = who[q] /\ seen'[q] = seen[q] /\ Shape(q)
        BY <1>4, <1>a DEF Crash
      <3> QED
        BY <2>2, <3>1, <3>2 DEF Shape
    <2> QED
      BY <1>a, <2>1, <2>2, <2>3 DEF TypeInv
  <1>5. CASE UNCHANGED vars
    BY <1>5, <1>a DEF vars, TypeInv, TypeOK, Shape, Known
  <1> QED
    BY <1>1, <1>2, <1>3, <1>4, <1>5 DEF Next, Does, Terminated

LEMMA TypeInvariant == Spec => []TypeInv
  BY TypeInit, TypeStep, PTL DEF Spec

\* Rows, codes, tokens and handlers keep their types in every interleaving:
\* failed logins are counted without a bound, wrong codes never beyond theirs
\* (login, OtpService.verify).
THEOREM TypeCorrect == Spec => []TypeOK
  <1>1. TypeInv => TypeOK
    BY DEF TypeInv
  <1> QED
    BY <1>1, TypeInvariant, PTL
===============================================================================
