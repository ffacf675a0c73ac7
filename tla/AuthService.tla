----------------------------- MODULE AuthService -----------------------------
(***************************************************************************)
(* Accounts, one-time codes and sessions: AuthService, OtpService,         *)
(* UsersService.changePassword and AdminService.updateUserStatus.          *)
(*                                                                         *)
(* Every handler reads a user row, spends a hash or two on it, and writes  *)
(* the row or a refresh token afterwards; codes live in a Map of the       *)
(* process, which a restart empties.                                       *)
(*                                                                         *)
(* Accounts are named after the handler of register that inserts them;     *)
(* Seed is one that prisma/seed.ts left.  Phone numbers stand for both     *)
(* identifiers a user may type.                                            *)
(***************************************************************************)
EXTENDS Naturals, Sequences, FiniteSets

CONSTANTS
    Procs,          \* handlers, and the accounts that register inserts
    Seed,           \* an account that is there from the start
    SeedEmail,
    SeedPhone,
    SeedPassword,
    Emails,
    Phones,
    Passwords,
    Codes,          \* 6-digit codes
    LoginAttempts,  \* failed logins until a lockout (5)
    OtpAttempts,    \* wrong codes until a code is dropped (5)
    Nobody,         \* not a handler, not an account
    None            \* not a row, not a code, not a request

Accounts == Procs \cup {Seed}
Purposes == {"phone_verify", "pwd_reset"}
UserStatus == {"ACTIVE", "SUSPENDED", "PENDING_VERIFICATION"}

VARIABLES
    pc,       \* where each handler is
    req,      \* what each handler was asked for
    account,  \* the users row of each account, None before its insert
    otp,      \* OtpService.store: the code pending for a purpose and a phone
    tokens,   \* refresh_tokens in the order of createdAt
    who,      \* the account each handler has found
    seen,     \* the users row each login has read
    stored,   \* the token each refresh has found, 0 before
    spent     \* the pending code each handler has used up, None before

vars == <<pc, req, account, otp, tokens, who, seen, stored, spent>>

User == [email: Emails, phone: Phones, password: Passwords, verified: BOOLEAN,
         status: UserStatus, attempts: Nat,
         lockout: {"none", "running", "over"}, referrer: Accounts \cup {Nobody}]

Otp == [code: Codes, attempts: 0 .. OtpAttempts, by: Procs]

Token == [user: Accounts, string: Procs, revoked: BOOLEAN, by: Procs]

RegisterRequest == [email: Emails, phone: Phones, password: Passwords]
PhoneRequest == [phone: Phones]
CodeRequest == [phone: Phones, code: Codes]
LoginRequest == [phone: Phones, password: Passwords]
ResetRequest == [phone: Phones, code: Codes, password: Passwords]
RefreshRequest == [user: Accounts, string: Procs]
ChangeRequest == [user: Accounts, current: Passwords, password: Passwords]
StatusRequest == [user: Accounts, status: UserStatus]

Request ==
    UNION {RegisterRequest, PhoneRequest, CodeRequest, LoginRequest, ResetRequest,
           RefreshRequest, ChangeRequest, StatusRequest}

ASSUME AuthAssumption ==
    /\ Seed \notin Procs
    /\ SeedEmail \in Emails
    /\ SeedPhone \in Phones
    /\ SeedPassword \in Passwords
    /\ LoginAttempts \in Nat \ {0}
    /\ OtpAttempts \in Nat \ {0}
    /\ Nobody \notin Accounts
    /\ None \notin User \cup Otp \cup Request

Running == {"register", "resolve", "create", "welcome", "verify", "activate",
            "issue", "resend", "login", "wrong", "right", "unverified",
            "refresh", "owner", "rotate", "forgot", "reset", "newPassword",
            "change", "replace", "revokeAll", "setStatus", "audit"}
Ended == {"registered", "conflict", "loggedIn", "refused", "sent", "changed",
          "audited", "failed", "lost"}

TypeOK ==
    /\ pc \in [Procs -> {"idle"} \cup Running \cup Ended]
    /\ req \in [Procs -> Request \cup {None}]
    /\ account \in [Accounts -> User \cup {None}]
    /\ otp \in [Purposes \X Phones -> Otp \cup {None}]
    /\ tokens \in Seq(Token)
    /\ who \in [Procs -> Accounts \cup {Nobody}]
    /\ seen \in [Procs -> User \cup {None}]
    /\ stored \in [Procs -> 0 .. Len(tokens)]
    /\ spent \in [Procs -> Otp \cup {None}]

SeedUser == [email |-> SeedEmail, phone |-> SeedPhone, password |-> SeedPassword,
             verified |-> TRUE, status |-> "ACTIVE", attempts |-> 0,
             lockout |-> "none", referrer |-> Nobody]

Init ==
    /\ pc = [p \in Procs |-> "idle"]
    /\ req = [p \in Procs |-> None]
    /\ account = [u \in Accounts |-> IF u = Seed THEN SeedUser ELSE None]
    /\ otp = [k \in Purposes \X Phones |-> None]
    /\ tokens = <<>>
    /\ who = [p \in Procs |-> Nobody]
    /\ seen = [p \in Procs |-> None]
    /\ stored = [p \in Procs |-> 0]
    /\ spent = [p \in Procs |-> None]

Goto(p, label) == pc' = [pc EXCEPT ![p] = label]

Receive(p, label, request) ==
    /\ pc[p] = "idle"
    /\ Goto(p, label)
    /\ req' = [req EXCEPT ![p] = request]
    /\ UNCHANGED <<account, otp, tokens, who, seen, stored, spent>>

Known == {u \in Accounts : account[u] # None}

Holders(phone) == {u \in Known : account[u].phone = phone}

-------------------------------------------------------------------------------
(* OtpService: both operations are synchronous *)

Generate(p, purpose, phone) ==
    \E c \in Codes :
        otp' = [otp EXCEPT ![<<purpose, phone>>] = [code |-> c, attempts |-> 0, by |-> p]]

\* Mutant of Pending: one wrong code too many is counted.
PendingOneMore(k) == otp[k] # None /\ otp[k].attempts <= OtpAttempts

Pending(k) == otp[k] # None /\ otp[k].attempts < OtpAttempts

Counted(o) == [o EXCEPT !.attempts = o.attempts + 1]

Matches(k, code) == Pending(k) /\ otp[k].code = code

\* Mutant of Check: a code that matched stays in the store.
CheckKeeping(p, purpose, phone, code, onward) ==
    LET k == <<purpose, phone>>
    IN  /\ Goto(p, IF Matches(k, code) THEN onward ELSE "refused")
        /\ spent' = [spent EXCEPT ![p] = IF Matches(k, code) THEN otp[k] ELSE None]
        /\ UNCHANGED otp

\* verify: a wrong code is counted, any other answer empties the entry.
Check(p, purpose, phone, code, onward) ==
    LET k == <<purpose, phone>>
    IN  /\ Goto(p, IF Matches(k, code) THEN onward ELSE "refused")
        /\ spent' = [spent EXCEPT ![p] = IF Matches(k, code) THEN otp[k] ELSE None]
        /\ otp' = [otp EXCEPT ![k] = IF Pending(k) /\ ~ Matches(k, code)
                                     THEN Counted(otp[k]) ELSE None]

-------------------------------------------------------------------------------
(* register *)

Register(p) ==
    \E e \in Emails, n \in Phones, w \in Passwords :
        Receive(p, "register", [email |-> e, phone |-> n, password |-> w])

Taken(r) == \E u \in Known : account[u].email = r.email \/ account[u].phone = r.phone

CheckDuplicate(p) ==
    /\ pc[p] = "register"
    /\ Goto(p, IF Taken(req[p]) THEN "conflict" ELSE "resolve")
    /\ UNCHANGED <<req, account, otp, tokens, who, seen, stored, spent>>

\* The code given, if any, is somebody's; an unknown one is ignored.
ResolveReferrer(p) ==
    /\ pc[p] = "resolve"
    /\ \E r \in Known \cup {Nobody} : who' = [who EXCEPT ![p] = r]
    /\ Goto(p, "create")
    /\ UNCHANGED <<req, account, otp, tokens, seen, stored, spent>>

NewUser(r, referrer) ==
    [email |-> r.email, phone |-> r.phone, password |-> r.password,
     verified |-> FALSE, status |-> "ACTIVE", attempts |-> 0,
     lockout |-> "none", referrer |-> referrer]

\* Mutant of CreateAccount: neither column is unique.
CreateAccountUnchecked(p) ==
    /\ pc[p] = "create"
    /\ account' = [account EXCEPT ![p] = NewUser(req[p], who[p])]
    /\ Goto(p, "welcome")
    /\ UNCHANGED <<req, otp, tokens, who, seen, stored, spent>>

\* The user, its profile, wallet and referral, in one transaction.
CreateAccount(p) ==
    /\ pc[p] = "create"
    /\ ~ Taken(req[p])
    /\ account' = [account EXCEPT ![p] = NewUser(req[p], who[p])]
    /\ Goto(p, "welcome")
    /\ UNCHANGED <<req, otp, tokens, who, seen, stored, spent>>

\* The insert meets a row committed after the lookup: unique violation.
DuplicateAccount(p) ==
    /\ pc[p] = "create"
    /\ Taken(req[p])
    /\ Goto(p, "failed")
    /\ UNCHANGED <<req, account, otp, tokens, who, seen, stored, spent>>

SendWelcomeOtp(p) ==
    /\ pc[p] = "welcome"
    /\ Generate(p, "phone_verify", req[p].phone)
    /\ Goto(p, "registered")
    /\ UNCHANGED <<req, account, tokens, who, seen, stored, spent>>

-------------------------------------------------------------------------------
(* verifyOtp, resendOtp and generateTokens *)

VerifyOtp(p) ==
    \E n \in Phones, c \in Codes : Receive(p, "verify", [phone |-> n, code |-> c])

CheckPhoneOtp(p) ==
    /\ pc[p] = "verify"
    /\ Check(p, "phone_verify", req[p].phone, req[p].code, "activate")
    /\ UNCHANGED <<req, account, tokens, who, seen, stored>>

\* Whatever the status was, it is ACTIVE now.
ActivateUser(p) ==
    /\ pc[p] = "activate"
    /\ \E u \in Holders(req[p].phone) :
         /\ account' = [account EXCEPT ![u].verified = TRUE, ![u].status = "ACTIVE"]
         /\ who' = [who EXCEPT ![p] = u]
    /\ Goto(p, "issue")
    /\ UNCHANGED <<req, otp, tokens, seen, stored, spent>>

ResendOtp(p) == \E n \in Phones : Receive(p, "resend", [phone |-> n])

SendPhoneOtp(p) ==
    /\ pc[p] = "resend"
    /\ IF Holders(req[p].phone) = {}
       THEN Goto(p, "refused") /\ UNCHANGED otp
       ELSE Goto(p, "sent") /\ Generate(p, "phone_verify", req[p].phone)
    /\ UNCHANGED <<req, account, tokens, who, seen, stored, spent>>

Revoke(I) ==
    tokens' = [i \in DOMAIN tokens |->
        IF i \in I THEN [tokens[i] EXCEPT !.revoked = TRUE] ELSE tokens[i]]

Live(u) == {i \in DOMAIN tokens : tokens[i].user = u /\ ~ tokens[i].revoked}

\* A token is signed over its user and the second: two of one second are the
\* same string.
Strings(p) ==
    {p} \cup {tokens[i].string : i \in {j \in DOMAIN tokens : tokens[j].user = who[p]}}

\* generateTokens.
IssueTokens(p) ==
    /\ pc[p] = "issue"
    /\ \E s \in Strings(p) :
         tokens' = Append(tokens, [user |-> who[p], string |-> s,
                                   revoked |-> FALSE, by |-> p])
    /\ Goto(p, "loggedIn")
    /\ UNCHANGED <<req, account, otp, who, seen, stored, spent>>

-------------------------------------------------------------------------------
(* login *)

Login(p) ==
    \E n \in Phones, w \in Passwords :
        Receive(p, "login", [phone |-> n, password |-> w])

Barred(u) == account[u].lockout = "running" \/ account[u].status = "SUSPENDED"

FindUser(p) ==
    /\ pc[p] = "login"
    /\ \E u \in Holders(req[p].phone) :
         /\ ~ Barred(u)
         /\ who' = [who EXCEPT ![p] = u]
         /\ seen' = [seen EXCEPT ![p] = account[u]]
         /\ Goto(p, IF account[u].password = req[p].password THEN "right" ELSE "wrong")
    /\ UNCHANGED <<req, account, otp, tokens, stored, spent>>

LoginRefused(p) ==
    /\ pc[p] = "login"
    /\ \A u \in Holders(req[p].phone) : Barred(u)
    /\ Goto(p, "refused")
    /\ UNCHANGED <<req, account, otp, tokens, who, seen, stored, spent>>

\* Mutant of CountFailure: the last attempt that remains locks already.
CountFailureEarly(p) ==
    LET attempts == seen[p].attempts + 1
    IN  /\ pc[p] = "wrong"
        /\ account' = [account EXCEPT
              ![who[p]].attempts = attempts,
              ![who[p]].lockout =
                  IF attempts + 1 >= LoginAttempts THEN "running" ELSE "none"]
        /\ Goto(p, "refused")
        /\ UNCHANGED <<req, otp, tokens, who, seen, stored, spent>>

\* Mutant of CountFailure: the limit is compared with the count that was read.
CountFailureLate(p) ==
    LET attempts == seen[p].attempts
    IN  /\ pc[p] = "wrong"
        /\ account' = [account EXCEPT
              ![who[p]].attempts = attempts + 1,
              ![who[p]].lockout = IF attempts >= LoginAttempts THEN "running" ELSE "none"]
        /\ Goto(p, "refused")
        /\ UNCHANGED <<req, otp, tokens, who, seen, stored, spent>>

\* Written from the row that was read, not from the row as it is.
CountFailure(p) ==
    LET attempts == seen[p].attempts + 1
    IN  /\ pc[p] = "wrong"
        /\ account' = [account EXCEPT
              ![who[p]].attempts = attempts,
              ![who[p]].lockout = IF attempts >= LoginAttempts THEN "running" ELSE "none"]
        /\ Goto(p, "refused")
        /\ UNCHANGED <<req, otp, tokens, who, seen, stored, spent>>

\* Mutant of ResetFailures: the phone's verification is not looked at.
ResetFailuresUnverified(p) ==
    /\ pc[p] = "right"
    /\ account' = [account EXCEPT ![who[p]].attempts = 0, ![who[p]].lockout = "none"]
    /\ Goto(p, "issue")
    /\ UNCHANGED <<req, otp, tokens, who, seen, stored, spent>>

\* Mutant of ResetFailures: tokens are generated before the phone is looked at.
ResetFailuresIssueFirst(p) ==
    /\ pc[p] = "right"
    /\ account' = [account EXCEPT ![who[p]].attempts = 0, ![who[p]].lockout = "none"]
    /\ tokens' = Append(tokens, [user |-> who[p], string |-> p,
                                revoked |-> FALSE, by |-> p])
    /\ Goto(p, IF seen[p].verified THEN "loggedIn" ELSE "unverified")
    /\ UNCHANGED <<req, otp, who, seen, stored, spent>>

ResetFailures(p) ==
    /\ pc[p] = "right"
    /\ account' = [account EXCEPT ![who[p]].attempts = 0, ![who[p]].lockout = "none"]
    /\ Goto(p, IF seen[p].verified THEN "issue" ELSE "unverified")
    /\ UNCHANGED <<req, otp, tokens, who, seen, stored, spent>>

ReissueOtp(p) ==
    /\ pc[p] = "unverified"
    /\ Generate(p, "phone_verify", seen[p].phone)
    /\ Goto(p, "refused")
    /\ UNCHANGED <<req, account, tokens, who, seen, stored, spent>>

-------------------------------------------------------------------------------
(* refreshToken *)

RefreshToken(p) ==
    \E i \in DOMAIN tokens :
        Receive(p, "refresh", [user |-> tokens[i].user, string |-> tokens[i].string])

\* Only the newest row that is not revoked is compared with the token.
Accepted(r, i) ==
    /\ i \in Live(r.user)
    /\ \A j \in Live(r.user) : j <= i
    /\ tokens[i].string = r.string

FindToken(p) ==
    /\ pc[p] = "refresh"
    /\ \E i \in DOMAIN tokens :
         /\ Accepted(req[p], i)
         /\ stored' = [stored EXCEPT ![p] = i]
    /\ who' = [who EXCEPT ![p] = req[p].user]
    /\ Goto(p, "owner")
    /\ UNCHANGED <<req, account, otp, tokens, seen, spent>>

TokenRefused(p) ==
    /\ pc[p] = "refresh"
    /\ ~ \E i \in DOMAIN tokens : Accepted(req[p], i)
    /\ Goto(p, "refused")
    /\ UNCHANGED <<req, account, otp, tokens, who, seen, stored, spent>>

CheckOwner(p) ==
    /\ pc[p] = "owner"
    /\ Goto(p, IF account[who[p]].status = "ACTIVE" THEN "rotate" ELSE "refused")
    /\ UNCHANGED <<req, account, otp, tokens, who, seen, stored, spent>>

\* Mutant of RevokeToken: the newest row is revoked, not the one compared.
RevokeTokenNewest(p) ==
    /\ pc[p] = "rotate"
    /\ Revoke({Len(tokens)})
    /\ Goto(p, "issue")
    /\ UNCHANGED <<req, account, otp, who, seen, stored, spent>>

\* By id, revoked since or not.
RevokeToken(p) ==
    /\ pc[p] = "rotate"
    /\ Revoke({stored[p]})
    /\ Goto(p, "issue")
    /\ UNCHANGED <<req, account, otp, who, seen, stored, spent>>

-------------------------------------------------------------------------------
(* forgotPassword and resetPassword *)

ForgotPassword(p) == \E n \in Phones : Receive(p, "forgot", [phone |-> n])

\* The answer is the same whether the account exists or not.
SendResetOtp(p) ==
    /\ pc[p] = "forgot"
    /\ IF Holders(req[p].phone) = {}
       THEN UNCHANGED otp
       ELSE Generate(p, "pwd_reset", req[p].phone)
    /\ Goto(p, "sent")
    /\ UNCHANGED <<req, account, tokens, who, seen, stored, spent>>

ResetPassword(p) ==
    \E n \in Phones, c \in Codes, w \in Passwords :
        Receive(p, "reset", [phone |-> n, code |-> c, password |-> w])

\* A phone nobody has has no code pending either: both are refused.
CheckResetOtp(p) ==
    /\ pc[p] = "reset"
    /\ Check(p, "pwd_reset", req[p].phone, req[p].code, "newPassword")
    /\ UNCHANGED <<req, account, tokens, who, seen, stored>>

StorePassword(p) ==
    /\ pc[p] = "newPassword"
    /\ \E u \in Holders(req[p].phone) :
         account' = [account EXCEPT ![u].password = req[p].password,
                                    ![u].attempts = 0, ![u].lockout = "none"]
    /\ Goto(p, "changed")
    /\ UNCHANGED <<req, otp, tokens, who, seen, stored, spent>>

-------------------------------------------------------------------------------
(* UsersService.changePassword and AdminService.updateUserStatus *)

\* JwtStrategy.validate lets a logged-in user of an ACTIVE account through.
ChangePassword(p) ==
    \E i \in DOMAIN tokens, c \in Passwords, w \in Passwords :
        /\ account[tokens[i].user].status = "ACTIVE"
        /\ Receive(p, "change", [user |-> tokens[i].user, current |-> c, password |-> w])

CheckPassword(p) ==
    LET known == account[req[p].user].password
    IN  /\ pc[p] = "change"
        /\ Goto(p, IF req[p].current = known /\ req[p].password # known
                   THEN "replace" ELSE "refused")
        /\ UNCHANGED <<req, account, otp, tokens, who, seen, stored, spent>>

ReplacePassword(p) ==
    /\ pc[p] = "replace"
    /\ account' = [account EXCEPT ![req[p].user].password = req[p].password]
    /\ Goto(p, "revokeAll")
    /\ UNCHANGED <<req, otp, tokens, who, seen, stored, spent>>

RevokeAll(p) ==
    /\ pc[p] = "revokeAll"
    /\ Revoke({i \in DOMAIN tokens : tokens[i].user = req[p].user})
    /\ Goto(p, "changed")
    /\ UNCHANGED <<req, account, otp, who, seen, stored, spent>>

SetStatus(p) ==
    \E u \in Known, s \in UserStatus :
        Receive(p, "setStatus", [user |-> u, status |-> s])

UpdateUserStatus(p) ==
    /\ pc[p] = "setStatus"
    /\ account' = [account EXCEPT ![req[p].user].status = req[p].status]
    /\ Goto(p, "audit")
    /\ UNCHANGED <<req, otp, tokens, who, seen, stored, spent>>

WriteAudit(p) ==
    /\ pc[p] = "audit"
    /\ Goto(p, "audited")
    /\ UNCHANGED <<req, account, otp, tokens, who, seen, stored, spent>>

-------------------------------------------------------------------------------
(* Time and faults *)

OtpExpires ==
    /\ \E k \in DOMAIN otp : otp[k] # None /\ otp' = [otp EXCEPT ![k] = None]
    /\ UNCHANGED <<pc, req, account, tokens, who, seen, stored, spent>>

\* lockoutUntil has passed; nobody clears it.
LockoutEnds ==
    /\ \E u \in Known :
         /\ account[u].lockout = "running"
         /\ account' = [account EXCEPT ![u].lockout = "over"]
    /\ UNCHANGED <<pc, req, otp, tokens, who, seen, stored, spent>>

\* A database error at any await.
Fail(p) ==
    /\ pc[p] \in Running
    /\ Goto(p, "failed")
    /\ UNCHANGED <<req, account, otp, tokens, who, seen, stored, spent>>

\* Handlers and pending codes are gone, rows stay.
Crash ==
    /\ \E p \in Procs : pc[p] \in Running
    /\ pc' = [p \in Procs |-> IF pc[p] \in Running THEN "lost" ELSE pc[p]]
    /\ otp' = [k \in DOMAIN otp |-> None]
    /\ UNCHANGED <<req, account, tokens, who, seen, stored, spent>>

Terminated ==
    /\ \A p \in Procs : pc[p] \in Ended
    /\ UNCHANGED vars

Receipt(p) ==
    \/ Register(p) \/ VerifyOtp(p) \/ ResendOtp(p) \/ Login(p) \/ RefreshToken(p)
    \/ ForgotPassword(p) \/ ResetPassword(p) \/ ChangePassword(p) \/ SetStatus(p)

Step(p) ==
    \/ CheckDuplicate(p) \/ ResolveReferrer(p) \/ CreateAccount(p)
    \/ DuplicateAccount(p) \/ SendWelcomeOtp(p)
    \/ CheckPhoneOtp(p) \/ ActivateUser(p) \/ SendPhoneOtp(p) \/ IssueTokens(p)
    \/ FindUser(p) \/ LoginRefused(p) \/ CountFailure(p) \/ ResetFailures(p)
    \/ ReissueOtp(p)
    \/ FindToken(p) \/ TokenRefused(p) \/ CheckOwner(p) \/ RevokeToken(p)
    \/ SendResetOtp(p) \/ CheckResetOtp(p) \/ StorePassword(p)
    \/ CheckPassword(p) \/ ReplacePassword(p) \/ RevokeAll(p)
    \/ UpdateUserStatus(p) \/ WriteAudit(p)

Next ==
    \/ \E p \in Procs : Receipt(p) \/ Step(p) \/ Fail(p)
    \/ OtpExpires \/ LockoutEnds \/ Crash \/ Terminated

Spec == Init /\ [][Next]_vars

-------------------------------------------------------------------------------
(* Properties *)

\* No email and no phone number belongs to two accounts, although register
\* looks for duplicates long before it inserts: two password hashes lie
\* between (register, findFirst against the unique columns).
UniqueAccounts ==
    \A u, v \in Known : u # v =>
        /\ account[u].email # account[v].email
        /\ account[u].phone # account[v].phone

\* The logins that were told their password is wrong.
Failures(u) ==
    {p \in Procs : /\ pc[p] = "refused"
                   /\ seen[p] # None
                   /\ who[p] = u
                   /\ seen[p].password # req[p].password}

\* Nobody is locked out who has not earned it: the count, and with it a
\* lockout, is backed by as many wrong passwords, although a login writes back
\* a count it read before the hash, over the writes of other logins, resets
\* and time (login).
LockoutIsEarned ==
    \A u \in Known :
        /\ account[u].attempts <= Cardinality(Failures(u))
        /\ account[u].lockout # "none" => Cardinality(Failures(u)) >= LoginAttempts

\* Some login knew the right password, or somebody has set a new one.
Pardoned(u) ==
    \E p \in Procs :
        \/ seen[p] # None /\ who[p] = u /\ seen[p].password = req[p].password
        \/ /\ pc[p] = "changed"
           /\ req[p] \in ResetRequest
           /\ req[p].phone = account[u].phone

\* No two of them have read the same count.
FailedInTurn(u) ==
    \A p, q \in Failures(u) : p # q => seen[p].attempts # seen[q].attempts

\* As long as nobody is pardoned, every wrong password counts, and the one
\* that reaches the limit locks, unless two logins have read the same count:
\* then one write erases the other, and the lockout with it (login).
FailuresAreCounted ==
    \A u \in Known : ~ Pardoned(u) /\ FailedInTurn(u) =>
        /\ account[u].attempts = Cardinality(Failures(u))
        /\ account[u].lockout # "none" <=> Cardinality(Failures(u)) >= LoginAttempts

\* A code that was sent is good for one verification or one reset, however
\* many handlers present it at the same time (OtpService.verify).
CodesAreSpentOnce ==
    \A p, q \in Procs : p # q /\ spent[p] # None /\ spent[q] # None =>
        spent[p].by # spent[q].by

\* Whoever holds a session has a verified phone, and an account that was
\* registered here got it by a code sent to that phone for that purpose
\* (verifyOtp, and the check in login).
SessionsAreVerified ==
    \A i \in DOMAIN tokens : LET u == tokens[i].user IN
        /\ u \in Known
        /\ account[u].verified
        /\ u # Seed => \E p \in Procs :
             /\ spent[p] # None
             /\ req[p].phone = account[u].phone
             /\ DOMAIN req[p] = {"phone", "code"}

\* A refresh hands out the new token only when the row it compared the old
\* one with is revoked, even if the server dies or others log in in between
\* (refreshToken: update, then generateTokens).
ExchangedIsRevoked ==
    \A i \in DOMAIN tokens : LET p == tokens[i].by IN
        stored[p] # 0 => stored[p] < i /\ tokens[stored[p]].revoked

\* A client is told the truth: a conflict names an account that is there, a
\* registration exists, a login stored one session, a refusal none.
AnswersAreTrue ==
    \A p \in Procs :
        LET issued == {i \in DOMAIN tokens : tokens[i].by = p} IN
        /\ pc[p] = "registered" => p \in Known
        /\ pc[p] = "conflict" => p \notin Known /\ Taken(req[p])
        /\ pc[p] = "loggedIn" => Cardinality(issued) = 1
        /\ pc[p] \in {"refused", "failed", "lost"} => issued = {}
===============================================================================
