------------------------------ MODULE Accounts ------------------------------
(***************************************************************************)
(* One account of the backend: its row in users, its sessions, the limits  *)
(* on guessing, a provider's document, a staff member's role, and the      *)
(* requests in flight.  No handler relates two accounts, so one is enough. *)
(*                                                                         *)
(* A handler reads rows, waits (bcrypt, mail, the database) and writes; a  *)
(* request holds what was read.  Checking the access token (JwtAuthGuard)  *)
(* is one step with the first read of the handler behind it: the guard     *)
(* only reads, and a session that is live at its second read was live at   *)
(* its first.  A request may stop between two statements (Crash).          *)
(***************************************************************************)
EXTENDS Naturals, FiniteSets

CONSTANTS
  Request,       \* requests that may be in flight at once
  Session,       \* rows of auth_sessions that can be created
  MaxFailures,   \* LOGIN_RATE_LIMIT_MAX_FAILED_ATTEMPTS
  MaxTries,      \* wrong codes before a code is locked
  MaxResends,    \* verification mails per address and window
  MaxPasswords   \* bound of the model: times the password can change

ASSUME AccountsAssumption ==
  /\ IsFiniteSet(Request)
  /\ MaxFailures \in Nat \ {0} /\ MaxTries \in Nat \ {0}
  /\ MaxResends \in Nat /\ MaxPasswords \in Nat

VARIABLES user, session, limit, docs, roleRow, req

vars == <<user, session, limit, docs, roleRow, req>>

Role     == {"REGISTERED_USER", "PROVIDER", "STAFF"}
Status   == {"PENDING", "APPROVED", "REJECTED", "SUSPENDED", "BLOCKED"}
Standing == {"PENDING", "APPROVED"}
Ended    == {"SUSPENDED", "BLOCKED"}
NoSession == "none"

\* code, reset: an unexpired verification or reset code is stored.  owed (history):
\* the statement that ends the account's sessions has not run, or was lost.
UserRow == [role : Role, status : Status \cup {"ABSENT", "DELETED"}, pwd : Nat,
            code : BOOLEAN, tries : Nat, reset : BOOLEAN, resetTries : Nat,
            staffRole : BOOLEAN, owed : BOOLEAN]

\* pwd, late (history): the password compared when the session was opened, and
\* whether that request was overtaken by a new password or an end of the account.
SessionRow == [state : {"free", "live", "revoked", "deleted"}, hashed : BOOLEAN,
               pwd : Nat, late : BOOLEAN]

Free == [state |-> "free", hashed |-> FALSE, pwd |-> 0, late |-> FALSE]

\* What a request holds between two statements: read is the status it has read.
Job == [op : {"idle", "compare", "open", "store", "verify", "miss", "missReset",
              "mailed", "setPwd", "changePwd", "delete", "decide", "revoke",
              "info", "dropRole"},
        s : Session \cup {NoSession}, pwd : Nat, late : BOOLEAN, login : BOOLEAN,
        read : Status \cup {"ABSENT", "DELETED"}, to : Status, revoke : BOOLEAN]

Idle == [op |-> "idle", s |-> NoSession, pwd |-> 0, late |-> FALSE, login |-> FALSE,
         read |-> "ABSENT", to |-> "PENDING", revoke |-> FALSE]

Exists == user.status \notin {"ABSENT", "DELETED"}
Live(s) == session[s].state = "live"

\* JwtAuthGuard: an account in standing, a session that is not revoked, a staff role.
Guard(s) == /\ user.status \in Standing
            /\ Live(s)
            /\ user.role = "STAFF" => user.staffRole

Start(r, job) == req[r] = Idle /\ req' = [req EXCEPT ![r] = job]
Finish(r)     == req' = [req EXCEPT ![r] = Idle]
Continue(r, job) == req' = [req EXCEPT ![r] = job]

\* Requests on their way to a new session are overtaken by what the step does.
Overtake(r, job) ==
  req' = [q \in Request |->
            IF q = r THEN job
            ELSE IF req[q].op \in {"compare", "open"} THEN [req[q] EXCEPT !.late = TRUE]
            ELSE req[q]]

\* updateMany({ userId, revokedAt: null }, { revokedAt: now })
RevokeWhere(Which) ==
  session' = [s \in Session |-> IF s \in Which /\ Live(s)
                                THEN [session[s] EXCEPT !.state = "revoked"]
                                ELSE session[s]]

DropAll ==
  session' = [s \in Session |-> IF session[s].state = "free" THEN session[s]
                                ELSE [session[s] EXCEPT !.state = "deleted"]]

-----------------------------------------------------------------------------
(* Creation *)

NewRow(status, staffRole) ==
  user' = [user EXCEPT !.status = status, !.code = TRUE, !.staffRole = staffRole]

\* The row, the mail, then a first session.
Register(r, role) ==
  /\ user.status = "ABSENT" /\ user.role = role
  /\ NewRow("PENDING", FALSE)
  /\ Start(r, [Idle EXCEPT !.op = "open"])
  /\ UNCHANGED <<session, limit, docs, roleRow>>

RegisterUser(r)     == Register(r, "REGISTERED_USER")
RegisterProvider(r) == Register(r, "PROVIDER")

\* An administrator creates a provider, pending or blocked.
CreateProvider ==
  /\ user.status = "ABSENT" /\ user.role = "PROVIDER"
  /\ \E status \in {"PENDING", "BLOCKED"} :
       user' = [user EXCEPT !.status = status]
  /\ UNCHANGED <<session, limit, docs, roleRow, req>>

\* An administrator creates a member of staff, with a role that exists.
CreateStaff ==
  /\ user.status = "ABSENT" /\ user.role = "STAFF" /\ roleRow
  /\ \E status \in {"APPROVED", "BLOCKED"} : NewRow(status, TRUE)
  /\ UNCHANGED <<session, limit, docs, roleRow, req>>

-----------------------------------------------------------------------------
(* Login, refresh and logout *)

\* Mutant: one guess more.
MutantLoginAllowed == limit.failures <= MaxFailures

LoginAllowed == limit.failures < MaxFailures

MayLogin == user.status = "APPROVED" /\ (user.role = "STAFF" => user.staffRole)

RecordFailedLogin == limit' = [limit EXCEPT !.failures = @ + 1]

Login(r) ==
  /\ LoginAllowed
  /\ Start(r, [Idle EXCEPT !.op = "compare", !.pwd = user.pwd, !.login = MayLogin])
  /\ UNCHANGED <<user, session, limit, docs, roleRow>>

\* No such account, a wrong password, a status that may not log in, no staff role.
LoginRejected(r) ==
  /\ req[r].op = "compare"
  /\ RecordFailedLogin
  /\ Finish(r)
  /\ UNCHANGED <<user, session, docs, roleRow>>

LoginCompared(r) ==
  /\ req[r].op = "compare" /\ req[r].login
  /\ Continue(r, [req[r] EXCEPT !.op = "open"])
  /\ UNCHANGED <<user, session, limit, docs, roleRow>>

\* issueTokens without a session: a row whose hash is still 'pending'.
CreateRefreshSession(r, s) ==
  /\ req[r].op = "open" /\ Exists
  /\ session[s] = Free
  /\ session' = [session EXCEPT ![s] = [state |-> "live", hashed |-> FALSE,
                                        pwd |-> req[r].pwd, late |-> req[r].late]]
  /\ Continue(r, [Idle EXCEPT !.op = "store", !.s = s, !.login = req[r].login])
  /\ UNCHANGED <<user, limit, docs, roleRow>>

\* Mutant: the row is written as a new one, no longer revoked.
MutantStoreRefreshTokenHash(r) ==
  /\ req[r].op = "store" /\ session[req[r].s].state \in {"live", "revoked"}
  /\ session' = [session EXCEPT ![req[r].s].hashed = TRUE, ![req[r].s].state = "live"]
  /\ limit' = IF req[r].login THEN [limit EXCEPT !.failures = 0] ELSE limit
  /\ Finish(r)
  /\ UNCHANGED <<user, docs, roleRow>>

\* storeRefreshTokenHash, whatever became of the session but its deletion; a login
\* then clears the failures of its address.
StoreRefreshTokenHash(r) ==
  /\ req[r].op = "store" /\ session[req[r].s].state \in {"live", "revoked"}
  /\ session' = [session EXCEPT ![req[r].s].hashed = TRUE]
  /\ limit' = IF req[r].login THEN [limit EXCEPT !.failures = 0] ELSE limit
  /\ Finish(r)
  /\ UNCHANGED <<user, docs, roleRow>>

\* bcrypt reads 72 bytes, and those of every refresh token of one account are the
\* same, so the comparison only fails on a hash that is still 'pending'.
Refresh(r, s) ==
  /\ user.status \in Standing
  /\ Live(s) /\ session[s].hashed
  /\ Start(r, [Idle EXCEPT !.op = "store", !.s = s])
  /\ UNCHANGED <<user, session, limit, docs, roleRow>>

Logout(s) ==
  /\ Guard(s)
  /\ RevokeWhere({s})
  /\ UNCHANGED <<user, limit, docs, roleRow, req>>

LogoutAllSessions(s) ==
  /\ Guard(s)
  /\ RevokeWhere(Session \ {s})
  /\ UNCHANGED <<user, limit, docs, roleRow, req>>

RevokeSession(s, t) ==
  /\ Guard(s) /\ Live(t)
  /\ session' = [session EXCEPT ![t].state = "deleted"]
  /\ UNCHANGED <<user, limit, docs, roleRow, req>>

-----------------------------------------------------------------------------
(* Codes *)

\* Mutant: the status is not asked for.
MutantAnswerCode(r, right) ==
  /\ Exists /\ user.tries < MaxTries
  /\ right => user.code
  /\ Start(r, IF right THEN [Idle EXCEPT !.op = "verify", !.read = user.status]
                       ELSE [Idle EXCEPT !.op = "miss"])
  /\ UNCHANGED <<user, session, limit, docs, roleRow>>

\* The answer to a verification code, from the row as it was read.
AnswerCode(r, right) ==
  /\ user.status = "PENDING" /\ user.tries < MaxTries
  /\ right => user.code
  /\ Start(r, IF right THEN [Idle EXCEPT !.op = "verify", !.read = user.status]
                       ELSE [Idle EXCEPT !.op = "miss"])
  /\ UNCHANGED <<user, session, limit, docs, roleRow>>

VerifyEmail(r, s) == Guard(s) /\ \E right \in BOOLEAN : AnswerCode(r, right)

\* userFromResetOtp
MayTryReset == Exists /\ user.resetTries < MaxTries

\* verifyResetOtp needs no session: it verifies the address of a pending account,
\* and otherwise counts a wrong reset code (a right one changes nothing).
VerifyResetOtp(r) ==
  \/ \E right \in BOOLEAN : AnswerCode(r, right)
  \/ /\ user.status # "PENDING" /\ MayTryReset
     /\ Start(r, [Idle EXCEPT !.op = "missReset"])
     /\ UNCHANGED <<user, session, limit, docs, roleRow>>

MarkEmailVerified(r) ==
  /\ req[r].op = "verify" /\ Exists
  /\ user' = [user EXCEPT !.status = "APPROVED", !.code = FALSE, !.tries = 0]
  /\ Finish(r)
  /\ UNCHANGED <<session, limit, docs, roleRow>>

IncrementVerificationOtpAttempts(r) ==
  /\ req[r].op = "miss" /\ Exists
  /\ user' = [user EXCEPT !.tries = @ + 1]
  /\ Finish(r)
  /\ UNCHANGED <<session, limit, docs, roleRow>>

IncrementResetPasswordOtpAttempts(r) ==
  /\ req[r].op = "missReset" /\ Exists
  /\ user' = [user EXCEPT !.resetTries = @ + 1]
  /\ Finish(r)
  /\ UNCHANGED <<session, limit, docs, roleRow>>

StoreVerificationOtp == user' = [user EXCEPT !.code = TRUE, !.tries = 0]

ResendVerification(s) ==
  /\ Guard(s) /\ user.status = "PENDING"
  /\ StoreVerificationOtp
  /\ UNCHANGED <<session, limit, docs, roleRow, req>>

\* Without a session: limited by address, and silent when nothing is pending.
ResendVerificationEmail ==
  /\ limit.resends < MaxResends
  /\ limit' = [limit EXCEPT !.resends = @ + 1]
  /\ IF user.status = "PENDING" THEN StoreVerificationOtp ELSE UNCHANGED user
  /\ UNCHANGED <<session, docs, roleRow, req>>

\* The code is stored; then the mail, whose failure takes the code back.
ForgotPassword(r) ==
  /\ Exists
  /\ user' = [user EXCEPT !.reset = TRUE, !.resetTries = 0]
  /\ Start(r, [Idle EXCEPT !.op = "mailed"])
  /\ UNCHANGED <<session, limit, docs, roleRow>>

ResetMailFailed(r) ==
  /\ req[r].op = "mailed" /\ Exists
  /\ user' = [user EXCEPT !.reset = FALSE, !.resetTries = 0]
  /\ Finish(r)
  /\ UNCHANGED <<session, limit, docs, roleRow>>

ResetPassword(r) ==
  /\ MayTryReset
  /\ \/ user.reset /\ Start(r, [Idle EXCEPT !.op = "setPwd"])
     \/ Start(r, [Idle EXCEPT !.op = "missReset"])
  /\ UNCHANGED <<user, session, limit, docs, roleRow>>

CodeExpires ==
  /\ \/ user.code /\ user' = [user EXCEPT !.code = FALSE]
     \/ user.reset /\ user' = [user EXCEPT !.reset = FALSE]
  /\ UNCHANGED <<session, limit, docs, roleRow, req>>

-----------------------------------------------------------------------------
(* Passwords: the new hash and the end of every session in one transaction *)

NewPassword(cleared) ==
  /\ user.pwd < MaxPasswords
  /\ user' = [user EXCEPT !.pwd = @ + 1, !.owed = FALSE,
                          !.reset = @ /\ ~cleared,
                          !.resetTries = IF cleared THEN 0 ELSE @]
  /\ RevokeWhere(Session)

CommitReset(r) ==
  /\ req[r].op = "setPwd" /\ Exists
  /\ NewPassword(TRUE)
  /\ Overtake(r, Idle)
  /\ UNCHANGED <<limit, docs, roleRow>>

\* The current password was compared with the row read behind the guard.
ChangePassword(r, s) ==
  /\ Guard(s)
  /\ Start(r, [Idle EXCEPT !.op = "changePwd"])
  /\ UNCHANGED <<user, session, limit, docs, roleRow>>

CommitChange(r) ==
  /\ req[r].op = "changePwd" /\ Exists
  /\ NewPassword(FALSE)
  /\ Overtake(r, Idle)
  /\ UNCHANGED <<limit, docs, roleRow>>

AdminResetPassword(r, role, cleared) ==
  /\ Exists /\ user.role = role /\ req[r] = Idle
  /\ NewPassword(cleared)
  /\ Overtake(r, Idle)
  /\ UNCHANGED <<limit, docs, roleRow>>

\* That of user management clears the reset code, that of staff does not.
ResetUserPassword(r)  == AdminResetPassword(r, "REGISTERED_USER", TRUE)
ResetStaffPassword(r) == AdminResetPassword(r, "STAFF", FALSE)

\* A password in the staff update: the row first, the sessions in a second statement.
UpdateStaffPassword(r) ==
  /\ Exists /\ user.role = "STAFF" /\ req[r] = Idle /\ user.pwd < MaxPasswords
  /\ user' = [user EXCEPT !.pwd = @ + 1, !.owed = TRUE]
  /\ Overtake(r, [Idle EXCEPT !.op = "revoke"])
  /\ UNCHANGED <<session, limit, docs, roleRow>>

-----------------------------------------------------------------------------
(* Decisions of administrators *)

\* hasAllRequiredDocsApproved
DocsApproved == ~docs.required \/ docs.mine = "APPROVED"

Decide(r, role, decisions) ==
  /\ Exists /\ user.role = role
  /\ \E d \in decisions :
       Start(r, [Idle EXCEPT !.op = "decide", !.to = d[1], !.revoke = d[2]])
  /\ UNCHANGED <<user, session, limit, docs, roleRow>>

\* The target status of each action and whether the sessions are ended after it.
\* UNSUSPEND asks for an account out of standing, but UPDATE_STATUS approves whatever it
\* finds.
UserDecisions     == {<<"APPROVED", FALSE>>, <<"SUSPENDED", TRUE>>, <<"BLOCKED", TRUE>>}
ProviderDecisions == UserDecisions \cup {<<"REJECTED", FALSE>>}
StaffDecisions    == {<<"APPROVED", FALSE>>, <<"BLOCKED", TRUE>>}

UpdateUserStatus(r)     == Decide(r, "REGISTERED_USER", UserDecisions)
UpdateProviderStatus(r) == Decide(r, "PROVIDER", ProviderDecisions)
UpdateStaffStatus(r)    == Decide(r, "STAFF", StaffDecisions)

ApproveProvider(r) ==
  /\ DocsApproved
  /\ Decide(r, "PROVIDER", {<<"APPROVED", FALSE>>})

UpdateAccountStatus(r) ==
  /\ req[r].op = "decide" /\ Exists
  /\ user' = [user EXCEPT !.status = req[r].to, !.owed = @ \/ req[r].revoke]
  /\ IF req[r].revoke THEN Overtake(r, [Idle EXCEPT !.op = "revoke"]) ELSE Finish(r)
  /\ UNCHANGED <<session, limit, docs, roleRow>>

InvalidateActiveSessions(r) ==
  /\ req[r].op = "revoke"
  /\ RevokeWhere(Session)
  /\ user' = [user EXCEPT !.owed = FALSE]
  /\ Finish(r)
  /\ UNCHANGED <<limit, docs, roleRow>>

\* Deletion by the owner (not of staff) or by an administrator: sessions and row go
\* in one transaction, which rows that refer to the account may still refuse (Crash).
DeleteAccount(r, s) ==
  /\ Guard(s) /\ user.role # "STAFF"
  /\ Start(r, [Idle EXCEPT !.op = "delete"])
  /\ UNCHANGED <<user, session, limit, docs, roleRow>>

PermanentlyDelete(r, role) ==
  /\ Exists /\ user.role = role
  /\ Start(r, [Idle EXCEPT !.op = "delete"])
  /\ UNCHANGED <<user, session, limit, docs, roleRow>>

PermanentlyDeleteUser(r)     == PermanentlyDelete(r, "REGISTERED_USER")
PermanentlyDeleteProvider(r) == PermanentlyDelete(r, "PROVIDER")
PermanentlyDeleteStaff(r)    == PermanentlyDelete(r, "STAFF")

DeleteRows(r, role) ==
  /\ req[r].op = "delete" /\ Exists /\ user.role = role
  /\ user' = [user EXCEPT !.status = "DELETED"]
  /\ DropAll
  /\ Finish(r)
  /\ UNCHANGED <<limit, docs, roleRow>>

DeleteRegisteredUserPermanently(r) == DeleteRows(r, "REGISTERED_USER")
DeleteProviderPermanently(r)       == DeleteRows(r, "PROVIDER")
DeleteAdminPermanently(r)          == DeleteRows(r, "STAFF")

-----------------------------------------------------------------------------
(* A provider's business information and document *)

\* A material change asks for a new review; any other writes the status it has read.
UpdateBusinessInfo(r, s) ==
  /\ Guard(s) /\ user.role = "PROVIDER"
  /\ \E to \in {"PENDING", user.status} :
       Start(r, [Idle EXCEPT !.op = "info", !.read = user.status, !.to = to])
  /\ UNCHANGED <<user, session, limit, docs, roleRow>>

UpdateProvider(r) ==
  /\ req[r].op = "info" /\ Exists
  /\ user' = [user EXCEPT !.status = req[r].to]
  /\ Finish(r)
  /\ UNCHANGED <<session, limit, docs, roleRow>>

\* The administrator's list of documents makes one required, or no longer.
UpdateDocument ==
  /\ docs' = [docs EXCEPT !.required = ~@]
  /\ UNCHANGED <<user, session, limit, roleRow, req>>

\* A first submission, or a new file for one already there: both wait for review.
SubmitDocument ==
  /\ Exists /\ user.role = "PROVIDER" /\ docs.mine # "PENDING"
  /\ docs' = [docs EXCEPT !.mine = "PENDING"]
  /\ UNCHANGED <<user, session, limit, roleRow, req>>

ReviewDocument ==
  /\ docs.mine # "NONE"
  /\ \E status \in {"APPROVED", "REJECTED"} : docs' = [docs EXCEPT !.mine = status]
  /\ UNCHANGED <<user, session, limit, roleRow, req>>

-----------------------------------------------------------------------------
(* Staff roles *)

CreateStaffRole ==
  /\ ~roleRow
  /\ roleRow' = TRUE
  /\ UNCHANGED <<user, session, limit, docs, req>>

AssignStaffRole ==
  /\ Exists /\ user.role = "STAFF" /\ roleRow
  /\ user' = [user EXCEPT !.staffRole = TRUE]
  /\ UNCHANGED <<session, limit, docs, roleRow, req>>

\* The members are counted first; the key of a member added since is set to null.
DeleteStaffRole(r) ==
  /\ roleRow /\ ~user.staffRole
  /\ Start(r, [Idle EXCEPT !.op = "dropRole"])
  /\ UNCHANGED <<user, session, limit, docs, roleRow>>

DropStaffRole(r) ==
  /\ req[r].op = "dropRole" /\ roleRow
  /\ roleRow' = FALSE
  /\ user' = [user EXCEPT !.staffRole = FALSE]
  /\ Finish(r)
  /\ UNCHANGED <<session, limit, docs>>

-----------------------------------------------------------------------------
\* A request that stops: the client goes away, a statement fails, the mail is sent.
Crash(r) == req[r] # Idle /\ Finish(r) /\ UNCHANGED <<user, session, limit, docs, roleRow>>

\* A window of the in-memory limits ends, or the process restarts.
WindowEnds ==
  /\ limit' \in {[limit EXCEPT !.failures = 0], [limit EXCEPT !.resends = 0]}
  /\ limit' # limit
  /\ UNCHANGED <<user, session, docs, roleRow, req>>

Init ==
  /\ \E role \in Role :
       user = [role |-> role, status |-> "ABSENT", pwd |-> 0, code |-> FALSE,
               tries |-> 0, reset |-> FALSE, resetTries |-> 0,
               staffRole |-> FALSE, owed |-> FALSE]
  /\ session = [s \in Session |-> Free]
  /\ limit = [failures |-> 0, resends |-> 0]
  /\ docs = [required |-> TRUE, mine |-> "NONE"]
  /\ roleRow = TRUE
  /\ req = [r \in Request |-> Idle]

Opening(r) == Login(r) \/ LoginRejected(r) \/ LoginCompared(r) \/ StoreRefreshTokenHash(r)
              \/ \E s \in Session : CreateRefreshSession(r, s) \/ Refresh(r, s)

Codes(r) == \/ VerifyResetOtp(r) \/ ForgotPassword(r) \/ ResetPassword(r)
            \/ MarkEmailVerified(r) \/ IncrementVerificationOtpAttempts(r)
            \/ IncrementResetPasswordOtpAttempts(r) \/ ResetMailFailed(r)
            \/ \E s \in Session : VerifyEmail(r, s)

Passwords(r) == \/ CommitReset(r) \/ CommitChange(r) \/ ResetUserPassword(r)
                \/ ResetStaffPassword(r) \/ UpdateStaffPassword(r)
                \/ \E s \in Session : ChangePassword(r, s)

Deciding(r) == \/ UpdateUserStatus(r) \/ UpdateProviderStatus(r) \/ UpdateStaffStatus(r)
               \/ ApproveProvider(r) \/ UpdateAccountStatus(r) \/ InvalidateActiveSessions(r)
               \/ UpdateProvider(r)
               \/ \E s \in Session : UpdateBusinessInfo(r, s)

Deleting(r) == \/ PermanentlyDeleteUser(r) \/ PermanentlyDeleteProvider(r)
               \/ PermanentlyDeleteStaff(r) \/ DeleteRegisteredUserPermanently(r)
               \/ DeleteProviderPermanently(r) \/ DeleteAdminPermanently(r)
               \/ \E s \in Session : DeleteAccount(r, s)

Roles(r) == DeleteStaffRole(r) \/ DropStaffRole(r)

Alone == \/ CreateProvider \/ CreateStaff \/ ResendVerificationEmail \/ CodeExpires
         \/ UpdateDocument \/ SubmitDocument \/ ReviewDocument
         \/ CreateStaffRole \/ AssignStaffRole \/ WindowEnds
         \/ \E s \in Session : Logout(s) \/ LogoutAllSessions(s) \/ ResendVerification(s)
         \/ \E s, t \in Session : RevokeSession(s, t)

Next == \/ Alone
        \/ \E r \in Request : \/ RegisterUser(r) \/ RegisterProvider(r) \/ Opening(r)
                              \/ Codes(r) \/ Passwords(r) \/ Deciding(r) \/ Deleting(r)
                              \/ Roles(r) \/ Crash(r)

Spec == Init /\ [][Next]_vars

-----------------------------------------------------------------------------
(* Properties *)

\* Every row and every request in flight has the shape the code gives it.
TypeOK ==
  /\ user \in UserRow
  /\ session \in [Session -> SessionRow]
  /\ limit \in [failures : Nat, resends : 0 .. MaxResends]
  /\ docs \in [required : BOOLEAN, mine : {"NONE", "PENDING", "APPROVED", "REJECTED"}]
  /\ roleRow \in BOOLEAN
  /\ req \in [Request -> Job]

\* Passwords and codes are guessed against a limit read before the guess is counted;
\* however the requests overlap, it is passed by at most one guess for each request.
GuessesAreLimited ==
  LET Beyond(max) == max - 1 + Cardinality(Request)
  IN /\ limit.failures <= Beyond(MaxFailures)
     /\ user.tries <= Beyond(MaxTries)
     /\ user.resetTries <= Beyond(MaxTries)

\* After a new password, a suspension, a block or a deletion no session opened
\* before it is usable, unless the statement that ends the sessions has not run yet
\* (or was lost) or the session's own login overlapped the change.
EndedAccessEnds ==
  \A s \in Session :
    Live(s) /\ ~session[s].late /\ ~user.owed =>
      user.status \notin Ended \cup {"DELETED"} /\ session[s].pwd = user.pwd

\* A suspended or blocked account is back in standing only by an administrator's
\* decision, or by a request that had read the account before it was ended.
SuspensionHolds ==
  [][user.status \in Ended /\ user'.status \in Standing =>
       \E r \in Request : \/ req[r].op = "decide" /\ req[r].to = user'.status
                          \/ req[r].op \in {"verify", "info"} /\ req[r].read \in Standing]_vars

=============================================================================
