--------------------------- MODULE AccountsProofs ---------------------------
(***************************************************************************)
(* Proofs about Accounts for any number of sessions, of overlapping        *)
(* requests and of stops between two statements, and for all limits; about *)
(* Chats for every set of messages, parties and strangers; and about       *)
(* Access for every set of permissions a role may be granted.              *)
(***************************************************************************)
EXTENDS Accounts, Chats, Access, FiniteSetTheorems, TLAPS

-----------------------------------------------------------------------------
(* The invariant.                                                          *)

UserOK(u) == /\ u \in UserRow
             /\ u.status = "ABSENT" => u.pwd = 0

\* A request that still leads to a session, and that nothing has overtaken.
Leads(q) == /\ ~q.late
            /\ q.op = "open" \/ (q.op = "compare" /\ q.login)

\* What a request may write is what the row it has read allows.
JobOK(u, q) ==
  /\ q \in Job
  /\ q.op = "decide" /\ q.to \in Ended => q.revoke
  /\ q.op = "info" => q.to \in Standing /\ q.read \in Standing
  /\ q.op = "verify" => q.read \in Standing
  /\ Leads(q) => q.pwd = u.pwd /\ u.status \notin Ended \cup {"ABSENT"}

SessionOK(u, x) ==
  /\ x \in SessionRow
  /\ x.state = "live" => u.status \notin {"ABSENT", "DELETED"}
  /\ x.state = "live" /\ ~x.late /\ ~u.owed => u.status \notin Ended /\ x.pwd = u.pwd

\* The requests that have been let through to a guess and have not counted it yet.
Waiting(rq, op) == {r \in Request : rq[r].op = op}
Guess(n, rq, op, max) ==
  n \in Nat /\ n + Cardinality(Waiting(rq, op)) <= max - 1 + Cardinality(Request)

Guesses(u, l, rq) == /\ Guess(l.failures, rq, "compare", MaxFailures)
                     /\ Guess(u.tries, rq, "miss", MaxTries)
                     /\ Guess(u.resetTries, rq, "missReset", MaxTries)

IInv == /\ TypeOK
        /\ UserOK(user)
        /\ \A r \in Request : JobOK(user, req[r])
        /\ \A s \in Session : SessionOK(user, session[s])
        /\ Guesses(user, limit, req)

\* What SuspensionHolds says of a step.
Reinstatement ==
  user.status \in Ended /\ user'.status \in Standing =>
    \E r \in Request : \/ req[r].op = "decide" /\ req[r].to = user'.status
                       \/ req[r].op \in {"verify", "info"} /\ req[r].read \in Standing

-----------------------------------------------------------------------------
(* What the writes make of a user.                                         *)

LEMMA UserFields ==
  ASSUME NEW u \in UserRow
  PROVE  /\ u.role \in Role /\ u.status \in Status \cup {"ABSENT", "DELETED"}
         /\ u.pwd \in Nat /\ u.code \in BOOLEAN /\ u.tries \in Nat /\ u.reset \in BOOLEAN
         /\ u.resetTries \in Nat /\ u.staffRole \in BOOLEAN /\ u.owed \in BOOLEAN
BY Zenon DEF UserRow

Created(u, st, sr) == [u EXCEPT !.status = st, !.code = TRUE, !.staffRole = sr]
Judged(u, st) == [u EXCEPT !.status = st]
Verified(u) == [u EXCEPT !.status = "APPROVED", !.code = FALSE, !.tries = 0]
Tried(u) == [u EXCEPT !.tries = @ + 1]
ResetTried(u) == [u EXCEPT !.resetTries = @ + 1]
Mailed(u) == [u EXCEPT !.code = TRUE, !.tries = 0]
ResetMailed(u, b) == [u EXCEPT !.reset = b, !.resetTries = 0]
CodeGone(u) == [u EXCEPT !.code = FALSE]
ResetGone(u) == [u EXCEPT !.reset = FALSE]
Renewed(u, cleared) == [u EXCEPT !.pwd = @ + 1, !.owed = FALSE, !.reset = @ /\ ~cleared,
                                 !.resetTries = IF cleared THEN 0 ELSE @]
Rekeyed(u) == [u EXCEPT !.pwd = @ + 1, !.owed = TRUE]
Ruled(u, st, b) == [u EXCEPT !.status = st, !.owed = @ \/ b]
Settled(u) == [u EXCEPT !.owed = FALSE]
Staffed(u, b) == [u EXCEPT !.staffRole = b]

LEMMA CreatedUser ==
  ASSUME NEW u \in UserRow, NEW st \in Status, NEW sr \in BOOLEAN
  PROVE  /\ Created(u, st, sr) \in UserRow /\ Created(u, st, sr).status = st
         /\ Created(u, st, sr).pwd = u.pwd /\ Created(u, st, sr).owed = u.owed
         /\ Created(u, st, sr).tries = u.tries /\ Created(u, st, sr).resetTries = u.resetTries
<1>1. st \in Status \cup {"ABSENT", "DELETED"} /\ TRUE \in BOOLEAN
  OBVIOUS
<1> QED
  BY <1>1, Zenon DEF UserRow, Created

LEMMA JudgedUser ==
  ASSUME NEW u \in UserRow, NEW st \in Status \cup {"DELETED"}
  PROVE  /\ Judged(u, st) \in UserRow /\ Judged(u, st).status = st
         /\ Judged(u, st).pwd = u.pwd /\ Judged(u, st).owed = u.owed
         /\ Judged(u, st).tries = u.tries /\ Judged(u, st).resetTries = u.resetTries
<1>1. st \in Status \cup {"ABSENT", "DELETED"}
  OBVIOUS
<1> QED
  BY <1>1, Zenon DEF UserRow, Judged

LEMMA VerifiedUser ==
  ASSUME NEW u \in UserRow
  PROVE  /\ Verified(u) \in UserRow /\ Verified(u).status = "APPROVED"
         /\ Verified(u).pwd = u.pwd /\ Verified(u).owed = u.owed
         /\ Verified(u).tries = 0 /\ Verified(u).resetTries = u.resetTries
<1>1. "APPROVED" \in Status \cup {"ABSENT", "DELETED"} /\ FALSE \in BOOLEAN /\ 0 \in Nat
  BY DEF Status
<1> QED
  BY <1>1, Zenon DEF UserRow, Verified

LEMMA TriedUser ==
  ASSUME NEW u \in UserRow
  PROVE  /\ Tried(u) \in UserRow /\ Tried(u).status = u.status
         /\ Tried(u).pwd = u.pwd /\ Tried(u).owed = u.owed
         /\ Tried(u).tries = u.tries + 1 /\ Tried(u).resetTries = u.resetTries
         /\ ResetTried(u) \in UserRow /\ ResetTried(u).status = u.status
         /\ ResetTried(u).pwd = u.pwd /\ ResetTried(u).owed = u.owed
         /\ ResetTried(u).tries = u.tries /\ ResetTried(u).resetTries = u.resetTries + 1
<1>1. u.tries + 1 \in Nat /\ u.resetTries + 1 \in Nat
  BY UserFields
<1> QED
  BY <1>1, Zenon DEF UserRow, Tried, ResetTried

LEMMA MailedUser ==
  ASSUME NEW u \in UserRow
  PROVE  /\ Mailed(u) \in UserRow /\ Mailed(u).status = u.status
         /\ Mailed(u).pwd = u.pwd /\ Mailed(u).owed = u.owed
         /\ Mailed(u).tries = 0 /\ Mailed(u).resetTries = u.resetTries
<1>1. TRUE \in BOOLEAN /\ 0 \in Nat
  OBVIOUS
<1> QED
  BY <1>1, Zenon DEF UserRow, Mailed

LEMMA ResetMailedUser ==
  ASSUME NEW u \in UserRow, NEW b \in BOOLEAN
  PROVE  /\ ResetMailed(u, b) \in UserRow /\ ResetMailed(u, b).status = u.status
         /\ ResetMailed(u, b).pwd = u.pwd /\ ResetMailed(u, b).owed = u.owed
         /\ ResetMailed(u, b).tries = u.tries /\ ResetMailed(u, b).resetTries = 0
<1>1. 0 \in Nat
  OBVIOUS
<1> QED
  BY <1>1, Zenon DEF UserRow, ResetMailed

LEMMA ExpiredUser ==
  ASSUME NEW u \in UserRow
  PROVE  /\ CodeGone(u) \in UserRow /\ CodeGone(u).status = u.status
         /\ CodeGone(u).pwd = u.pwd /\ CodeGone(u).owed = u.owed
         /\ CodeGone(u).tries = u.tries /\ CodeGone(u).resetTries = u.resetTries
         /\ ResetGone(u) \in UserRow /\ ResetGone(u).status = u.status
         /\ ResetGone(u).pwd = u.pwd /\ ResetGone(u).owed = u.owed
         /\ ResetGone(u).tries = u.tries /\ ResetGone(u).resetTries = u.resetTries
<1>1. FALSE \in BOOLEAN
  OBVIOUS
<1> QED
  BY <1>1, Zenon DEF UserRow, CodeGone, ResetGone

LEMMA RenewedUser ==
  ASSUME NEW u \in UserRow, NEW cleared \in BOOLEAN
  PROVE  /\ Renewed(u, cleared) \in UserRow /\ Renewed(u, cleared).status = u.status
         /\ Renewed(u, cleared).tries = u.tries
         /\ Renewed(u, cleared).resetTries \in {0, u.resetTries}
<1> DEFINE tries == IF cleared THEN 0 ELSE u.resetTries
           reset == u.reset /\ ~cleared
<1>1. /\ u.pwd + 1 \in Nat /\ FALSE \in BOOLEAN /\ reset \in BOOLEAN
      /\ tries \in Nat /\ tries \in {0, u.resetTries}
  BY UserFields
<1> QED
  BY <1>1, Zenon DEF UserRow, Renewed

LEMMA RekeyedUser ==
  ASSUME NEW u \in UserRow
  PROVE  /\ Rekeyed(u) \in UserRow /\ Rekeyed(u).status = u.status /\ Rekeyed(u).owed = TRUE
         /\ Rekeyed(u).tries = u.tries /\ Rekeyed(u).resetTries = u.resetTries
<1>1. u.pwd + 1 \in Nat /\ TRUE \in BOOLEAN
  BY UserFields
<1> QED
  BY <1>1, Zenon DEF UserRow, Rekeyed

LEMMA RuledUser ==
  ASSUME NEW u \in UserRow, NEW st \in Status, NEW b \in BOOLEAN
  PROVE  /\ Ruled(u, st, b) \in UserRow /\ Ruled(u, st, b).status = st
         /\ Ruled(u, st, b).pwd = u.pwd /\ Ruled(u, st, b).owed = (u.owed \/ b)
         /\ Ruled(u, st, b).tries = u.tries /\ Ruled(u, st, b).resetTries = u.resetTries
<1>1. st \in Status \cup {"ABSENT", "DELETED"} /\ (u.owed \/ b) \in BOOLEAN
  OBVIOUS
<1> QED
  BY <1>1, Zenon DEF UserRow, Ruled

LEMMA SettledUser ==
  ASSUME NEW u \in UserRow
  PROVE  /\ Settled(u) \in UserRow /\ Settled(u).status = u.status
         /\ Settled(u).pwd = u.pwd
         /\ Settled(u).tries = u.tries /\ Settled(u).resetTries = u.resetTries
<1>1. FALSE \in BOOLEAN
  OBVIOUS
<1> QED
  BY <1>1, Zenon DEF UserRow, Settled

LEMMA StaffedUser ==
  ASSUME NEW u \in UserRow, NEW b \in BOOLEAN
  PROVE  /\ Staffed(u, b) \in UserRow /\ Staffed(u, b).status = u.status
         /\ Staffed(u, b).pwd = u.pwd /\ Staffed(u, b).owed = u.owed
         /\ Staffed(u, b).tries = u.tries /\ Staffed(u, b).resetTries = u.resetTries
BY Zenon DEF UserRow, Staffed

-----------------------------------------------------------------------------
(* What the writes make of a request and of a session.                     *)

Ops == {"idle", "compare", "open", "store", "verify", "miss", "missReset",
        "mailed", "setPwd", "changePwd", "delete", "decide", "revoke", "info", "dropRole"}

LEMMA JobFields ==
  ASSUME NEW q \in Job
  PROVE  /\ q.op \in Ops /\ q.s \in Session \cup {NoSession} /\ q.pwd \in Nat
         /\ q.late \in BOOLEAN /\ q.login \in BOOLEAN
         /\ q.read \in Status \cup {"ABSENT", "DELETED"} /\ q.to \in Status
         /\ q.revoke \in BOOLEAN
BY Zenon DEF Job, Ops

LEMMA IdleJob == Idle \in Job /\ Idle.op = "idle" /\ Idle.late = FALSE
<1>1. "idle" \in Ops /\ NoSession \in Session \cup {NoSession} /\ 0 \in Nat
      /\ FALSE \in BOOLEAN /\ "ABSENT" \in Status \cup {"ABSENT", "DELETED"}
      /\ "PENDING" \in Status
  BY DEF Ops, Status
<1> QED
  BY <1>1, Zenon DEF Job, Idle, Ops

WithOp(q, o) == [q EXCEPT !.op = o]
Comparing(pwd, login) == [Idle EXCEPT !.op = "compare", !.pwd = pwd, !.login = login]
Storing(s, login) == [Idle EXCEPT !.op = "store", !.s = s, !.login = login]
Refreshing(s) == [Idle EXCEPT !.op = "store", !.s = s]
Verifying(st) == [Idle EXCEPT !.op = "verify", !.read = st]
ToDecide(to, revoke) == [Idle EXCEPT !.op = "decide", !.to = to, !.revoke = revoke]
Editing(read, to) == [Idle EXCEPT !.op = "info", !.read = read, !.to = to]
Overtaken(q) == [q EXCEPT !.late = TRUE]

LEMMA JobWithOp ==
  ASSUME NEW q \in Job, NEW o \in Ops
  PROVE  /\ WithOp(q, o) \in Job /\ WithOp(q, o).op = o
         /\ WithOp(q, o).late = q.late /\ WithOp(q, o).pwd = q.pwd
BY Zenon DEF Job, WithOp, Ops

LEMMA OvertakenJob ==
  ASSUME NEW q \in Job
  PROVE  /\ Overtaken(q) \in Job /\ Overtaken(q).op = q.op /\ Overtaken(q).late = TRUE
<1>1. TRUE \in BOOLEAN
  OBVIOUS
<1> QED
  BY <1>1, Zenon DEF Job, Overtaken

LEMMA ComparingJob ==
  ASSUME NEW n \in Nat, NEW b \in BOOLEAN
  PROVE  /\ Comparing(n, b) \in Job /\ Comparing(n, b).op = "compare"
         /\ Comparing(n, b).pwd = n /\ Comparing(n, b).login = b
<1>1. "compare" \in Ops /\ Idle \in Job
  BY IdleJob DEF Ops
<1> QED
  BY <1>1, Zenon DEF Job, Comparing, Ops

LEMMA StoringJob ==
  ASSUME NEW b \in BOOLEAN, NEW s \in Session
  PROVE  /\ Storing(s, b) \in Job /\ Storing(s, b).op = "store"
         /\ Refreshing(s) \in Job /\ Refreshing(s).op = "store"
<1>1. /\ "store" \in Ops /\ s \in Session \cup {NoSession}
      /\ Idle \in Job
  BY IdleJob DEF Ops
<1> QED
  BY <1>1, Zenon DEF Job, Storing, Refreshing, Ops

LEMMA WritingJobs ==
  ASSUME NEW st \in Status, NEW to \in Status
  PROVE  /\ Verifying(st) \in Job /\ Verifying(st).op = "verify" /\ Verifying(st).read = st
         /\ Editing(st, to) \in Job /\ Editing(st, to).op = "info"
         /\ Editing(st, to).read = st /\ Editing(st, to).to = to
<1>1. /\ "verify" \in Ops /\ "info" \in Ops /\ Idle \in Job
      /\ st \in Status \cup {"ABSENT", "DELETED"}
  BY IdleJob DEF Ops
<1> QED
  BY <1>1, Zenon DEF Job, Verifying, Editing, Ops

LEMMA DecidingJob ==
  ASSUME NEW to \in Status, NEW b \in BOOLEAN
  PROVE  /\ ToDecide(to, b) \in Job /\ ToDecide(to, b).op = "decide"
         /\ ToDecide(to, b).to = to /\ ToDecide(to, b).revoke = b
<1>1. "decide" \in Ops /\ Idle \in Job
  BY IdleJob DEF Ops
<1> QED
  BY <1>1, Zenon DEF Job, ToDecide, Ops

States == {"free", "live", "revoked", "deleted"}
InState(x, st) == [x EXCEPT !.state = st]
Hashed(x) == [x EXCEPT !.hashed = TRUE]
Opened(pwd, late) == [state |-> "live", hashed |-> FALSE, pwd |-> pwd, late |-> late]

LEMMA SessionChange ==
  ASSUME NEW x \in SessionRow, NEW st \in States
  PROVE  /\ InState(x, st) \in SessionRow /\ InState(x, st).state = st
         /\ Hashed(x) \in SessionRow /\ Hashed(x).state = x.state
         /\ Hashed(x).late = x.late /\ Hashed(x).pwd = x.pwd
<1>1. TRUE \in BOOLEAN
  OBVIOUS
<1> QED
  BY <1>1, Zenon DEF SessionRow, InState, Hashed, States

LEMMA OpenedSession ==
  ASSUME NEW n \in Nat, NEW b \in BOOLEAN
  PROVE  /\ Opened(n, b) \in SessionRow /\ Opened(n, b).state = "live"
         /\ Opened(n, b).pwd = n /\ Opened(n, b).late = b
<1>1. "live" \in States /\ FALSE \in BOOLEAN
  BY DEF States
<1> QED
  BY <1>1, Zenon DEF SessionRow, Opened, States

-----------------------------------------------------------------------------
(* Counting the guesses.                                                   *)

LEMMA WaitingIsFinite ==
  ASSUME NEW rq, NEW op
  PROVE  /\ IsFiniteSet(Waiting(rq, op)) /\ Cardinality(Waiting(rq, op)) \in Nat
         /\ Cardinality(Request) \in Nat
         /\ Cardinality(Waiting(rq, op)) <= Cardinality(Request)
<1>1. Waiting(rq, op) \in SUBSET Request /\ IsFiniteSet(Request)
  BY AccountsAssumption DEF Waiting
<1> QED
  BY <1>1, FS_Subset, FS_CardinalityType

LEMMA FewerWait ==
  ASSUME NEW rq, NEW rq2, NEW op, Waiting(rq2, op) \subseteq Waiting(rq, op)
  PROVE  Cardinality(Waiting(rq2, op)) <= Cardinality(Waiting(rq, op))
BY WaitingIsFinite, FS_Subset

LEMMA OneFewerWaits ==
  ASSUME NEW rq, NEW rq2, NEW op, NEW r \in Waiting(rq, op),
         Waiting(rq2, op) \subseteq Waiting(rq, op) \ {r}
  PROVE  Cardinality(Waiting(rq2, op)) + 1 <= Cardinality(Waiting(rq, op))
<1> DEFINE rest == Waiting(rq, op) \ {r}
<1>1. /\ IsFiniteSet(rest) /\ Cardinality(rest) = Cardinality(Waiting(rq, op)) - 1
      /\ Cardinality(rest) \in Nat
  BY WaitingIsFinite, FS_RemoveElement, FS_CardinalityType
<1>2. Cardinality(Waiting(rq2, op)) <= Cardinality(rest)
  BY <1>1, FS_Subset
<1>3. Cardinality(Waiting(rq2, op)) \in Nat /\ Cardinality(Waiting(rq, op)) \in Nat
  BY WaitingIsFinite
<1> HIDE DEF rest
<1> QED
  BY <1>1, <1>2, <1>3

\* A guess nobody counts, one that is let through, one that is counted.
Counted(n, n2, was, op2, op, max) ==
  \/ op2 # op /\ n2 \in {0, n}
  \/ op2 = op /\ n2 = n /\ n < max
  \/ was = op /\ op2 # op /\ n2 = n + 1

LEMMA GuessKept ==
  ASSUME NEW rq, NEW rq2, NEW r \in Request, NEW op, NEW max \in Nat \ {0},
         NEW n, NEW n2, Guess(n, rq, op, max),
         \A q \in Request : q # r => rq2[q].op = rq[q].op,
         Counted(n, n2, rq[r].op, rq2[r].op, op, max)
  PROVE  Guess(n2, rq2, op, max)
<1>1. /\ Cardinality(Waiting(rq2, op)) \in Nat /\ Cardinality(Waiting(rq, op)) \in Nat
      /\ Cardinality(Request) \in Nat
      /\ Cardinality(Waiting(rq2, op)) <= Cardinality(Request)
  BY WaitingIsFinite
<1>2. n \in Nat /\ n + Cardinality(Waiting(rq, op)) <= max - 1 + Cardinality(Request)
  BY DEF Guess
<1>3. CASE rq2[r].op # op /\ n2 \in {0, n}
  <2>1. Waiting(rq2, op) \subseteq Waiting(rq, op)
    BY <1>3 DEF Waiting
  <2>2. Cardinality(Waiting(rq2, op)) <= Cardinality(Waiting(rq, op))
    BY <2>1, FewerWait
  <2> QED
    BY <1>1, <1>2, <1>3, <2>2 DEF Guess
<1>4. CASE rq2[r].op = op /\ n2 = n /\ n < max
  BY <1>1, <1>2, <1>4 DEF Guess
<1>5. CASE rq[r].op = op /\ rq2[r].op # op /\ n2 = n + 1
  <2>1. r \in Waiting(rq, op) /\ Waiting(rq2, op) \subseteq Waiting(rq, op) \ {r}
    BY <1>5 DEF Waiting
  <2>2. Cardinality(Waiting(rq2, op)) + 1 <= Cardinality(Waiting(rq, op))
    BY <2>1, OneFewerWaits
  <2> QED
    BY <1>1, <1>2, <1>5, <2>2 DEF Guess
<1> QED
  BY <1>3, <1>4, <1>5 DEF Counted

\* The counters go on as they are, or start over, when no request is waiting anew.
LEMMA GuessUntouched ==
  ASSUME NEW rq, NEW op, NEW max \in Nat \ {0}, NEW n, NEW n2,
         Guess(n, rq, op, max), n2 \in {0, n}
  PROVE  Guess(n2, rq, op, max)
<1>1. /\ Cardinality(Waiting(rq, op)) \in Nat /\ Cardinality(Request) \in Nat
      /\ Cardinality(Waiting(rq, op)) <= Cardinality(Request)
  BY WaitingIsFinite
<1> QED
  BY <1>1 DEF Guess

-----------------------------------------------------------------------------
(* What a change of the user leaves true of requests and sessions.         *)

Same(u, v) == /\ v \in UserRow /\ v.status = u.status /\ v.pwd = u.pwd /\ v.owed = u.owed

\* The account is new, or brought to a standing that is no end of it, or kept as it was.
Allowed(u, v) ==
  \/ Same(u, v)
  \/ /\ u.status = "ABSENT" /\ v \in UserRow /\ v.status # "ABSENT" /\ v.pwd = u.pwd
  \/ /\ u.status \notin {"ABSENT", "DELETED"}
     /\ v \in UserRow /\ v.status \in Status \ Ended /\ v.pwd = u.pwd /\ v.owed = u.owed

LEMMA AllowedKeeps ==
  ASSUME NEW u, NEW v, UserOK(u), Allowed(u, v)
  PROVE  /\ UserOK(v)
         /\ \A q : JobOK(u, q) => JobOK(v, q)
         /\ \A x : SessionOK(u, x) => SessionOK(v, x)
<1>1. UserOK(v)
  BY DEF UserOK, Allowed, Same, Status
<1>2. ASSUME NEW q, JobOK(u, q) PROVE JobOK(v, q)
  BY <1>2 DEF JobOK, Allowed, Same, Status, Ended
<1>3. ASSUME NEW x, SessionOK(u, x) PROVE SessionOK(v, x)
  BY <1>3 DEF SessionOK, Allowed, Same, Status, Ended
<1> QED
  BY <1>1, <1>2, <1>3

\* A request that leads nowhere is sound whatever the account becomes.
LEMMA JobOfAnyUser ==
  ASSUME NEW u, NEW v, NEW q, JobOK(u, q), ~Leads(q)
  PROVE  JobOK(v, q)
BY DEF JobOK

LEMMA PlainJob ==
  ASSUME NEW u, NEW q \in Job, q.op \notin {"compare", "open", "decide", "info", "verify"}
  PROVE  JobOK(u, q)
BY DEF JobOK, Leads

LEMMA IdleIsSound == \A u : JobOK(u, Idle)
BY IdleJob, PlainJob

\* Overtake: every request but r, and whether it still leads to a session.
LEMMA OvertakeKeeps ==
  ASSUME IInv, NEW r \in Request, NEW job, Overtake(r, job)
  PROVE  /\ req' \in [Request -> Job \cup {job}] /\ req'[r] = job
         /\ \A q \in Request : q # r =>
              req'[q].op = req[q].op /\ \A v : JobOK(v, req'[q])
<1>1. req \in [Request -> Job]
  BY DEF IInv, TypeOK
<1>2. req' = [q \in Request |-> IF q = r THEN job
                                ELSE IF req[q].op \in {"compare", "open"} THEN Overtaken(req[q])
                                ELSE req[q]]
  BY Zenon DEF Overtake, Overtaken
<1>3. ASSUME NEW q \in Request, q # r
      PROVE  /\ req'[q] \in Job /\ req'[q].op = req[q].op
             /\ \A v : JobOK(v, req'[q])
  <2>1. JobOK(user, req[q]) /\ req[q] \in Job
    BY <1>1 DEF IInv
  <2>2. CASE req[q].op \in {"compare", "open"}
    <3>1. req'[q] = Overtaken(req[q])
      BY <1>2, <1>3, <2>2
    <3>2. req'[q] \in Job /\ req'[q].op = req[q].op /\ req'[q].late = TRUE
      BY <2>1, <3>1, OvertakenJob
    <3> QED
      BY <2>2, <3>2 DEF JobOK, Leads
  <2>3. CASE req[q].op \notin {"compare", "open"}
    <3>1. req'[q] = req[q]
      BY <1>2, <1>3, <2>3
    <3> QED
      BY <2>1, <2>3, <3>1 DEF JobOK, Leads
  <2> QED
    BY <2>2, <2>3
<1>4. req'[r] = job
  BY <1>2
<1>5. req' \in [Request -> Job \cup {job}]
  BY <1>2, <1>3, <1>4
<1> QED
  BY <1>3, <1>4, <1>5

-----------------------------------------------------------------------------
(* Steps by what they change.                                              *)

Limits == [failures : Nat, resends : 0 .. MaxResends]
Docs == [required : BOOLEAN, mine : {"NONE", "PENDING", "APPROVED", "REJECTED"}]

LEMMA InvTypes ==
  ASSUME IInv
  PROVE  /\ user \in UserRow /\ UserOK(user)
         /\ session \in [Session -> SessionRow] /\ \A s \in Session : SessionOK(user, session[s])
         /\ req \in [Request -> Job] /\ \A r \in Request : JobOK(user, req[r])
         /\ limit \in Limits /\ docs \in Docs /\ roleRow \in BOOLEAN
         /\ limit.failures \in Nat /\ user.tries \in Nat /\ user.resetTries \in Nat
         /\ limit.resends \in 0 .. MaxResends
         /\ Guesses(user, limit, req)
<1>1. TypeOK /\ UserOK(user) /\ Guesses(user, limit, req)
  BY DEF IInv
<1>2. limit \in Limits /\ docs \in Docs
  BY <1>1 DEF TypeOK, Limits, Docs
<1>3. limit.failures \in Nat /\ limit.resends \in 0 .. MaxResends
  BY <1>2 DEF Limits
<1>4. user.tries \in Nat /\ user.resetTries \in Nat
  BY <1>1 DEF Guesses, Guess
<1> QED
  BY <1>1, <1>2, <1>3, <1>4 DEF IInv, TypeOK

LEMMA Assembled ==
  ASSUME UserOK(user'),
         session' \in [Session -> SessionRow], \A s \in Session : SessionOK(user', session'[s]),
         req' \in [Request -> Job], \A r \in Request : JobOK(user', req'[r]),
         limit' \in Limits, docs' \in Docs, roleRow' \in BOOLEAN,
         Guesses(user', limit', req')
  PROVE  IInv'
<1>1. user' \in UserRow
  BY DEF UserOK
<1>2. TypeOK'
  BY <1>1 DEF TypeOK, Limits, Docs
<1> QED
  BY <1>2 DEF IInv

CountedStep(u, u2, l, l2, was, op) ==
  /\ Counted(l.failures, l2.failures, was, op, "compare", MaxFailures)
  /\ Counted(u.tries, u2.tries, was, op, "miss", MaxTries)
  /\ Counted(u.resetTries, u2.resetTries, was, op, "missReset", MaxTries)

LEMMA GuessesKept ==
  ASSUME NEW u, NEW u2, NEW l, NEW l2, NEW rq, NEW rq2, NEW r \in Request, Guesses(u, l, rq),
         \A q \in Request : q # r => rq2[q].op = rq[q].op,
         CountedStep(u, u2, l, l2, rq[r].op, rq2[r].op)
  PROVE  Guesses(u2, l2, rq2)
<1>1. MaxFailures \in Nat \ {0} /\ MaxTries \in Nat \ {0}
  BY AccountsAssumption
<1>2. Guess(l2.failures, rq2, "compare", MaxFailures)
  BY <1>1, GuessKept DEF Guesses, CountedStep
<1>3. Guess(u2.tries, rq2, "miss", MaxTries)
  BY <1>1, GuessKept DEF Guesses, CountedStep
<1>4. Guess(u2.resetTries, rq2, "missReset", MaxTries)
  BY <1>1, GuessKept DEF Guesses, CountedStep
<1> QED
  BY <1>2, <1>3, <1>4 DEF Guesses

LEMMA NotReinstated ==
  /\ Same(user, user') => Reinstatement
  /\ UNCHANGED user => Reinstatement
  /\ user.status \notin Ended => Reinstatement
BY DEF Same, Reinstatement, Ended, Standing

\* Request r moves on; user and sessions stay sound for the other requests.
LEMMA RequestMoves ==
  ASSUME IInv, NEW r \in Request, NEW job, req' = [req EXCEPT ![r] = job],
         UserOK(user'), \A q \in Request : JobOK(user', req[q]), JobOK(user', job),
         session' \in [Session -> SessionRow], \A s \in Session : SessionOK(user', session'[s]),
         limit' \in Limits, UNCHANGED docs, roleRow' \in BOOLEAN,
         CountedStep(user, user', limit, limit', req[r].op, job.op)
  PROVE  IInv'
<1>1. req \in [Request -> Job] /\ job \in Job /\ docs' \in Docs /\ Guesses(user, limit, req)
  BY InvTypes DEF JobOK
<1>2. req' \in [Request -> Job] /\ req'[r] = job /\ \A q \in Request : q # r => req'[q] = req[q]
  BY <1>1
<1>3. \A q \in Request : JobOK(user', req'[q])
  BY <1>2
<1>4. Guesses(user', limit', req')
  BY <1>1, <1>2, GuessesKept
<1> QED
  BY <1>1, <1>2, <1>3, <1>4, Assembled

LEMMA RequestMovesOn ==
  ASSUME IInv, NEW r \in Request, NEW job, req' = [req EXCEPT ![r] = job],
         Allowed(user, user'), JobOK(user', job), UNCHANGED <<session, docs>>,
         limit' \in Limits, roleRow' \in BOOLEAN,
         CountedStep(user, user', limit, limit', req[r].op, job.op)
  PROVE  IInv'
<1>1. UserOK(user') /\ \A q \in Request : JobOK(user', req[q])
  BY InvTypes, AllowedKeeps
<1>2. /\ session' \in [Session -> SessionRow]
      /\ \A s \in Session : SessionOK(user', session'[s])
  BY InvTypes, AllowedKeeps
<1> QED
  BY <1>1, <1>2, RequestMoves

\* A step that only moves a request on.
LEMMA OnlyRequest ==
  ASSUME IInv, NEW r \in Request, NEW job, req' = [req EXCEPT ![r] = job], JobOK(user, job),
         UNCHANGED <<user, session, limit, docs, roleRow>>,
         job.op = "compare" => limit.failures < MaxFailures,
         job.op = "miss" => user.tries < MaxTries,
         job.op = "missReset" => user.resetTries < MaxTries
  PROVE  IInv' /\ Reinstatement
<1>1. CountedStep(user, user', limit, limit', req[r].op, job.op)
  BY DEF CountedStep, Counted
<1>2. Allowed(user, user') /\ limit' \in Limits /\ roleRow' \in BOOLEAN
  BY InvTypes DEF Allowed, Same
<1> QED
  BY <1>1, <1>2, RequestMovesOn, NotReinstated

\* A step that overtakes the logins under way.
LEMMA OvertakingStep ==
  ASSUME IInv, NEW r \in Request, NEW job, Overtake(r, job),
         UserOK(user'), \A v : JobOK(v, job),
         session' \in [Session -> SessionRow], \A s \in Session : SessionOK(user', session'[s]),
         UNCHANGED <<limit, docs, roleRow>>,
         CountedStep(user, user', limit, limit', req[r].op, job.op)
  PROVE  IInv'
<1>1. /\ req' \in [Request -> Job \cup {job}] /\ req'[r] = job
      /\ \A q \in Request : q # r => req'[q].op = req[q].op /\ JobOK(user', req'[q])
  BY OvertakeKeeps
<1>2. JobOK(user', job) /\ job \in Job
  BY DEF JobOK
<1>3. req' \in [Request -> Job] /\ \A q \in Request : JobOK(user', req'[q])
  BY <1>1, <1>2
<1>4. Guesses(user', limit', req')
  BY <1>1, InvTypes, GuessesKept
<1> QED
  BY <1>3, <1>4, InvTypes, Assembled

\* A step of no request.
LEMMA AloneStep ==
  ASSUME IInv, UNCHANGED req, Allowed(user, user'),
         session' \in [Session -> SessionRow], \A s \in Session : SessionOK(user', session'[s]),
         limit' \in Limits, docs' \in Docs, roleRow' \in BOOLEAN,
         limit'.failures \in {0, limit.failures}, user'.tries \in {0, user.tries},
         user'.resetTries \in {0, user.resetTries}
  PROVE  IInv'
<1>1. UserOK(user') /\ \A q \in Request : JobOK(user', req[q])
  BY InvTypes, AllowedKeeps
<1>2. Guesses(user', limit', req)
  BY InvTypes, GuessUntouched, AccountsAssumption DEF Guesses
<1> QED
  BY <1>1, <1>2, InvTypes, Assembled

\* The same, without the sessions.
LEMMA QuietStep ==
  ASSUME IInv, UNCHANGED <<req, session>>, Allowed(user, user'),
         limit' \in Limits, docs' \in Docs, roleRow' \in BOOLEAN,
         limit'.failures \in {0, limit.failures}, user'.tries \in {0, user.tries},
         user'.resetTries \in {0, user.resetTries}
  PROVE  IInv'
<1>1. /\ session' \in [Session -> SessionRow]
      /\ \A s \in Session : SessionOK(user', session'[s])
  BY InvTypes, AllowedKeeps
<1> QED
  BY <1>1, AloneStep

\* Sessions that end stay sound whatever the account becomes.
LEMMA EndedSessions ==
  ASSUME NEW u, NEW x \in SessionRow, x.state # "live"
  PROVE  SessionOK(u, x)
BY DEF SessionOK

LEMMA RevokedSessions ==
  ASSUME IInv, NEW W \in SUBSET Session, RevokeWhere(W)
  PROVE  /\ session' \in [Session -> SessionRow]
         /\ \A s \in Session : SessionOK(user, session'[s])
         /\ \A s \in W : session'[s].state # "live"
<1>1. session \in [Session -> SessionRow] /\ \A s \in Session : SessionOK(user, session[s])
  BY InvTypes
<1>2. session' = [s \in Session |-> IF s \in W /\ Live(s) THEN InState(session[s], "revoked")
                                    ELSE session[s]]
  BY Zenon DEF RevokeWhere, InState
<1>3. \A s \in Session : /\ InState(session[s], "revoked") \in SessionRow
                         /\ InState(session[s], "revoked").state = "revoked"
  BY <1>1, SessionChange DEF States
<1>4. session' \in [Session -> SessionRow]
  BY <1>1, <1>2, <1>3
<1>5. \A s \in Session : SessionOK(user, session'[s])
  BY <1>1, <1>2, <1>3, EndedSessions
<1>6. \A s \in W : session'[s].state # "live"
  BY <1>2, <1>3 DEF Live
<1> QED
  BY <1>4, <1>5, <1>6

LEMMA AllRevoked ==
  ASSUME IInv, RevokeWhere(Session)
  PROVE  /\ session' \in [Session -> SessionRow]
         /\ \A u : \A s \in Session : SessionOK(u, session'[s])
<1>1. /\ session' \in [Session -> SessionRow] /\ \A s \in Session : session'[s].state # "live"
  BY RevokedSessions
<1> QED
  BY <1>1, EndedSessions

LEMMA AllDropped ==
  ASSUME IInv, DropAll
  PROVE  /\ session' \in [Session -> SessionRow]
         /\ \A u : \A s \in Session : SessionOK(u, session'[s])
<1>1. session \in [Session -> SessionRow]
  BY InvTypes
<1>2. session' = [s \in Session |-> IF session[s].state = "free" THEN session[s]
                                    ELSE InState(session[s], "deleted")]
  BY Zenon DEF DropAll, InState
<1>3. \A s \in Session : /\ InState(session[s], "deleted") \in SessionRow
                         /\ InState(session[s], "deleted").state = "deleted"
  BY <1>1, SessionChange DEF States
<1>4. session' \in [Session -> SessionRow] /\ \A s \in Session : session'[s].state # "live"
  BY <1>1, <1>2, <1>3
<1> QED
  BY <1>4, EndedSessions

-----------------------------------------------------------------------------
(* The actions.                                                            *)

Failed(l, n) == [l EXCEPT !.failures = n]
Resent(l, n) == [l EXCEPT !.resends = n]

LEMMA FailedLimit ==
  ASSUME NEW l \in Limits, NEW n \in Nat
  PROVE  Failed(l, n) \in Limits /\ Failed(l, n).failures = n
BY Zenon DEF Limits, Failed

LEMMA ResentLimit ==
  ASSUME NEW l \in Limits, NEW n \in 0 .. MaxResends
  PROVE  Resent(l, n) \in Limits /\ Resent(l, n).failures = l.failures
BY Zenon DEF Limits, Resent

LEMMA IdleStays ==
  ASSUME IInv, NEW r \in Request, req' = [req EXCEPT ![r] = Idle],
         Allowed(user, user'), UNCHANGED <<session, docs>>,
         limit' \in Limits, roleRow' \in BOOLEAN,
         CountedStep(user, user', limit, limit', req[r].op, "idle")
  PROVE  IInv'
BY IdleJob, IdleIsSound, RequestMovesOn

LEMMA RegisterStep ==
  ASSUME IInv, NEW r \in Request, RegisterUser(r) \/ RegisterProvider(r)
  PROVE  IInv' /\ Reinstatement
<1> DEFINE job == WithOp(Idle, "open")
<1>1. /\ user.status = "ABSENT" /\ NewRow("PENDING", FALSE) /\ Start(r, [Idle EXCEPT !.op = "open"])
      /\ UNCHANGED <<session, limit, docs, roleRow>>
  BY Zenon DEF RegisterUser, RegisterProvider, Register
<1>2. user' = Created(user, "PENDING", FALSE)
  BY <1>1, Zenon DEF NewRow, Created
<1>3. /\ user' \in UserRow /\ user'.status = "PENDING" /\ user'.pwd = user.pwd
      /\ user'.tries = user.tries /\ user'.resetTries = user.resetTries
  BY <1>2, InvTypes, CreatedUser DEF Status
<1>4. Allowed(user, user') /\ user'.pwd = 0
  BY <1>1, <1>3, InvTypes DEF Allowed, UserOK
<1>5. req' = [req EXCEPT ![r] = job]
  BY <1>1, Zenon DEF Start, WithOp
<1>6. job \in Job /\ job.op = "open" /\ job.pwd = 0
  <2>1. Idle.pwd = 0 /\ "open" \in Ops
    BY DEF Idle, Ops
  <2> QED
    BY <2>1, IdleJob, JobWithOp
<1>7. JobOK(user', job)
  BY <1>3, <1>4, <1>6 DEF JobOK, Ended
<1>8. CountedStep(user, user', limit, limit', req[r].op, job.op)
  BY <1>1, <1>3, <1>6 DEF CountedStep, Counted
<1>9. limit' \in Limits /\ roleRow' \in BOOLEAN
  BY <1>1, InvTypes
<1> HIDE DEF job
<1>10. IInv'
  BY <1>1, <1>4, <1>5, <1>7, <1>8, <1>9, RequestMovesOn
<1> QED
  BY <1>1, <1>10, NotReinstated DEF Ended

\* Login, its comparison and refresh.
LEMMA LoginStep ==
  ASSUME IInv, NEW r \in Request,
         Login(r) \/ LoginCompared(r) \/ \E s \in Session : Refresh(r, s)
  PROVE  IInv' /\ Reinstatement
<1>1. UNCHANGED <<user, session, limit, docs, roleRow>>
  BY DEF Login, LoginCompared, Refresh
<1>2. CASE Login(r)
  <2> DEFINE job == Comparing(user.pwd, MayLogin)
  <2>1. req' = [req EXCEPT ![r] = job] /\ limit.failures < MaxFailures
    BY <1>2, Zenon DEF Login, Start, Comparing, LoginAllowed
  <2>2. MayLogin \in BOOLEAN /\ user.pwd \in Nat
    BY InvTypes, UserFields DEF MayLogin
  <2>3. job \in Job /\ job.op = "compare" /\ job.pwd = user.pwd /\ job.login = MayLogin
    BY <2>2, ComparingJob
  <2>4. JobOK(user, job)
    BY <2>3 DEF JobOK, Leads, MayLogin, Ended
  <2> HIDE DEF job
  <2> QED
    BY <1>1, <2>1, <2>3, <2>4, OnlyRequest
<1>3. CASE LoginCompared(r)
  <2> DEFINE job == WithOp(req[r], "open")
  <2>1. req' = [req EXCEPT ![r] = job] /\ req[r].op = "compare" /\ req[r].login
    BY <1>3, Zenon DEF LoginCompared, Continue, WithOp
  <2>2. req[r] \in Job /\ JobOK(user, req[r]) /\ "open" \in Ops
    BY InvTypes DEF Ops
  <2>3. job \in Job /\ job.op = "open" /\ job.late = req[r].late /\ job.pwd = req[r].pwd
    BY <2>2, JobWithOp
  <2>4. JobOK(user, job)
    BY <2>1, <2>2, <2>3 DEF JobOK, Leads
  <2> HIDE DEF job
  <2> QED
    BY <1>1, <2>1, <2>3, <2>4, OnlyRequest
<1>4. ASSUME NEW s \in Session, Refresh(r, s)
      PROVE  IInv' /\ Reinstatement
  <2> DEFINE job == Refreshing(s)
  <2>1. req' = [req EXCEPT ![r] = job]
    BY <1>4, Zenon DEF Refresh, Start, Refreshing
  <2>2. job \in Job /\ job.op = "store"
    BY StoringJob
  <2>3. JobOK(user, job)
    BY <2>2, PlainJob
  <2> HIDE DEF job
  <2> QED
    BY <1>1, <2>1, <2>2, <2>3, OnlyRequest
<1> QED
  BY <1>2, <1>3, <1>4

LEMMA LoginRejectedStep ==
  ASSUME IInv, NEW r \in Request, LoginRejected(r)
  PROVE  IInv' /\ Reinstatement
<1>1. /\ req[r].op = "compare" /\ limit' = Failed(limit, limit.failures + 1)
      /\ req' = [req EXCEPT ![r] = Idle] /\ UNCHANGED <<user, session, docs, roleRow>>
  BY Zenon DEF LoginRejected, RecordFailedLogin, Finish, Failed
<1>2. limit.failures + 1 \in Nat /\ limit \in Limits
  BY InvTypes
<1>3. limit' \in Limits /\ limit'.failures = limit.failures + 1
  BY <1>1, <1>2, FailedLimit
<1>4. CountedStep(user, user', limit, limit', req[r].op, "idle")
  BY <1>1, <1>3 DEF CountedStep, Counted
<1>5. Allowed(user, user') /\ roleRow' \in BOOLEAN
  BY <1>1, InvTypes DEF Allowed, Same
<1> QED
  BY <1>1, <1>3, <1>4, <1>5, IdleStays, NotReinstated

\* A session is opened under the password the request has compared.
LEMMA CreateSessionStep ==
  ASSUME IInv, NEW r \in Request, NEW s \in Session, CreateRefreshSession(r, s)
  PROVE  IInv' /\ Reinstatement
<1> DEFINE job == Storing(s, req[r].login)
           new == Opened(req[r].pwd, req[r].late)
<1>1. req[r].op = "open" /\ Exists /\ UNCHANGED <<user, limit, docs, roleRow>>
  BY DEF CreateRefreshSession
<1>2. session' = [session EXCEPT ![s] = new] /\ req' = [req EXCEPT ![r] = job]
  BY Zenon DEF CreateRefreshSession, Continue, Opened, Storing
<1>3. /\ req[r] \in Job /\ JobOK(user, req[r]) /\ req[r].pwd \in Nat
      /\ req[r].late \in BOOLEAN /\ req[r].login \in BOOLEAN
  BY InvTypes, JobFields
<1>4. new \in SessionRow /\ new.state = "live" /\ new.pwd = req[r].pwd /\ new.late = req[r].late
  BY <1>3, OpenedSession
<1>5. job \in Job /\ job.op = "store"
  BY <1>3, StoringJob
<1>6. SessionOK(user, new)
  BY <1>1, <1>3, <1>4 DEF SessionOK, JobOK, Leads, Exists
<1>7. JobOK(user, job)
  BY <1>5, PlainJob
<1> HIDE DEF job, new
<1>8. /\ session' \in [Session -> SessionRow]
      /\ \A t \in Session : SessionOK(user, session'[t])
  BY <1>2, <1>4, <1>6, InvTypes
<1>9. CountedStep(user, user', limit, limit', req[r].op, job.op)
  BY <1>1, <1>5 DEF CountedStep, Counted
<1>10. /\ UserOK(user') /\ \A q \in Request : JobOK(user', req[q])
       /\ JobOK(user', job) /\ \A t \in Session : SessionOK(user', session'[t])
       /\ limit' \in Limits /\ roleRow' \in BOOLEAN
  BY <1>1, <1>7, <1>8, InvTypes
<1>11. IInv'
  BY <1>1, <1>2, <1>8, <1>9, <1>10, RequestMoves
<1> QED
  BY <1>1, <1>11, NotReinstated

LEMMA StoreHashStep ==
  ASSUME IInv, NEW r \in Request, StoreRefreshTokenHash(r)
  PROVE  IInv' /\ Reinstatement
<1> DEFINE t == req[r].s
<1>1. /\ req[r].op = "store" /\ req' = [req EXCEPT ![r] = Idle]
      /\ UNCHANGED <<user, docs, roleRow>>
  BY DEF StoreRefreshTokenHash, Finish
<1>2. session' = [session EXCEPT ![t] = Hashed(session[t])]
  BY Zenon DEF StoreRefreshTokenHash, Hashed
<1>3. \A s \in Session : /\ session[s] \in SessionRow /\ SessionOK(user, session[s])
                         /\ Hashed(session[s]) \in SessionRow
                         /\ SessionOK(user, Hashed(session[s]))
  BY InvTypes, SessionChange DEF SessionOK, States
<1>4. /\ session' \in [Session -> SessionRow]
      /\ \A s \in Session : SessionOK(user, session'[s])
  BY <1>2, <1>3, InvTypes
<1>5. limit' \in Limits /\ limit'.failures \in {0, limit.failures}
  <2>1. limit' = limit \/ limit' = Failed(limit, 0)
    BY Zenon DEF StoreRefreshTokenHash, Failed
  <2> QED
    BY <2>1, InvTypes, FailedLimit
<1>6. CountedStep(user, user', limit, limit', req[r].op, Idle.op)
  BY <1>1, <1>5, IdleJob DEF CountedStep, Counted
<1>7. /\ UserOK(user') /\ \A q \in Request : JobOK(user', req[q])
      /\ JobOK(user', Idle) /\ \A s \in Session : SessionOK(user', session'[s])
      /\ roleRow' \in BOOLEAN
  BY <1>1, <1>4, IdleIsSound, InvTypes
<1>8. IInv'
  BY <1>1, <1>4, <1>5, <1>6, <1>7, RequestMoves
<1> QED
  BY <1>1, <1>8, NotReinstated

LEMMA StatusCases ==
  /\ Exists => user.status \notin {"ABSENT", "DELETED"}
  /\ \A s \in Session : Guard(s) => user.status \in Standing /\ user.status \in Status
  /\ Standing \cap Ended = {} /\ Standing \subseteq Status
BY DEF Exists, Guard, Standing, Ended, Status

\* A request with a tag of its own, and no more.
LEMMA TaggedStep ==
  ASSUME IInv, NEW r \in Request,
         NEW o \in Ops \ {"compare", "open", "decide", "info", "verify"},
         req' = [req EXCEPT ![r] = WithOp(Idle, o)],
         UNCHANGED <<user, session, limit, docs, roleRow>>,
         o = "miss" => user.tries < MaxTries,
         o = "missReset" => user.resetTries < MaxTries
  PROVE  IInv' /\ Reinstatement
<1>1. WithOp(Idle, o) \in Job /\ WithOp(Idle, o).op = o
  BY IdleJob, JobWithOp
<1>2. JobOK(user, WithOp(Idle, o))
  BY <1>1, PlainJob
<1> QED
  BY <1>1, <1>2, OnlyRequest

LEMMA AnswerCodeStep ==
  ASSUME IInv, NEW r \in Request, NEW right \in BOOLEAN, AnswerCode(r, right)
  PROVE  IInv' /\ Reinstatement
<1>1. /\ user.status = "PENDING" /\ user.tries < MaxTries
      /\ UNCHANGED <<user, session, limit, docs, roleRow>>
  BY DEF AnswerCode
<1>2. \/ req' = [req EXCEPT ![r] = Verifying(user.status)]
      \/ req' = [req EXCEPT ![r] = WithOp(Idle, "miss")]
  <2>1. CASE right
    BY <2>1, Zenon DEF AnswerCode, Start, Verifying
  <2>2. CASE ~right
    BY <2>2, Zenon DEF AnswerCode, Start, WithOp
  <2> QED
    BY <2>1, <2>2
<1>3. CASE req' = [req EXCEPT ![r] = Verifying(user.status)]
  <2>1. user.status \in Status
    BY <1>1 DEF Status
  <2>2. /\ Verifying(user.status) \in Job /\ Verifying(user.status).op = "verify"
        /\ Verifying(user.status).read = user.status
    BY <2>1, WritingJobs
  <2>3. JobOK(user, Verifying(user.status))
    BY <1>1, <2>2 DEF JobOK, Leads, Standing
  <2> QED
    BY <1>1, <1>3, <2>2, <2>3, OnlyRequest
<1>4. CASE req' = [req EXCEPT ![r] = WithOp(Idle, "miss")]
  <2>1. "miss" \in Ops \ {"compare", "open", "decide", "info", "verify"}
    BY DEF Ops
  <2> QED
    BY <1>1, <1>4, <2>1, TaggedStep
<1> QED
  BY <1>2, <1>3, <1>4

\* The first steps of the requests that answer codes.
LEMMA AnswerStep ==
  ASSUME IInv, NEW r \in Request,
         \/ VerifyResetOtp(r) \/ ResetPassword(r) \/ \E s \in Session : VerifyEmail(r, s)
  PROVE  IInv' /\ Reinstatement
<1>1. ASSUME NEW right \in BOOLEAN, AnswerCode(r, right) PROVE IInv' /\ Reinstatement
  BY <1>1, AnswerCodeStep
<1>2. ASSUME UNCHANGED <<user, session, limit, docs, roleRow>>, MayTryReset,
             \/ req' = [req EXCEPT ![r] = WithOp(Idle, "missReset")]
             \/ req' = [req EXCEPT ![r] = WithOp(Idle, "setPwd")]
      PROVE  IInv' /\ Reinstatement
  <2>1. {"missReset", "setPwd"} \subseteq Ops \ {"compare", "open", "decide", "info", "verify"}
    BY DEF Ops
  <2> QED
    BY <1>2, <2>1, TaggedStep DEF MayTryReset
<1>3. CASE VerifyResetOtp(r)
  <2>1. \/ \E right \in BOOLEAN : AnswerCode(r, right)
        \/ /\ MayTryReset /\ req' = [req EXCEPT ![r] = WithOp(Idle, "missReset")]
           /\ UNCHANGED <<user, session, limit, docs, roleRow>>
    BY <1>3, Zenon DEF VerifyResetOtp, Start, WithOp
  <2> QED
    BY <1>1, <1>2, <2>1
<1>4. CASE ResetPassword(r)
  <2>1. /\ MayTryReset /\ UNCHANGED <<user, session, limit, docs, roleRow>>
        /\ \/ req' = [req EXCEPT ![r] = WithOp(Idle, "missReset")]
           \/ req' = [req EXCEPT ![r] = WithOp(Idle, "setPwd")]
    BY <1>4, Zenon DEF ResetPassword, Start, WithOp
  <2> QED
    BY <1>2, <2>1
<1>5. ASSUME NEW s \in Session, VerifyEmail(r, s) PROVE IInv' /\ Reinstatement
  BY <1>1, <1>5 DEF VerifyEmail
<1> QED
  BY <1>3, <1>4, <1>5

\* A verification writes APPROVED over whatever the status has become; its request has
\* read PENDING.
LEMMA VerifiedStep ==
  ASSUME IInv, NEW r \in Request, MarkEmailVerified(r)
  PROVE  IInv' /\ Reinstatement
<1>1. /\ req[r].op = "verify" /\ Exists /\ user' = Verified(user)
      /\ req' = [req EXCEPT ![r] = Idle] /\ UNCHANGED <<session, limit, docs, roleRow>>
  BY Zenon DEF MarkEmailVerified, Finish, Verified
<1>2. /\ user' \in UserRow /\ user'.status = "APPROVED" /\ user'.pwd = user.pwd
      /\ user'.owed = user.owed /\ user'.tries = 0 /\ user'.resetTries = user.resetTries
  BY <1>1, InvTypes, VerifiedUser
<1>3. Allowed(user, user')
  BY <1>1, <1>2, StatusCases DEF Allowed, Status, Ended
<1>4. CountedStep(user, user', limit, limit', req[r].op, "idle")
  BY <1>1, <1>2 DEF CountedStep, Counted
<1>5. limit' \in Limits /\ roleRow' \in BOOLEAN
  BY <1>1, InvTypes
<1>6. IInv'
  BY <1>1, <1>3, <1>4, <1>5, IdleStays
<1>7. JobOK(user, req[r])
  BY InvTypes
<1> QED
  BY <1>1, <1>6, <1>7 DEF Reinstatement, JobOK

\* The counts of wrong codes, the reset code taken back, the mail that asks for one.
LEMMA CodeStep ==
  ASSUME IInv, NEW r \in Request,
         \/ IncrementVerificationOtpAttempts(r) \/ IncrementResetPasswordOtpAttempts(r)
         \/ ForgotPassword(r) \/ ResetMailFailed(r)
  PROVE  IInv' /\ Reinstatement
<1>1. UNCHANGED <<session, limit, docs, roleRow>> /\ limit' \in Limits /\ roleRow' \in BOOLEAN
  <2>1. UNCHANGED <<session, limit, docs, roleRow>>
    BY DEF IncrementVerificationOtpAttempts, IncrementResetPasswordOtpAttempts,
           ForgotPassword, ResetMailFailed
  <2> QED
    BY <2>1, InvTypes
<1>2. user \in UserRow
  BY InvTypes
<1>3. ASSUME Same(user, user'), req' = [req EXCEPT ![r] = Idle],
             CountedStep(user, user', limit, limit', req[r].op, "idle")
      PROVE  IInv' /\ Reinstatement
  BY <1>1, <1>3, IdleStays, NotReinstated DEF Allowed
<1>4. CASE IncrementVerificationOtpAttempts(r)
  <2>1. user' = Tried(user) /\ req[r].op = "miss" /\ req' = [req EXCEPT ![r] = Idle]
    BY <1>4, Zenon DEF IncrementVerificationOtpAttempts, Tried, Finish
  <2>2. Same(user, user') /\ user'.tries = user.tries + 1 /\ user'.resetTries = user.resetTries
    BY <1>2, <2>1, TriedUser DEF Same
  <2>3. CountedStep(user, user', limit, limit', req[r].op, "idle")
    BY <1>1, <2>1, <2>2 DEF CountedStep, Counted
  <2> QED
    BY <1>3, <2>1, <2>2, <2>3
<1>5. CASE IncrementResetPasswordOtpAttempts(r)
  <2>1. user' = ResetTried(user) /\ req[r].op = "missReset" /\ req' = [req EXCEPT ![r] = Idle]
    BY <1>5, Zenon DEF IncrementResetPasswordOtpAttempts, ResetTried, Finish
  <2>2. Same(user, user') /\ user'.tries = user.tries /\ user'.resetTries = user.resetTries + 1
    BY <1>2, <2>1, TriedUser DEF Same
  <2>3. CountedStep(user, user', limit, limit', req[r].op, "idle")
    BY <1>1, <2>1, <2>2 DEF CountedStep, Counted
  <2> QED
    BY <1>3, <2>1, <2>2, <2>3
<1>6. CASE ResetMailFailed(r)
  <2>1. user' = ResetMailed(user, FALSE) /\ req[r].op = "mailed" /\ req' = [req EXCEPT ![r] = Idle]
    BY <1>6, Zenon DEF ResetMailFailed, ResetMailed, Finish
  <2>2. Same(user, user') /\ user'.tries = user.tries /\ user'.resetTries = 0
    BY <1>2, <2>1, ResetMailedUser DEF Same
  <2>3. CountedStep(user, user', limit, limit', req[r].op, "idle")
    BY <1>1, <2>1, <2>2 DEF CountedStep, Counted
  <2> QED
    BY <1>3, <2>1, <2>2, <2>3
<1>7. CASE ForgotPassword(r)
  <2>1. user' = ResetMailed(user, TRUE) /\ req' = [req EXCEPT ![r] = WithOp(Idle, "mailed")]
    BY <1>7, Zenon DEF ForgotPassword, ResetMailed, Start, WithOp
  <2>2. Same(user, user') /\ user'.tries = user.tries /\ user'.resetTries = 0
    BY <1>2, <2>1, ResetMailedUser DEF Same
  <2>3. /\ WithOp(Idle, "mailed") \in Job /\ WithOp(Idle, "mailed").op = "mailed"
    BY IdleJob, JobWithOp DEF Ops
  <2>4. JobOK(user', WithOp(Idle, "mailed"))
    BY <2>3, PlainJob
  <2>5. CountedStep(user, user', limit, limit', req[r].op, WithOp(Idle, "mailed").op)
    BY <1>1, <2>2, <2>3 DEF CountedStep, Counted
  <2>6. Allowed(user, user')
    BY <2>2 DEF Allowed
  <2> QED
    BY <1>1, <2>1, <2>2, <2>4, <2>5, <2>6, RequestMovesOn, NotReinstated
<1> QED
  BY <1>4, <1>5, <1>6, <1>7

-----------------------------------------------------------------------------
(* Passwords.                                                              *)

\* The new hash ends every session and overtakes every login.
LEMMA NewPasswordStep ==
  ASSUME IInv, NEW r \in Request, NEW cleared \in BOOLEAN, Exists, NewPassword(cleared),
         Overtake(r, Idle), UNCHANGED <<limit, docs, roleRow>>
  PROVE  IInv' /\ Reinstatement
<1>1. user' = Renewed(user, cleared) /\ RevokeWhere(Session)
  BY Zenon DEF NewPassword, Renewed
<1>2. /\ user' \in UserRow /\ user'.status = user.status
      /\ user'.tries = user.tries /\ user'.resetTries \in {0, user.resetTries}
  BY <1>1, InvTypes, RenewedUser
<1>3. UserOK(user')
  BY <1>2, StatusCases DEF UserOK
<1>4. /\ session' \in [Session -> SessionRow]
      /\ \A s \in Session : SessionOK(user', session'[s])
  BY <1>1, AllRevoked
<1>5. CountedStep(user, user', limit, limit', req[r].op, Idle.op)
  BY <1>2, IdleJob DEF CountedStep, Counted
<1>6. IInv'
  BY <1>3, <1>4, <1>5, IdleIsSound, OvertakingStep
<1>7. Reinstatement
  BY <1>2, StatusCases DEF Reinstatement
<1> QED
  BY <1>6, <1>7

LEMMA PasswordStep ==
  ASSUME IInv, NEW r \in Request,
         \/ CommitReset(r) \/ CommitChange(r) \/ ResetUserPassword(r) \/ ResetStaffPassword(r)
  PROVE  IInv' /\ Reinstatement
<1>1. PICK cleared \in BOOLEAN : /\ Exists /\ NewPassword(cleared) /\ Overtake(r, Idle)
                                 /\ UNCHANGED <<limit, docs, roleRow>>
  BY Zenon DEF CommitReset, CommitChange, ResetUserPassword, ResetStaffPassword,
               AdminResetPassword
<1> QED
  BY <1>1, NewPasswordStep

\* The staff update changes the hash and leaves the sessions to a second statement.
LEMMA StaffPasswordStep ==
  ASSUME IInv, NEW r \in Request, UpdateStaffPassword(r)
  PROVE  IInv' /\ Reinstatement
<1> DEFINE job == WithOp(Idle, "revoke")
<1>1. /\ Exists /\ user' = Rekeyed(user) /\ Overtake(r, job)
      /\ UNCHANGED <<session, limit, docs, roleRow>>
  BY Zenon DEF UpdateStaffPassword, Rekeyed, WithOp
<1>2. /\ user' \in UserRow /\ user'.status = user.status /\ user'.owed = TRUE
      /\ user'.tries = user.tries /\ user'.resetTries = user.resetTries
  BY <1>1, InvTypes, RekeyedUser
<1>3. UserOK(user')
  BY <1>1, <1>2, StatusCases DEF UserOK
<1>4. session' \in [Session -> SessionRow] /\ \A s \in Session : SessionOK(user', session'[s])
  BY <1>1, <1>2, InvTypes DEF SessionOK
<1>5. job \in Job /\ job.op = "revoke"
  BY IdleJob, JobWithOp DEF Ops
<1>6. \A v : JobOK(v, job)
  BY <1>5, PlainJob
<1>7. CountedStep(user, user', limit, limit', req[r].op, job.op)
  BY <1>1, <1>2, <1>5 DEF CountedStep, Counted
<1> HIDE DEF job
<1>8. IInv'
  BY <1>1, <1>3, <1>4, <1>6, <1>7, OvertakingStep
<1>9. Reinstatement
  BY <1>2, StatusCases DEF Reinstatement
<1> QED
  BY <1>8, <1>9

-----------------------------------------------------------------------------
(* Decisions, deletion, business information and roles.                    *)

LEMMA DecideStep ==
  ASSUME IInv, NEW r \in Request,
         \/ UpdateUserStatus(r) \/ UpdateProviderStatus(r) \/ UpdateStaffStatus(r)
         \/ ApproveProvider(r)
  PROVE  IInv' /\ Reinstatement
<1> DEFINE Decisions == {<<"APPROVED", FALSE>>, <<"SUSPENDED", TRUE>>, <<"BLOCKED", TRUE>>,
                         <<"REJECTED", FALSE>>}
<1>1. PICK d \in Decisions : /\ req' = [req EXCEPT ![r] = ToDecide(d[1], d[2])]
                             /\ UNCHANGED <<user, session, limit, docs, roleRow>>
  <2>1. PICK role \in Role, ds \in SUBSET Decisions : Decide(r, role, ds)
    <3>1. CASE UpdateUserStatus(r)
      <4>1. Decide(r, "REGISTERED_USER", UserDecisions)
        BY <3>1 DEF UpdateUserStatus
      <4>2. UserDecisions \in SUBSET Decisions /\ "REGISTERED_USER" \in Role
        BY DEF UserDecisions, Role
      <4> QED
        BY <4>1, <4>2
    <3>2. CASE UpdateProviderStatus(r)
      <4>1. Decide(r, "PROVIDER", ProviderDecisions)
        BY <3>2 DEF UpdateProviderStatus
      <4>2. ProviderDecisions \in SUBSET Decisions /\ "PROVIDER" \in Role
        BY DEF UserDecisions, ProviderDecisions, Role
      <4> QED
        BY <4>1, <4>2
    <3>3. CASE UpdateStaffStatus(r)
      <4>1. Decide(r, "STAFF", StaffDecisions)
        BY <3>3 DEF UpdateStaffStatus
      <4>2. StaffDecisions \in SUBSET Decisions /\ "STAFF" \in Role
        BY DEF StaffDecisions, Role
      <4> QED
        BY <4>1, <4>2
    <3>4. CASE ApproveProvider(r)
      <4>1. Decide(r, "PROVIDER", {<<"APPROVED", FALSE>>})
        BY <3>4 DEF ApproveProvider
      <4>2. {<<"APPROVED", FALSE>>} \in SUBSET Decisions /\ "PROVIDER" \in Role
        BY DEF Role
      <4> QED
        BY <4>1, <4>2
    <3> QED
      BY <3>1, <3>2, <3>3, <3>4
  <2>2. PICK d \in ds : Start(r, [Idle EXCEPT !.op = "decide", !.to = d[1], !.revoke = d[2]])
    BY <2>1, Zenon DEF Decide
  <2>3. req' = [req EXCEPT ![r] = ToDecide(d[1], d[2])]
    BY <2>2, Zenon DEF Start, ToDecide
  <2>4. UNCHANGED <<user, session, limit, docs, roleRow>>
    BY <2>1 DEF Decide
  <2> QED
    BY <2>1, <2>3, <2>4
<1>2. d[1] \in Status /\ d[2] \in BOOLEAN /\ (d[1] \in Ended => d[2])
  <2>1. CASE d \in {<<"APPROVED", FALSE>>, <<"REJECTED", FALSE>>}
    <3>1. PICK x \in {"APPROVED", "REJECTED"} : d = <<x, FALSE>>
      BY <2>1, Zenon
    <3>2. d[1] = x /\ d[2] = FALSE
      BY <3>1, Zenon
    <3> QED
      BY <3>2 DEF Status, Ended
  <2>2. CASE d \in {<<"SUSPENDED", TRUE>>, <<"BLOCKED", TRUE>>}
    <3>1. PICK x \in {"SUSPENDED", "BLOCKED"} : d = <<x, TRUE>>
      BY <2>2, Zenon
    <3>2. d[1] = x /\ d[2] = TRUE
      BY <3>1, Zenon
    <3> QED
      BY <3>2 DEF Status, Ended
  <2> QED
    BY <2>1, <2>2
<1>3. /\ ToDecide(d[1], d[2]) \in Job /\ ToDecide(d[1], d[2]).op = "decide"
      /\ ToDecide(d[1], d[2]).to = d[1] /\ ToDecide(d[1], d[2]).revoke = d[2]
  BY <1>2, DecidingJob
<1>4. JobOK(user, ToDecide(d[1], d[2]))
  BY <1>2, <1>3 DEF JobOK, Leads
<1> QED
  BY <1>1, <1>3, <1>4, OnlyRequest

\* An end of the account overtakes the logins and is owed the end of the sessions.
LEMMA StatusStep ==
  ASSUME IInv, NEW r \in Request, UpdateAccountStatus(r)
  PROVE  IInv' /\ Reinstatement
<1> DEFINE q == req[r]
           job == WithOp(Idle, "revoke")
<1>1. /\ q.op = "decide" /\ Exists /\ user' = Ruled(user, q.to, q.revoke)
      /\ UNCHANGED <<session, limit, docs, roleRow>>
  BY Zenon DEF UpdateAccountStatus, Ruled
<1>2. q \in Job /\ JobOK(user, q) /\ q.to \in Status /\ q.revoke \in BOOLEAN
  BY InvTypes, JobFields
<1>3. /\ user' \in UserRow /\ user'.status = q.to /\ user'.pwd = user.pwd
      /\ user'.owed = (user.owed \/ q.revoke)
      /\ user'.tries = user.tries /\ user'.resetTries = user.resetTries
  BY <1>1, <1>2, InvTypes, RuledUser
<1>4. Reinstatement
  BY <1>1, <1>3 DEF Reinstatement
<1>5. CASE q.revoke
  <2>1. Overtake(r, job)
    BY <1>5, Zenon DEF UpdateAccountStatus, WithOp
  <2>2. UserOK(user')
    BY <1>2, <1>3 DEF UserOK, Status
  <2>3. session' \in [Session -> SessionRow] /\ \A s \in Session : SessionOK(user', session'[s])
    BY <1>1, <1>2, <1>3, <1>5, InvTypes DEF SessionOK, Status
  <2>4. job \in Job /\ job.op = "revoke"
    BY IdleJob, JobWithOp DEF Ops
  <2>5. \A v : JobOK(v, job)
    BY <2>4, PlainJob
  <2>6. CountedStep(user, user', limit, limit', q.op, job.op)
    BY <1>1, <1>3, <2>4 DEF CountedStep, Counted
  <2> QED
    BY <1>1, <1>4, <2>1, <2>2, <2>3, <2>5, <2>6, OvertakingStep
<1>6. CASE ~q.revoke
  <2>1. req' = [req EXCEPT ![r] = Idle]
    BY <1>6, Zenon DEF UpdateAccountStatus, Finish
  <2>2. user'.status \in Status \ Ended /\ user'.owed = user.owed
    <3>1. user.owed \in BOOLEAN
      BY InvTypes, UserFields
    <3>2. user'.owed = user.owed
      BY <1>3, <1>6, <3>1
    <3>3. user'.status \in Status \ Ended
      BY <1>1, <1>2, <1>3, <1>6 DEF JobOK
    <3> QED
      BY <3>2, <3>3
  <2>3. Allowed(user, user')
    BY <1>1, <1>3, <2>2, StatusCases DEF Allowed
  <2>4. CountedStep(user, user', limit, limit', q.op, "idle")
    BY <1>1, <1>3 DEF CountedStep, Counted
  <2>5. limit' \in Limits /\ roleRow' \in BOOLEAN
    BY <1>1, InvTypes
  <2> QED
    BY <1>1, <1>4, <2>1, <2>3, <2>4, <2>5, IdleStays
<1> QED
  BY <1>2, <1>5, <1>6

LEMMA InvalidateStep ==
  ASSUME IInv, NEW r \in Request, InvalidateActiveSessions(r)
  PROVE  IInv' /\ Reinstatement
<1>1. /\ req[r].op = "revoke" /\ RevokeWhere(Session) /\ user' = Settled(user)
      /\ req' = [req EXCEPT ![r] = Idle] /\ UNCHANGED <<limit, docs, roleRow>>
  BY Zenon DEF InvalidateActiveSessions, Settled, Finish
<1>2. /\ user' \in UserRow /\ user'.status = user.status /\ user'.pwd = user.pwd
      /\ user'.tries = user.tries /\ user'.resetTries = user.resetTries
  BY <1>1, InvTypes, SettledUser
<1>3. UserOK(user') /\ \A q \in Request : JobOK(user', req[q])
  BY <1>2, InvTypes DEF UserOK, JobOK
<1>4. session' \in [Session -> SessionRow] /\ \A s \in Session : SessionOK(user', session'[s])
  BY <1>1, AllRevoked
<1>5. CountedStep(user, user', limit, limit', req[r].op, Idle.op)
  BY <1>1, <1>2, IdleJob DEF CountedStep, Counted
<1>6. JobOK(user', Idle) /\ limit' \in Limits /\ roleRow' \in BOOLEAN
  BY <1>1, IdleIsSound, InvTypes
<1>7. IInv'
  BY <1>1, <1>3, <1>4, <1>5, <1>6, RequestMoves
<1>8. Reinstatement
  BY <1>2, StatusCases DEF Reinstatement
<1> QED
  BY <1>7, <1>8

\* The first steps of deletions, of a password change and of a role's deletion.
LEMMA StartStep ==
  ASSUME IInv, NEW r \in Request,
         \/ PermanentlyDeleteUser(r) \/ PermanentlyDeleteProvider(r) \/ PermanentlyDeleteStaff(r)
         \/ DeleteStaffRole(r)
         \/ \E s \in Session : DeleteAccount(r, s) \/ ChangePassword(r, s)
  PROVE  IInv' /\ Reinstatement
<1>1. PICK o \in {"delete", "dropRole", "changePwd"} :
        /\ req' = [req EXCEPT ![r] = WithOp(Idle, o)]
        /\ UNCHANGED <<user, session, limit, docs, roleRow>>
  BY Zenon DEF PermanentlyDeleteUser, PermanentlyDeleteProvider, PermanentlyDeleteStaff,
               PermanentlyDelete, DeleteStaffRole, DeleteAccount, ChangePassword, Start, WithOp
<1>2. o \in Ops \ {"compare", "open", "decide", "info", "verify"} /\ o \notin {"miss", "missReset"}
  BY DEF Ops
<1> QED
  BY <1>1, <1>2, TaggedStep

LEMMA DeleteStep ==
  ASSUME IInv, NEW r \in Request,
         \/ DeleteRegisteredUserPermanently(r) \/ DeleteProviderPermanently(r)
         \/ DeleteAdminPermanently(r)
  PROVE  IInv' /\ Reinstatement
<1>1. /\ req[r].op = "delete" /\ Exists /\ user' = Judged(user, "DELETED") /\ DropAll
      /\ req' = [req EXCEPT ![r] = Idle] /\ UNCHANGED <<limit, docs, roleRow>>
  BY Zenon DEF DeleteRegisteredUserPermanently, DeleteProviderPermanently,
               DeleteAdminPermanently, DeleteRows, Judged, Finish
<1>2. /\ user' \in UserRow /\ user'.status = "DELETED" /\ user'.pwd = user.pwd
      /\ user'.tries = user.tries /\ user'.resetTries = user.resetTries
  BY <1>1, InvTypes, JudgedUser
<1>3. UserOK(user') /\ \A q \in Request : JobOK(user', req[q])
  BY <1>2, InvTypes DEF UserOK, JobOK, Ended
<1>4. session' \in [Session -> SessionRow] /\ \A s \in Session : SessionOK(user', session'[s])
  BY <1>1, AllDropped
<1>5. CountedStep(user, user', limit, limit', req[r].op, Idle.op)
  BY <1>1, <1>2, IdleJob DEF CountedStep, Counted
<1>6. JobOK(user', Idle) /\ limit' \in Limits /\ roleRow' \in BOOLEAN
  BY <1>1, IdleIsSound, InvTypes
<1>7. IInv'
  BY <1>1, <1>3, <1>4, <1>5, <1>6, RequestMoves
<1>8. Reinstatement
  BY <1>2 DEF Reinstatement, Standing
<1> QED
  BY <1>7, <1>8

LEMMA BusinessInfoStep ==
  ASSUME IInv, NEW r \in Request, NEW s \in Session, UpdateBusinessInfo(r, s)
  PROVE  IInv' /\ Reinstatement
<1>1. PICK to \in {"PENDING", user.status} :
        Start(r, [Idle EXCEPT !.op = "info", !.read = user.status, !.to = to])
  BY Zenon DEF UpdateBusinessInfo
<1>2. /\ Guard(s) /\ UNCHANGED <<user, session, limit, docs, roleRow>>
  BY DEF UpdateBusinessInfo
<1>3. req' = [req EXCEPT ![r] = Editing(user.status, to)]
  BY <1>1, Zenon DEF Start, Editing
<1>4. user.status \in Standing /\ user.status \in Status /\ to \in Standing /\ to \in Status
  BY <1>2, StatusCases DEF Standing, Status
<1>5. /\ Editing(user.status, to) \in Job /\ Editing(user.status, to).op = "info"
      /\ Editing(user.status, to).read = user.status /\ Editing(user.status, to).to = to
  BY <1>4, WritingJobs
<1>6. JobOK(user, Editing(user.status, to))
  BY <1>4, <1>5 DEF JobOK, Leads
<1> QED
  BY <1>2, <1>3, <1>5, <1>6, OnlyRequest

\* The edit writes the status it has read, over whatever it has become.
LEMMA UpdateProviderStep ==
  ASSUME IInv, NEW r \in Request, UpdateProvider(r)
  PROVE  IInv' /\ Reinstatement
<1>1. /\ req[r].op = "info" /\ Exists /\ user' = Judged(user, req[r].to)
      /\ req' = [req EXCEPT ![r] = Idle] /\ UNCHANGED <<session, limit, docs, roleRow>>
  BY Zenon DEF UpdateProvider, Judged, Finish
<1>2. req[r] \in Job /\ JobOK(user, req[r])
  BY InvTypes
<1>3. req[r].to \in Standing /\ req[r].read \in Standing
  BY <1>1, <1>2 DEF JobOK
<1>4. req[r].to \in Status \ Ended /\ req[r].to \in Status \cup {"DELETED"}
  BY <1>3, StatusCases
<1>5. /\ user' \in UserRow /\ user'.status = req[r].to /\ user'.pwd = user.pwd
      /\ user'.owed = user.owed /\ user'.tries = user.tries /\ user'.resetTries = user.resetTries
  BY <1>1, <1>4, InvTypes, JudgedUser
<1>6. Allowed(user, user')
  BY <1>1, <1>4, <1>5, StatusCases DEF Allowed
<1>7. CountedStep(user, user', limit, limit', req[r].op, "idle")
  BY <1>1, <1>5 DEF CountedStep, Counted
<1>8. limit' \in Limits /\ roleRow' \in BOOLEAN
  BY <1>1, InvTypes
<1>9. IInv'
  BY <1>1, <1>6, <1>7, <1>8, IdleStays
<1> QED
  BY <1>1, <1>3, <1>9 DEF Reinstatement

LEMMA DropRoleStep ==
  ASSUME IInv, NEW r \in Request, DropStaffRole(r)
  PROVE  IInv' /\ Reinstatement
<1>1. /\ req[r].op = "dropRole" /\ roleRow' = FALSE /\ user' = Staffed(user, FALSE)
      /\ req' = [req EXCEPT ![r] = Idle] /\ UNCHANGED <<session, limit, docs>>
  BY Zenon DEF DropStaffRole, Staffed, Finish
<1>2. /\ Same(user, user') /\ user'.tries = user.tries /\ user'.resetTries = user.resetTries
  BY <1>1, InvTypes, StaffedUser DEF Same
<1>3. CountedStep(user, user', limit, limit', req[r].op, "idle")
  BY <1>1, <1>2 DEF CountedStep, Counted
<1>4. Allowed(user, user') /\ limit' \in Limits /\ roleRow' \in BOOLEAN
  BY <1>1, <1>2, InvTypes DEF Allowed
<1> QED
  BY <1>1, <1>2, <1>3, <1>4, IdleStays, NotReinstated

LEMMA CrashStep ==
  ASSUME IInv, NEW r \in Request, Crash(r)
  PROVE  IInv' /\ Reinstatement
<1>1. req' = [req EXCEPT ![r] = Idle] /\ UNCHANGED <<user, session, limit, docs, roleRow>>
  BY DEF Crash, Finish
<1>2. JobOK(user, Idle)
  BY IdleIsSound
<1> QED
  BY <1>1, <1>2, IdleJob, OnlyRequest

-----------------------------------------------------------------------------
(* Steps of no request.                                                    *)

LEMMA CreationStep ==
  ASSUME IInv, CreateProvider \/ CreateStaff
  PROVE  IInv' /\ Reinstatement
<1>1. user.status = "ABSENT" /\ UNCHANGED <<session, limit, docs, roleRow, req>>
  BY DEF CreateProvider, CreateStaff
<1>2. \E st \in Status : user' = Judged(user, st) \/ user' = Created(user, st, TRUE)
  <2>1. CASE CreateProvider
    <3>1. PICK st \in {"PENDING", "BLOCKED"} : user' = Judged(user, st)
      BY <2>1, Zenon DEF CreateProvider, Judged
    <3> QED
      BY <3>1 DEF Status
  <2>2. CASE CreateStaff
    <3>1. PICK st \in {"APPROVED", "BLOCKED"} : user' = Created(user, st, TRUE)
      BY <2>2, Zenon DEF CreateStaff, NewRow, Created
    <3> QED
      BY <3>1 DEF Status
  <2> QED
    BY <2>1, <2>2
<1>3. PICK st \in Status : user' = Judged(user, st) \/ user' = Created(user, st, TRUE)
  BY <1>2
<1>4. user \in UserRow /\ st \in Status \cup {"DELETED"} /\ TRUE \in BOOLEAN
  BY InvTypes
<1>5. /\ user' \in UserRow /\ user'.status = st /\ user'.pwd = user.pwd
      /\ user'.tries = user.tries /\ user'.resetTries = user.resetTries
  <2>1. CASE user' = Judged(user, st)
    BY <1>4, <2>1, JudgedUser
  <2>2. CASE user' = Created(user, st, TRUE)
    BY <1>4, <2>2, CreatedUser
  <2> QED
    BY <1>3, <2>1, <2>2
<1>6. Allowed(user, user')
  BY <1>1, <1>5 DEF Allowed, Status
<1>7. /\ limit' \in Limits /\ docs' \in Docs /\ roleRow' \in BOOLEAN
      /\ limit'.failures \in {0, limit.failures} /\ user'.tries \in {0, user.tries}
      /\ user'.resetTries \in {0, user.resetTries}
  BY <1>1, <1>5, InvTypes
<1>8. IInv'
  BY <1>1, <1>6, <1>7, QuietStep
<1> QED
  BY <1>1, <1>8, NotReinstated DEF Ended

\* Codes that are sent again or expire, and a role that is assigned.
LEMMA UserRowStep ==
  ASSUME IInv,
         \/ ResendVerificationEmail \/ CodeExpires \/ AssignStaffRole
         \/ \E s \in Session : ResendVerification(s)
  PROVE  IInv' /\ Reinstatement
<1>1. UNCHANGED <<session, docs, roleRow, req>>
  BY DEF ResendVerificationEmail, CodeExpires, AssignStaffRole, ResendVerification
<1>2. \/ user' = user \/ user' = Mailed(user) \/ user' = CodeGone(user)
      \/ user' = ResetGone(user) \/ user' = Staffed(user, TRUE)
  BY Zenon DEF ResendVerificationEmail, CodeExpires, AssignStaffRole, ResendVerification,
               StoreVerificationOtp, Mailed, CodeGone, ResetGone, Staffed
<1>3. user \in UserRow /\ TRUE \in BOOLEAN
  BY InvTypes
<1>4. /\ Same(user, user')
      /\ user'.tries \in {0, user.tries} /\ user'.resetTries = user.resetTries
  <2>1. CASE user' = user
    BY <1>3, <2>1 DEF Same
  <2>2. CASE user' = Mailed(user)
    BY <1>3, <2>2, MailedUser DEF Same
  <2>3. CASE user' = CodeGone(user) \/ user' = ResetGone(user)
    BY <1>3, <2>3, ExpiredUser DEF Same
  <2>4. CASE user' = Staffed(user, TRUE)
    BY <1>3, <2>4, StaffedUser DEF Same
  <2> QED
    BY <1>2, <2>1, <2>2, <2>3, <2>4
<1>5. limit' \in Limits /\ limit'.failures = limit.failures
  <2>1. \/ limit' = limit
        \/ limit.resends < MaxResends /\ limit' = Resent(limit, limit.resends + 1)
    BY Zenon DEF ResendVerificationEmail, CodeExpires, AssignStaffRole, ResendVerification, Resent
  <2>2. limit \in Limits /\ limit.failures \in Nat /\ limit.resends \in 0 .. MaxResends
    BY InvTypes
  <2>3. limit.resends < MaxResends => limit.resends + 1 \in 0 .. MaxResends
    BY <2>2, AccountsAssumption
  <2> QED
    BY <2>1, <2>2, <2>3, ResentLimit
<1>6. /\ Allowed(user, user') /\ docs' \in Docs /\ roleRow' \in BOOLEAN
      /\ limit'.failures \in {0, limit.failures} /\ user'.resetTries \in {0, user.resetTries}
  BY <1>1, <1>4, <1>5, InvTypes DEF Allowed
<1>7. IInv'
  BY <1>1, <1>4, <1>5, <1>6, QuietStep
<1> QED
  BY <1>4, <1>7, NotReinstated

\* Documents, roles and the windows of the limits.
LEMMA OtherRowsStep ==
  ASSUME IInv,
         \/ UpdateDocument \/ SubmitDocument \/ ReviewDocument \/ CreateStaffRole \/ WindowEnds
  PROVE  IInv' /\ Reinstatement
<1>1. UNCHANGED <<user, session, req>> /\ roleRow' \in BOOLEAN
  BY InvTypes DEF UpdateDocument, SubmitDocument, ReviewDocument, CreateStaffRole, WindowEnds
<1>2. docs' \in Docs
  <2>1. \/ docs' = docs \/ \E b \in BOOLEAN : docs' = [docs EXCEPT !.required = b]
        \/ \E st \in {"NONE", "PENDING", "APPROVED", "REJECTED"} : docs' = [docs EXCEPT !.mine = st]
    BY Zenon DEF UpdateDocument, SubmitDocument, ReviewDocument, CreateStaffRole, WindowEnds
  <2>2. docs \in Docs
    BY InvTypes
  <2> QED
    BY <2>1, <2>2, Zenon DEF Docs
<1>3. limit' \in Limits /\ limit'.failures \in {0, limit.failures}
  <2>1. limit' = limit \/ limit' = Failed(limit, 0) \/ limit' = Resent(limit, 0)
    BY Zenon DEF UpdateDocument, SubmitDocument, ReviewDocument, CreateStaffRole, WindowEnds,
                 Failed, Resent
  <2>2. limit \in Limits /\ 0 \in Nat /\ 0 \in 0 .. MaxResends
    BY InvTypes, AccountsAssumption
  <2> QED
    BY <2>1, <2>2, FailedLimit, ResentLimit
<1>4. /\ Allowed(user, user') /\ user'.tries \in {0, user.tries}
      /\ user'.resetTries \in {0, user.resetTries}
  BY <1>1, InvTypes DEF Allowed, Same
<1>5. IInv'
  BY <1>1, <1>2, <1>3, <1>4, QuietStep
<1> QED
  BY <1>1, <1>5, NotReinstated

LEMMA SessionsEndStep ==
  ASSUME IInv,
         \/ \E s \in Session : Logout(s) \/ LogoutAllSessions(s)
         \/ \E s, t \in Session : RevokeSession(s, t)
  PROVE  IInv' /\ Reinstatement
<1>1. UNCHANGED <<user, limit, docs, roleRow, req>>
  BY DEF Logout, LogoutAllSessions, RevokeSession
<1>2. session' \in [Session -> SessionRow] /\ \A x \in Session : SessionOK(user, session'[x])
  <2>1. ASSUME NEW W \in SUBSET Session, RevokeWhere(W)
        PROVE  session' \in [Session -> SessionRow] /\ \A x \in Session : SessionOK(user, session'[x])
    BY <2>1, RevokedSessions
  <2>2. ASSUME NEW s \in Session, Logout(s) \/ LogoutAllSessions(s)
        PROVE  session' \in [Session -> SessionRow] /\ \A x \in Session : SessionOK(user, session'[x])
    <3>1. RevokeWhere({s}) \/ RevokeWhere(Session \ {s})
      BY <2>2, Zenon DEF Logout, LogoutAllSessions
    <3> QED
      BY <2>1, <3>1
  <2>3. ASSUME NEW s \in Session, NEW t \in Session, RevokeSession(s, t)
        PROVE  session' \in [Session -> SessionRow] /\ \A x \in Session : SessionOK(user, session'[x])
    <3>1. session' = [session EXCEPT ![t] = InState(session[t], "deleted")]
      BY <2>3, Zenon DEF RevokeSession, InState
    <3>2. /\ InState(session[t], "deleted") \in SessionRow
          /\ InState(session[t], "deleted").state = "deleted"
      BY InvTypes, SessionChange DEF States
    <3>3. SessionOK(user, InState(session[t], "deleted"))
      BY <3>2, EndedSessions
    <3> QED
      BY <3>1, <3>2, <3>3, InvTypes
  <2> QED
    BY <2>2, <2>3
<1>3. /\ Allowed(user, user') /\ limit' \in Limits /\ docs' \in Docs /\ roleRow' \in BOOLEAN
      /\ limit'.failures \in {0, limit.failures} /\ user'.tries \in {0, user.tries}
      /\ user'.resetTries \in {0, user.resetTries}
  BY <1>1, InvTypes DEF Allowed, Same
<1>4. \A x \in Session : SessionOK(user', session'[x])
  BY <1>1, <1>2
<1>5. IInv'
  BY <1>1, <1>2, <1>3, <1>4, AloneStep
<1> QED
  BY <1>1, <1>5, NotReinstated

-----------------------------------------------------------------------------
(* The invariant is inductive.                                             *)

LEMMA Initially == Init => IInv
<1> SUFFICES ASSUME Init PROVE IInv
  OBVIOUS
<1>1. PICK role \in Role :
        user = [role |-> role, status |-> "ABSENT", pwd |-> 0, code |-> FALSE,
                tries |-> 0, reset |-> FALSE, resetTries |-> 0,
                staffRole |-> FALSE, owed |-> FALSE]
  BY DEF Init
<1>2. UserOK(user) /\ user \in UserRow
  BY <1>1 DEF UserOK, UserRow
<1>3. Free \in SessionRow /\ Free.state = "free"
  BY DEF Free, SessionRow
<1>4. SessionOK(user, Free)
  BY <1>3, EndedSessions
<1>5. /\ session = [s \in Session |-> Free] /\ req = [r \in Request |-> Idle]
      /\ limit = [failures |-> 0, resends |-> 0] /\ docs = [required |-> TRUE, mine |-> "NONE"]
      /\ roleRow = TRUE
  BY DEF Init
<1>6. TypeOK
  <2>1. limit \in Limits /\ docs \in Docs
    BY <1>5, AccountsAssumption DEF Limits, Docs
  <2> QED
    BY <1>2, <1>3, <1>5, <2>1, IdleJob DEF TypeOK, Limits, Docs
<1>7. \A r \in Request : JobOK(user, req[r]) /\ req[r].op = "idle"
  BY <1>5, IdleIsSound, IdleJob
<1>8. Guesses(user, limit, req)
  <2>1. user.tries = 0 /\ user.resetTries = 0 /\ limit.failures = 0
    BY <1>1, <1>5
  <2>2. \A op, max : max \in Nat \ {0} => Guess(0, req, op, max)
    BY WaitingIsFinite DEF Guess
  <2> QED
    BY <2>1, <2>2, AccountsAssumption DEF Guesses
<1>9. \A s \in Session : SessionOK(user, session[s])
  BY <1>4, <1>5
<1> QED
  BY <1>2, <1>6, <1>7, <1>8, <1>9 DEF IInv

LEMMA RequestStep ==
  ASSUME IInv, NEW r \in Request,
         \/ RegisterUser(r) \/ RegisterProvider(r) \/ Opening(r)
         \/ Codes(r) \/ Passwords(r) \/ Deciding(r) \/ Deleting(r)
         \/ Roles(r) \/ Crash(r)
  PROVE  IInv' /\ Reinstatement
<1>1. CASE RegisterUser(r) \/ RegisterProvider(r)
  BY <1>1, RegisterStep
<1>2. CASE Opening(r)
  <2>1. \/ Login(r) \/ LoginCompared(r) \/ \E s \in Session : Refresh(r, s)
        \/ LoginRejected(r) \/ StoreRefreshTokenHash(r)
        \/ \E s \in Session : CreateRefreshSession(r, s)
    BY <1>2, Zenon DEF Opening
  <2> QED
    BY <2>1, LoginStep, LoginRejectedStep, StoreHashStep, CreateSessionStep
<1>3. CASE Codes(r)
  <2>1. \/ VerifyResetOtp(r) \/ ResetPassword(r) \/ \E s \in Session : VerifyEmail(r, s)
        \/ MarkEmailVerified(r)
        \/ IncrementVerificationOtpAttempts(r) \/ IncrementResetPasswordOtpAttempts(r)
        \/ ForgotPassword(r) \/ ResetMailFailed(r)
    BY <1>3, Zenon DEF Codes
  <2> QED
    BY <2>1, AnswerStep, VerifiedStep, CodeStep
<1>4. CASE Passwords(r)
  <2>1. \/ CommitReset(r) \/ CommitChange(r) \/ ResetUserPassword(r) \/ ResetStaffPassword(r)
        \/ UpdateStaffPassword(r) \/ \E s \in Session : ChangePassword(r, s)
    BY <1>4, Zenon DEF Passwords
  <2> QED
    BY <2>1, PasswordStep, StaffPasswordStep, StartStep
<1>5. CASE Deciding(r)
  <2>1. \/ UpdateUserStatus(r) \/ UpdateProviderStatus(r) \/ UpdateStaffStatus(r)
        \/ ApproveProvider(r) \/ UpdateAccountStatus(r) \/ InvalidateActiveSessions(r)
        \/ UpdateProvider(r) \/ \E s \in Session : UpdateBusinessInfo(r, s)
    BY <1>5, Zenon DEF Deciding
  <2> QED
    BY <2>1, DecideStep, StatusStep, InvalidateStep, UpdateProviderStep, BusinessInfoStep
<1>6. CASE Deleting(r)
  <2>1. \/ PermanentlyDeleteUser(r) \/ PermanentlyDeleteProvider(r) \/ PermanentlyDeleteStaff(r)
        \/ DeleteRegisteredUserPermanently(r) \/ DeleteProviderPermanently(r)
        \/ DeleteAdminPermanently(r) \/ \E s \in Session : DeleteAccount(r, s)
    BY <1>6, Zenon DEF Deleting
  <2> QED
    BY <2>1, StartStep, DeleteStep
<1>7. CASE Roles(r)
  BY <1>7, StartStep, DropRoleStep DEF Roles
<1>8. CASE Crash(r)
  BY <1>8, CrashStep
<1> QED
  BY <1>1, <1>2, <1>3, <1>4, <1>5, <1>6, <1>7, <1>8

LEMMA NextStep == IInv /\ [Next]_vars => IInv' /\ Reinstatement
<1> SUFFICES ASSUME IInv, [Next]_vars PROVE IInv' /\ Reinstatement
  OBVIOUS
<1>1. CASE Alone
  <2>1. \/ CreateProvider \/ CreateStaff
        \/ ResendVerificationEmail \/ CodeExpires \/ AssignStaffRole
        \/ \E s \in Session : ResendVerification(s)
        \/ UpdateDocument \/ SubmitDocument \/ ReviewDocument \/ CreateStaffRole \/ WindowEnds
        \/ \E s \in Session : Logout(s) \/ LogoutAllSessions(s)
        \/ \E s, t \in Session : RevokeSession(s, t)
    BY <1>1, Zenon DEF Alone
  <2> QED
    BY <2>1, CreationStep, UserRowStep, OtherRowsStep, SessionsEndStep
<1>2. ASSUME NEW r \in Request,
             \/ RegisterUser(r) \/ RegisterProvider(r) \/ Opening(r)
             \/ Codes(r) \/ Passwords(r) \/ Deciding(r) \/ Deleting(r)
             \/ Roles(r) \/ Crash(r)
      PROVE  IInv' /\ Reinstatement
  BY <1>2, RequestStep
<1>3. CASE UNCHANGED vars
  <2>1. UNCHANGED <<user, session, limit, docs, roleRow, req>>
    BY <1>3 DEF vars
  <2>2. IInv'
    BY <2>1, InvTypes, Assembled
  <2> QED
    BY <2>1, <2>2, NotReinstated
<1> QED
  BY <1>1, <1>2, <1>3, Zenon DEF Next

LEMMA Invariant == Spec => []IInv
<1>1. IInv /\ [Next]_vars => IInv'
  BY NextStep
<1> QED
  BY Initially, <1>1, PTL DEF Spec

-----------------------------------------------------------------------------
\* The account's row, its sessions and the requests in flight keep their shape.
THEOREM TypeCorrect == Spec => []TypeOK
<1>1. IInv => TypeOK
  BY DEF IInv
<1> QED
  BY <1>1, Invariant, PTL

\* Wrong passwords and wrong codes pass their limit by at most one for each request that
\* is in flight (login, verifyEmail, verifyResetOtp and resetPassword read the count,
\* compare, and count afterwards).
THEOREM GuessesStayLimited == Spec => []GuessesAreLimited
<1>1. ASSUME IInv PROVE GuessesAreLimited
  <2>1. \A op : Cardinality(Waiting(req, op)) \in Nat /\ Cardinality(Request) \in Nat
    BY WaitingIsFinite
  <2>2. MaxFailures \in Nat /\ MaxTries \in Nat
    BY AccountsAssumption
  <2> QED
    BY <1>1, <2>1, <2>2 DEF IInv, Guesses, Guess, GuessesAreLimited
<1> QED
  BY <1>1, Invariant, PTL

\* No session opened before a new password, a suspension, a block or a deletion is usable
\* after it, unless invalidateActiveSessions has not run or the login overlapped.
THEOREM EndedAccessStaysEnded == Spec => []EndedAccessEnds
<1>1. ASSUME IInv PROVE EndedAccessEnds
  BY <1>1 DEF IInv, SessionOK, EndedAccessEnds, Live
<1> QED
  BY <1>1, Invariant, PTL

\* A suspension is lifted only by a decision, or by a request that had read the account
\* in standing (markEmailVerified and the edit of the business information write the
\* status without a condition).
THEOREM SuspensionsHold == Spec => SuspensionHolds
<1>1. IInv /\ [Next]_vars => [Reinstatement]_vars
  BY NextStep
<1>2. [Reinstatement]_vars =>
        [user.status \in Ended /\ user'.status \in Standing =>
           \E r \in Request : \/ req[r].op = "decide" /\ req[r].to = user'.status
                              \/ req[r].op \in {"verify", "info"} /\ req[r].read \in Standing]_vars
  BY DEF Reinstatement
<1> QED
  BY <1>1, <1>2, Invariant, PTL DEF Spec, SuspensionHolds

-----------------------------------------------------------------------------
(* Chats.  The invariant: a client whose history is whole is in the room,  *)
(* and the room is the parties'.                                           *)

ClientOK(p, c) == /\ c \in Client
                  /\ c.whole => c.joined
                  /\ p \in Stranger => ~c.joined /\ c.shown = {}

Informed(msg, c) == c.whole => \A m \in Message : msg[m].stage = "broadcast" => m \in c.shown

ChatsInv == /\ ChatsTypeOK
            /\ \A p \in Person : ClientOK(p, client[p]) /\ Informed(message, client[p])

-----------------------------------------------------------------------------
(* What the handlers make of a client and of a message.                    *)

WithSocket(c, s) == [c EXCEPT !.socket = s]
WithRoom(c) == [c EXCEPT !.joined = TRUE]
WithoutRoom(c) == [c EXCEPT !.joined = FALSE, !.whole = FALSE]
WithShown(c, ms) == [c EXCEPT !.shown = @ \cup ms]
WithHistory(c, ms) == [c EXCEPT !.shown = @ \cup ms, !.whole = c.joined]

LEMMA ClientFields ==
  ASSUME NEW c \in Client
  PROVE  /\ c.socket \in {"off", "handshake", "on"} /\ c.joined \in BOOLEAN
         /\ c.whole \in BOOLEAN /\ c.shown \subseteq Message
BY Zenon DEF Client

LEMMA SocketChange ==
  ASSUME NEW c \in Client, NEW s \in {"off", "handshake", "on"}
  PROVE  /\ WithSocket(c, s) \in Client
         /\ WithSocket(c, s).joined = c.joined /\ WithSocket(c, s).whole = c.whole
         /\ WithSocket(c, s).shown = c.shown
BY Zenon DEF Client, WithSocket

LEMMA RoomChange ==
  ASSUME NEW c \in Client
  PROVE  /\ WithRoom(c) \in Client
         /\ WithRoom(c).joined = TRUE /\ WithRoom(c).whole = c.whole
         /\ WithRoom(c).shown = c.shown
         /\ WithoutRoom(c) \in Client
         /\ WithoutRoom(c).joined = FALSE /\ WithoutRoom(c).whole = FALSE
         /\ WithoutRoom(c).shown = c.shown
<1>1. TRUE \in BOOLEAN /\ FALSE \in BOOLEAN
  OBVIOUS
<1> QED
  BY <1>1, Zenon DEF Client, WithRoom, WithoutRoom

LEMMA ShownChange ==
  ASSUME NEW c \in Client, NEW ms \in SUBSET Message
  PROVE  /\ WithShown(c, ms) \in Client
         /\ WithShown(c, ms).joined = c.joined /\ WithShown(c, ms).whole = c.whole
         /\ WithShown(c, ms).shown = c.shown \cup ms
         /\ WithHistory(c, ms) \in Client
         /\ WithHistory(c, ms).joined = c.joined /\ WithHistory(c, ms).whole = c.joined
         /\ WithHistory(c, ms).shown = c.shown \cup ms
<1>1. c.shown \cup ms \in SUBSET Message /\ c.joined \in BOOLEAN
  BY ClientFields
<1> QED
  BY <1>1, Zenon DEF Client, WithShown, WithHistory

LEMMA OfflineClient ==
  ASSUME NEW p, NEW msg
  PROVE  ClientOK(p, Offline) /\ Informed(msg, Offline)
<1>1. Offline \in Client
  BY DEF Offline, Client
<1>2. Offline.whole = FALSE /\ Offline.joined = FALSE /\ Offline.shown = {}
  BY DEF Offline
<1> QED
  BY <1>1, <1>2 DEF ClientOK, Informed

AnyMessage == {NoMessage} \cup MessageRow
Staged(x, s) == [x EXCEPT !.stage = s]
Read(x) == [x EXCEPT !.read = TRUE]

LEMMA NewMessage ==
  ASSUME NEW p \in Party, NEW s \in {"stored", "broadcast", "silent"}
  PROVE  /\ [from |-> p, stage |-> s, read |-> FALSE] \in AnyMessage
         /\ [from |-> p, stage |-> s, read |-> FALSE].stage = s
BY DEF AnyMessage, MessageRow

LEMMA MessageKind ==
  ASSUME NEW x \in AnyMessage
  PROVE  /\ x = NoMessage => x.stage = "none"
         /\ x # NoMessage => x \in MessageRow
         /\ x.stage # "none" => x \in MessageRow
BY DEF AnyMessage, NoMessage

LEMMA MessageChange ==
  ASSUME NEW x \in MessageRow, NEW s \in {"stored", "broadcast", "silent"}
  PROVE  /\ Staged(x, s) \in MessageRow /\ Staged(x, s).stage = s
         /\ Read(x) \in MessageRow /\ Read(x).stage = x.stage
<1>1. TRUE \in BOOLEAN
  OBVIOUS
<1> QED
  BY <1>1, Zenon DEF MessageRow, Staged, Read

-----------------------------------------------------------------------------
(* Steps on one client, and steps on one message.                          *)

LEMMA OneClient ==
  ASSUME ChatsInv, NEW p \in Person, NEW c, UNCHANGED message,
         client' = [client EXCEPT ![p] = c], ClientOK(p, c), Informed(message, c)
  PROVE  ChatsInv'
<1>1. client \in [Person -> Client] /\ c \in Client
  BY DEF ChatsInv, ChatsTypeOK, ClientOK
<1>2. client' \in [Person -> Client]
  BY <1>1
<1>3. \A q \in Person : client'[q] = IF q = p THEN c ELSE client[q]
  BY <1>1
<1>4. \A q \in Person : ClientOK(q, client'[q]) /\ Informed(message, client'[q])
  BY <1>3 DEF ChatsInv
<1> QED
  BY <1>2, <1>4 DEF ChatsInv, ChatsTypeOK

\* A message that is not broadcast by the step is missed by nobody.
LEMMA NoBroadcast ==
  ASSUME ChatsInv, UNCHANGED client,
         message' \in [Message -> AnyMessage],
         \A m \in Message : message'[m].stage = "broadcast" => message[m].stage = "broadcast"
  PROVE  ChatsInv'
<1>1. \A q \in Person : Informed(message', client[q])
  BY DEF ChatsInv, Informed
<1> QED
  BY <1>1 DEF ChatsInv, ChatsTypeOK, AnyMessage

LEMMA ClientStep ==
  ASSUME ChatsInv, NEW p \in Person,
         \/ Connect(p) \/ HandleConnection(p) \/ HandleDisconnect(p)
         \/ JoinChat(p) \/ LeaveChat(p) \/ GetMessages(p)
  PROVE  ChatsInv'
<1> DEFINE c == client[p]
<1>1. c \in Client /\ ClientOK(p, c) /\ Informed(message, c)
  BY DEF ChatsInv, ClientOK
<1>2. p \in Person /\ UNCHANGED message
  BY DEF Connect, HandleConnection, HandleDisconnect, JoinChat, LeaveChat, GetMessages
<1>3. ASSUME NEW s \in {"off", "handshake", "on"},
             client' = [client EXCEPT ![p] = WithSocket(c, s)]
      PROVE  ChatsInv'
  <2>1. ClientOK(p, WithSocket(c, s)) /\ Informed(message, WithSocket(c, s))
    BY <1>1, SocketChange DEF ClientOK, Informed
  <2> QED
    BY <1>2, <1>3, <2>1, OneClient
<1>4. CASE Connect(p)
  <2>1. client' = [client EXCEPT ![p] = WithSocket(c, "handshake")]
    BY <1>4, Zenon DEF Connect, WithSocket
  <2> QED
    BY <1>3, <2>1
<1>5. CASE HandleConnection(p)
  <2>1. client' = [client EXCEPT ![p] = WithSocket(c, "on")]
    BY <1>5, Zenon DEF HandleConnection, WithSocket
  <2> QED
    BY <1>3, <2>1
<1>6. CASE HandleDisconnect(p)
  <2>1. client' = [client EXCEPT ![p] = Offline]
    BY <1>6 DEF HandleDisconnect
  <2> QED
    BY <1>2, <2>1, OfflineClient, OneClient
<1>7. CASE JoinChat(p)
  <2>1. client' = [client EXCEPT ![p] = WithRoom(c)] /\ p \notin Stranger
    BY <1>7, ChatsAssumption, Zenon DEF JoinChat, WithRoom, HasAccess
  <2>2. ClientOK(p, WithRoom(c)) /\ Informed(message, WithRoom(c))
    BY <1>1, <2>1, RoomChange DEF ClientOK, Informed
  <2> QED
    BY <1>2, <2>1, <2>2, OneClient
<1>8. CASE LeaveChat(p)
  <2>1. client' = [client EXCEPT ![p] = WithoutRoom(c)]
    BY <1>8, Zenon DEF LeaveChat, WithoutRoom
  <2>2. ClientOK(p, WithoutRoom(c)) /\ Informed(message, WithoutRoom(c))
    BY <1>1, RoomChange DEF ClientOK, Informed
  <2> QED
    BY <1>2, <2>1, <2>2, OneClient
<1>9. CASE GetMessages(p)
  <2>1. client' = [client EXCEPT ![p] = WithHistory(c, Stored)] /\ p \notin Stranger
    BY <1>9, ChatsAssumption, Zenon DEF GetMessages, WithHistory, HasAccess
  <2>2. Stored \in SUBSET Message
    BY DEF Stored
  <2>3. \A m \in Message : message[m].stage = "broadcast" => m \in Stored
    BY DEF Stored, NoMessage
  <2>4. ClientOK(p, WithHistory(c, Stored)) /\ Informed(message, WithHistory(c, Stored))
    <3>1. /\ WithHistory(c, Stored) \in Client
          /\ WithHistory(c, Stored).joined = c.joined
          /\ WithHistory(c, Stored).whole = c.joined
          /\ WithHistory(c, Stored).shown = c.shown \cup Stored
      BY <1>1, <2>2, ShownChange
    <3>2. ClientOK(p, WithHistory(c, Stored))
      BY <2>1, <3>1 DEF ClientOK
    <3>3. Informed(message, WithHistory(c, Stored))
      BY <2>3, <3>1 DEF Informed
    <3> QED
      BY <3>2, <3>3
  <2> QED
    BY <1>2, <2>1, <2>4, OneClient
<1> QED
  BY <1>4, <1>5, <1>6, <1>7, <1>8, <1>9

LEMMA MessageStep ==
  ASSUME ChatsInv,
         \/ \E p \in Person : MarkAsRead(p)
         \/ \E p \in Person, m \in Message : SendMessage(p, m) \/ SendOverHttp(p, m)
         \/ \E m \in Message : SendFails(m)
  PROVE  ChatsInv'
<1>1. message \in [Message -> AnyMessage]
  BY DEF ChatsInv, ChatsTypeOK, AnyMessage
<1>2. ASSUME NEW m \in Message, NEW x \in AnyMessage, x.stage # "broadcast",
             UNCHANGED client, message' = [message EXCEPT ![m] = x]
      PROVE  ChatsInv'
  <2>1. message' \in [Message -> AnyMessage]
    BY <1>1, <1>2
  <2>2. \A n \in Message : message'[n] = IF n = m THEN x ELSE message[n]
    BY <1>1, <1>2
  <2>3. \A n \in Message : message'[n].stage = "broadcast" => message[n].stage = "broadcast"
    BY <1>2, <2>2
  <2> QED
    BY <1>2, <2>1, <2>3, NoBroadcast
<1>3. ASSUME NEW p \in Person, NEW m \in Message, SendMessage(p, m) \/ SendOverHttp(p, m)
      PROVE  ChatsInv'
  <2>1. p \in Party /\ UNCHANGED client
    BY <1>3 DEF SendMessage, SendOverHttp, HasAccess
  <2>2. PICK s \in {"stored", "silent"} :
          message' = [message EXCEPT ![m] = [from |-> p, stage |-> s, read |-> FALSE]]
    BY <1>3, Zenon DEF SendMessage, SendOverHttp
  <2>3. /\ [from |-> p, stage |-> s, read |-> FALSE] \in AnyMessage
        /\ [from |-> p, stage |-> s, read |-> FALSE].stage # "broadcast"
    BY <2>1, NewMessage
  <2> QED
    BY <1>2, <2>1, <2>2, <2>3
<1>4. ASSUME NEW m \in Message, SendFails(m)
      PROVE  ChatsInv'
  <2>1. message[m] \in MessageRow
    BY <1>1, <1>4, MessageKind DEF SendFails
  <2>2. message' = [message EXCEPT ![m] = Staged(message[m], "silent")] /\ UNCHANGED client
    BY <1>4, Zenon DEF SendFails, Staged
  <2>3. /\ Staged(message[m], "silent") \in AnyMessage
        /\ Staged(message[m], "silent").stage # "broadcast"
    BY <2>1, MessageChange DEF AnyMessage
  <2> QED
    BY <1>2, <2>2, <2>3
<1>5. ASSUME NEW p \in Person, MarkAsRead(p)
      PROVE  ChatsInv'
  <2>1. message' = [m \in Message |-> IF m \in Stored /\ message[m].from # p
                                      THEN Read(message[m]) ELSE message[m]]
        /\ UNCHANGED client
    BY <1>5, Zenon DEF MarkAsRead, Read
  <2>2. \A m \in Stored : /\ Read(message[m]) \in AnyMessage
                          /\ Read(message[m]).stage = message[m].stage
    BY <1>1, MessageKind, MessageChange DEF Stored, AnyMessage
  <2>3. message' \in [Message -> AnyMessage]
    BY <1>1, <2>1, <2>2
  <2>4. \A m \in Message : message'[m].stage = message[m].stage
    BY <2>1, <2>2
  <2> QED
    BY <2>1, <2>3, <2>4, NoBroadcast
<1> QED
  BY <1>3, <1>4, <1>5

\* The broadcast reaches the whole room, and a client whose history is whole is in it.
LEMMA EmitStep ==
  ASSUME ChatsInv, NEW m \in Message, EmitCreated(m)
  PROVE  ChatsInv'
<1>1. /\ message \in [Message -> AnyMessage] /\ client \in [Person -> Client]
      /\ message[m] \in MessageRow
  BY MessageKind DEF ChatsInv, ChatsTypeOK, AnyMessage, EmitCreated
<1>2. message' = [message EXCEPT ![m] = Staged(message[m], "broadcast")]
  BY Zenon DEF EmitCreated, Staged
<1>3. Staged(message[m], "broadcast") \in AnyMessage
  BY <1>1, MessageChange DEF AnyMessage
<1>4. message' \in [Message -> AnyMessage]
  BY <1>1, <1>2, <1>3
<1>5. \A n \in Message : n # m => message'[n] = message[n]
  BY <1>1, <1>2
<1>6. client' = [p \in Person |-> IF p \in Room THEN WithShown(client[p], {m}) ELSE client[p]]
  BY Zenon DEF EmitCreated, WithShown
<1>7. ASSUME NEW p \in Person
      PROVE  ClientOK(p, client'[p]) /\ Informed(message', client'[p])
  <2>1. ClientOK(p, client[p]) /\ Informed(message, client[p]) /\ client[p] \in Client
    BY <1>1 DEF ChatsInv
  <2>2. CASE client[p].joined
    <3>1. client'[p] = WithShown(client[p], {m}) /\ p \notin Stranger
      BY <1>6, <2>1, <2>2 DEF Room, ClientOK
    <3>2. /\ client'[p] \in Client
          /\ client'[p].joined = client[p].joined /\ client'[p].whole = client[p].whole
          /\ client'[p].shown = client[p].shown \cup {m}
      BY <2>1, <3>1, ShownChange
    <3> QED
      BY <1>5, <2>1, <2>2, <3>1, <3>2 DEF ClientOK, Informed
  <2>3. CASE ~client[p].joined
    <3>1. client'[p] = client[p]
      BY <1>6, <2>3 DEF Room
    <3> QED
      BY <2>1, <2>3, <3>1 DEF ClientOK, Informed
  <2> QED
    BY <2>2, <2>3
<1>8. client' \in [Person -> Client]
  BY <1>6, <1>7 DEF ClientOK
<1> QED
  BY <1>4, <1>7, <1>8 DEF ChatsInv, ChatsTypeOK, AnyMessage

LEMMA StopStep ==
  ASSUME ChatsInv, ProcessStops
  PROVE  ChatsInv'
<1>1. message \in [Message -> AnyMessage]
  BY DEF ChatsInv, ChatsTypeOK, AnyMessage
<1>2. message' = [m \in Message |-> IF message[m].stage = "stored"
                                    THEN Staged(message[m], "silent") ELSE message[m]]
  BY Zenon DEF ProcessStops, Staged
<1>3. \A m \in Message : message[m].stage = "stored" => Staged(message[m], "silent") \in AnyMessage
  BY <1>1, MessageKind, MessageChange DEF AnyMessage
<1>4. message' \in [Message -> AnyMessage]
  BY <1>1, <1>2, <1>3
<1>5. client' = [p \in Person |-> Offline]
  BY DEF ProcessStops
<1>6. \A p \in Person : ClientOK(p, client'[p]) /\ Informed(message', client'[p])
  BY <1>5, OfflineClient
<1>7. client' \in [Person -> Client]
  BY <1>5, OfflineClient DEF ClientOK
<1> QED
  BY <1>4, <1>6, <1>7 DEF ChatsInv, ChatsTypeOK, AnyMessage

LEMMA ChatsInitially == ChatsInit => ChatsInv
<1> SUFFICES ASSUME ChatsInit PROVE ChatsInv
  OBVIOUS
<1>1. \A p \in Person : ClientOK(p, client[p]) /\ Informed(message, client[p])
  BY OfflineClient DEF ChatsInit
<1>2. client \in [Person -> Client] /\ message \in [Message -> AnyMessage]
  BY OfflineClient DEF ChatsInit, ClientOK, AnyMessage
<1> QED
  BY <1>1, <1>2 DEF ChatsInv, ChatsTypeOK, AnyMessage

LEMMA ChatsStep == ChatsInv /\ [ChatsNext]_chatVars => ChatsInv'
<1> SUFFICES ASSUME ChatsInv, [ChatsNext]_chatVars
             PROVE  ChatsInv'
  OBVIOUS
<1>1. ASSUME NEW p \in Person,
             \/ Connect(p) \/ HandleConnection(p) \/ HandleDisconnect(p)
             \/ JoinChat(p) \/ LeaveChat(p) \/ GetMessages(p)
      PROVE  ChatsInv'
  BY <1>1, ClientStep
<1>2. ASSUME \/ \E p \in Person : MarkAsRead(p)
             \/ \E p \in Person, m \in Message : SendMessage(p, m) \/ SendOverHttp(p, m)
             \/ \E m \in Message : SendFails(m)
      PROVE  ChatsInv'
  BY <1>2, MessageStep
<1>3. ASSUME NEW m \in Message, EmitCreated(m) PROVE ChatsInv'
  BY <1>3, EmitStep
<1>4. CASE ProcessStops
  BY <1>4, StopStep
<1>5. CASE UNCHANGED chatVars
  BY <1>5 DEF chatVars, ChatsInv, ChatsTypeOK
<1> QED
  BY <1>1, <1>2, <1>3, <1>4, <1>5, Zenon DEF ChatsNext

LEMMA ChatsInvariant == ChatsSpec => []ChatsInv
<1> QED
  BY ChatsInitially, ChatsStep, PTL DEF ChatsSpec

-----------------------------------------------------------------------------
\* Messages and clients keep their shape.
THEOREM ChatsTypeCorrect == ChatsSpec => []ChatsTypeOK
<1>1. ChatsInv => ChatsTypeOK
  BY DEF ChatsInv
<1> QED
  BY <1>1, ChatsInvariant, PTL

\* A client that joined the room and then read the history misses no message that is
\* broadcast, and no stranger is shown one (join, sendMessage and getMessages of the
\* gateway and the service, handleDisconnect).
THEOREM NobodyMissesAMessage == ChatsSpec => []MembersMissNothing
<1>1. ASSUME ChatsInv PROVE MembersMissNothing
  <2>1. \A p \in Person : client[p].whole =>
          \A m \in Stored : m \in client[p].shown \/ message[m].stage # "broadcast"
    BY <1>1 DEF ChatsInv, Informed, Stored
  <2>2. \A p \in Stranger : client[p].shown = {}
    BY <1>1 DEF ChatsInv, ClientOK, Person
  <2> QED
    BY <2>1, <2>2 DEF MembersMissNothing
<1> QED
  BY <1>1, ChatsInvariant, PTL

-----------------------------------------------------------------------------
(***************************************************************************)
(* Access: what the routes ask for, and what a request has passed when its *)
(* handler runs.                                                           *)
(***************************************************************************)

\* A row that writes and that staff may call asks, at its guard or in each alternative of
\* its handler, for an action that is not reading.
AsksToWrite(r) ==
  r.write /\ "STAFF" \in r.who =>
    \/ \E p \in r.guard : p[2] \notin ReadActions
    \/ \A alternative \in r.checks : \E p \in alternative : p[2] \notin ReadActions

\* Every permission a guard asks for can be granted from the catalogue.
Grantable(r) == ToCrud(r.guard) \subseteq Catalog

Sound(rows) == \A r \in rows : AsksToWrite(r) /\ Grantable(r)

\* A permission counts as reading exactly when its action is one of the reading ones.
LEMMA CrudReads ==
  ASSUME NEW p
  PROVE  /\ (ToCrudPermission(p)[2] = "read") = (p[2] \in ReadActions)
         /\ p[2] = "read" => ToCrudPermission(p) = <<p[1], "read">>
         /\ p[2] \in ReadActions => ToCrudPermission(p) = <<p[1], "read">>
         /\ p[2] \in {"create", "initiate"} => ToCrudPermission(p) = <<p[1], "create">>
         /\ p[2] = "delete" => ToCrudPermission(p) = <<p[1], "delete">>
         /\ p[2] \notin ReadActions \cup {"create", "initiate", "delete"}
              => ToCrudPermission(p) = <<p[1], "update">>
<1>1. CASE p[2] \in ReadActions
  <2>1. p[2] \notin {"create", "initiate", "delete"}
    BY <1>1 DEF ReadActions
  <2>2. ToCrudPermission(p) = <<p[1], "read">>
    BY <1>1, <2>1 DEF ToCrudPermission
  <2> QED
    BY <1>1, <2>1, <2>2
<1>2. CASE p[2] \in {"create", "initiate"}
  <2>1. p[2] \notin ReadActions /\ p[2] # "delete"
    BY <1>2 DEF ReadActions
  <2>2. ToCrudPermission(p) = <<p[1], "create">>
    BY <1>2, <2>1 DEF ToCrudPermission
  <2>3. "create" # "read" /\ p[2] # "read"
    BY <1>2
  <2> QED
    BY <1>2, <2>1, <2>2, <2>3
<1>3. CASE p[2] = "delete"
  <2>1. p[2] \notin ReadActions /\ p[2] \notin {"create", "initiate"}
    BY <1>3 DEF ReadActions
  <2>2. ToCrudPermission(p) = <<p[1], "delete">>
    BY <1>3, <2>1 DEF ToCrudPermission
  <2> QED
    BY <1>3, <2>1, <2>2
<1>4. CASE p[2] \notin ReadActions \cup {"create", "initiate", "delete"}
  <2>1. ToCrudPermission(p) = <<p[1], "update">>
    BY <1>4 DEF ToCrudPermission
  <2>2. p[2] # "read"
    BY <1>4 DEF ReadActions
  <2> QED
    BY <1>4, <2>1, <2>2
<1> QED
  BY <1>1, <1>2, <1>3, <1>4

\* The catalogue holds CRUD permissions only, and some.
LEMMA CatalogIsCrud == Catalog \subseteq ToCrud(Catalog) /\ Catalog # {}
<1>1. \A p \in Catalog : p = <<p[1], p[2]>> /\ p[2] \in {"read", "update", "create", "delete"}
  BY DEF Catalog, Perms
<1>2. ASSUME NEW p \in Catalog PROVE ToCrudPermission(p) = p
  <2>1. CASE p[2] = "read"
    BY <1>1, <2>1, CrudReads
  <2>2. CASE p[2] = "create"
    BY <1>1, <2>2, CrudReads
  <2>3. CASE p[2] = "delete"
    BY <1>1, <2>3, CrudReads
  <2>4. CASE p[2] = "update"
    <3>1. p[2] \notin ReadActions \cup {"create", "initiate", "delete"}
      BY <2>4 DEF ReadActions
    <3> QED
      BY <1>1, <2>4, <3>1, CrudReads
  <2> QED
    BY <1>1, <2>1, <2>2, <2>3, <2>4
<1>3. <<"users", "read">> \in Catalog
  BY DEF Catalog, ReadUpdateModules
<1> QED
  BY <1>2, <1>3 DEF ToCrud

LEMMA CatalogHas ==
  /\ \A m \in ReadModules : <<m, "read">> \in Catalog
  /\ \A m \in ReadUpdateModules : <<m, "read">> \in Catalog /\ <<m, "update">> \in Catalog
  /\ \A m \in ReadCreateUpdateModules : \A a \in {"read", "create", "update"} : <<m, a>> \in Catalog
  /\ \A m \in CrudModules : \A a \in {"read", "create", "update", "delete"} : <<m, a>> \in Catalog
  /\ <<"broadcasts", "create">> \in Catalog
BY DEF Catalog, Perms

\* The ways a controller's rows are written down.
LEMMA JoinedRows ==
  ASSUME NEW A, NEW B, Sound(A), Sound(B)
  PROVE  Sound(A \cup B)
BY DEF Sound

LEMMA StaffRows ==
  ASSUME NEW path, NEW module, NEW reads, NEW writes,
         \A g \in writes : g[1] \notin ReadActions,
         \A g \in reads \cup writes : ToCrudPermission(<<module, g[1]>>) \in Catalog
  PROVE  Sound(Staff(path, module, reads, writes))
<1>1. ASSUME NEW g \in reads \cup writes, NEW w \in BOOLEAN,
             w => g[1] \notin ReadActions
      PROVE  LET r == Route(path, Admins, Perms(module, {g[1]}), {{}}, w, g[2])
             IN  AsksToWrite(r) /\ Grantable(r)
  <2> DEFINE r == Route(path, Admins, Perms(module, {g[1]}), {{}}, w, g[2])
  <2>1. r.write = w /\ r.guard = Perms(module, {g[1]})
    BY DEF Route
  <2>2. Perms(module, {g[1]}) = {<<module, g[1]>>}
    BY DEF Perms
  <2> HIDE DEF r
  <2>3. AsksToWrite(r)
    <3>1. CASE w = FALSE
      BY <2>1, <3>1 DEF AsksToWrite
    <3>2. CASE w = TRUE
      <4>1. <<module, g[1]>>[2] \notin ReadActions
        BY <1>1, <3>2
      <4>2. \E p \in r.guard : p[2] \notin ReadActions
        BY <2>1, <2>2, <4>1
      <4> QED
        BY <4>2 DEF AsksToWrite
    <3> QED
      BY <3>1, <3>2
  <2>4. Grantable(r)
    <3>1. r.guard = {<<module, g[1]>>}
      BY <2>1, <2>2
    <3>2. ToCrudPermission(<<module, g[1]>>) \in Catalog
      BY <1>1
    <3> QED
      BY <3>1, <3>2 DEF Grantable, ToCrud
  <2> QED
    BY <2>3, <2>4 DEF r
<1>2. \A g \in reads : LET r == Route(path, Admins, Perms(module, {g[1]}), {{}}, FALSE, g[2])
                       IN  AsksToWrite(r) /\ Grantable(r)
  BY <1>1
<1>3. \A g \in writes : LET r == Route(path, Admins, Perms(module, {g[1]}), {{}}, TRUE, g[2])
                        IN  AsksToWrite(r) /\ Grantable(r)
  BY <1>1
<1> QED
  BY <1>2, <1>3 DEF Sound, Staff

\* A row without a guard.
LEMMA UnguardedRow ==
  ASSUME NEW path, NEW who, NEW checks, NEW write, NEW handlers,
         \/ "STAFF" \notin who
         \/ write = FALSE
         \/ \A alternative \in checks : \E p \in alternative : p[2] \notin ReadActions
  PROVE  LET r == Route(path, who, {}, checks, write, handlers)
         IN  AsksToWrite(r) /\ Grantable(r)
<1> DEFINE r == Route(path, who, {}, checks, write, handlers)
<1>1. r.write = write /\ r.guard = {} /\ r.who = who /\ r.checks = checks
  BY DEF Route
<1> HIDE DEF r
<1>2. AsksToWrite(r)
  BY <1>1 DEF AsksToWrite
<1>3. Grantable(r)
  BY <1>1 DEF Grantable, ToCrud
<1> QED
  BY <1>2, <1>3 DEF r

LEMMA CheckedRows ==
  ASSUME NEW path, NEW module, NEW actions, NEW handler, actions \cap ReadActions = {}
  PROVE  Sound(Checked(path, module, actions, handler))
<1>1. ASSUME NEW a \in actions
      PROVE  LET r == Route(path, Admins, {}, {{<<module, a>>}}, TRUE, {handler})
             IN  AsksToWrite(r) /\ Grantable(r)
  <2>1. <<module, a>>[2] \notin ReadActions
    OBVIOUS
  <2>2. \A alternative \in {{<<module, a>>}} : \E p \in alternative : p[2] \notin ReadActions
    BY <2>1
  <2> QED
    BY <2>2, UnguardedRow
<1> QED
  BY <1>1 DEF Sound, Checked

LEMMA RoleRows ==
  ASSUME NEW who, NEW path, NEW reads, NEW writes, "STAFF" \notin who
  PROVE  Sound(For(who, path, reads, writes))
<1>1. LET r == Route(path, who, {}, {{}}, FALSE, reads) IN AsksToWrite(r) /\ Grantable(r)
  BY UnguardedRow
<1>2. LET r == Route(path, who, {}, {{}}, TRUE, writes) IN AsksToWrite(r) /\ Grantable(r)
  BY UnguardedRow
<1> QED
  BY <1>1, <1>2 DEF Sound, For

LEMMA SuperAdminRows ==
  ASSUME NEW path, NEW reads, NEW writes
  PROVE  Sound(SuperAdmin(path, reads, writes))
<1>1. "STAFF" \notin {"SUPER_ADMIN"}
  OBVIOUS
<1> QED
  BY <1>1, RoleRows DEF SuperAdmin
\* What the catalogue grants of a module, by the set of verbs it lists the module with.
LEMMA Granted ==
  ASSUME NEW module, NEW a
  PROVE  /\ module \in ReadModules /\ a \in ReadActions
              => ToCrudPermission(<<module, a>>) \in Catalog
         /\ module \in ReadUpdateModules /\ a \notin {"create", "initiate", "delete"}
              => ToCrudPermission(<<module, a>>) \in Catalog
         /\ module \in ReadCreateUpdateModules /\ a # "delete"
              => ToCrudPermission(<<module, a>>) \in Catalog
         /\ module \in CrudModules => ToCrudPermission(<<module, a>>) \in Catalog
<1> DEFINE p == <<module, a>>
<1>1. p[1] = module /\ p[2] = a
  OBVIOUS
<1> HIDE DEF p
<1>2. CASE a \in ReadActions
  <2>1. ToCrudPermission(p) = <<module, "read">>
    BY <1>1, <1>2, CrudReads
  <2> QED
    BY <1>2, <2>1, CatalogHas DEF p
<1>3. CASE a \in {"create", "initiate"}
  <2>1. ToCrudPermission(p) = <<module, "create">>
    BY <1>1, <1>3, CrudReads
  <2>2. a \notin ReadActions
    BY <1>3 DEF ReadActions
  <2> QED
    BY <1>3, <2>1, <2>2, CatalogHas DEF p
<1>4. CASE a = "delete"
  <2>1. ToCrudPermission(p) = <<module, "delete">>
    BY <1>1, <1>4, CrudReads
  <2>2. a \notin ReadActions
    BY <1>4 DEF ReadActions
  <2> QED
    BY <1>4, <2>1, <2>2, CatalogHas DEF p
<1>5. CASE a \notin ReadActions \cup {"create", "initiate", "delete"}
  <2>1. ToCrudPermission(p) = <<module, "update">>
    BY <1>1, <1>5, CrudReads
  <2> QED
    BY <1>5, <2>1, CatalogHas DEF p
<1> QED
  BY <1>2, <1>3, <1>4, <1>5

LEMMA ReadOnlyRows ==
  ASSUME NEW path, NEW module \in ReadModules, NEW reads, \A g \in reads : g[1] \in ReadActions
  PROVE  Sound(Staff(path, module, reads, {}))
<1>1. \A g \in {} : g[1] \notin ReadActions
  OBVIOUS
<1>2. \A g \in reads \cup {} : ToCrudPermission(<<module, g[1]>>) \in Catalog
  BY Granted
<1> QED
  BY <1>1, <1>2, StaffRows

LEMMA ReadUpdateRows ==
  ASSUME NEW path, NEW module \in ReadUpdateModules, NEW reads, NEW writes,
         \A g \in writes : g[1] \notin ReadActions,
         \A g \in reads \cup writes : g[1] \notin {"create", "initiate", "delete"}
  PROVE  Sound(Staff(path, module, reads, writes))
<1>1. \A g \in reads \cup writes : ToCrudPermission(<<module, g[1]>>) \in Catalog
  BY Granted
<1> QED
  BY <1>1, StaffRows

LEMMA ReadCreateUpdateRows ==
  ASSUME NEW path, NEW module \in ReadCreateUpdateModules, NEW reads, NEW writes,
         \A g \in writes : g[1] \notin ReadActions,
         \A g \in reads \cup writes : g[1] # "delete"
  PROVE  Sound(Staff(path, module, reads, writes))
<1>1. \A g \in reads \cup writes : ToCrudPermission(<<module, g[1]>>) \in Catalog
  BY Granted
<1> QED
  BY <1>1, StaffRows

LEMMA CrudRows ==
  ASSUME NEW path, NEW module \in CrudModules, NEW reads, NEW writes,
         \A g \in writes : g[1] \notin ReadActions
  PROVE  Sound(Staff(path, module, reads, writes))
<1>1. \A g \in reads \cup writes : ToCrudPermission(<<module, g[1]>>) \in Catalog
  BY Granted
<1> QED
  BY <1>1, StaffRows

-----------------------------------------------------------------------------
\* The administration, controller by controller.
LEMMA ReadModulesSound ==
  /\ Sound(AdminDashboardController)
  /\ Sound(AdminPlatformAnalyticsController)
  /\ Sound(AdminSystemHealthController)
<1>1. Sound(AdminDashboardController)
  BY ReadOnlyRows DEF AdminDashboardController, ReadModules, ReadActions
<1>2. Sound(AdminPlatformAnalyticsController)
  BY ReadOnlyRows DEF AdminPlatformAnalyticsController, ReadModules, ReadActions
<1>3. Sound(AdminSystemHealthController)
  BY ReadOnlyRows DEF AdminSystemHealthController, ReadModules, ReadActions
<1> QED
  BY <1>1, <1>2, <1>3

LEMMA PlainCrudSound ==
  /\ Sound(AdminDocumentsController)
  /\ Sound(GiftCategoriesController)
  /\ Sound(ProviderBusinessCategoriesController)
  /\ Sound(SeasonalThemesAdminController)
  /\ Sound(SocialReportingRulesController)
  /\ Sound(PlanFeaturesController)
<1>1. Sound(AdminDocumentsController)
  BY CrudRows DEF AdminDocumentsController, CrudModules, ReadActions
<1>2. Sound(GiftCategoriesController)
  BY CrudRows DEF GiftCategoriesController, CrudModules, ReadActions
<1>3. Sound(ProviderBusinessCategoriesController)
  BY CrudRows DEF ProviderBusinessCategoriesController, CrudModules, ReadActions
<1>4. Sound(SeasonalThemesAdminController)
  BY CrudRows DEF SeasonalThemesAdminController, CrudModules, ReadActions
<1>5. Sound(SocialReportingRulesController)
  BY CrudRows DEF SocialReportingRulesController, CrudModules, ReadActions
<1>6. Sound(PlanFeaturesController)
  BY CrudRows DEF PlanFeaturesController, CrudModules, ReadActions
<1> QED
  BY <1>1, <1>2, <1>3, <1>4, <1>5, <1>6

LEMMA PlainUpdateSound ==
  /\ Sound(AdminPayoutSettingsController)
  /\ Sound(ReviewPoliciesController)
  /\ Sound(SystemSettingsController)
  /\ Sound(UserSafetyAdminController)
  /\ Sound(AdminDisputesController)
  /\ Sound(AdminProviderDocumentsController)
<1>1. Sound(AdminPayoutSettingsController)
  <2>1. "payoutSettings" \in ReadUpdateModules
    BY DEF ReadUpdateModules
  <2> QED
    BY <2>1, ReadUpdateRows DEF AdminPayoutSettingsController, ReadActions
<1>2. Sound(ReviewPoliciesController)
  <2>1. "reviewPolicies" \in ReadUpdateModules
    BY DEF ReadUpdateModules
  <2> QED
    BY <2>1, ReadUpdateRows DEF ReviewPoliciesController, ReadActions
<1>3. Sound(SystemSettingsController)
  <2>1. "systemSettings" \in ReadUpdateModules
    BY DEF ReadUpdateModules
  <2> QED
    BY <2>1, ReadUpdateRows DEF SystemSettingsController, ReadActions
<1>4. Sound(UserSafetyAdminController)
  <2>1. "userSafety" \in ReadUpdateModules
    BY DEF ReadUpdateModules
  <2> QED
    BY <2>1, ReadUpdateRows DEF UserSafetyAdminController, ReadActions
<1>5. Sound(AdminDisputesController)
  BY ReadCreateUpdateRows DEF AdminDisputesController, ReadCreateUpdateModules, ReadActions
<1>6. Sound(AdminProviderDocumentsController)
  BY ReadCreateUpdateRows DEF AdminProviderDocumentsController, ReadCreateUpdateModules, ReadActions
<1> QED
  BY <1>1, <1>2, <1>3, <1>4, <1>5, <1>6

LEMMA SuperAdminSound ==
  /\ Sound(AuditLogsController)
  /\ Sound(StaffManagementController)
  /\ Sound(StaffRolesController)
BY SuperAdminRows DEF AuditLogsController, StaffManagementController, StaffRolesController

LEMMA BroadcastsSound == Sound(BroadcastNotificationsController)
<1>1. ToCrudPermission(<<"broadcasts", "create">>) = <<"broadcasts", "create">>
  BY CrudReads
<1>2. \A g \in {<<"create", {"create"}>>} : g[1] \notin ReadActions
  BY DEF ReadActions
<1>3. \A g \in {} \cup {<<"create", {"create"}>>} : ToCrudPermission(<<"broadcasts", g[1]>>) \in Catalog
  BY <1>1, CatalogHas
<1> QED
  BY <1>2, <1>3, StaffRows DEF BroadcastNotificationsController

\* A Super Admin's rows next to the staff's.
LEMMA SettingsSound ==
  /\ Sound(ReferralSettingsController)
  /\ Sound(RefundPolicySettingsController)
<1>1. Sound(Staff(<<"referral-settings">>, "referralSettings", {<<"read", {"get", "stats"}>>}, {}))
  BY ReadUpdateRows DEF ReadUpdateModules
<1>2. Sound(Staff(<<"admin", "refund-policy-settings">>, "refundPolicies", {<<"read", {"get"}>>}, {}))
  BY ReadUpdateRows DEF ReadUpdateModules
<1>3. Sound(ReferralSettingsController)
  BY <1>1, SuperAdminRows, JoinedRows DEF ReferralSettingsController
<1> QED
  BY <1>2, <1>3, SuperAdminRows, JoinedRows DEF RefundPolicySettingsController

\* Handlers that ask for the permission of their action.
LEMMA ActionsAreNoReads ==
  \A actions \in {PayoutActions, {"approve"}, ReviewActions, TransactionActions, OfferActions,
                  ProviderActions, UserActions, PlanFields, {"create"}} :
    actions \cap ReadActions = {}
BY DEF PayoutActions, ReviewActions, TransactionActions, OfferActions, ProviderActions,
       UserActions, PlanFields, ReadActions

LEMMA CheckedSound ==
  /\ Sound(AdminProviderPayoutsController)
  /\ Sound(AdminTransactionsController)
  /\ Sound(PromotionalOffersManagementController)
  /\ Sound(ProviderManagementController)
  /\ Sound(UserManagementController)
<1>1. Sound(AdminProviderPayoutsController)
  <2>1. Sound(Staff(<<"admin", "provider-payouts">>, "providerPayouts",
          {<<"read", {"stats", "trends", "earningDistribution", "list", "breakdown", "details"}>>,
           <<"export", {"export"}>>}, {}))
    BY ReadCreateUpdateRows DEF ReadCreateUpdateModules
  <2>2. /\ Sound(Checked(<<"admin", "provider-payouts">>, "providerPayouts", PayoutActions, "action"))
        /\ Sound(Checked(<<"admin", "provider-payouts">>, "providerPayouts", {"approve"}, "bulkAction"))
    BY ActionsAreNoReads, CheckedRows
  <2> QED
    BY <2>1, <2>2, JoinedRows DEF AdminProviderPayoutsController
<1>2. Sound(AdminTransactionsController)
  <2>1. Sound(Staff(<<"admin", "transactions">>, "transactions",
          {<<"read", {"stats", "list", "timeline", "details"}>>, <<"export", {"export"}>>,
           <<"receipt.download", {"receipt"}>>}, {}))
    BY ReadUpdateRows DEF ReadUpdateModules
  <2>2. Sound(Checked(<<"admin", "transactions">>, "transactions", TransactionActions, "action"))
    BY ActionsAreNoReads, CheckedRows
  <2> QED
    BY <2>1, <2>2, JoinedRows DEF AdminTransactionsController
<1>3. Sound(PromotionalOffersManagementController)
  <2>1. Sound(Staff(<<"promotional-offers">>, "promotionalOffers",
          {<<"read", {"stats", "listAdmin", "adminDetails"}>>, <<"export", {"export"}>>},
          {<<"create", {"createAdmin"}>>, <<"update", {"updateAdmin"}>>,
           <<"delete", {"deleteAdmin"}>>}))
    BY CrudRows DEF CrudModules, ReadActions
  <2>2. Sound(Checked(<<"promotional-offers">>, "promotionalOffers", OfferActions, "action"))
    BY ActionsAreNoReads, CheckedRows
  <2> QED
    BY <2>1, <2>2, JoinedRows DEF PromotionalOffersManagementController
<1>4. Sound(ProviderManagementController)
  <2>1. Sound(Staff(<<"providers">>, "providers",
          {<<"read", {"stats", "list", "lookup", "details", "items", "activity"}>>,
           <<"export", {"export"}>>},
          {<<"create", {"create"}>>, <<"update", {"update"}>>, <<"message", {"message"}>>}))
    BY ReadCreateUpdateRows DEF ReadCreateUpdateModules, ReadActions
  <2>2. Sound(Checked(<<"providers">>, "providers", ProviderActions, "updateStatus"))
    BY ActionsAreNoReads, CheckedRows
  <2>3. Sound(SuperAdmin(<<"providers">>, {}, {"permanentlyDelete"}))
    BY SuperAdminRows
  <2> QED
    BY <2>1, <2>2, <2>3, JoinedRows DEF ProviderManagementController
<1>5. Sound(UserManagementController)
  <2>0. "users" \in ReadUpdateModules
    BY DEF ReadUpdateModules
  <2>1. Sound(Staff(<<"users">>, "users",
          {<<"read", {"list", "details", "activity", "stats"}>>,
           <<"export", {"exportRegisteredUsers"}>>},
          {<<"update", {"update"}>>, <<"resetPassword", {"resetPassword"}>>}))
    BY <2>0, ReadUpdateRows DEF ReadActions
  <2>2. Sound(Checked(<<"users">>, "users", UserActions, "updateStatus"))
    BY ActionsAreNoReads, CheckedRows
  <2>3. Sound(SuperAdmin(<<"users">>, {}, {"permanentlyDelete"}))
    BY SuperAdminRows
  <2> QED
    BY <2>1, <2>2, <2>3, JoinedRows DEF UserManagementController
<1> QED
  BY <1>1, <1>2, <1>3, <1>4, <1>5

\* A row with a guard of one permission that is not reading.
LEMMA GuardedRow ==
  ASSUME NEW path, NEW who, NEW module \in ReadUpdateModules \cup CrudModules, NEW a,
         a \notin ReadActions \cup {"create", "initiate", "delete"},
         NEW checks, NEW handlers
  PROVE  LET r == Route(path, who, {<<module, a>>}, checks, TRUE, handlers)
         IN  AsksToWrite(r) /\ Grantable(r)
<1> DEFINE r == Route(path, who, {<<module, a>>}, checks, TRUE, handlers)
<1>1. r.guard = {<<module, a>>}
  BY DEF Route
<1> HIDE DEF r
<1>2. AsksToWrite(r)
  <2>1. <<module, a>>[2] \notin ReadActions
    OBVIOUS
  <2>2. \E p \in r.guard : p[2] \notin ReadActions
    BY <1>1, <2>1
  <2> QED
    BY <2>2 DEF AsksToWrite
<1>3. Grantable(r)
  <2>1. ToCrudPermission(<<module, a>>) \in Catalog
    BY Granted
  <2> QED
    BY <1>1, <2>1 DEF Grantable, ToCrud
<1> QED
  BY <1>2, <1>3 DEF r

LEMMA ReviewsSound == Sound(AdminReviewsController)
<1>1. Sound(Staff(<<"admin", "reviews">>, "reviews",
        {<<"read", {"dashboard", "stats", "flaggedSummary", "list", "details"}>>,
         <<"export", {"export"}>>, <<"moderate", {"moderationQueue"}>>}, {}))
  BY ReadUpdateRows DEF ReadUpdateModules
<1> DEFINE Moderate(a) == Route(<<"admin", "reviews">>, Admins, {<<"reviews", "moderate">>},
                                {{<<"reviews", a>>}}, TRUE, {"moderate"})
<1>2. \A a \in ReviewActions : AsksToWrite(Moderate(a)) /\ Grantable(Moderate(a))
  <2>1. /\ "reviews" \in ReadUpdateModules
        /\ "moderate" \notin ReadActions \cup {"create", "initiate", "delete"}
    BY DEF ReadUpdateModules, ReadActions
  <2> QED
    BY <2>1, GuardedRow
<1>3. Sound({Moderate(a) : a \in ReviewActions})
  BY <1>2 DEF Sound
<1> QED
  BY <1>1, <1>3, JoinedRows DEF AdminReviewsController

LEMMA SocialSound == Sound(SocialModerationController)
<1>1. Sound(Staff(<<"admin", "social-moderation">>, "socialModeration",
        {<<"read", {"stats", "reports", "reportDetails"}>>, <<"export", {"exportReports"}>>}, {}))
  BY ReadUpdateRows DEF ReadUpdateModules
<1> DEFINE Moderate(extra) ==
             Route(<<"admin", "social-moderation">>, Admins, {<<"socialModeration", "moderate">>},
                   {Perms("socialModeration", {"moderate"} \cup extra)}, TRUE, {"action"})
<1>2. \A extra \in SocialActions : AsksToWrite(Moderate(extra)) /\ Grantable(Moderate(extra))
  <2>1. /\ "socialModeration" \in ReadUpdateModules
        /\ "moderate" \notin ReadActions \cup {"create", "initiate", "delete"}
    BY DEF ReadUpdateModules, ReadActions
  <2> QED
    BY <2>1, GuardedRow
<1>3. Sound({Moderate(extra) : extra \in SocialActions})
  BY <1>2 DEF Sound
<1> QED
  BY <1>1, <1>3, JoinedRows DEF SocialModerationController

LEMMA PlansSound == Sound(SubscriptionPlansController)
<1>1. Sound(Staff(<<"subscription-plans">>, "subscriptionPlans",
        {<<"read", {"listPlans", "planDetails"}>>, <<"analytics.read", {"stats", "analytics"}>>},
        {<<"create", {"createPlan"}>>, <<"delete", {"deletePlan"}>>}))
  BY CrudRows DEF CrudModules, ReadActions
<1> DEFINE Update(kind) ==
             Route(<<"subscription-plans">>, Admins, {<<"subscriptionPlans", "update">>},
                   {{<<"subscriptionPlans", a>>} : a \in {"update", kind}}, TRUE, {"updatePlan"})
<1>2. \A kind \in PlanFields : AsksToWrite(Update(kind)) /\ Grantable(Update(kind))
  <2>1. /\ "subscriptionPlans" \in CrudModules
        /\ "update" \notin ReadActions \cup {"create", "initiate", "delete"}
    BY DEF CrudModules, ReadActions
  <2> QED
    BY <2>1, GuardedRow
<1>3. Sound({Update(kind) : kind \in PlanFields})
  BY <1>2 DEF Sound
<1> QED
  BY <1>1, <1>3, JoinedRows DEF SubscriptionPlansController

LEMMA GiftsSound == Sound(GiftsController)
<1>1. Sound(Staff(<<"gifts">>, "gifts",
        {<<"read", {"listGifts", "giftDetails"}>>, <<"export", {"exportGifts"}>>},
        {<<"delete", {"deleteGift"}>>}))
  BY CrudRows DEF CrudModules, ReadActions
<1>2. Sound(Checked(<<"gifts">>, "gifts", {"create"}, "createGift"))
  BY ActionsAreNoReads, CheckedRows
<1> DEFINE Edit(edit) == Route(<<"gifts">>, Admins, {}, {Perms("gifts", edit)}, TRUE, {"updateGift"})
<1>3. ASSUME NEW edit \in GiftEdits PROVE AsksToWrite(Edit(edit)) /\ Grantable(Edit(edit))
  <2>1. PICK a \in edit : a \notin ReadActions
    BY DEF GiftEdits, ReadActions
  <2>2. <<"gifts", a>> \in Perms("gifts", edit) /\ <<"gifts", a>>[2] \notin ReadActions
    BY <2>1 DEF Perms
  <2>3. \A alternative \in {Perms("gifts", edit)} : \E p \in alternative : p[2] \notin ReadActions
    BY <2>2
  <2> QED
    BY <2>3, UnguardedRow
<1>4. Sound({Edit(edit) : edit \in GiftEdits})
  BY <1>3 DEF Sound
<1> DEFINE Own == Route(<<"gifts">>, Provider, {}, {{}}, TRUE, {"createGift"})
<1>5. Sound({Own})
  <2>1. "STAFF" \notin Provider
    BY DEF Provider
  <2>2. AsksToWrite(Own) /\ Grantable(Own)
    BY <2>1, UnguardedRow
  <2> QED
    BY <2>2 DEF Sound
<1> QED
  BY <1>1, <1>2, <1>4, <1>5, JoinedRows DEF GiftsController

\* Every row of the administration asks for what it does, and for what can be granted.
LEMMA AdministrationSound == Sound(AdminRoutes)
<1>1. \A rows \in {AdminDashboardController, AdminDisputesController, AdminDocumentsController,
         AdminPayoutSettingsController, AdminPlatformAnalyticsController,
         AdminProviderPayoutsController, AdminReviewsController, ReviewPoliciesController,
         AdminSystemHealthController, AdminTransactionsController, AuditLogsController,
         BroadcastNotificationsController, GiftCategoriesController, GiftsController,
         PromotionalOffersManagementController, ProviderBusinessCategoriesController,
         AdminProviderDocumentsController, ProviderManagementController,
         ReferralSettingsController, RefundPolicySettingsController,
         SeasonalThemesAdminController, SocialModerationController,
         SocialReportingRulesController, StaffManagementController, StaffRolesController,
         PlanFeaturesController, SubscriptionPlansController, SystemSettingsController,
         UserManagementController, UserSafetyAdminController} : Sound(rows)
  BY ReadModulesSound, PlainCrudSound, PlainUpdateSound, SuperAdminSound, BroadcastsSound,
     SettingsSound, CheckedSound, ReviewsSound, SocialSound, PlansSound, GiftsSound
<1>2. ASSUME NEW collection, \A rows \in collection : Sound(rows) PROVE Sound(UNION collection)
  BY <1>2 DEF Sound
<1> QED
  BY <1>1, <1>2 DEF AdminRoutes

-----------------------------------------------------------------------------
\* The other controllers have no permission guard.
Unguarded(rows) == \A r \in rows : r.guard = {}

LEMMA ForIsUnguarded ==
  \A who, path, reads, writes : Unguarded(For(who, path, reads, writes))
BY DEF Unguarded, For, Route

LEMMA StorageIsUnguarded == Unguarded(StorageController)
<1>1. \A folder \in UploadPermissions :
        Route(<<"uploads">>, Admins, {}, {{p} : p \in folder}, TRUE, {"createPresignedUpload"}).guard
          = {}
  BY DEF Route
<1>2. Unguarded({Route(<<"uploads">>, Admins, {}, {{p} : p \in folder}, TRUE,
                       {"createPresignedUpload"}) : folder \in UploadPermissions})
  BY <1>1 DEF Unguarded
<1> QED
  BY <1>2, ForIsUnguarded DEF StorageController, Unguarded

LEMMA OthersUnguarded == Unguarded(OtherRoutes)
<1>1. \A rows \in {AuthController, ChatsController, NotificationsController, StorageController,
         CustomerDisputesController, CustomerContactsController, CustomerEventsController} :
        Unguarded(rows)
  BY ForIsUnguarded, StorageIsUnguarded DEF AuthController, ChatsController,
     NotificationsController, CustomerDisputesController, CustomerContactsController,
     CustomerEventsController
<1>2. \A rows \in {CustomerMarketplaceController, CustomerProviderInteractionsController,
         CustomerRecurringPaymentsController, CustomerReferralsController,
         CustomerSubscriptionsController, CustomerTransactionsController,
         CustomerWalletController} : Unguarded(rows)
  BY ForIsUnguarded DEF CustomerMarketplaceController,
     CustomerProviderInteractionsController, CustomerRecurringPaymentsController,
     CustomerReferralsController, CustomerSubscriptionsController,
     CustomerTransactionsController, CustomerWalletController
<1>3. \A rows \in {PaymentsController, UserSafetyController, ProviderDisputesController,
         ProviderPromotionalOffersController, ProviderBusinessInfoController,
         ProviderDashboardController, ProviderDocumentsController} : Unguarded(rows)
  BY ForIsUnguarded DEF PaymentsController, UserSafetyController,
     ProviderDisputesController, ProviderPromotionalOffersController,
     ProviderBusinessInfoController, ProviderDashboardController, ProviderDocumentsController
<1>4. \A rows \in {ProviderEarningsController, ProviderPayoutsController,
         ProviderInteractionsController, ProviderInventoryController,
         ProviderOrdersController, ProviderPayoutMethodsController,
         ProviderRefundRequestsController} : Unguarded(rows)
  BY ForIsUnguarded DEF ProviderEarningsController, ProviderPayoutsController,
     ProviderInteractionsController, ProviderInventoryController, ProviderOrdersController,
     ProviderPayoutMethodsController, ProviderRefundRequestsController
<1>5. \A rows \in {AuthController, ChatsController, NotificationsController, StorageController,
         CustomerDisputesController, CustomerContactsController, CustomerEventsController,
         CustomerMarketplaceController, CustomerProviderInteractionsController,
         CustomerRecurringPaymentsController, CustomerReferralsController,
         CustomerSubscriptionsController, CustomerTransactionsController,
         CustomerWalletController, PaymentsController, UserSafetyController,
         ProviderDisputesController, ProviderPromotionalOffersController,
         ProviderBusinessInfoController, ProviderDashboardController,
         ProviderDocumentsController, ProviderEarningsController,
         ProviderPayoutsController, ProviderInteractionsController,
         ProviderInventoryController, ProviderOrdersController,
         ProviderPayoutMethodsController, ProviderRefundRequestsController} : Unguarded(rows)
  BY <1>1, <1>2, <1>3, <1>4
<1>6. ASSUME NEW collection, \A rows \in collection : Unguarded(rows)
      PROVE  Unguarded(UNION collection)
  BY <1>6 DEF Unguarded
<1> QED
  BY <1>5, <1>6 DEF OtherRoutes

-----------------------------------------------------------------------------
\* What a request has been through when it is where it is.
Passed(c) ==
  /\ c.role \in c.route.who
  /\ c.role # "STAFF" => c.held = {}
  /\ c.at = "refused" => ~PermissionsAllow(c.route, c.role, c.held)
  /\ c.at \in {"handler", "ran"} => PermissionsAllow(c.route, c.role, c.held)
  /\ c.at = "ran" => HandlerAllows(c.route, c.role, c.held)

AccessInv == AccessTypeOK /\ (call # NoCall => Passed(call))

LEMMA AccessInitially == AccessInit => AccessInv
BY DEF AccessInit, AccessInv, AccessTypeOK

LEMMA CallFields ==
  ASSUME NEW at, NEW route, NEW role, NEW ps
  PROVE  /\ Call(at, route, role, ps).at = at
         /\ Call(at, route, role, ps).route = route
         /\ Call(at, route, role, ps).role = role
         /\ Call(at, route, role, ps).held = ps
         /\ /\ at \in {"handler", "refused", "denied", "ran"} /\ route \in Routes
            /\ role \in Callers /\ ps \in GrantChoices \cup {{}}
            => Call(at, route, role, ps)
                     \in [at : {"handler", "refused", "denied", "ran"}, route : Routes,
                          role : Callers, held : GrantChoices \cup {{}}]
BY DEF Call

LEMMA ArriveKeeps ==
  ASSUME AccessInv, NEW route \in Routes, NEW role \in Callers, Arrive(route, role)
  PROVE  AccessInv'
<1> DEFINE at == IF PermissionsAllow(route, role, grants) THEN "handler" ELSE "refused"
           ps == IF role = "STAFF" THEN grants ELSE {}
<1>1. /\ call' = Call(at, route, role, ps) /\ role \in route.who
      /\ grants' = grants /\ status' = status
  BY DEF Arrive, RoleAllows
<1>2. PermissionsAllow(route, role, ps) = PermissionsAllow(route, role, grants)
  <2>1. CASE role = "STAFF"
    BY <2>1
  <2>2. CASE role # "STAFF"
    BY <2>2 DEF PermissionsAllow
  <2> QED
    BY <2>1, <2>2
<1>3. at \in {"handler", "refused"} /\ ps \in GrantChoices \cup {{}}
  BY DEF AccessInv, AccessTypeOK
<1>4. /\ at = "handler" => PermissionsAllow(route, role, ps)
      /\ at = "refused" => ~PermissionsAllow(route, role, ps)
      /\ role # "STAFF" => ps = {}
  BY <1>2
<1> HIDE DEF at, ps
<1>5. Passed(Call(at, route, role, ps))
  <2>1. at # "ran"
    BY <1>3
  <2> QED
    BY <1>1, <1>3, <1>4, <2>1, CallFields DEF Passed
<1>6. AccessTypeOK'
  <2>1. call' \in [at : {"handler", "refused", "denied", "ran"}, route : Routes,
                   role : Callers, held : GrantChoices \cup {{}}]
    BY <1>1, <1>3, CallFields
  <2> QED
    BY <1>1, <2>1 DEF AccessInv, AccessTypeOK
<1> QED
  BY <1>1, <1>5, <1>6 DEF AccessInv

LEMMA HandleKeeps ==
  ASSUME AccessInv, Handle
  PROVE  AccessInv'
<1> DEFINE at == IF HandlerAllows(call.route, call.role, call.held) THEN "ran" ELSE "denied"
<1>1. /\ call.at = "handler" /\ call' = [call EXCEPT !.at = at]
      /\ grants' = grants /\ status' = status
  BY DEF Handle
<1>2. call # NoCall
  BY <1>1 DEF NoCall
<1>3. call \in [at : {"handler", "refused", "denied", "ran"}, route : Routes,
                role : Callers, held : GrantChoices \cup {{}}]
  BY <1>2 DEF AccessInv, AccessTypeOK
<1>4. at \in {"ran", "denied"} /\ (at = "ran" => HandlerAllows(call.route, call.role, call.held))
  OBVIOUS
<1> HIDE DEF at
<1>5. call' = Call(at, call.route, call.role, call.held)
  BY <1>1, <1>3 DEF Call
<1>6. Passed(call) /\ PermissionsAllow(call.route, call.role, call.held)
  BY <1>1, <1>2 DEF AccessInv, Passed
<1>7. Passed(call')
  <2>1. at # "refused" /\ at # "handler"
    BY <1>4
  <2>2. call.role \in call.route.who /\ (call.role # "STAFF" => call.held = {})
    BY <1>6 DEF Passed
  <2> QED
    BY <1>4, <1>5, <1>6, <2>1, <2>2, CallFields DEF Passed
<1>8. AccessTypeOK'
  <2>1. call' \in [at : {"handler", "refused", "denied", "ran"}, route : Routes,
                   role : Callers, held : GrantChoices \cup {{}}]
    BY <1>1, <1>3, <1>4
  <2> QED
    BY <1>1, <2>1 DEF AccessInv, AccessTypeOK
<1> QED
  BY <1>7, <1>8 DEF AccessInv

LEMMA AccessStep == AccessInv /\ [AccessNext]_accessVars => AccessInv'
<1> SUFFICES ASSUME AccessInv, [AccessNext]_accessVars PROVE AccessInv'
  OBVIOUS
<1>1. ASSUME NEW route \in Routes, NEW role \in Callers, Arrive(route, role) PROVE AccessInv'
  BY <1>1, ArriveKeeps
<1>2. CASE Handle
  BY <1>2, HandleKeeps
<1>3. CASE Answer
  BY <1>3 DEF Answer, AccessInv, AccessTypeOK
<1>4. CASE UpdatePermissions
  BY <1>4 DEF UpdatePermissions, AccessInv, AccessTypeOK, Passed, PermissionsAllow, HandlerAllows
<1>5. CASE DecideOnProvider
  BY <1>5 DEF DecideOnProvider, AccessInv, AccessTypeOK, Passed, PermissionsAllow, HandlerAllows
<1>6. CASE UNCHANGED accessVars
  BY <1>6 DEF accessVars, AccessInv, AccessTypeOK, Passed, PermissionsAllow, HandlerAllows
<1> QED
  BY <1>1, <1>2, <1>3, <1>4, <1>5, <1>6 DEF AccessNext

LEMMA AccessInvariant == AccessSpec => []AccessInv
<1> QED
  BY AccessInitially, AccessStep, PTL DEF AccessSpec

\* Requests and grants keep their shape.
THEOREM AccessTypeCorrect == AccessSpec => []AccessTypeOK
<1>1. AccessInv => AccessTypeOK
  BY DEF AccessInv
<1> QED
  BY <1>1, AccessInvariant, PTL

\* Spellings name a status or a visibility: none of them is reading.
LEMMA SpellingsKeepReading ==
  ASSUME NEW route, NEW ps, OnlyReads(ps), NEW p \in Spellings(route, ps)
  PROVE  p[2] \in ReadActions
<1>1. \A q \in ps : q[2] \in ReadActions
  BY CrudReads DEF OnlyReads
<1>2. ASSUME NEW a, NEW b, a \notin ReadActions PROVE Renamed(ps, a, b) = {}
  BY <1>1, <1>2 DEF Renamed
<1>3. /\ "updateStatus" \notin ReadActions /\ "status.update" \notin ReadActions
      /\ "updateVisibility" \notin ReadActions /\ "visibility.update" \notin ReadActions
  BY DEF ReadActions
<1>4. StatusSpellings(ps) = {} /\ PlanSpellings(ps) = {}
  BY <1>2, <1>3 DEF StatusSpellings, PlanSpellings
<1>5. Spellings(route, ps) \subseteq ps
  BY <1>4 DEF Spellings
<1> QED
  BY <1>1, <1>5

\* A role that was granted nothing but reading writes nothing in the administration:
\* PermissionsGuard collapses a granular action onto its verb, the handlers compare the
\* granular one, and between them every route that writes asks for more than reading.
THEOREM ReadersNeverWrite == AccessSpec => []ReadersDoNotWrite
<1>1. AccessInv => ReadersDoNotWrite
  <2> SUFFICES ASSUME AccessInv, call.at = "ran", call.role = "STAFF",
                      call.route \in AdminRoutes, OnlyReads(call.held), call.route.write
               PROVE  FALSE
    BY DEF ReadersDoNotWrite
  <2> DEFINE r == call.route
             ps == call.held
  <2>1. call # NoCall
    BY DEF NoCall
  <2>2. "STAFF" \in r.who /\ PermissionsAllow(r, "STAFF", ps) /\ HandlerAllows(r, "STAFF", ps)
    BY <2>1 DEF AccessInv, Passed
  <2>3. AsksToWrite(r)
    BY AdministrationSound DEF Sound
  <2>4. \A p \in ps : ToCrudPermission(p)[2] = "read"
    BY DEF OnlyReads
  <2>5. OnlyReads(ps) /\ r.write
    OBVIOUS
  <2> HIDE DEF r, ps
  <2>6. CASE \E p \in r.guard : p[2] \notin ReadActions
    <3>1. PICK p \in r.guard : p[2] \notin ReadActions
      BY <2>6
    <3>2. ToCrud(r.guard) \subseteq ToCrud(ps)
      BY <2>2, <3>1 DEF PermissionsAllow
    <3>3. PICK q \in ps : ToCrudPermission(q) = ToCrudPermission(p)
      BY <3>2 DEF ToCrud
    <3> QED
      BY <2>4, <3>1, <3>3, CrudReads
  <2>7. CASE \A alternative \in r.checks : \E p \in alternative : p[2] \notin ReadActions
    <3>1. PICK alternative \in r.checks : alternative \subseteq Spellings(r, ps)
      BY <2>2 DEF HandlerAllows
    <3>2. PICK p \in alternative : p[2] \notin ReadActions
      BY <2>7
    <3> QED
      BY <2>5, <3>1, <3>2, SpellingsKeepReading
  <2> QED
    BY <2>2, <2>3, <2>5, <2>6, <2>7 DEF AsksToWrite
<1> QED
  BY <1>1, AccessInvariant, PTL

\* A role that was granted the whole catalogue is refused by no PermissionsGuard: every
\* permission a controller names collapses onto one the catalogue lists.
THEOREM CatalogAlwaysOpensGuards == AccessSpec => []CatalogOpensGuards
<1>1. AccessInv => CatalogOpensGuards
  <2> SUFFICES ASSUME AccessInv, call.at = "refused", Catalog \subseteq call.held PROVE FALSE
    BY DEF CatalogOpensGuards
  <2> DEFINE r == call.route
             ps == call.held
  <2>1. call # NoCall
    BY DEF NoCall
  <2>2. r \in Routes
    BY <2>1 DEF AccessInv, AccessTypeOK
  <2>3. ~PermissionsAllow(r, call.role, ps) /\ (call.role # "STAFF" => ps = {})
    BY <2>1 DEF AccessInv, Passed
  <2>4. call.role = "STAFF"
    BY <2>3, CatalogIsCrud
  <2>5. ToCrud(Catalog) \subseteq ToCrud(ps)
    BY DEF ToCrud
  <2> HIDE DEF r, ps
  <2>6. r.guard # {} /\ ~(ToCrud(r.guard) \subseteq ToCrud(ps))
    BY <2>3, <2>4 DEF PermissionsAllow
  <2>7. r \in AdminRoutes
    BY <2>2, <2>6, OthersUnguarded DEF Routes, Unguarded
  <2>8. ToCrud(r.guard) \subseteq Catalog
    BY <2>7, AdministrationSound DEF Sound, Grantable
  <2> QED
    BY <2>5, <2>6, <2>8, CatalogIsCrud
<1> QED
  BY <1>1, AccessInvariant, PTL

=============================================================================
