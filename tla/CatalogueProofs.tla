-------------------------- MODULE CatalogueProofs --------------------------
(***************************************************************************)
(* Proofs about the catalogue and what customers say and buy of it, for    *)
(* any number of rows and overlapping requests: offers (module Offers),    *)
(* reviews (module Reviews), gifts and carts (module Marketplace); and     *)
(* about the figures drawn from it (module Reports), for every calendar    *)
(* of equal months and every number of rows, and the lists its tables are  *)
(* cut into pages of (module Directory), for every number of rows.         *)
(***************************************************************************)
EXTENDS Offers, Reviews, Marketplace, Reports, Directory, FiniteSetTheorems,
        SequenceTheorems, NaturalsInduction, TLAPS

-----------------------------------------------------------------------------
(* What the writes make of a row.                                          *)

LEMMA NoOfferIsNoRow == NoOffer \notin OfferRow /\ NotReading \notin OfferRow
<1>1. \A row \in OfferRow : row.approval \in Approval
  BY Zenon DEF OfferRow
<1> QED
  BY <1>1 DEF NoOffer, NotReading, Approval

Edited(o, p, a, t, s, v) ==
  [o EXCEPT !.approval = p, !.active = a, !.terms = t, !.seen = s, !.overlapped = v]
Approved(o, s, v) == [o EXCEPT !.approval = "APPROVED", !.seen = s, !.overlapped = v]
Rejected(o) == [o EXCEPT !.approval = "REJECTED"]
Switched(o, a) == [o EXCEPT !.active = a]

Reviewed(o) == o.approval = "APPROVED" => o.seen = o.terms \/ o.overlapped

LEMMA EditedRow ==
  ASSUME NEW o \in OfferRow, NEW p \in Approval, NEW a \in BOOLEAN,
         NEW t \in 1 .. MaxTerms, NEW s \in 0 .. MaxTerms, NEW v \in BOOLEAN,
         p = "APPROVED" => s = t \/ v
  PROVE  Edited(o, p, a, t, s, v) \in OfferRow /\ Reviewed(Edited(o, p, a, t, s, v))
<1>1. /\ Edited(o, p, a, t, s, v) \in OfferRow
      /\ Edited(o, p, a, t, s, v).approval = p
      /\ Edited(o, p, a, t, s, v).terms = t
      /\ Edited(o, p, a, t, s, v).seen = s
      /\ Edited(o, p, a, t, s, v).overlapped = v
  BY Zenon DEF OfferRow, Edited
<1> QED
  BY <1>1, Zenon DEF Reviewed

LEMMA ApprovedRow ==
  ASSUME NEW o \in OfferRow, NEW s \in 0 .. MaxTerms, NEW v \in BOOLEAN
  PROVE  /\ Approved(o, s, v) \in OfferRow
         /\ Approved(o, s, v).terms = o.terms
         /\ Approved(o, s, v).seen = s
         /\ Approved(o, s, v).overlapped = v
<1>1. "APPROVED" \in Approval
  BY DEF Approval
<1> QED
  BY <1>1, Zenon DEF OfferRow, Approved

LEMMA RejectedRow ==
  ASSUME NEW o \in OfferRow
  PROVE  Rejected(o) \in OfferRow /\ Rejected(o).approval = "REJECTED"
<1>1. "REJECTED" \in Approval
  BY DEF Approval
<1> QED
  BY <1>1, Zenon DEF OfferRow, Rejected

LEMMA SwitchedRow ==
  ASSUME NEW o \in OfferRow, NEW a \in BOOLEAN
  PROVE  /\ Switched(o, a) \in OfferRow
         /\ Switched(o, a).approval = o.approval /\ Switched(o, a).terms = o.terms
         /\ Switched(o, a).seen = o.seen /\ Switched(o, a).overlapped = o.overlapped
BY Zenon DEF OfferRow, Switched

LEMMA CreatedRow ==
  ASSUME NEW p \in Approval, NEW a \in BOOLEAN
  PROVE  /\ NewOffer(p, a) \in OfferRow
         /\ p = "APPROVED" => NewOffer(p, a).seen = NewOffer(p, a).terms
         /\ NewOffer(p, a).approval = p
<1> DEFINE s == IF p = "APPROVED" THEN 1 ELSE 0
<1>1. 1 \in 1 .. MaxTerms /\ s \in 0 .. MaxTerms
  BY OffersAssumption
<1>2. NewOffer(p, a) = [approval |-> p, active |-> a, terms |-> 1, seen |-> s,
                        overlapped |-> FALSE]
  BY DEF NewOffer
<1> HIDE DEF s
<1>3. [approval |-> p, active |-> a, terms |-> 1, seen |-> s, overlapped |-> FALSE] \in OfferRow
  BY <1>1 DEF OfferRow
<1> QED
  BY <1>2, <1>3 DEF s

-----------------------------------------------------------------------------
(* The invariant: active or not, an approved row has its terms reviewed.   *)

OffersInv == /\ OffersTypeOK
             /\ offer # NoOffer => Reviewed(offer)

LEMMA ReadRow ==
  ASSUME OffersTypeOK, NEW e \in Editor, Reading(e), offer # NoOffer
  PROVE  /\ editor[e] \in OfferRow /\ offer \in OfferRow
         /\ editor[e].approval \in Approval /\ editor[e].active \in BOOLEAN
         /\ editor[e].terms \in 1 .. MaxTerms
         /\ offer.approval \in Approval /\ offer.active \in BOOLEAN
         /\ offer.terms \in 1 .. MaxTerms /\ offer.seen \in 0 .. MaxTerms
         /\ offer.overlapped \in BOOLEAN
<1>1. editor[e] \in OfferRow /\ offer \in OfferRow
  BY DEF OffersTypeOK, Reading
<1> QED
  BY <1>1 DEF OfferRow

LEMMA DoneTypes ==
  ASSUME OffersTypeOK, NEW e \in Editor, Done(e)
  PROVE  editor' \in [Editor -> OfferRow \cup {NotReading}]
BY DEF OffersTypeOK, Done

\* One row after another, where the request is done.
LEMMA WrittenRow ==
  ASSUME OffersTypeOK, NEW e \in Editor, Done(e), offer' \in OfferRow, Reviewed(offer')
  PROVE  OffersInv'
<1>1. editor' \in [Editor -> OfferRow \cup {NotReading}]
  BY DoneTypes
<1> QED
  BY <1>1 DEF OffersInv, OffersTypeOK

LEMMA OffersInitially == OffersInit => OffersInv
BY DEF OffersInit, OffersInv, OffersTypeOK

LEMMA CreateKeepsInv ==
  ASSUME OffersInv, CreateProviderOffer \/ CreateAdminOffer
  PROVE  OffersInv'
<1>1. UNCHANGED editor /\ \E p \in Approval, a \in BOOLEAN : offer' = NewOffer(p, a)
  BY DEF CreateProviderOffer, CreateAdminOffer, Approval
<1>2. PICK p \in Approval, a \in BOOLEAN : offer' = NewOffer(p, a)
  BY <1>1
<1>3. offer' \in OfferRow /\ Reviewed(offer')
  BY <1>2, CreatedRow DEF Reviewed
<1> QED
  BY <1>1, <1>3 DEF OffersInv, OffersTypeOK

\* An edit that keeps the approval it has read either finds that approval and these terms
\* in the row or marks it overlapped; a provider's new terms are not approved.
LEMMA UpdateKeepsInv ==
  ASSUME OffersInv, NEW e \in Editor, NEW provider \in BOOLEAN, NEW material \in BOOLEAN,
         UpdateOffer(e, provider, material)
  PROVE  OffersInv'
<1> DEFINE terms == IF material THEN offer.terms + 1 ELSE offer.terms
           written == ~provider /\ material /\ ~Stale(e)
           approval == ApprovalAfter(e, provider, material)
           seen == IF written THEN terms ELSE offer.seen
           overlapped == Stale(e) \/ (offer.overlapped /\ ~written)
<1>1. /\ editor[e] \in OfferRow /\ offer \in OfferRow
      /\ editor[e].approval \in Approval /\ offer.active \in BOOLEAN
      /\ offer.terms \in 1 .. MaxTerms /\ offer.seen \in 0 .. MaxTerms
      /\ offer.overlapped \in BOOLEAN
  BY ReadRow DEF OffersInv, UpdateOffer
<1>2. PICK named \in BOOLEAN, active \in BOOLEAN :
        offer' = [offer EXCEPT !.approval = approval,
                               !.active = IF named THEN active ELSE @,
                               !.terms = terms,
                               !.seen = IF written THEN terms ELSE @,
                               !.overlapped = Stale(e) \/ (@ /\ ~written)]
  BY Zenon DEF UpdateOffer
<1>3. /\ approval \in Approval /\ terms \in 1 .. MaxTerms
      /\ seen \in 0 .. MaxTerms /\ overlapped \in BOOLEAN
  <2>1. approval \in Approval
    BY <1>1 DEF ApprovalAfter, Approval
  <2>2. material => offer.terms < MaxTerms
    BY DEF UpdateOffer
  <2>3. terms \in 1 .. MaxTerms
    BY <1>1, <2>2, OffersAssumption
  <2>4. overlapped \in BOOLEAN
    OBVIOUS
  <2> QED
    BY <1>1, <2>1, <2>3, <2>4, OffersAssumption
<1>4. approval = "APPROVED" => seen = terms \/ overlapped
  <2>1. SUFFICES ASSUME approval = "APPROVED", ~Stale(e)
                 PROVE  seen = terms \/ (offer.overlapped /\ ~written)
    OBVIOUS
  <2>2. editor[e].approval = "APPROVED" /\ ~(provider /\ material)
    BY <2>1 DEF ApprovalAfter
  <2>3. offer.approval = "APPROVED"
    BY <2>1, <2>2 DEF Stale
  <2>4. offer.seen = offer.terms \/ offer.overlapped
    BY <1>1, <2>3, NoOfferIsNoRow DEF OffersInv, Reviewed
  <2> QED
    BY <2>1, <2>2, <2>4
<1>5. offer' \in OfferRow /\ Reviewed(offer')
  <2>1. PICK a \in BOOLEAN :
          offer' = Edited(offer, approval, a, terms, seen, overlapped)
    <3>1. (IF named THEN active ELSE offer.active) \in BOOLEAN
      BY <1>1
    <3> QED
      BY <1>2, <3>1, Zenon DEF Edited
  <2> QED
    BY <1>1, <1>3, <1>4, <2>1, EditedRow, Zenon
<1> QED
  BY <1>5, WrittenRow DEF OffersInv, UpdateOffer

LEMMA ApproveKeepsInv ==
  ASSUME OffersInv, NEW e \in Editor, ApproveAction(e)
  PROVE  OffersInv'
<1>1. /\ offer \in OfferRow /\ editor[e].terms \in 0 .. MaxTerms
  BY ReadRow DEF OffersInv, ApproveAction
<1>2. Stale(e) \in BOOLEAN /\ (~Stale(e) => editor[e].terms = offer.terms)
  BY DEF Stale
<1>3. offer' = Approved(offer, editor[e].terms, Stale(e))
  BY Zenon DEF ApproveAction, Approved
<1>4. /\ offer' \in OfferRow /\ offer'.terms = offer.terms
      /\ offer'.seen = editor[e].terms /\ offer'.overlapped = Stale(e)
  BY <1>1, <1>2, <1>3, ApprovedRow
<1>5. Reviewed(offer')
  BY <1>2, <1>4 DEF Reviewed
<1> QED
  BY <1>4, <1>5, WrittenRow DEF OffersInv, ApproveAction

LEMMA RejectKeepsInv ==
  ASSUME OffersInv, NEW e \in Editor, RejectAction(e)
  PROVE  OffersInv'
<1>1. offer \in OfferRow
  BY ReadRow DEF OffersInv, RejectAction
<1>3. offer' = Rejected(offer)
  BY Zenon DEF RejectAction, Rejected
<1>2. offer' \in OfferRow /\ Reviewed(offer')
  BY <1>1, <1>3, RejectedRow DEF Reviewed
<1> QED
  BY <1>2, WrittenRow DEF OffersInv, RejectAction

LEMMA SwitchKeepsInv ==
  ASSUME OffersInv, NEW e \in Editor, ActivateAction(e) \/ DeactivateAction(e)
  PROVE  OffersInv'
<1>1. Reading(e) /\ offer # NoOffer /\ Done(e)
  BY DEF ActivateAction, DeactivateAction
<1>2. PICK a \in BOOLEAN : offer' = Switched(offer, a)
  BY Zenon DEF Switched, ActivateAction, DeactivateAction
<1>3. offer \in OfferRow /\ Reviewed(offer)
  BY <1>1, ReadRow DEF OffersInv
<1>4. offer' \in OfferRow /\ Reviewed(offer')
  BY <1>2, <1>3, SwitchedRow DEF Reviewed
<1> QED
  BY <1>1, <1>4, WrittenRow DEF OffersInv

LEMMA OthersKeepInv ==
  ASSUME OffersInv, NEW e \in Editor, GetOffer(e) \/ DeleteOffer(e) \/ EditorStops(e)
  PROVE  OffersInv'
<1>1. CASE GetOffer(e)
  BY <1>1 DEF GetOffer, OffersInv, OffersTypeOK
<1>2. CASE DeleteOffer(e)
  BY <1>2 DEF DeleteOffer, OffersInv, OffersTypeOK
<1>3. CASE EditorStops(e)
  BY <1>3, DoneTypes DEF EditorStops, OffersInv, OffersTypeOK
<1> QED
  BY <1>1, <1>2, <1>3

LEMMA OffersStep == OffersInv /\ [OffersNext]_offerVars => OffersInv'
<1> SUFFICES ASSUME OffersInv, [OffersNext]_offerVars
             PROVE  OffersInv'
  OBVIOUS
<1>1. CASE CreateProviderOffer \/ CreateAdminOffer
  BY <1>1, CreateKeepsInv
<1>2. ASSUME NEW e \in Editor, NEW provider \in BOOLEAN, NEW material \in BOOLEAN,
             UpdateOffer(e, provider, material)
      PROVE  OffersInv'
  BY <1>2, UpdateKeepsInv
<1>3. ASSUME NEW e \in Editor, ApproveAction(e) PROVE OffersInv'
  BY <1>3, ApproveKeepsInv
<1>4. ASSUME NEW e \in Editor, RejectAction(e) PROVE OffersInv'
  BY <1>4, RejectKeepsInv
<1>5. ASSUME NEW e \in Editor, ActivateAction(e) \/ DeactivateAction(e) PROVE OffersInv'
  BY <1>5, SwitchKeepsInv
<1>6. ASSUME NEW e \in Editor, GetOffer(e) \/ DeleteOffer(e) \/ EditorStops(e)
      PROVE  OffersInv'
  BY <1>6, OthersKeepInv
<1>7. CASE UNCHANGED offerVars
  BY <1>7 DEF offerVars, OffersInv, OffersTypeOK, Reviewed
<1> QED
  BY <1>1, <1>2, <1>3, <1>4, <1>5, <1>6, <1>7, Zenon DEF OffersNext

LEMMA OffersInvariant == OffersSpec => []OffersInv
<1> QED
  BY OffersInitially, OffersStep, PTL DEF OffersSpec

-----------------------------------------------------------------------------
\* The row of the offer and the rows its requests have read keep their shape.
THEOREM OffersTypeCorrect == OffersSpec => []OffersTypeOK
<1>1. OffersInv => OffersTypeOK
  BY DEF OffersInv
<1> QED
  BY <1>1, OffersInvariant, PTL

\* Customers are offered only terms an administrator wrote or approved, unless the
\* approval was written by a request overtaken by another one's write (updateOffer and
\* approveAction write what they decided on an earlier read).
THEOREM LiveOffersAreReviewed == OffersSpec => []LiveOfferIsReviewed
<1>1. OffersInv => LiveOfferIsReviewed
  BY Zenon DEF OffersInv, LiveOfferIsReviewed, Live, Reviewed
<1> QED
  BY <1>1, OffersInvariant, PTL

-----------------------------------------------------------------------------
(* Reviews.  A submission has seen no standing review: what it knew of was *)
(* removed then, and stands now only if it came back.                      *)

ReviewJob == {Quiet} \cup [op : {"submit"}, known : SUBSET Review]
                     \cup [op : {"edit"}, id : Review, read : ReviewStatus]

\* What a submission knew of.
Knew(job, rv) ==
  job.op = "submit" => \A u \in job.known :
    /\ rv[u] # NoReview
    /\ rv[u] \in ReviewRow /\ rv[u].status # "REMOVED" => rv[u].back

Stands(row) == row \in ReviewRow /\ row.status # "REMOVED"

Alone(rv) == \A u, v \in Review : u # v /\ Stands(rv[u]) /\ Stands(rv[v]) =>
               rv[u].late \/ rv[v].late \/ rv[u].back \/ rv[v].back

ReviewsInv == /\ ReviewsTypeOK /\ Alone(review)
              /\ \A a \in Author : Knew(author[a], review)

LEMMA NotReviews == NoReview \notin ReviewRow /\ Deleted \notin ReviewRow /\ NoReview # Deleted
<1>1. \A row \in ReviewRow : row.status \in ReviewStatus
  BY Zenon DEF ReviewRow
<1> QED
  BY <1>1 DEF NoReview, Deleted, ReviewStatus

LEMMA ReviewKinds ==
  ASSUME ReviewsTypeOK, NEW v \in Review
  PROVE  /\ review[v] \in ReviewRow \cup {NoReview, Deleted}
         /\ Kept(v) <=> review[v] \in ReviewRow
         /\ Standing(v) <=> Stands(review[v])
BY NotReviews DEF ReviewsTypeOK, Kept, Standing, Stands

LEMMA JobKinds ==
  ASSUME ReviewsTypeOK, NEW a \in Author
  PROVE  /\ author[a].op = "submit" => author[a].known \subseteq Review
         /\ author[a].op = "edit" => author[a].id \in Review
<1> DEFINE Submits == [op : {"submit"}, known : SUBSET Review]
           Edits == [op : {"edit"}, id : Review, read : ReviewStatus]
<1>1. author[a] \in {Quiet} \cup Submits \cup Edits
  BY DEF ReviewsTypeOK
<1>2. Quiet.op = "quiet"
  BY DEF Quiet
<1>3. \A j \in Submits : j.op = "submit" /\ j.known \subseteq Review
  BY Zenon
<1>4. \A j \in Edits : j.op = "edit" /\ j.id \in Review
  BY Zenon
<1> HIDE DEF Submits, Edits
<1> QED
  BY <1>1, <1>2, <1>3, <1>4

\* The two ways a row is written.
Judged(row, s, b) == [row EXCEPT !.status = s, !.back = b]
WithAnswer(row, b) == [row EXCEPT !.response = b]

LEMMA JudgedRow ==
  ASSUME NEW row \in ReviewRow, NEW s \in ReviewStatus, NEW b \in BOOLEAN
  PROVE  /\ Judged(row, s, b) \in ReviewRow /\ Judged(row, s, b).status = s
         /\ Judged(row, s, b).back = b /\ Judged(row, s, b).late = row.late
BY Zenon DEF ReviewRow, Judged

LEMMA AnsweredRow ==
  ASSUME NEW row \in ReviewRow, NEW b \in BOOLEAN
  PROVE  /\ WithAnswer(row, b) \in ReviewRow /\ WithAnswer(row, b).status = row.status
         /\ WithAnswer(row, b).back = row.back /\ WithAnswer(row, b).late = row.late
BY Zenon DEF ReviewRow, WithAnswer

\* An existing review becomes row: it stands only if it stood or is back.
Follows(row, old) ==
  /\ row \in ReviewRow \cup {Deleted}
  /\ row \in ReviewRow =>
       /\ row.late = old.late /\ (old.back => row.back)
       /\ row.status # "REMOVED" => old.status # "REMOVED" \/ row.back

LEMMA ReviewWritten ==
  ASSUME ReviewsInv, NEW v \in Review, review[v] \in ReviewRow, NEW row,
         Follows(row, review[v]), review' = [review EXCEPT ![v] = row]
  PROVE  /\ review' \in [Review -> ReviewRow \cup {NoReview, Deleted}]
         /\ Alone(review')
         /\ \A a \in Author : Knew(author[a], review')
<1>0. review \in [Review -> ReviewRow \cup {NoReview, Deleted}]
  BY DEF ReviewsInv, ReviewsTypeOK
<1>1. review'[v] = row /\ \A u \in Review : u # v => review'[u] = review[u]
  BY <1>0
<1>2. review' \in [Review -> ReviewRow \cup {NoReview, Deleted}]
  BY <1>0 DEF Follows
<1>3. \A u \in Review : Stands(review'[u]) =>
        /\ review'[u].late = review[u].late /\ (review[u].back => review'[u].back)
        /\ Stands(review[u]) \/ review'[u].back
  BY <1>1 DEF Follows, Stands
<1>4. Alone(review')
  BY <1>3 DEF Alone, ReviewsInv
<1>5. ASSUME NEW a \in Author
      PROVE  Knew(author[a], review')
  <2> SUFFICES ASSUME author[a].op = "submit", NEW u \in author[a].known
               PROVE  /\ review'[u] # NoReview
                      /\ review'[u] \in ReviewRow /\ review'[u].status # "REMOVED"
                           => review'[u].back
    BY DEF Knew
  <2>1. u \in Review
    BY JobKinds DEF ReviewsInv
  <2>2. /\ review[u] # NoReview
        /\ review[u] \in ReviewRow /\ review[u].status # "REMOVED" => review[u].back
    BY DEF ReviewsInv, Knew
  <2>3. row # NoReview
    BY NotReviews DEF Follows
  <2> QED
    BY <1>1, <2>1, <2>2, <2>3 DEF Follows
<1> QED
  BY <1>2, <1>4, <1>5

LEMMA JudgedFollows ==
  ASSUME NEW old \in ReviewRow, NEW s \in ReviewStatus, NEW b \in BOOLEAN,
         old.back => b, s # "REMOVED" /\ old.status = "REMOVED" => b
  PROVE  Follows(Judged(old, s, b), old)
BY JudgedRow DEF Follows

LEMMA AnsweredFollows ==
  ASSUME NEW old \in ReviewRow, NEW b \in BOOLEAN
  PROVE  Follows(WithAnswer(old, b), old)
BY AnsweredRow DEF Follows

LEMMA DeletedFollows ==
  ASSUME NEW old \in ReviewRow
  PROVE  Follows(Deleted, old)
BY NotReviews DEF Follows

LEMMA BackIsBoolean ==
  ASSUME NEW row \in ReviewRow
  PROVE  row.back \in BOOLEAN /\ row.status \in ReviewStatus
BY Zenon DEF ReviewRow

LEMMA ReviewStays ==
  ASSUME ReviewsInv, UNCHANGED review,
         author' \in [Author -> ReviewJob],
         \A a \in Author : Knew(author'[a], review)
  PROVE  ReviewsInv'
BY DEF ReviewsInv, ReviewsTypeOK, ReviewJob

\* A request is answered: what the others knew is unchanged.
LEMMA AnsweredAll ==
  ASSUME ReviewsInv, NEW a \in Author, Answered(a)
  PROVE  /\ author' \in [Author -> ReviewJob] /\ author'[a] = Quiet
         /\ \A c \in Author : author'[c] = author[c] \/ author'[c] = Quiet
         /\ \A rv : Knew(Quiet, rv)
BY DEF ReviewsInv, ReviewsTypeOK, Answered, ReviewJob, Knew, Quiet

LEMMA ReviewAndAnswer ==
  ASSUME ReviewsInv,
         author' \in [Author -> ReviewJob],
         \A c \in Author : author'[c] = author[c] \/ author'[c] = Quiet,
         review' \in [Review -> ReviewRow \cup {NoReview, Deleted}],
         Alone(review'), \A a \in Author : Knew(author[a], review')
  PROVE  ReviewsInv'
<1>1. \A rv : Knew(Quiet, rv)
  BY DEF Knew, Quiet
<1>2. ReviewsTypeOK'
  BY DEF ReviewsTypeOK, ReviewJob
<1> QED
  BY <1>1, <1>2 DEF ReviewsInv

LEMMA UnansweredStays ==
  ASSUME ReviewsInv, UNCHANGED author
  PROVE  /\ author' \in [Author -> ReviewJob]
         /\ \A c \in Author : author'[c] = author[c] \/ author'[c] = Quiet
BY DEF ReviewsInv, ReviewsTypeOK, ReviewJob

LEMMA AsksInv ==
  ASSUME ReviewsInv, NEW a \in Author, NEW job \in ReviewJob, Asks(a, job), Knew(job, review)
  PROVE  ReviewsInv'
<1>1. author \in [Author -> ReviewJob] /\ author' = [author EXCEPT ![a] = job] /\ UNCHANGED review
  BY DEF Asks, ReviewsInv, ReviewsTypeOK, ReviewJob
<1>2. author' \in [Author -> ReviewJob] /\ \A c \in Author : author'[c] \in {author[c], job}
  BY <1>1
<1>3. \A c \in Author : Knew(author'[c], review)
  BY <1>2 DEF ReviewsInv
<1> QED
  BY <1>1, <1>2, <1>3, ReviewStays

\* No review stands when a submission looks, so all that it knows of are removed ones.
LEMMA SubmitReviewInv ==
  ASSUME ReviewsInv, NEW a \in Author, SubmitReview(a)
  PROVE  ReviewsInv'
<1> DEFINE known == {v \in Review : Kept(v)}
           job == [op |-> "submit", known |-> known]
<1>1. job \in ReviewJob /\ job.known = known
  BY DEF ReviewJob
<1>2. \A v \in Review : ~Standing(v)
  BY DEF SubmitReview, FindExisting
<1>3. \A v \in known : /\ review[v] # NoReview
                       /\ ~(review[v] \in ReviewRow /\ review[v].status # "REMOVED")
  BY <1>2, ReviewKinds, NotReviews DEF ReviewsInv, Stands
<1>4. Knew(job, review)
  BY <1>1, <1>3 DEF Knew
<1> QED
  BY <1>1, <1>4, AsksInv DEF SubmitReview

LEMMA GetReviewInv ==
  ASSUME ReviewsInv, NEW a \in Author, NEW v \in Review, GetReview(a, v)
  PROVE  ReviewsInv'
<1> DEFINE job == [op |-> "edit", id |-> v, read |-> review[v].status]
<1>1. review[v] \in ReviewRow
  BY ReviewKinds DEF ReviewsInv, GetReview
<1>2. job \in ReviewJob /\ job.op = "edit"
  BY <1>1, BackIsBoolean DEF ReviewJob
<1>3. Knew(job, review)
  BY <1>2 DEF Knew
<1> QED
  BY <1>2, <1>3, AsksInv DEF GetReview

LEMMA AuthorStopsInv ==
  ASSUME ReviewsInv, NEW a \in Author, AuthorStops(a)
  PROVE  ReviewsInv'
<1>1. UNCHANGED review /\ Answered(a)
  BY DEF AuthorStops
<1>2. \A c \in Author : Knew(author'[c], review)
  BY <1>1, AnsweredAll DEF ReviewsInv
<1> QED
  BY <1>1, <1>2, AnsweredAll, ReviewStays

\* A review that stands beside the new one was unknown to its submission, or came back.
LEMMA CreateReviewInv ==
  ASSUME ReviewsInv, NEW a \in Author, NEW v \in Review, CreateReview(a, v)
  PROVE  ReviewsInv'
<1> DEFINE late == \E u \in Review : Standing(u) /\ u \notin author[a].known
<1>1. PICK status \in ModerateText :
        review' = [review EXCEPT ![v] = [status |-> status, response |-> FALSE,
                                         back |-> FALSE, late |-> late]]
  BY Zenon DEF CreateReview
<1> DEFINE new == [status |-> status, response |-> FALSE, back |-> FALSE, late |-> late]
<1>2. new \in ReviewRow /\ new.late = late
  <2>1. status \in ReviewStatus /\ late \in BOOLEAN
    BY DEF ModerateText, ReviewStatus
  <2> HIDE DEF late
  <2> QED
    BY <2>1 DEF ReviewRow
<1>3. late <=> \E u \in Review : Stands(review[u]) /\ u \notin author[a].known
  BY ReviewKinds DEF ReviewsInv
<1>t. review \in [Review -> ReviewRow \cup {NoReview, Deleted}]
  BY DEF ReviewsInv, ReviewsTypeOK
<1>4. author[a].op = "submit" /\ review[v] = NoReview /\ Answered(a)
  BY DEF CreateReview
<1> HIDE DEF late, new
<1>5. /\ review' \in [Review -> ReviewRow \cup {NoReview, Deleted}] /\ review'[v] = new
      /\ \A u \in Review : u # v => review'[u] = review[u]
  BY <1>1, <1>2, <1>t DEF new
<1>6. \A u \in Review : u # v /\ Stands(review[u]) => new.late \/ review[u].back
  BY <1>2, <1>3, <1>4 DEF ReviewsInv, Knew, Stands
<1>7. Alone(review')
  BY <1>5, <1>6 DEF Alone, ReviewsInv
<1>8. ASSUME NEW c \in Author
      PROVE  Knew(author[c], review')
  <2> SUFFICES ASSUME author[c].op = "submit", NEW u \in author[c].known
               PROVE  /\ review'[u] # NoReview
                      /\ review'[u] \in ReviewRow /\ review'[u].status # "REMOVED"
                           => review'[u].back
    BY DEF Knew
  <2>1. u \in Review
    BY JobKinds DEF ReviewsInv
  <2>2. /\ review[u] # NoReview
        /\ review[u] \in ReviewRow /\ review[u].status # "REMOVED" => review[u].back
    BY DEF ReviewsInv, Knew
  <2>3. u # v
    BY <2>2, <1>4
  <2> QED
    BY <1>5, <2>1, <2>2, <2>3
<1> QED
  BY <1>4, <1>5, <1>7, <1>8, AnsweredAll, ReviewAndAnswer

LEMMA UpdateReviewInv ==
  ASSUME ReviewsInv, NEW a \in Author, UpdateReview(a)
  PROVE  ReviewsInv'
<1> DEFINE v == author[a].id
           old == review[v]
           back == old.back \/ old.status = "REMOVED"
<1>1. v \in Review /\ Kept(v) /\ Answered(a)
  BY JobKinds DEF UpdateReview, ReviewsInv
<1>2. old \in ReviewRow
  BY <1>1, ReviewKinds DEF ReviewsInv
<1>3. PICK status \in ModerateText : review' = [review EXCEPT ![v] = Judged(old, status, back)]
  BY Zenon DEF UpdateReview, Judged
<1>4. status \in ReviewStatus /\ back \in BOOLEAN /\ (old.back => back)
      /\ (old.status = "REMOVED" => back)
  BY <1>2, BackIsBoolean DEF ModerateText, ReviewStatus
<1> HIDE DEF v, old, back
<1>5. Follows(Judged(old, status, back), old)
  BY <1>2, <1>4, JudgedFollows
<1>6. /\ review' \in [Review -> ReviewRow \cup {NoReview, Deleted}] /\ Alone(review')
      /\ \A c \in Author : Knew(author[c], review')
  BY <1>1, <1>2, <1>3, <1>5, ReviewWritten DEF old
<1> QED
  BY <1>1, <1>6, AnsweredAll, ReviewAndAnswer

LEMMA DeleteReviewInv ==
  ASSUME ReviewsInv, NEW a \in Author, DeleteReview(a)
  PROVE  ReviewsInv'
<1> DEFINE v == author[a].id
<1>1. /\ v \in Review /\ Kept(v) /\ Answered(a)
      /\ review' = [review EXCEPT ![v] = Deleted]
  BY JobKinds DEF DeleteReview, ReviewsInv
<1>2. review[v] \in ReviewRow
  BY <1>1, ReviewKinds DEF ReviewsInv
<1> HIDE DEF v
<1>3. /\ review' \in [Review -> ReviewRow \cup {NoReview, Deleted}] /\ Alone(review')
      /\ \A c \in Author : Knew(author[c], review')
  BY <1>1, <1>2, DeletedFollows, ReviewWritten
<1> QED
  BY <1>1, <1>3, AnsweredAll, ReviewAndAnswer

LEMMA ModerateInv ==
  ASSUME ReviewsInv, NEW v \in Review, Moderate(v)
  PROVE  ReviewsInv'
<1> DEFINE old == review[v]
<1>1. old \in ReviewRow /\ UNCHANGED author
  BY ReviewKinds DEF ReviewsInv, Moderate
<1>2. PICK status \in {"PUBLISHED", "HIDDEN", "REMOVED", "PENALIZED"} :
        review' = [review EXCEPT ![v] = Judged(old, status,
                     old.back \/ (old.status = "REMOVED" /\ status # "REMOVED"))]
  BY Zenon DEF Moderate, Judged
<1> DEFINE back == old.back \/ (old.status = "REMOVED" /\ status # "REMOVED")
<1>3. status \in ReviewStatus /\ back \in BOOLEAN /\ (old.back => back)
      /\ (status # "REMOVED" /\ old.status = "REMOVED" => back)
  BY <1>1, BackIsBoolean DEF ReviewStatus
<1>4. review' = [review EXCEPT ![v] = Judged(old, status, back)]
  BY <1>2
<1> HIDE DEF old, back
<1>5. Follows(Judged(old, status, back), old)
  BY <1>1, <1>3, JudgedFollows
<1>6. /\ review' \in [Review -> ReviewRow \cup {NoReview, Deleted}] /\ Alone(review')
      /\ \A c \in Author : Knew(author[c], review')
  BY <1>1, <1>4, <1>5, ReviewWritten DEF old
<1> QED
  BY <1>1, <1>6, UnansweredStays, ReviewAndAnswer

LEMMA ResponseInv ==
  ASSUME ReviewsInv, NEW v \in Review, CreateResponse(v) \/ DeleteResponse(v)
  PROVE  ReviewsInv'
<1>1. review[v] \in ReviewRow /\ UNCHANGED author
  BY ReviewKinds DEF ReviewsInv, CreateResponse, DeleteResponse, Visible
<1>2. PICK b \in BOOLEAN : review' = [review EXCEPT ![v] = WithAnswer(review[v], b)]
  BY Zenon DEF CreateResponse, DeleteResponse, WithAnswer
<1>3. /\ review' \in [Review -> ReviewRow \cup {NoReview, Deleted}] /\ Alone(review')
      /\ \A c \in Author : Knew(author[c], review')
  BY <1>1, <1>2, AnsweredFollows, ReviewWritten
<1> QED
  BY <1>1, <1>3, UnansweredStays, ReviewAndAnswer

LEMMA ReviewsInvariant == ReviewsSpec => []ReviewsInv
<1>1. ReviewsInit => ReviewsInv
  <2> SUFFICES ASSUME ReviewsInit
               PROVE  ReviewsInv
    OBVIOUS
  <2>1. /\ \A v \in Review : review[v] = NoReview
        /\ \A a \in Author : author[a] = Quiet
        /\ ReviewsTypeOK
    BY DEF ReviewsInit, ReviewsTypeOK
  <2> QED
    BY <2>1, NotReviews DEF ReviewsInv, Alone, Stands, Knew, Quiet
<1>2. ReviewsInv /\ [ReviewsNext]_reviewVars => ReviewsInv'
  <2> SUFFICES ASSUME ReviewsInv, [ReviewsNext]_reviewVars
               PROVE  ReviewsInv'
    OBVIOUS
  <2>1. CASE UNCHANGED reviewVars
    BY <2>1 DEF ReviewsInv, ReviewsTypeOK, Alone, Knew, reviewVars
  <2>2. ASSUME NEW v \in Review, Moderate(v) \/ CreateResponse(v) \/ DeleteResponse(v)
        PROVE  ReviewsInv'
    BY <2>2, ModerateInv, ResponseInv
  <2>3. ASSUME NEW a \in Author,
               SubmitReview(a) \/ UpdateReview(a) \/ DeleteReview(a) \/ AuthorStops(a)
        PROVE  ReviewsInv'
    BY <2>3, SubmitReviewInv, UpdateReviewInv, DeleteReviewInv, AuthorStopsInv
  <2>4. ASSUME NEW a \in Author, NEW v \in Review, CreateReview(a, v) \/ GetReview(a, v)
        PROVE  ReviewsInv'
    BY <2>4, CreateReviewInv, GetReviewInv
  <2> QED
    BY <2>1, <2>2, <2>3, <2>4 DEF ReviewsNext
<1> QED
  BY <1>1, <1>2, PTL DEF ReviewsSpec

\* The rows and the requests keep their types.
THEOREM ReviewsTypeCorrect == ReviewsSpec => []ReviewsTypeOK
<1>1. ReviewsInv => ReviewsTypeOK
  BY DEF ReviewsInv
<1> QED
  BY <1>1, ReviewsInvariant, PTL

\* For any number of rows and of overlapping requests, two reviews of an order stand side
\* by side only if one was submitted over the other or came back after its removal.
THEOREM AnOrderHasOneReview == ReviewsSpec => []OneReview
<1>1. ReviewsInv => OneReview
  BY ReviewKinds DEF ReviewsInv, Alone, OneReview
<1> QED
  BY <1>1, ReviewsInvariant, PTL

-----------------------------------------------------------------------------
(* Marketplace.  What is in the cart beside the items a checkout has read  *)
(* was added while it was under way; what has been ordered has left the    *)
(* cart, so ordering it again is ordering what was read before it left.    *)

CartState == {"new", "in cart", "taken out", "checked out"}
BuyerJob == {Browsing} \cup [op : {"add"}, gift : Gift] \cup [op : {"order"}, items : SUBSET Item]

ItemOK(i) ==
  /\ i.orders > 0 => i.state \in {"taken out", "checked out"}
  /\ i.orders > 1 => i.stale
  /\ i.state = "checked out" /\ i.orders = 0 => i.early

Read(job, it) ==
  job.op = "order" =>
    /\ \A i \in job.items : it[i].state # "new"
    /\ \A i \in Item : it[i].state = "in cart" /\ i \notin job.items => it[i].early

CartTypeOK == item \in [Item -> ItemRow] /\ buyer \in [Buyer -> BuyerJob]

CartInv == /\ CartTypeOK
           /\ \A i \in Item : ItemOK(item[i])
           /\ \A b \in Buyer : Read(buyer[b], item)

LEMMA ItemFields ==
  ASSUME NEW i \in ItemRow
  PROVE  /\ i.state \in CartState /\ i.gift \in Gift /\ i.orders \in 0 .. 2
         /\ i.early \in BOOLEAN /\ i.stale \in BOOLEAN
BY Zenon DEF ItemRow, CartState

Added(i, g, e) == [i EXCEPT !.state = "in cart", !.gift = g, !.early = e]
Gone(i) == [i EXCEPT !.state = "taken out"]
Ordered(i, n, s, st) == [i EXCEPT !.orders = n, !.stale = s, !.state = st]

LEMMA AddedItem ==
  ASSUME NEW i \in ItemRow, NEW g \in Gift, NEW e \in BOOLEAN
  PROVE  /\ Added(i, g, e) \in ItemRow /\ Added(i, g, e).state = "in cart"
         /\ Added(i, g, e).early = e /\ Added(i, g, e).orders = i.orders
         /\ Added(i, g, e).stale = i.stale
BY Zenon DEF ItemRow, Added

LEMMA GoneItem ==
  ASSUME NEW i \in ItemRow
  PROVE  /\ Gone(i) \in ItemRow /\ Gone(i).state = "taken out" /\ Gone(i).early = i.early
         /\ Gone(i).orders = i.orders /\ Gone(i).stale = i.stale
BY Zenon DEF ItemRow, Gone

LEMMA OrderedItem ==
  ASSUME NEW i \in ItemRow, NEW n \in 0 .. 2, NEW s \in BOOLEAN, NEW st \in CartState
  PROVE  /\ Ordered(i, n, s, st) \in ItemRow /\ Ordered(i, n, s, st).orders = n
         /\ Ordered(i, n, s, st).stale = s /\ Ordered(i, n, s, st).state = st
         /\ Ordered(i, n, s, st).early = i.early
BY Zenon DEF ItemRow, Ordered, CartState

LEMMA BuyerKinds ==
  ASSUME CartTypeOK, NEW b \in Buyer
  PROVE  /\ buyer[b].op = "add" => buyer[b].gift \in Gift
         /\ buyer[b].op = "order" => buyer[b].items \subseteq Item
<1> DEFINE Adds == [op : {"add"}, gift : Gift]
           Orderings == [op : {"order"}, items : SUBSET Item]
<1>1. buyer[b] \in {Browsing} \cup Adds \cup Orderings
  BY DEF CartTypeOK, BuyerJob
<1>2. Browsing.op = "browsing"
  BY DEF Browsing
<1>3. \A j \in Adds : j.op = "add" /\ j.gift \in Gift
  BY Zenon
<1>4. \A j \in Orderings : j.op = "order" /\ j.items \subseteq Item
  BY Zenon
<1> HIDE DEF Adds, Orderings
<1> QED
  BY <1>1, <1>2, <1>3, <1>4

LEMMA BrowsingRead == \A it : Read(Browsing, it)
BY DEF Read, Browsing

\* Only the request b of the customer moves on, or nothing of the cart does.
LEMMA BuysInv ==
  ASSUME CartInv, NEW b \in Buyer, NEW job \in BuyerJob, Buys(b, job), UNCHANGED item,
         Read(job, item)
  PROVE  CartInv'
<1>1. buyer' \in [Buyer -> BuyerJob] /\ \A c \in Buyer : buyer'[c] \in {buyer[c], job}
  BY DEF CartInv, CartTypeOK, Buys
<1> QED
  BY <1>1 DEF CartInv, CartTypeOK

LEMMA AddCartItemInv ==
  ASSUME CartInv, NEW b \in Buyer, NEW g \in Gift, AddCartItem(b, g)
  PROVE  CartInv'
<1> DEFINE job == [op |-> "add", gift |-> g]
<1>1. job \in BuyerJob /\ job.op = "add"
  BY DEF BuyerJob
<1>2. Read(job, item)
  BY <1>1 DEF Read
<1> QED
  BY <1>1, <1>2, BuysInv DEF AddCartItem

LEMMA BuyerStopsInv ==
  ASSUME CartInv, NEW b \in Buyer, BuyerStops(b)
  PROVE  CartInv'
BY BrowsingRead, BuysInv DEF BuyerStops, BuyerJob

\* What a checkout has read is all that is in the cart.
LEMMA CreateOrderInv ==
  ASSUME CartInv, NEW b \in Buyer, CreateOrder(b)
  PROVE  CartInv'
<1> DEFINE job == [op |-> "order", items |-> InCart]
<1>1. InCart \subseteq Item /\ \A i \in Item : i \in InCart <=> item[i].state = "in cart"
  BY DEF InCart
<1>2. job \in BuyerJob /\ job.op = "order" /\ job.items = InCart
  BY <1>1 DEF BuyerJob
<1>3. Read(job, item)
  BY <1>1, <1>2 DEF Read
<1> QED
  BY <1>2, <1>3, BuysInv DEF CreateOrder

\* Only new items come into the cart, marked early when a checkout is under way.
LEMMA CreateCartItemInv ==
  ASSUME CartInv, NEW b \in Buyer, NEW i \in Item, CreateCartItem(b, i)
  PROVE  CartInv'
<1> DEFINE e == \E c \in Buyer : buyer[c].op = "order"
           new == Added(item[i], buyer[b].gift, e)
<1>1. /\ buyer[b].op = "add" /\ item[i].state = "new" /\ Buys(b, Browsing)
      /\ item' = [item EXCEPT ![i] = new]
  BY Zenon DEF CreateCartItem, Added
<1>t. /\ item \in [Item -> ItemRow] /\ buyer[b].gift \in Gift /\ item[i] \in ItemRow
      /\ ItemOK(item[i]) /\ item[i].orders \in 0 .. 2
  BY <1>1, BuyerKinds, ItemFields DEF CartInv, CartTypeOK
<1>2. /\ new \in ItemRow /\ new.state = "in cart" /\ new.early = e
      /\ new.orders = item[i].orders /\ new.stale = item[i].stale
  <2>1. e \in BOOLEAN
    OBVIOUS
  <2>2. buyer[b].gift \in Gift /\ item[i] \in ItemRow
    BY <1>t
  <2> HIDE DEF e
  <2>3. /\ Added(item[i], buyer[b].gift, e) \in ItemRow
        /\ Added(item[i], buyer[b].gift, e).state = "in cart"
    BY <2>1, <2>2, AddedItem
  <2>4. /\ Added(item[i], buyer[b].gift, e).early = e
        /\ Added(item[i], buyer[b].gift, e).orders = item[i].orders
        /\ Added(item[i], buyer[b].gift, e).stale = item[i].stale
    BY <2>1, <2>2, AddedItem
  <2> QED
    BY <2>3, <2>4
<1>3. buyer' \in [Buyer -> BuyerJob] /\ \A c \in Buyer : buyer'[c] \in {buyer[c], Browsing}
  BY <1>1 DEF CartInv, CartTypeOK, Buys, BuyerJob
<1>4. \A c \in Buyer : buyer[c].op = "order" => e
  OBVIOUS
<1> HIDE DEF e, new
<1>5. item' \in [Item -> ItemRow] /\ item'[i] = new /\ \A j \in Item : j # i => item'[j] = item[j]
  BY <1>1, <1>2, <1>t
<1>6. ItemOK(new)
  BY <1>1, <1>2, <1>t DEF ItemOK
<1>7. ASSUME NEW c \in Buyer
      PROVE  Read(buyer[c], item')
  BY <1>1, <1>2, <1>4, <1>5, BuyerKinds DEF CartInv, Read
<1>8. \A c \in Buyer : Read(buyer'[c], item')
  BY <1>3, <1>7, BrowsingRead
<1> QED
  BY <1>3, <1>5, <1>6, <1>8 DEF CartInv, CartTypeOK

LEMMA TakeOutInv ==
  ASSUME CartInv, NEW items, TakeOut(items)
  PROVE  CartInv'
<1>1. /\ items \subseteq InCart /\ UNCHANGED buyer
      /\ item' = [i \in Item |-> IF i \in items THEN Gone(item[i]) ELSE item[i]]
  BY Zenon DEF TakeOut, Gone
<1>t. /\ item \in [Item -> ItemRow] /\ buyer \in [Buyer -> BuyerJob]
      /\ \A i \in Item : item[i] \in ItemRow /\ ItemOK(item[i])
  BY DEF CartInv, CartTypeOK
<1>2. \A i \in Item : i \in items => item[i].state = "in cart"
  BY <1>1 DEF InCart
<1>3. \A i \in Item : \/ item'[i] = item[i]
                      \/ item[i].state = "in cart" /\ item'[i] = Gone(item[i])
  BY <1>1, <1>2
<1>4. item' \in [Item -> ItemRow]
  BY <1>1, <1>t, GoneItem
<1>5. ASSUME NEW i \in Item
      PROVE  /\ ItemOK(item'[i]) /\ item'[i].early = item[i].early
             /\ item'[i].state = "in cart" => item[i].state = "in cart"
             /\ item[i].state # "new" => item'[i].state # "new"
  <2>1. /\ Gone(item[i]).state = "taken out" /\ Gone(item[i]).early = item[i].early
        /\ Gone(item[i]).orders = item[i].orders /\ Gone(item[i]).stale = item[i].stale
    BY <1>t, GoneItem
  <2>2. item[i].orders \in 0 .. 2
    BY <1>t, ItemFields
  <2> QED
    BY <2>1, <2>2, <1>3, <1>t DEF ItemOK
<1>6. ASSUME NEW c \in Buyer
      PROVE  Read(buyer[c], item')
  BY <1>5, BuyerKinds DEF CartInv, Read
<1> QED
  BY <1>1, <1>t, <1>4, <1>5, <1>6 DEF CartInv, CartTypeOK

\* What is ordered while it is in the cart has never been ordered; what is dropped was added
\* while the checkout was under way.
LEMMA CreateOrderWithItemsInv ==
  ASSUME CartInv, NEW b \in Buyer, CreateOrderWithItems(b)
  PROVE  CartInv'
<1> DEFINE has(i) == i \in buyer[b].items
           n(i) == IF has(i) /\ item[i].orders < 2 THEN item[i].orders + 1 ELSE item[i].orders
           s(i) == item[i].stale \/ (has(i) /\ i \notin InCart)
           st(i) == CheckedOut(item[i].state)
<1>1. /\ buyer[b].op = "order" /\ Buys(b, Browsing)
      /\ item' = [i \in Item |-> Ordered(item[i], n(i), s(i), st(i))]
  BY Zenon DEF CreateOrderWithItems, Ordered
<1>t. /\ buyer \in [Buyer -> BuyerJob]
      /\ \A i \in Item : item[i] \in ItemRow /\ ItemOK(item[i])
      /\ \A c \in Buyer : Read(buyer[c], item)
  BY DEF CartInv, CartTypeOK
<1>2. ASSUME NEW i \in Item
      PROVE  /\ n(i) \in 0 .. 2 /\ s(i) \in BOOLEAN /\ st(i) \in CartState
             /\ item[i].orders \in 0 .. 2 /\ item[i].state \in CartState
             /\ n(i) > item[i].orders => has(i)
             /\ has(i) => n(i) > 0
             /\ n(i) = 0 => ~has(i) /\ item[i].orders = 0
             /\ ~has(i) => n(i) = item[i].orders
             /\ n(i) > 1 => item[i].orders > 0
             /\ (has(i) /\ item[i].state # "in cart") \/ item[i].stale => s(i)
             /\ st(i) = (IF item[i].state = "in cart" THEN "checked out" ELSE item[i].state)
  <2>1. item[i].orders \in 0 .. 2 /\ item[i].state \in CartState
    BY <1>t, ItemFields
  <2>2. st(i) = (IF item[i].state = "in cart" THEN "checked out" ELSE item[i].state)
    BY DEF CheckedOut
  <2>3. st(i) \in CartState
    BY <2>1, <2>2 DEF CartState
  <2>4. /\ n(i) \in 0 .. 2 /\ (n(i) > item[i].orders => has(i)) /\ (has(i) => n(i) > 0)
        /\ (n(i) = 0 => ~has(i) /\ item[i].orders = 0)
        /\ (~has(i) => n(i) = item[i].orders) /\ (n(i) > 1 => item[i].orders > 0)
    <3> HIDE DEF has
    <3> QED
      BY <2>1
  <2>5. /\ s(i) \in BOOLEAN
        /\ (has(i) /\ item[i].state # "in cart") \/ item[i].stale => s(i)
    <3>1. i \in InCart <=> item[i].state = "in cart"
      BY DEF InCart
    <3>2. item[i].stale \in BOOLEAN
      BY <1>t, ItemFields
    <3> HIDE DEF has
    <3> QED
      BY <3>1, <3>2
  <2> HIDE DEF has, n, s, st
  <2> QED
    BY <2>1, <2>2, <2>3, <2>4, <2>5
<1>3. ASSUME NEW i \in Item
      PROVE  /\ item'[i] \in ItemRow /\ item'[i].orders = n(i) /\ item'[i].stale = s(i)
             /\ item'[i].state = st(i) /\ item'[i].early = item[i].early
  <2>1. /\ n(i) \in 0 .. 2 /\ s(i) \in BOOLEAN /\ st(i) \in CartState /\ item[i] \in ItemRow
    BY <1>2, <1>t
  <2>2. item'[i] = Ordered(item[i], n(i), s(i), st(i))
    BY <1>1
  <2> HIDE DEF n, s, st
  <2>3. /\ Ordered(item[i], n(i), s(i), st(i)) \in ItemRow
        /\ Ordered(item[i], n(i), s(i), st(i)).orders = n(i)
        /\ Ordered(item[i], n(i), s(i), st(i)).state = st(i)
    BY <2>1, OrderedItem
  <2>4. /\ Ordered(item[i], n(i), s(i), st(i)).stale = s(i)
        /\ Ordered(item[i], n(i), s(i), st(i)).early = item[i].early
    BY <2>1, OrderedItem
  <2> QED
    BY <2>2, <2>3, <2>4
<1>4. item' \in [Item -> ItemRow]
  BY <1>1, <1>3
<1>5. ASSUME NEW i \in Item
      PROVE  has(i) => item[i].state # "new"
  BY <1>1, <1>t DEF Read
<1>6. ASSUME NEW i \in Item
      PROVE  item[i].state = "in cart" /\ ~has(i) => item[i].early
  BY <1>1, <1>t DEF Read
<1> HIDE DEF has, n, s, st
<1>7. ASSUME NEW i \in Item
      PROVE  ItemOK(item'[i])
  <2>1. /\ item[i].orders > 0 => item[i].state \in {"taken out", "checked out"}
        /\ item[i].orders > 1 => item[i].stale
        /\ item[i].state = "checked out" /\ item[i].orders = 0 => item[i].early
    BY <1>t DEF ItemOK
  <2>2. n(i) > 0 => st(i) \in {"taken out", "checked out"}
    BY <1>2, <1>5, <2>1 DEF CartState
  <2>3. n(i) > 1 => s(i)
    BY <1>2, <2>1
  <2>4. st(i) = "checked out" /\ n(i) = 0 => item[i].early
    <3> SUFFICES ASSUME st(i) = "checked out", n(i) = 0
                 PROVE  item[i].early
      OBVIOUS
    <3>1. ~has(i) /\ item[i].orders = 0
      BY <1>2, Zenon
    <3>2. item[i].state \in {"in cart", "checked out"}
      BY <1>2
    <3> QED
      BY <1>6, <2>1, <3>1, <3>2
  <2> QED
    BY <1>3, <2>2, <2>3, <2>4 DEF ItemOK
<1>8. ASSUME NEW c \in Buyer
      PROVE  Read(buyer[c], item')
  <2>1. \A i \in Item : item'[i].state # "in cart" /\ (item[i].state # "new" => item'[i].state # "new")
    BY <1>2, <1>3
  <2>2. buyer[c].op = "order" => buyer[c].items \subseteq Item
    BY BuyerKinds DEF CartInv
  <2> QED
    BY <2>1, <2>2, <1>t DEF Read
<1>9. buyer' \in [Buyer -> BuyerJob] /\ \A c \in Buyer : buyer'[c] \in {buyer[c], Browsing}
  BY <1>1, <1>t DEF Buys, BuyerJob
<1>10. \A c \in Buyer : Read(buyer'[c], item')
  BY <1>8, <1>9, BrowsingRead
<1> QED
  BY <1>4, <1>7, <1>9, <1>10 DEF CartInv, CartTypeOK

\* Gifts and providers come and go; rows of gifts keep their type.
LEMMA PutInv ==
  ASSUME CartInv, gift \in [Gift -> GiftRow \cup {NoGift}], NEW g \in Gift,
         NEW row \in GiftRow \cup {NoGift}, Put(g, row)
  PROVE  CartInv' /\ gift' \in [Gift -> GiftRow \cup {NoGift}] /\ UNCHANGED barred
BY DEF Put, CartInv, CartTypeOK

MarketInv == MarketTypeOK /\ CartInv

LEMMA GiftStep ==
  ASSUME MarketInv, NEW g \in Gift,
         \/ CreateGift(g) \/ CreateItemWithVariants(g) \/ UpdateGift(g)
         \/ UpdateItemWithVariants(g) \/ DeleteGift(g)
  PROVE  MarketInv'
<1>t. gift \in [Gift -> GiftRow \cup {NoGift}] /\ barred \subseteq Provider /\ CartInv
  BY DEF MarketInv, MarketTypeOK
<1>1. \A s \in GiftStatus, p \in Provider : [status |-> s, provider |-> p] \in GiftRow
  BY DEF GiftRow
<1>2. ASSUME UpdateItemWithVariants(g)
      PROVE  \E row \in GiftRow : Put(g, row)
  <2>1. gift[g] \in GiftRow
    BY <1>2, <1>t DEF UpdateItemWithVariants, OnSale
  <2>2. PICK s \in GiftStatus : Put(g, [gift[g] EXCEPT !.status = s])
    BY <1>2 DEF UpdateItemWithVariants
  <2>3. [gift[g] EXCEPT !.status = s] \in GiftRow
    BY <2>1, Zenon DEF GiftRow
  <2> QED
    BY <2>2, <2>3
<1>3. PICK row \in GiftRow \cup {NoGift} : Put(g, row)
  <2>1. "ACTIVE" \in GiftStatus
    BY DEF GiftStatus
  <2>2. CASE CreateGift(g)
    BY <2>2, <1>1 DEF CreateGift
  <2>3. CASE CreateItemWithVariants(g)
    BY <2>1, <2>3, <1>1 DEF CreateItemWithVariants
  <2>4. CASE UpdateGift(g)
    BY <2>4 DEF UpdateGift
  <2>5. CASE DeleteGift(g)
    BY <2>5 DEF DeleteGift
  <2> QED
    BY <1>2, <2>2, <2>3, <2>4, <2>5
<1>4. CartInv' /\ gift' \in [Gift -> GiftRow \cup {NoGift}] /\ barred' = barred
  BY <1>t, <1>3, PutInv
<1> QED
  BY <1>t, <1>4 DEF MarketInv, MarketTypeOK, CartInv, CartTypeOK, BuyerJob

LEMMA CartStep ==
  ASSUME MarketInv, NEW b \in Buyer,
         \/ \E g \in Gift : AddCartItem(b, g)
         \/ \E i \in Item : CreateCartItem(b, i)
         \/ CreateOrder(b) \/ CreateOrderWithItems(b) \/ BuyerStops(b)
  PROVE  MarketInv'
<1>1. CartInv'
  BY AddCartItemInv, CreateCartItemInv, CreateOrderInv, CreateOrderWithItemsInv, BuyerStopsInv
     DEF MarketInv
<1>2. UNCHANGED <<gift, barred>>
  BY DEF AddCartItem, CreateCartItem, CreateOrder, CreateOrderWithItems, BuyerStops
<1> QED
  BY <1>1, <1>2 DEF MarketInv, MarketTypeOK, CartInv, CartTypeOK, BuyerJob

LEMMA OtherMarketStep ==
  ASSUME MarketInv,
         \/ \E p \in Provider : UpdateProviderStatus(p)
         \/ \E i \in Item : DeleteCartItem(i)
         \/ ClearCart \/ UNCHANGED marketVars
  PROVE  MarketInv'
<1>1. CASE \E p \in Provider : UpdateProviderStatus(p)
  BY <1>1 DEF UpdateProviderStatus, MarketInv, MarketTypeOK, CartInv, CartTypeOK
<1>2. CASE (\E i \in Item : DeleteCartItem(i)) \/ ClearCart
  <2>1. PICK items : TakeOut(items)
    BY <1>2 DEF DeleteCartItem, ClearCart
  <2>2. CartInv' /\ UNCHANGED <<gift, barred>>
    BY <2>1, TakeOutInv DEF TakeOut, MarketInv
  <2> QED
    BY <2>2 DEF MarketInv, MarketTypeOK, CartInv, CartTypeOK, BuyerJob
<1>3. CASE UNCHANGED marketVars
  BY <1>3 DEF marketVars, MarketInv, MarketTypeOK, CartInv, CartTypeOK
<1> QED
  BY <1>1, <1>2, <1>3

LEMMA MarketInitially == MarketInit => MarketInv
<1> SUFFICES ASSUME MarketInit
             PROVE  MarketInv
  OBVIOUS
<1> DEFINE first == CHOOSE g \in Gift : TRUE
           new == [state |-> "new", gift |-> first, orders |-> 0, early |-> FALSE, stale |-> FALSE]
<1>1. first \in Gift
  BY MarketAssumption
<1>2. \A i \in Item : item[i] = new
  BY DEF MarketInit
<1>3. new \in ItemRow /\ ItemOK(new) /\ new.state = "new"
  BY <1>1 DEF ItemRow, ItemOK
<1>4. item \in [Item -> ItemRow]
  BY <1>3 DEF MarketInit
<1>5. /\ gift \in [Gift -> GiftRow \cup {NoGift}] /\ barred \subseteq Provider
      /\ buyer \in [Buyer -> BuyerJob] /\ \A b \in Buyer : buyer[b] = Browsing
  BY DEF MarketInit, BuyerJob
<1>6. CartInv
  BY <1>2, <1>3, <1>4, <1>5, BrowsingRead DEF CartInv, CartTypeOK
<1> QED
  BY <1>4, <1>5, <1>6 DEF MarketInv, MarketTypeOK, BuyerJob

LEMMA MarketInvariant == MarketSpec => []MarketInv
<1>1. MarketInv /\ [MarketNext]_marketVars => MarketInv'
  BY GiftStep, CartStep, OtherMarketStep DEF MarketNext
<1> QED
  BY <1>1, MarketInitially, PTL DEF MarketSpec

\* Gifts, rows of the cart and requests keep their types.
THEOREM MarketTypeCorrect == MarketSpec => []MarketTypeOK
<1>1. MarketInv => MarketTypeOK
  BY DEF MarketInv
<1> QED
  BY <1>1, MarketInvariant, PTL

\* For any catalogue, cart and number of overlapping checkouts, an item is ordered twice
\* only by a checkout that had read it before it left the cart, and leaves the cart
\* unordered at a checkout only if it came while one was under way.
THEOREM ItemsAreOrderedOnce == MarketSpec => []OrderedOnce
<1>1. MarketInv => OrderedOnce
  BY DEF MarketInv, CartInv, ItemOK, OrderedOnce
<1> QED
  BY <1>1, MarketInvariant, PTL

-----------------------------------------------------------------------------
(* Reports: the rows there are, and what they are dated.                   *)

Created == {e \in Entry : entry[e] # NoEntry}

Dated(row) == /\ row.at <= clock
              /\ row.kind = "order" => row.earnedAt <= clock

ReportsInv == /\ ReportsTypeOK
              /\ IsFiniteSet(Created)
              /\ \A e \in Created : Dated(entry[e])

LEMMA ReportsInitially == ReportsInit => ReportsInv
<1> SUFFICES ASSUME ReportsInit PROVE ReportsInv
  OBVIOUS
<1>1. Created = {} /\ ReportsTypeOK
  BY ReportsAssumption DEF ReportsInit, Created, ReportsTypeOK
<1> QED
  BY <1>1, FS_EmptySet DEF ReportsInv

LEMMA RowKinds ==
  ASSUME NEW row \in EntryRow
  PROVE  /\ row.at \in Nat /\ row # NoEntry
         /\ row.kind = "order" => /\ row.earnedAt \in Int /\ row.status \in OrderStatuses
                                  /\ row \in [kind : {"order"}, at : 0..Horizon,
                                       status : OrderStatuses, earnedAt : {Never} \cup 0..Horizon]
         /\ row.kind # "order" => /\ row.kind = "payment" /\ row.status \in PaymentStatuses
                                  /\ row \in [kind : {"payment"}, at : 0..Horizon,
                                              status : PaymentStatuses]
BY ReportsAssumption DEF EntryRow, NoEntry, Never

LEMMA EntryTypes ==
  ASSUME ReportsInv
  PROVE  /\ clock \in Nat /\ clock \in Int /\ clock \in 0..Horizon
         /\ \A e \in Created : /\ entry[e] \in EntryRow /\ entry[e].at \in Nat
                               /\ entry[e].at <= clock
         /\ \A k : OfKind(k) \subseteq Created \/ k = "none"
         /\ \A e \in Created : entry[e].kind # "order" => entry[e].kind = "payment"
<1>1. clock \in 0..Horizon /\ \A e \in Created : entry[e] \in EntryRow
  BY DEF ReportsInv, ReportsTypeOK, Created
<1>2. \A k : OfKind(k) \subseteq Created \/ k = "none"
  BY DEF OfKind, Created, NoEntry
<1> QED
  BY <1>1, <1>2, RowKinds, ReportsAssumption DEF ReportsInv, Dated

\* One entry changes, into a row that is dated.
LEMMA EntryChanges ==
  ASSUME ReportsInv, NEW e \in Entry, NEW row \in EntryRow, Dated(row),
         entry' = [entry EXCEPT ![e] = row], UNCHANGED clock
  PROVE  ReportsInv'
<1>1. ReportsTypeOK'
  BY DEF ReportsInv, ReportsTypeOK
<1>2. Created' \subseteq Created \cup {e} /\ \A f \in Created' : entry'[f] = IF f = e THEN row ELSE entry[f]
  BY DEF ReportsInv, ReportsTypeOK, Created
<1>3. IsFiniteSet(Created')
  BY <1>2, FS_AddElement, FS_Subset DEF ReportsInv
<1>4. \A f \in Created' : Dated(entry[f])'
  BY <1>2 DEF ReportsInv, Dated, Created
<1> QED
  BY <1>1, <1>3, <1>4 DEF ReportsInv

LEMMA CreateKeeps ==
  ASSUME ReportsInv, NEW e \in Entry, PlaceOrder(e) \/ CreatePayment(e)
  PROVE  ReportsInv'
<1>1. clock \in 0..Horizon /\ clock \in Int
  BY EntryTypes
<1>2. CASE PlaceOrder(e)
  <2> DEFINE row == [kind |-> "order", at |-> clock, status |-> "PENDING", earnedAt |-> Never]
  <2>1. row \in EntryRow
    BY <1>1 DEF EntryRow, OrderStatuses
  <2>2. Dated(row)
    BY <1>1, ReportsAssumption DEF Dated, Never
  <2> QED
    BY <1>2, <2>1, <2>2, EntryChanges DEF PlaceOrder, Create
<1>3. CASE CreatePayment(e)
  <2> DEFINE row == [kind |-> "payment", at |-> clock, status |-> "PENDING"]
  <2>1. row \in EntryRow
    BY <1>1 DEF EntryRow, PaymentStatuses
  <2>2. Dated(row)
    BY <1>1 DEF Dated
  <2> QED
    BY <1>3, <2>1, <2>2, EntryChanges DEF CreatePayment, Create
<1> QED
  BY <1>2, <1>3

Moved(row, next) == [row EXCEPT !.status = next]
Fulfilled(row, next, earned) == [row EXCEPT !.status = next, !.earnedAt = earned]

LEMMA MovedRow ==
  ASSUME NEW row \in EntryRow, Dated(row), NEW next,
         IF row.kind = "order" THEN next \in OrderStatuses ELSE next \in PaymentStatuses
  PROVE  Moved(row, next) \in EntryRow /\ Dated(Moved(row, next))
<1>1. CASE row.kind = "order"
  BY <1>1, RowKinds, Zenon DEF EntryRow, Moved, Dated
<1>2. CASE row.kind # "order"
  BY <1>2, RowKinds, Zenon DEF EntryRow, Moved, Dated
<1> QED
  BY <1>1, <1>2

LEMMA FulfilledRow ==
  ASSUME NEW row \in EntryRow, Dated(row), row.kind = "order", NEW next \in OrderStatuses,
         NEW earned \in {Never} \cup 0..Horizon, earned <= clock
  PROVE  Fulfilled(row, next, earned) \in EntryRow /\ Dated(Fulfilled(row, next, earned))
BY RowKinds, Zenon DEF EntryRow, Fulfilled, Dated

LEMMA ChangeKeeps ==
  ASSUME ReportsInv, NEW e \in Entry,
         \/ \E next \in OrderStatuses : UpdateOrder(e, next) \/ OverwriteOrder(e, next)
         \/ \E next \in PaymentStatuses : SettlePayment(e, next)
  PROVE  ReportsInv'
<1>1. clock \in 0..Horizon /\ clock \in Int
  BY EntryTypes
<1>2. ASSUME e \in OfKind("order") \/ e \in OfKind("payment")
      PROVE  e \in Created /\ entry[e] \in EntryRow /\ Dated(entry[e])
  <2>1. e \in Created
    BY <1>2 DEF OfKind, Created, NoEntry
  <2> QED
    BY <2>1, EntryTypes DEF ReportsInv
<1>3. ASSUME NEW next \in OrderStatuses, UpdateOrder(e, next) PROVE ReportsInv'
  <2> DEFINE earned == IF next \in {"DELIVERED", "COMPLETED"} /\ entry[e].earnedAt = Never
                       THEN clock ELSE entry[e].earnedAt
  <2>1. entry' = [entry EXCEPT ![e] = Fulfilled(@, next, earned)] /\ UNCHANGED clock
    BY <1>3, Zenon DEF UpdateOrder, Fulfilled
  <2>2. e \in OfKind("order")
    BY <1>3 DEF UpdateOrder
  <2>3. entry[e].kind = "order" /\ entry[e] \in EntryRow /\ Dated(entry[e])
    BY <1>2, <2>2 DEF OfKind
  <2>4. earned \in {Never} \cup 0..Horizon /\ earned <= clock
    BY <1>1, <2>3, RowKinds DEF Dated
  <2> HIDE DEF earned
  <2> QED
    BY <2>1, <2>3, <2>4, FulfilledRow, EntryChanges
<1>4. ASSUME NEW next \in OrderStatuses, OverwriteOrder(e, next) PROVE ReportsInv'
  <2>1. entry' = [entry EXCEPT ![e] = Moved(@, next)] /\ UNCHANGED clock /\ e \in OfKind("order")
    BY <1>4, Zenon DEF OverwriteOrder, Moved
  <2>2. entry[e].kind = "order" /\ entry[e] \in EntryRow /\ Dated(entry[e])
    BY <1>2, <2>1 DEF OfKind
  <2> QED
    BY <2>1, <2>2, MovedRow, EntryChanges
<1>5. ASSUME NEW next \in PaymentStatuses, SettlePayment(e, next) PROVE ReportsInv'
  <2>1. entry' = [entry EXCEPT ![e] = Moved(@, next)] /\ UNCHANGED clock /\ e \in OfKind("payment")
    BY <1>5, Zenon DEF SettlePayment, Moved
  <2>2. entry[e].kind # "order" /\ entry[e] \in EntryRow /\ Dated(entry[e])
    BY <1>2, <2>1 DEF OfKind
  <2> QED
    BY <2>1, <2>2, MovedRow, EntryChanges
<1> QED
  BY <1>3, <1>4, <1>5

LEMMA ReportsStep == ReportsInv /\ [ReportsNext]_reportVars => ReportsInv'
<1> SUFFICES ASSUME ReportsInv, [ReportsNext]_reportVars PROVE ReportsInv'
  OBVIOUS
<1>1. ASSUME NEW e \in Entry, PlaceOrder(e) \/ CreatePayment(e) PROVE ReportsInv'
  BY <1>1, CreateKeeps
<1>2. ASSUME NEW e \in Entry,
             \/ \E next \in OrderStatuses : UpdateOrder(e, next) \/ OverwriteOrder(e, next)
             \/ \E next \in PaymentStatuses : SettlePayment(e, next)
      PROVE  ReportsInv'
  BY <1>2, ChangeKeeps
<1>3. CASE ClockTicks
  <2>1. clock \in 0..Horizon /\ Horizon \in Nat
    BY EntryTypes, ReportsAssumption
  <2>2. clock' = clock + 1 /\ entry' = entry /\ clock < Horizon
    BY <1>3 DEF ClockTicks
  <2>3. ReportsTypeOK' /\ Created' = Created
    BY <2>1, <2>2 DEF ReportsInv, ReportsTypeOK, Created
  <2>4. \A e \in Created : entry[e].at \in Int /\ (entry[e].kind = "order" => entry[e].earnedAt \in Int)
    BY EntryTypes, RowKinds
  <2>5. \A e \in Created : Dated(entry[e])'
    BY <2>1, <2>2, <2>4 DEF ReportsInv, Dated
  <2> QED
    BY <2>2, <2>3, <2>5 DEF ReportsInv
<1>4. CASE UNCHANGED reportVars
  BY <1>4 DEF reportVars, ReportsInv, ReportsTypeOK, Created, Dated
<1> QED
  BY <1>1, <1>2, <1>3, <1>4 DEF ReportsNext

LEMMA ReportsInvariant == ReportsSpec => []ReportsInv
<1> QED
  BY ReportsInitially, ReportsStep, PTL DEF ReportsSpec

\* Rows keep their shape and the clock its bound.
THEOREM ReportsTypeCorrect == ReportsSpec => []ReportsTypeOK
<1>1. ReportsInv => ReportsTypeOK
  BY DEF ReportsInv
<1> QED
  BY <1>1, ReportsInvariant, PTL

-----------------------------------------------------------------------------
(* The arithmetic of days, weeks and months.                               *)

LEMMA Units ==
  /\ TicksPerDay \in Int /\ TicksPerDay > 0
  /\ DaysPerWeek \in Int /\ DaysPerWeek > 0
  /\ DaysPerMonth \in Int /\ DaysPerMonth > 0
  /\ \A n \in Int : Days(n) \in Int
  /\ \A n \in Int : n > 0 => Days(n) > 0
  /\ MonthTicks \in Int /\ MonthTicks > 0
<1>1. /\ TicksPerDay \in Int /\ TicksPerDay > 0
      /\ DaysPerWeek \in Int /\ DaysPerWeek > 0
      /\ DaysPerMonth \in Int /\ DaysPerMonth > 0
  BY ReportsAssumption
<1>2. \A n \in Int : Days(n) \in Int /\ (n > 0 => Days(n) > 0)
  BY <1>1 DEF Days
<1> QED
  BY <1>1, <1>2 DEF MonthTicks

LEMMA Remainder ==
  ASSUME NEW t \in Int, NEW d \in Int, d > 0
  PROVE  t % d \in Int /\ 0 <= t % d /\ t % d < d
OBVIOUS

LEMMA Starts ==
  ASSUME NEW t \in Int
  PROVE  /\ StartOfDay(t) \in Int /\ StartOfDay(t) <= t /\ t < StartOfDay(t) + TicksPerDay
         /\ StartOfWeek(t) \in Int /\ StartOfWeek(t) <= t /\ t < StartOfWeek(t) + Days(DaysPerWeek)
         /\ StartOfMonth(t) \in Int /\ StartOfMonth(t) <= t /\ t < StartOfMonth(t) + MonthTicks
<1>1. /\ StartOfDay(t) \in Int /\ StartOfDay(t) <= t /\ t < StartOfDay(t) + TicksPerDay
  BY Units, Remainder DEF StartOfDay
<1>2. /\ Days(DaysPerWeek) \in Int /\ Days(DaysPerWeek) > 0
  BY Units
<1>3. /\ StartOfWeek(t) \in Int /\ StartOfWeek(t) <= t /\ t < StartOfWeek(t) + Days(DaysPerWeek)
  BY <1>2, Remainder DEF StartOfWeek
<1>4. /\ StartOfMonth(t) \in Int /\ StartOfMonth(t) <= t /\ t < StartOfMonth(t) + MonthTicks
  BY Units, Remainder DEF StartOfMonth
<1> QED
  BY <1>1, <1>3, <1>4

-----------------------------------------------------------------------------
(* Division.                                                               *)

LEMMA Division ==
  ASSUME NEW t \in Int, NEW d \in Int, d > 0
  PROVE  /\ t \div d \in Int /\ t % d \in Int
         /\ t = d * (t \div d) + (t % d)
         /\ d * (t \div d) \in Int
         /\ d * (t \div d) <= t /\ t < d * (t \div d) + d
         /\ t - (t % d) = d * (t \div d)
<1>1. t \div d \in Int /\ t % d \in Int /\ 0 <= t % d /\ t % d < d
  OBVIOUS
<1>2. t = d * (t \div d) + (t % d)
  OBVIOUS
<1>3. d * (t \div d) \in Int
  BY <1>1
<1> DEFINE q == d * (t \div d)
           r == t % d
<1> HIDE DEF q, r
<1>4. q <= t /\ t < q + d /\ t - r = q
  BY <1>1, <1>2, <1>3 DEF q, r
<1> QED
  BY <1>1, <1>2, <1>3, <1>4 DEF q, r

\* A number lies in one of the cells that a length cuts the line into.
LEMMA SameCell ==
  ASSUME NEW x \in Int, NEW d \in Int, d > 0, NEW i \in Int, NEW j \in Int,
         d * i <= x, x < d * i + d, d * j <= x, x < d * j + d
  PROVE  i = j
OBVIOUS

LEMMA Monotone ==
  ASSUME NEW d \in Int, d > 0, NEW i \in Int, NEW j \in Int
  PROVE  /\ d * i \in Int /\ d * j \in Int
         /\ i <= j <=> d * i <= d * j
         /\ i < j <=> d * i < d * j
         /\ d * i = d * j => i = j
OBVIOUS

LEMMA Percent ==
  ASSUME NEW m \in Int, m > 0, NEW n \in Int, 0 <= n, n <= m
  PROVE  (100 * n) \div m \in 0..100
OBVIOUS

\* The multiple of a length that a number was cut down to.
LEMMA SameStart ==
  ASSUME NEW t \in Int, NEW u \in Int, NEW d \in Int, d > 0
  PROVE  /\ (t - (t % d) = u - (u % d)) <=> (t \div d = u \div d)
         /\ (t - (t % d) = u - (u % d)) <=> (u - (u % d) <= t /\ t <= (u - (u % d) + d) - 1)
<1> DEFINE a == t \div d
           b == u \div d
           s == u - (u % d)
<1>1. a \in Int /\ d * a <= t /\ t < d * a + d /\ t - (t % d) = d * a /\ d * a \in Int
  BY Division
<1>2. b \in Int /\ s = d * b /\ d * b \in Int
  BY Division
<1> HIDE DEF a, b, s
<1>3. d * a = d * b <=> a = b
  BY <1>1, <1>2, Monotone
<1>4. ASSUME d * b <= t, t < d * b + d PROVE a = b
  BY <1>1, <1>2, <1>4, SameCell
<1>5. ASSUME s <= t, t <= (s + d) - 1 PROVE a = b
  <2>1. d * b <= t /\ t < d * b + d
    BY <1>2, <1>5
  <2> QED
    BY <1>4, <2>1
<1>6. ASSUME a = b PROVE s <= t /\ t <= (s + d) - 1
  BY <1>1, <1>2, <1>6
<1> QED
  BY <1>1, <1>2, <1>3, <1>5, <1>6 DEF a, b, s

\* Two numbers less than a length apart that leave the same remainder are equal.
LEMMA SameRemainder ==
  ASSUME NEW a \in Int, NEW b \in Int, NEW d \in Int, d > 0, a % d = b % d,
         a - b < d, b - a < d
  PROVE  a = b
<1> DEFINE i == a \div d
           j == b \div d
           r == a % d
<1>1. i \in Int /\ j \in Int /\ r \in Int /\ a = d * i + r /\ b = d * j + r
  BY Division
<1> HIDE DEF i, j, r
<1>2. d * i \in Int /\ d * j \in Int
  BY <1>1
<1>3. d * i < d * j + d /\ d * j < d * i + d
  BY <1>1, <1>2
<1>4. d * (j + 1) = d * j + d /\ d * (i + 1) = d * i + d
  BY <1>1
<1>5. i < j + 1 /\ j < i + 1
  <2>1. j + 1 \in Int /\ i + 1 \in Int /\ d * i < d * (j + 1) /\ d * j < d * (i + 1)
    BY <1>1, <1>3, <1>4
  <2> QED
    BY <1>1, <2>1, Monotone
<1>6. i = j
  BY <1>1, <1>5
<1> QED
  BY <1>1, <1>6

-----------------------------------------------------------------------------
(* Periods: the one before ends one instant before this one begins, or at  *)
(* that instant.                                                           *)

IsPeriod(p) == \E f \in Int, t \in Int : p = Through(f, t)
Gapless(r) == \E f \in Int, t \in Int, b \in Int : r = Compared(Through(f, t), Through(b, f - 1))
Overlapping(r) == \E f \in Int, t \in Int, b \in Int : r = Compared(Through(f, t), Through(b, f))

Counted(r, at) == {p \in {"current", "previous"} : Within(r[p], at)}
Covered(r, at) == r.previous.from <= at /\ at <= r.current.to

Counts(r, f, t, b, c, at) ==
  /\ "current" \in Counted(r, at) <=> f <= at /\ at <= t
  /\ "previous" \in Counted(r, at) <=> b <= at /\ at <= c
  /\ Covered(r, at) <=> b <= at /\ at <= t
  /\ r.current.from = f
  /\ Counted(r, at) \subseteq {"current", "previous"}

LEMMA CountedIs ==
  ASSUME NEW f \in Int, NEW t \in Int, NEW b \in Int, NEW c \in Int, NEW at \in Int,
         NEW r, r = Compared(Through(f, t), Through(b, c))
  PROVE  Counts(r, f, t, b, c, at)
BY DEF Counts, Compared, Through, Counted, Covered, Within

LEMMA OneOfTwo ==
  ASSUME NEW S, S \subseteq {"current", "previous"}
  PROVE  /\ "current" \in S /\ "previous" \notin S => Cardinality(S) = 1
         /\ "current" \notin S /\ "previous" \in S => Cardinality(S) = 1
         /\ "current" \in S /\ "previous" \in S => Cardinality(S) = 2
<1>1. "current" # "previous"
  OBVIOUS
<1>2. /\ Cardinality({"current"}) = 1 /\ Cardinality({"previous"}) = 1
      /\ IsFiniteSet({"current"}) /\ "previous" \notin {"current"}
  BY <1>1, FS_Singleton
<1>3. Cardinality({"current"} \cup {"previous"}) = 1 + 1
  BY <1>2, FS_AddElement
<1>4. {"current"} \cup {"previous"} = {"current", "previous"}
  OBVIOUS
<1>5. ASSUME "current" \in S, "previous" \notin S PROVE S = {"current"}
  BY <1>5
<1>6. ASSUME "current" \notin S, "previous" \in S PROVE S = {"previous"}
  BY <1>6
<1>7. ASSUME "current" \in S, "previous" \in S PROVE S = {"current", "previous"}
  BY <1>7
<1> QED
  BY <1>2, <1>3, <1>4, <1>5, <1>6, <1>7

LEMMA GaplessCounts ==
  ASSUME NEW r, Gapless(r), NEW at \in Int, Covered(r, at)
  PROVE  Cardinality(Counted(r, at)) = 1
<1>1. PICK f \in Int, t \in Int, b \in Int : r = Compared(Through(f, t), Through(b, f - 1))
  BY DEF Gapless
<1>2. PICK c \in Int : c = f - 1
  OBVIOUS
<1>3. /\ "current" \in Counted(r, at) <=> f <= at /\ at <= t
      /\ "previous" \in Counted(r, at) <=> b <= at /\ at <= c
      /\ b <= at /\ at <= t
      /\ Counted(r, at) \subseteq {"current", "previous"}
  <2>1. r = Compared(Through(f, t), Through(b, c))
    BY <1>1, <1>2
  <2>2. Counts(r, f, t, b, c, at)
    BY <2>1, CountedIs
  <2> QED
    BY <2>2 DEF Counts
<1>4. CASE f <= at
  <2>1. "current" \in Counted(r, at) /\ "previous" \notin Counted(r, at)
    BY <1>2, <1>3, <1>4
  <2> QED
    BY <1>3, <2>1, OneOfTwo
<1>5. CASE ~(f <= at)
  <2>1. "current" \notin Counted(r, at) /\ "previous" \in Counted(r, at)
    BY <1>2, <1>3, <1>5
  <2> QED
    BY <1>3, <2>1, OneOfTwo
<1> QED
  BY <1>4, <1>5

LEMMA OverlappingCounts ==
  ASSUME NEW r, Overlapping(r), NEW at \in Int, Covered(r, at)
  PROVE  Cardinality(Counted(r, at)) = IF at = r.current.from THEN 2 ELSE 1
<1>1. PICK f \in Int, t \in Int, b \in Int : r = Compared(Through(f, t), Through(b, f))
  BY DEF Overlapping
<1>2. /\ "current" \in Counted(r, at) <=> f <= at /\ at <= t
      /\ "previous" \in Counted(r, at) <=> b <= at /\ at <= f
      /\ b <= at /\ at <= t
      /\ r.current.from = f
      /\ Counted(r, at) \subseteq {"current", "previous"}
  <2>1. Counts(r, f, t, b, f, at)
    BY <1>1, CountedIs
  <2> QED
    BY <2>1 DEF Counts
<1>3. CASE at = f
  <2>1. "current" \in Counted(r, at) /\ "previous" \in Counted(r, at)
    BY <1>2, <1>3
  <2> QED
    BY <1>2, <1>3, <2>1, OneOfTwo
<1>4. CASE f < at
  <2>1. "current" \in Counted(r, at) /\ "previous" \notin Counted(r, at)
    BY <1>2, <1>4
  <2> QED
    BY <1>2, <1>4, <2>1, OneOfTwo
<1>5. CASE at < f
  <2>1. "current" \notin Counted(r, at) /\ "previous" \in Counted(r, at)
    BY <1>2, <1>5
  <2> QED
    BY <1>2, <1>5, <2>1, OneOfTwo
<1> QED
  BY <1>3, <1>4, <1>5

\* The ranges the pages start from.
LEMMA PeriodsArePeriods ==
  ASSUME clock \in Int
  PROVE  \A p \in LastDays \cup {Today, ThisWeek, ThisMonth, LastMonth, DailyRevenue, WholeDay} :
           IsPeriod(p)
<1>1. /\ StartOfDay(clock) \in Int /\ StartOfWeek(clock) \in Int /\ StartOfMonth(clock) \in Int
  BY Starts
<1>2. ASSUME NEW p \in LastDays PROVE IsPeriod(p)
  <2>1. PICK n \in Windows : p = Through(clock - Days(n), clock)
    BY DEF LastDays
  <2>2. clock - Days(n) \in Int
    BY ReportsAssumption, Units
  <2> QED
    BY <2>1, <2>2 DEF IsPeriod
<1>3. IsPeriod(Today) /\ IsPeriod(ThisWeek) /\ IsPeriod(ThisMonth)
  BY <1>1 DEF IsPeriod, Today, ThisWeek, ThisMonth
<1>4. IsPeriod(LastMonth)
  <2>1. StartOfMonth(clock) - MonthTicks \in Int
    BY <1>1, Units
  <2> QED
    BY <1>1, <2>1 DEF IsPeriod, LastMonth
<1>5. IsPeriod(DailyRevenue)
  <2>1. DaysPerWeek - 1 \in Int
    BY Units
  <2>2. StartOfDay(clock) - Days(DaysPerWeek - 1) \in Int
    BY <1>1, <2>1, Units
  <2> QED
    BY <2>2 DEF IsPeriod, DailyRevenue
<1>6. IsPeriod(WholeDay)
  <2>1. PICK t \in Int : t = (StartOfDay(clock) + TicksPerDay) - 1
    BY <1>1, Units
  <2>2. WholeDay = Through(StartOfDay(clock), (StartOfDay(clock) + TicksPerDay) - 1)
    BY DEF WholeDay, DayOf, Until, Through
  <2>3. WholeDay = Through(StartOfDay(clock), t)
    BY <2>1, <2>2, Zenon
  <2> QED
    BY <1>1, <2>3 DEF IsPeriod
<1> QED
  BY <1>2, <1>3, <1>4, <1>5, <1>6

LEMMA SeparateIsGapless ==
  ASSUME clock \in Int
  PROVE  \A r \in Separate : Gapless(r)
<1>1. ASSUME NEW p, IsPeriod(p) PROVE Gapless(DateRanges(p)) /\ Gapless(PreviousOrderRange(p))
  <2>1. PICK f \in Int, t \in Int : p = Through(f, t)
    BY <1>1 DEF IsPeriod
  <2>2. p.from = f /\ p.to = t
    BY <2>1 DEF Through
  <2>3. AtLeast(t - f, 1) \in Int
    BY DEF AtLeast
  <2>4. Gapless(DateRanges(p))
    <3>1. DateRanges(p) = Compared(Through(f, t), Through(f - AtLeast(t - f, 1), f - 1))
      BY <2>1, <2>2 DEF DateRanges, Until, Through
    <3>2. f - AtLeast(t - f, 1) \in Int
      BY <2>3
    <3> QED
      BY <3>1, <3>2 DEF Gapless
  <2>5. Gapless(PreviousOrderRange(p))
    <3>1. PreviousOrderRange(p) = Compared(Through(f, t), Through(2 * f - t, f - 1))
      BY <2>1, <2>2 DEF PreviousOrderRange
    <3>2. 2 * f - t \in Int
      OBVIOUS
    <3> QED
      BY <3>1, <3>2 DEF Gapless
  <2> QED
    BY <2>4, <2>5
<1>2. \A r \in Dashboard \cup OrderReports : Gapless(r)
  BY <1>1, PeriodsArePeriods DEF Dashboard, OrderReports, PerformanceRanges
<1>3. ASSUME NEW r \in ProviderWindows PROVE Gapless(r)
  <2>1. PICK n \in Windows : r = Compared(CurrentWindow(n), PreviousWindow(n, clock - Days(n)))
    BY DEF ProviderWindows
  <2> DEFINE f == clock - Days(n)
             b == f - Days(n)
             t == clock - 1
  <2>2. f \in Int /\ b \in Int /\ t \in Int
    BY ReportsAssumption, Units
  <2>3. r = Compared(Through(f, t), Through(b, f - 1))
    BY <2>1 DEF CurrentWindow, PreviousWindow, Until, Through
  <2> HIDE DEF f, b, t
  <2> QED
    BY <2>2, <2>3 DEF Gapless
<1>4. Gapless(FailedToday)
  <2>1. PICK f \in Int, t \in Int : WholeDay = Through(f, t)
    BY PeriodsArePeriods DEF IsPeriod
  <2>2. WholeDay.from = f
    BY <2>1 DEF Through
  <2>3. FailedToday = Compared(Through(f, t), Through(f - TicksPerDay, f - 1))
    BY <2>1, <2>2 DEF FailedToday, Until, Through
  <2>4. f - TicksPerDay \in Int
    BY Units
  <2> QED
    BY <2>3, <2>4 DEF Gapless
<1> QED
  BY <1>2, <1>3, <1>4 DEF Separate

LEMMA TouchingOverlaps ==
  ASSUME clock \in Int
  PROVE  \A r \in Touching : Overlapping(r)
<1>1. ASSUME NEW p, IsPeriod(p) PROVE Overlapping(PreviousRange(p)) /\ Overlapping(PreviousEarnings(p))
  <2>1. PICK f \in Int, t \in Int : p = Through(f, t)
    BY <1>1 DEF IsPeriod
  <2>2. p.from = f /\ p.to = t
    BY <2>1 DEF Through
  <2>3. Overlapping(PreviousRange(p))
    <3>1. PreviousRange(p) = Compared(Through(f, t), Through(f - AtLeast(t - f, TicksPerDay), f))
      BY <2>1, <2>2 DEF PreviousRange
    <3>2. f - AtLeast(t - f, TicksPerDay) \in Int
      BY Units DEF AtLeast
    <3> QED
      BY <3>1, <3>2 DEF Overlapping
  <2>4. Overlapping(PreviousEarnings(p))
    <3>1. PreviousEarnings(p) = Compared(Through(f, t), Through(2 * f - t, f))
      BY <2>1, <2>2 DEF PreviousEarnings
    <3>2. 2 * f - t \in Int
      OBVIOUS
    <3> QED
      BY <3>1, <3>2 DEF Overlapping
  <2> QED
    BY <2>3, <2>4
<1> QED
  BY <1>1, PeriodsArePeriods DEF Touching, PlatformAnalytics, EarningsSummary

\* Days begin in the order of their instants.
LEMMA StartsInOrder ==
  ASSUME NEW a \in Int, NEW b \in Int, a <= b
  PROVE  StartOfDay(a) <= StartOfDay(b)
<1> DEFINE d == TicksPerDay
           i == a \div d
           j == b \div d
<1>1. d \in Int /\ d > 0
  BY Units
<1>2. /\ i \in Int /\ d * i \in Int /\ d * i <= a /\ a - (a % d) = d * i
      /\ j \in Int /\ d * j \in Int /\ b < d * j + d /\ b - (b % d) = d * j
  BY <1>1, Division
<1>3. StartOfDay(a) = d * i /\ StartOfDay(b) = d * j
  BY <1>2 DEF StartOfDay
<1> HIDE DEF d, i, j
<1>4. d * (j + 1) = d * j + d
  BY <1>1, <1>2
<1>5. i < j + 1
  BY <1>1, <1>2, <1>4, Monotone
<1>6. d * i <= d * j
  BY <1>1, <1>2, <1>5, Monotone
<1> QED
  BY <1>3, <1>6

\* The statistics of the transactions: the range has moved on by the second reading.
MovesOn(days, asked, now, f, t, g, u) ==
  /\ f \in Int /\ t \in Int /\ g \in Int /\ u \in Int /\ f <= g
  /\ TransactionRange(days, asked) = Through(f, t)
  /\ TransactionRange(days, now) = Through(g, u)

LEMMA RangesMoveOn ==
  ASSUME NEW days \in Windows \cup {0}, NEW asked \in Int, NEW now \in Int, asked <= now
  PROVE  \E f, t, g, u : MovesOn(days, asked, now, f, t, g, u)
<1>1. CASE days = 0
  <2> DEFINE f == StartOfDay(asked)
             g == StartOfDay(now)
             t == (f + TicksPerDay) - 1
             u == (g + TicksPerDay) - 1
  <2>1. f \in Int /\ g \in Int /\ t \in Int /\ u \in Int
    BY Starts, Units
  <2>2. f <= g
    BY StartsInOrder
  <2>3. TransactionRange(days, asked) = Through(f, t) /\ TransactionRange(days, now) = Through(g, u)
    BY <1>1, Zenon DEF TransactionRange, DayOf, Until, Through
  <2>4. MovesOn(days, asked, now, f, t, g, u)
    BY <2>1, <2>2, <2>3, Zenon DEF MovesOn
  <2> QED
    BY <2>4, Zenon
<1>2. CASE days # 0
  <2> DEFINE f == asked - Days(days)
             g == now - Days(days)
  <2>1. f \in Int /\ g \in Int /\ f <= g
    BY <1>2, ReportsAssumption, Units
  <2>2. TransactionRange(days, asked) = Through(f, asked) /\ TransactionRange(days, now) = Through(g, now)
    BY <1>2, Zenon DEF TransactionRange
  <2>3. MovesOn(days, asked, now, f, asked, g, now)
    BY <2>1, <2>2, Zenon DEF MovesOn
  <2> QED
    BY <2>3, Zenon
<1> QED
  BY <1>1, <1>2

LEMMA LateCounts ==
  ASSUME NEW f \in Int, NEW t \in Int, NEW b \in Int, NEW g \in Int, f <= g, NEW at \in Int,
         NEW r, r = Compared(Through(f, t), Through(b, g)), Covered(r, at)
  PROVE  Cardinality(Counted(r, at)) = IF at \in f .. g THEN 2 ELSE 1
<1>1. /\ "current" \in Counted(r, at) <=> f <= at /\ at <= t
      /\ "previous" \in Counted(r, at) <=> b <= at /\ at <= g
      /\ b <= at /\ at <= t
      /\ Counted(r, at) \subseteq {"current", "previous"}
  <2>1. Counts(r, f, t, b, g, at)
    BY CountedIs
  <2> QED
    BY <2>1 DEF Counts
<1>2. CASE at \in f .. g
  <2>1. "current" \in Counted(r, at) /\ "previous" \in Counted(r, at)
    BY <1>1, <1>2
  <2> QED
    BY <1>1, <1>2, <2>1, OneOfTwo
<1>3. CASE g < at
  <2>1. "current" \in Counted(r, at) /\ "previous" \notin Counted(r, at) /\ at \notin f .. g
    BY <1>1, <1>3
  <2> QED
    BY <1>1, <2>1, OneOfTwo
<1>4. CASE at < f
  <2>1. "current" \notin Counted(r, at) /\ "previous" \in Counted(r, at) /\ at \notin f .. g
    BY <1>1, <1>4
  <2> QED
    BY <1>1, <2>1, OneOfTwo
<1> QED
  BY <1>2, <1>3, <1>4

LEMMA StatsOverlapBetweenReadings ==
  ASSUME clock \in Int, NEW days \in Windows \cup {0}, NEW asked \in 0 .. clock, NEW at \in Int,
         Covered(TransactionStats(days, asked), at)
  PROVE  Cardinality(Counted(TransactionStats(days, asked), at)) =
           IF at \in TransactionRange(days, asked).from .. TransactionRange(days, clock).from
           THEN 2 ELSE 1
<1>1. asked \in Int /\ asked <= clock
  BY SMT
<1>a. \E f, t, g, u : MovesOn(days, asked, clock, f, t, g, u)
  BY <1>1, RangesMoveOn
<1>b. PICK f, t, g, u : MovesOn(days, asked, clock, f, t, g, u)
  BY <1>a
<1>2. /\ f \in Int /\ t \in Int /\ g \in Int /\ u \in Int /\ f <= g
      /\ TransactionRange(days, asked) = Through(f, t)
      /\ TransactionRange(days, clock) = Through(g, u)
  BY <1>b DEF MovesOn
<1>3. Through(f, t).from = f /\ Through(g, u).from = g /\ Through(g, u).to = u
  BY DEF Through
<1> DEFINE b == 2 * g - u
<1>4. b \in Int
  BY <1>2
<1>5. TransactionStats(days, asked) = Compared(Through(f, t), Through(b, g))
  <2>1. PreviousEarnings(Through(g, u)) = Compared(Through(g, u), Through(b, g))
    BY <1>3 DEF PreviousEarnings
  <2>2. Compared(Through(g, u), Through(b, g)).previous = Through(b, g)
    BY DEF Compared
  <2> QED
    BY <1>2, <2>1, <2>2, Zenon DEF TransactionStats
<1> HIDE DEF b
<1> QED
  BY <1>2, <1>3, <1>4, <1>5, LateCounts

\* Every dashboard that compares a period with the one before leaves no row out between
\* them and counts none twice, but for the instant at which the periods of two pages
\* touch (dateRanges, currentWindow and previousWindow, previousRange) and, in the
\* statistics of the transactions, what is dated between the beginnings of the range at
\* the two readings of the clock (stats, range and previousRange).
THEOREM PeriodsAlwaysMeet == ReportsSpec => []PeriodsMeet
<1>1. ReportsInv => PeriodsMeet
  <2> SUFFICES ASSUME ReportsInv PROVE PeriodsMeet
    OBVIOUS
  <2> DEFINE dates == {entry[e].at : e \in Created}
  <2>1. ASSUME NEW at \in dates
        PROVE  /\ \A r \in Separate : Covered(r, at) => Cardinality(Counted(r, at)) = 1
               /\ \A r \in Touching : Covered(r, at)
                     => Cardinality(Counted(r, at)) = IF at = r.current.from THEN 2 ELSE 1
               /\ \A days \in Windows \cup {0}, asked \in 0 .. clock :
                    Covered(TransactionStats(days, asked), at)
                      => Cardinality(Counted(TransactionStats(days, asked), at))
                           = IF at \in TransactionStats(days, asked).current.from
                                         .. TransactionRange(days, clock).from
                             THEN 2 ELSE 1
    <3>1. PICK e \in Created : at = entry[e].at
      BY <2>1
    <3>2. clock \in Int /\ at \in Int
      BY <3>1, EntryTypes
    <3> HIDE DEF dates
    <3>3. \A days \in Windows \cup {0}, asked \in 0 .. clock :
            Covered(TransactionStats(days, asked), at)
              => Cardinality(Counted(TransactionStats(days, asked), at))
                   = IF at \in TransactionStats(days, asked).current.from
                                 .. TransactionRange(days, clock).from
                     THEN 2 ELSE 1
      <4> TAKE days \in Windows \cup {0}, asked \in 0 .. clock
      <4>1. TransactionStats(days, asked).current.from = TransactionRange(days, asked).from
        BY DEF TransactionStats, Compared
      <4> QED
        BY <3>2, <4>1, StatsOverlapBetweenReadings
    <3> QED
      BY <3>2, <3>3, SeparateIsGapless, TouchingOverlaps, GaplessCounts, OverlappingCounts
  <2> QED
    BY <2>1, Zenon DEF PeriodsMeet, Created, Covered, Counted
<1> QED
  BY <1>1, ReportsInvariant, PTL

-----------------------------------------------------------------------------
(* Bars that share no row add up to the rows in them.                      *)

LEMMA BarsAddUp ==
  ASSUME NEW bars, NEW rows, IsFiniteSet(rows),
         \A i \in DOMAIN bars : bars[i] \subseteq rows,
         \A x \in rows : \E i \in DOMAIN bars : x \in bars[i],
         \A i, j \in DOMAIN bars : \A x \in rows : x \in bars[i] /\ x \in bars[j] => i = j
  PROVE  SumOfBars(bars) = Cardinality(rows)
<1> DEFINE P == UNION {{i} \X bars[i] : i \in DOMAIN bars}
           Bar(x) == CHOOSE i \in DOMAIN bars : x \in bars[i]
           f == [x \in rows |-> <<Bar(x), x>>]
<1>1. \A x \in rows : Bar(x) \in DOMAIN bars /\ x \in bars[Bar(x)]
  OBVIOUS
<1>2. \A q \in P : q = <<q[1], q[2]>> /\ q[1] \in DOMAIN bars /\ q[2] \in bars[q[1]]
  OBVIOUS
<1>3. \A i \in DOMAIN bars : \A x \in bars[i] : <<i, x>> \in P
  OBVIOUS
<1> HIDE DEF P, Bar
<1>4. f \in [rows -> P]
  BY <1>1, <1>3
<1>5. \A x, y \in rows : f[x] = f[y] => x = y
  OBVIOUS
<1>6. ASSUME NEW q \in P PROVE \E x \in rows : f[x] = q
  <2>1. q = <<q[1], q[2]>> /\ q[1] \in DOMAIN bars /\ q[2] \in bars[q[1]]
    BY <1>2
  <2>2. q[2] \in rows
    BY <2>1
  <2>3. Bar(q[2]) = q[1]
    BY <1>1, <2>1, <2>2
  <2> QED
    BY <2>1, <2>2, <2>3
<1> HIDE DEF f
<1>7. f \in Bijection(rows, P)
  BY <1>4, <1>5, <1>6 DEF Bijection, Injection, IsInjective, Surjection
<1>8. ExistsBijection(rows, P)
  BY <1>7 DEF ExistsBijection
<1>9. Cardinality(P) = Cardinality(rows)
  BY <1>8, FS_Bijection
<1> QED
  BY <1>9 DEF SumOfBars, P

\* A row's status is one of its kind's.
LEMMA OrderRows ==
  ASSUME ReportsInv, NEW o \in OfKind("order")
  PROVE  /\ o \in Created /\ entry[o].status \in OrderStatuses
         /\ entry[o].at \in Nat /\ entry[o].at <= clock
         /\ entry[o].earnedAt \in Int /\ entry[o].earnedAt <= clock
<1>1. o \in Created /\ entry[o].kind = "order"
  BY DEF OfKind, Created, NoEntry
<1> QED
  BY <1>1, EntryTypes, RowKinds DEF ReportsInv, Dated

LEMMA AllOrders ==
  ASSUME ReportsInv
  PROVE  /\ Orders(OrderStatuses) = OfKind("order")
         /\ \A statuses : Orders(statuses) \subseteq OfKind("order")
         /\ IsFiniteSet(OfKind("order")) /\ \A statuses : IsFiniteSet(Orders(statuses))
         /\ \A statuses : Payments(statuses) \subseteq Created /\ IsFiniteSet(Payments(statuses))
<1>1. Orders(OrderStatuses) = OfKind("order")
  BY OrderRows DEF Orders
<1>2. \A statuses : Orders(statuses) \subseteq OfKind("order")
  BY DEF Orders
<1>3. OfKind("order") \subseteq Created /\ OfKind("payment") \subseteq Created
  BY EntryTypes
<1>4. \A S \in SUBSET Created : IsFiniteSet(S)
  BY FS_Subset DEF ReportsInv
<1>5. \A statuses : Payments(statuses) \subseteq OfKind("payment")
  BY DEF Payments
<1> QED
  BY <1>1, <1>2, <1>3, <1>4, <1>5

-----------------------------------------------------------------------------
(* Rates.                                                                  *)

LEMMA RateIsPercent ==
  ASSUME NEW part, NEW whole, IsFiniteSet(whole), part \subseteq whole
  PROVE  Rate(part, whole) \in 0..100
<1>1. CASE whole = {}
  BY <1>1 DEF Rate
<1>2. CASE whole # {}
  <2> DEFINE n == Cardinality(part)
             m == Cardinality(whole)
  <2>1. n \in Nat /\ m \in Nat /\ n <= m /\ m # 0
    BY <1>2, FS_Subset, FS_CardinalityType, FS_EmptySet
  <2>2. Rate(part, whole) = (100 * n) \div m
    BY <1>2 DEF Rate
  <2> HIDE DEF n, m
  <2> QED
    BY <2>1, <2>2, Percent
<1> QED
  BY <1>1, <1>2

LEMMA SummaryTakesAll ==
  ASSUME ReportsInv
  PROVE  SumOfBars(SummaryCounts) = Cardinality(OfKind("order"))
<1>1. DOMAIN SummaryCounts = {1, 2, 3, 4, 5}
  BY DEF SummaryCounts
<1>2. /\ SummaryCounts[1] = Orders({"PENDING"})
      /\ SummaryCounts[2] = Orders({"ACCEPTED", "PROCESSING"})
      /\ SummaryCounts[3] = Orders({"SHIPPED"})
      /\ SummaryCounts[4] = Orders({"DELIVERED", "COMPLETED"})
      /\ SummaryCounts[5] = Orders({"CANCELLED", "REJECTED"})
  BY DEF SummaryCounts
<1>3. \A i \in DOMAIN SummaryCounts : SummaryCounts[i] \subseteq OfKind("order")
  BY <1>1, <1>2, AllOrders
<1>4. \A o \in OfKind("order") : \E i \in DOMAIN SummaryCounts : o \in SummaryCounts[i]
  BY <1>1, <1>2, OrderRows DEF Orders, OrderStatuses
<1> DEFINE Once(o, i) == o \in SummaryCounts[i] => i =
             CASE entry[o].status = "PENDING" -> 1
               [] entry[o].status \in {"ACCEPTED", "PROCESSING"} -> 2
               [] entry[o].status = "SHIPPED" -> 3
               [] entry[o].status \in {"DELIVERED", "COMPLETED"} -> 4
               [] OTHER -> 5
<1>5. \A o \in OfKind("order") : Once(o, 1) /\ Once(o, 2) /\ Once(o, 3) /\ Once(o, 4) /\ Once(o, 5)
  BY <1>2 DEF Orders
<1>6. \A i, j \in DOMAIN SummaryCounts : \A o \in OfKind("order") :
        o \in SummaryCounts[i] /\ o \in SummaryCounts[j] => i = j
  <2>1. \A o \in OfKind("order") : \A i \in DOMAIN SummaryCounts : Once(o, i)
    BY <1>1, <1>5
  <2> QED
    BY <2>1
<1> QED
  BY <1>3, <1>4, <1>6, AllOrders, BarsAddUp

\* The share of fulfilled orders is the same on every page that shows it, the counts of
\* the provider's summary take every order exactly once, and today's orders are those
\* dated on the clock's day (successRate, safeRatioPercent, completionRate, summary).
THEOREM RatesAlwaysAgree == ReportsSpec => []RatesAgree
<1>1. ReportsInv => RatesAgree
  <2> SUFFICES ASSUME ReportsInv PROVE RatesAgree
    OBVIOUS
  <2>1. SuccessRate = OrderFulfillment
    BY DEF SuccessRate, OrderFulfillment
  <2>2. OrderFulfillment = CompletionRate(Through(0, clock))
    <3> DEFINE orders == {o \in Orders(OrderStatuses) : Within(Through(0, clock), entry[o].at)}
    <3>1. orders = OfKind("order")
      BY AllOrders, OrderRows DEF Within, Through
    <3> HIDE DEF orders
    <3>2. {o \in orders : entry[o].status \in {"DELIVERED", "COMPLETED"}}
            = Orders({"DELIVERED", "COMPLETED"})
      BY <3>1 DEF Orders
    <3>3. {o \in orders : entry[o].status \notin {"CANCELLED", "REJECTED"}}
            = Orders(OrderStatuses \ {"CANCELLED", "REJECTED"})
      BY <3>1, OrderRows DEF Orders
    <3> QED
      BY <3>2, <3>3 DEF OrderFulfillment, CompletionRate, orders
  <2>3. SuccessRate \in 0..100
    <3>1. Orders({"DELIVERED", "COMPLETED"}) \subseteq Orders(OrderStatuses \ {"CANCELLED", "REJECTED"})
      BY DEF Orders, OrderStatuses
    <3> QED
      BY <3>1, AllOrders, RateIsPercent DEF SuccessRate
  <2>4. SumOfBars(SummaryCounts) = Cardinality(OfKind("order"))
    BY SummaryTakesAll
  <2>5. TodayOrders = {o \in OfKind("order") : StartOfDay(entry[o].at) = StartOfDay(clock)}
    <3>1. ASSUME NEW o \in OfKind("order")
          PROVE  Within(WholeDay, entry[o].at) <=> StartOfDay(entry[o].at) = StartOfDay(clock)
      <4>1. entry[o].at \in Int /\ clock \in Int
        BY OrderRows, EntryTypes
      <4> DEFINE t == entry[o].at
      <4>2. StartOfDay(t) = StartOfDay(clock)
              <=> StartOfDay(clock) <= t /\ t <= (StartOfDay(clock) + TicksPerDay) - 1
        BY <4>1, Units, SameStart DEF StartOfDay
      <4>3. Within(WholeDay, t)
              <=> StartOfDay(clock) <= t /\ t <= (StartOfDay(clock) + TicksPerDay) - 1
        BY DEF Within, WholeDay, DayOf, Until
      <4> QED
        BY <4>2, <4>3
    <3> QED
      BY <3>1, AllOrders DEF TodayOrders
  <2> QED
    BY <2>1, <2>2, <2>3, <2>4, <2>5 DEF RatesAgree
<1> QED
  BY <1>1, ReportsInvariant, PTL

-----------------------------------------------------------------------------
(* Series.                                                                 *)

\* The months of the trend are cells of one length, from its start on.
LEMMA TrendCells ==
  ASSUME clock \in Int
  PROVE  /\ TrendMonths \in Int /\ TrendMonths > 0
         /\ TrendStart(1) \in Int /\ clock < TrendStart(1) + TrendMonths * MonthTicks
         /\ TrendMonths * MonthTicks \in Int
         /\ \A i \in Int : /\ MonthTicks * (i - 1) \in Int
                           /\ TrendStart(i) = TrendStart(1) + MonthTicks * (i - 1)
                           /\ TrendStart(i + 1) = (TrendStart(1) + MonthTicks * (i - 1)) + MonthTicks
<1>1. TrendMonths \in Int /\ TrendMonths > 0
  BY ReportsAssumption
<1>2. StartOfMonth(clock) \in Int /\ clock < StartOfMonth(clock) + MonthTicks
  BY Starts
<1>3. PICK s \in Int, m \in Int, n \in Int : s = StartOfMonth(clock) /\ m = MonthTicks /\ n = TrendMonths
  BY <1>1, <1>2, Units
<1>4. \A i \in Int : TrendStart(i) = s - (n - i) * m
  BY <1>3 DEF TrendStart
<1>5. n * m \in Int /\ \A i \in Int : (n - i) * m \in Int /\ m * (i - 1) \in Int
  OBVIOUS
<1>6. \A i \in Int : /\ (n - i) * m = n * m - i * m /\ i * m \in Int
                     /\ m * (i - 1) = i * m - m /\ (i + 1) * m = i * m + m
  OBVIOUS
<1>7. TrendStart(1) = s - (n * m - m)
  <2>1. 1 * m = m
    OBVIOUS
  <2> QED
    BY <1>4, <1>6, <2>1
<1>8. \A i \in Int : TrendStart(i) = TrendStart(1) + m * (i - 1)
  BY <1>4, <1>5, <1>6, <1>7
<1>9. ASSUME NEW i \in Int PROVE TrendStart(i + 1) = (TrendStart(1) + m * (i - 1)) + m
  <2>1. TrendStart(i + 1) = s - (n * m - (i + 1) * m)
    BY <1>4, <1>6
  <2> QED
    BY <1>5, <1>6, <1>7, <2>1
<1>10. TrendStart(1) \in Int /\ clock < TrendStart(1) + n * m
  BY <1>2, <1>3, <1>5, <1>7
<1> QED
  BY <1>1, <1>3, <1>5, <1>8, <1>9, <1>10

\* The oldest of some rows, as many as a limit takes: those dated before an instant come
\* first, and the rest is what the limit leaves.
LEMMA OldestFirst ==
  ASSUME NEW S, IsFiniteSet(S), NEW at, \A p \in S : at[p] \in Int,
         NEW R \in SUBSET S, NEW limit \in Int, limit >= 0,
         Cardinality(R) = AtMost(limit, Cardinality(S)),
         \A p \in R, q \in S \ R : at[p] <= at[q],
         NEW first \in Int, NEW B, B = {p \in S : at[p] < first}
  PROVE  Cardinality({p \in R : at[p] >= first}) =
           AtMost(Cardinality(S \ B), AtLeast(0, limit - Cardinality(B)))
<1> DEFINE I == {p \in R : at[p] >= first}
<1>1. B \subseteq S /\ IsFiniteSet(B) /\ IsFiniteSet(S \ B) /\ IsFiniteSet(R) /\ R \subseteq S
  BY FS_Subset, FS_Difference
<1>2. PICK s \in Nat, b \in Nat, a \in Nat, r \in Nat :
        s = Cardinality(S) /\ b = Cardinality(B) /\ a = Cardinality(S \ B) /\ r = Cardinality(R)
  BY <1>1, FS_CardinalityType
<1>3. s = a + b
  <2>1. S \cap B = B
    BY <1>1
  <2>2. Cardinality(S \ B) = Cardinality(S) - Cardinality(S \cap B)
    BY FS_Difference
  <2>3. Cardinality(S \ B) = Cardinality(S) - Cardinality(B)
    BY <2>1, <2>2
  <2> QED
    BY <1>2, <2>3
<1>4. r = IF limit <= s THEN limit ELSE s
  BY <1>2 DEF AtMost
<1>5. I \subseteq R /\ IsFiniteSet(I) /\ IsFiniteSet(R \cap B) /\ I = R \ B
  <2>1. I = R \ B
    BY <1>1
  <2> QED
    BY <1>1, <2>1, FS_Subset, FS_Difference
<1>6. PICK i \in Nat, c \in Nat : i = Cardinality(I) /\ c = Cardinality(R \cap B) /\ i = r - c
  <2>1. Cardinality(I) = Cardinality(R) - Cardinality(R \cap B)
    BY <1>1, <1>5, FS_Difference
  <2>2. Cardinality(I) \in Nat /\ Cardinality(R \cap B) \in Nat
    BY <1>5, FS_CardinalityType
  <2> QED
    BY <1>2, <2>1, <2>2
<1>7. CASE B \subseteq R
  <2>1. R \cap B = B /\ c = b
    BY <1>2, <1>6, <1>7
  <2>2. i = r - b
    BY <1>6, <2>1
  <2>3. i = IF a <= (IF 0 >= limit - b THEN 0 ELSE limit - b) THEN a ELSE (IF 0 >= limit - b THEN 0 ELSE limit - b)
    BY <1>3, <1>4, <2>2
  <2> QED
    BY <1>2, <1>6, <2>3 DEF AtMost, AtLeast
<1>8. CASE ~(B \subseteq R)
  <2>1. PICK q \in B : q \in S \ R /\ at[q] < first /\ at[q] \in Int
    BY <1>1, <1>8
  <2>2. \A p \in R : at[p] \in Int /\ at[p] <= at[q]
    BY <1>1, <2>1
  <2>3. I = {}
    BY <2>1, <2>2
  <2>4. i = 0
    BY <1>6, <2>3, FS_EmptySet
  <2>5. R \subseteq B
    BY <1>1, <2>1, <2>2
  <2>6. r <= b /\ r # b
    <3>1. r <= b
      BY <1>1, <1>2, <2>5, FS_Subset
    <3>2. R # B
      BY <2>1
    <3>3. r # b
      BY <1>1, <1>2, <2>5, <3>2, FS_Subset
    <3> QED
      BY <3>1, <3>3
  <2>7. limit - b <= 0
    BY <1>3, <1>4, <2>6
  <2>8. i = IF a <= (IF 0 >= limit - b THEN 0 ELSE limit - b) THEN a ELSE (IF 0 >= limit - b THEN 0 ELSE limit - b)
    BY <2>4, <2>7
  <2> QED
    BY <1>2, <1>6, <2>8 DEF AtMost, AtLeast
<1> QED
  BY <1>7, <1>8

\* The trend draws every payment it has read of its months.
LEMMA TrendsAddUp ==
  ASSUME ReportsInv, NEW paid \in SUBSET Payments({"SUCCEEDED"})
  PROVE  SumOfBars(RevenueTrends(paid)) = Cardinality({p \in paid : entry[p].at >= TrendStart(1)})
<1> DEFINE rows == {p \in paid : entry[p].at >= TrendStart(1)}
           first == TrendStart(1)
<1>1. paid \subseteq Created /\ IsFiniteSet(paid)
  BY AllOrders, FS_Subset
<1>3. \A p \in paid : entry[p].at \in Int /\ entry[p].at <= clock /\ clock \in Int
  BY <1>1, EntryTypes
<1>4. /\ TrendMonths \in Int /\ first \in Int /\ MonthTicks \in Int /\ MonthTicks > 0
      /\ clock < first + TrendMonths * MonthTicks
  BY EntryTypes, TrendCells, Units
<1> DEFINE bars == RevenueTrends(paid)
           In(p, i) == first + MonthTicks * (i - 1) <= entry[p].at
                         /\ entry[p].at < (first + MonthTicks * (i - 1)) + MonthTicks
<1>5. DOMAIN bars = 1..TrendMonths
  BY DEF RevenueTrends
<1>6. ASSUME NEW i \in 1..TrendMonths, NEW p \in paid PROVE p \in bars[i] <=> In(p, i)
  <2>1. bars[i] = {q \in paid :
                     Within(Until(TrendStart(i), TrendStart(i + 1)), entry[q].at)}
    BY DEF RevenueTrends
  <2>2. /\ MonthTicks * (i - 1) \in Int
        /\ TrendStart(i) = first + MonthTicks * (i - 1)
        /\ TrendStart(i + 1) = (first + MonthTicks * (i - 1)) + MonthTicks
    <3>1. i \in Int /\ clock \in Int
      BY <1>3, <1>4
    <3> QED
      BY <3>1, TrendCells
  <2>3. PICK s \in Int, t \in Int : s = TrendStart(i) /\ t = TrendStart(i + 1)
    BY <1>4, <2>2
  <2>4. Within(Until(s, t), entry[p].at) <=> s <= entry[p].at /\ entry[p].at < t
    BY <1>3 DEF Within, Until
  <2> HIDE DEF bars, first
  <2> QED
    BY <2>1, <2>2, <2>3, <2>4
<1>7. \A i \in DOMAIN bars : bars[i] \subseteq paid
  BY <1>5 DEF RevenueTrends
<1> HIDE DEF bars, first
<1>8. \A i \in DOMAIN bars : bars[i] \subseteq rows
  <2> SUFFICES ASSUME NEW i \in 1..TrendMonths, NEW p \in bars[i] PROVE entry[p].at >= first
    BY <1>5, <1>7 DEF first
  <2>1. p \in paid /\ In(p, i)
    BY <1>5, <1>6, <1>7
  <2>2. MonthTicks * (i - 1) \in Int /\ MonthTicks * (i - 1) >= 0
    BY <1>4
  <2> QED
    BY <1>3, <1>4, <2>1, <2>2
<1>9. ASSUME NEW p \in rows PROVE \E i \in DOMAIN bars : p \in bars[i]
  <2> DEFINE x == entry[p].at - first
             k == x \div MonthTicks
             m == MonthTicks
  <2>1. p \in paid /\ x \in Int /\ x >= 0 /\ entry[p].at \in Int /\ entry[p].at = first + x
    BY <1>3, <1>4 DEF first
  <2>2. m \in Int /\ m > 0
    BY <1>4
  <2> HIDE DEF m, x
  <2>3. (x \div m) \in Int /\ m * (x \div m) \in Int /\ m * (x \div m) <= x /\ x < m * (x \div m) + m
    BY <2>1, <2>2, Division
  <2> DEFINE d == x \div m
  <2>4. d \in Int /\ m * d \in Int /\ m * d <= x /\ x < m * d + m
    BY <2>3
  <2> HIDE DEF d
  <2>5. d >= 0
    <3>1. m * 0 < m * (d + 1)
      BY <2>1, <2>2, <2>4
    <3>2. 0 < d + 1
      BY <2>2, <2>4, <3>1, Monotone
    <3> QED
      BY <2>4, <3>2
  <2>6. d < TrendMonths
    <3>1. x < m * TrendMonths /\ m * TrendMonths \in Int
      BY <1>3, <1>4, <2>1 DEF m
    <3>2. m * d < m * TrendMonths
      BY <2>1, <2>4, <3>1
    <3> QED
      BY <1>4, <2>2, <2>4, <3>2, Monotone
  <2>7. d + 1 \in 1..TrendMonths
    BY <1>4, <2>4, <2>5, <2>6
  <2>8. In(p, d + 1)
    <3>1. m * ((d + 1) - 1) = m * d
      BY <2>4
    <3>2. first + m * d <= entry[p].at /\ entry[p].at < (first + m * d) + m
      BY <1>4, <2>1, <2>2, <2>4
    <3> QED
      BY <3>1, <3>2 DEF m
  <2> QED
    BY <1>5, <1>6, <2>1, <2>7, <2>8
<1>10. ASSUME NEW i \in DOMAIN bars, NEW j \in DOMAIN bars, NEW p \in rows,
              p \in bars[i], p \in bars[j]
       PROVE  i = j
  <2>1. p \in paid /\ In(p, i) /\ In(p, j) /\ i \in Int /\ j \in Int
    BY <1>5, <1>6, <1>7, <1>10
  <2>2. entry[p].at \in Int
    BY <1>3, <2>1
  <2> DEFINE x == entry[p].at - first
             m == MonthTicks
  <2>3. x \in Int /\ m \in Int /\ m > 0 /\ i - 1 \in Int /\ j - 1 \in Int
    BY <1>4, <2>1, <2>2
  <2>4. m * (i - 1) \in Int /\ m * (j - 1) \in Int
    BY <2>3
  <2>5. m * (i - 1) <= x /\ x < m * (i - 1) + m /\ m * (j - 1) <= x /\ x < m * (j - 1) + m
    BY <1>4, <2>1, <2>2, <2>4
  <2> HIDE DEF x, m
  <2>6. i - 1 = j - 1
    BY <2>3, <2>5, SameCell
  <2> QED
    BY <2>1, <2>6
<1>11. IsFiniteSet(rows)
  BY <1>1, FS_Subset
<1> HIDE DEF rows
<1>12. SumOfBars(bars) = Cardinality(rows)
  BY <1>8, <1>9, <1>10, <1>11, BarsAddUp
<1> QED
  BY <1>12 DEF bars, rows

\* The provider's week: the day an order is drawn on is one of the week's.
LEMMA WeekAddsUp ==
  ASSUME ReportsInv
  PROVE  SumOfBars(WeekPerformance)
           = Cardinality({o \in OfKind("order") : Within(ThisWeek, entry[o].at)})
<1> DEFINE bars == WeekPerformance
           rows == {o \in OfKind("order") : Within(ThisWeek, entry[o].at)}
           n == DaysPerWeek
           d == TicksPerDay
<1>1. n \in Int /\ n > 0 /\ d \in Int /\ d > 0 /\ clock \in Int /\ n * d \in Int /\ n * d > 0
  BY EntryTypes, Units
<1>2. PICK w \in Int : StartOfWeek(clock) = d * w
  <2> DEFINE span == n * d
  <2>1. span \in Int /\ span > 0
    BY <1>1
  <2>2. StartOfWeek(clock) = clock - (clock % span)
    BY DEF StartOfWeek, Days
  <2> HIDE DEF span
  <2>3. clock \div span \in Int /\ StartOfWeek(clock) = span * (clock \div span)
    BY <1>1, <2>1, <2>2, Division
  <2> DEFINE c == clock \div span
  <2>4. c \in Int /\ StartOfWeek(clock) = span * c
    BY <2>3
  <2> HIDE DEF c
  <2>5. span * c = d * (n * c) /\ n * c \in Int
    BY <1>1, <2>4 DEF span
  <2> QED
    BY <2>4, <2>5
<1>3. d * w \in Int /\ d * w <= clock /\ clock < d * w + n * d
  BY <1>1, <1>2, Starts DEF Days
<1>4. ASSUME NEW o \in OfKind("order")
      PROVE  /\ entry[o].at \in Int /\ entry[o].at <= clock
             /\ entry[o].at \div d \in Int
             /\ StartOfDay(entry[o].at) = d * (entry[o].at \div d)
             /\ StartOfDay(entry[o].at) \in Int
             /\ StartOfDay(entry[o].at) <= entry[o].at
             /\ entry[o].at < StartOfDay(entry[o].at) + d
             /\ Within(ThisWeek, entry[o].at) <=> d * w <= entry[o].at
  <2>1. entry[o].at \in Int /\ entry[o].at <= clock
    BY OrderRows
  <2>2. StartOfDay(entry[o].at) = entry[o].at - (entry[o].at % d)
    BY DEF StartOfDay
  <2>3. Within(ThisWeek, entry[o].at) <=> d * w <= entry[o].at
    BY <1>2, <2>1 DEF Within, ThisWeek, Through
  <2> HIDE DEF d
  <2>4. PICK t \in Int : t = entry[o].at
    BY <2>1
  <2>5. /\ t \div d \in Int /\ d * (t \div d) \in Int /\ t - (t % d) = d * (t \div d)
        /\ d * (t \div d) <= t /\ t < d * (t \div d) + d
    BY <1>1, Division
  <2>6. StartOfDay(t) = d * (t \div d)
    BY <2>2, <2>4, <2>5
  <2> QED
    BY <2>1, <2>3, <2>4, <2>5, <2>6
<1>5. DOMAIN bars = 1..n
  BY DEF WeekPerformance
<1>6. ThisWeek.from = d * w
  BY <1>2 DEF ThisWeek, Through
<1>7. ASSUME NEW i \in 1..n
      PROVE  bars[i] = {o \in rows : StartOfDay(entry[o].at) - d * w = (i - 1) * d}
  <2>1. bars[i] = {o \in Orders(OrderStatuses) : /\ Within(ThisWeek, entry[o].at)
                                                 /\ StartOfDay(entry[o].at) - ThisWeek.from = Days(i - 1)}
    BY DEF WeekPerformance
  <2>2. Orders(OrderStatuses) = OfKind("order")
    BY AllOrders
  <2> HIDE DEF bars
  <2> QED
    BY <1>6, <2>1, <2>2 DEF Days
<1> HIDE DEF bars, n, d
<1>8. \A i \in DOMAIN bars : bars[i] \subseteq rows
  BY <1>5, <1>7
<1>9. ASSUME NEW o \in rows PROVE \E i \in DOMAIN bars : o \in bars[i]
  <2>1. PICK t \in Int, k \in Int : t = entry[o].at /\ k = entry[o].at \div d
    BY <1>4
  <2>2. /\ d * w <= t /\ t <= clock /\ StartOfDay(t) = d * k
        /\ d * k \in Int /\ d * k <= t /\ t < d * k + d
    BY <1>1, <1>4, <2>1
  <2>3. w <= k
    <3>1. d * w < d * (k + 1)
      BY <1>1, <1>3, <2>1, <2>2
    <3>2. w < k + 1
      BY <1>1, <2>1, <3>1, Monotone
    <3> QED
      BY <2>1, <3>2
  <2>4. k < w + n
    <3>1. d * k < d * (w + n)
      BY <1>1, <1>3, <2>1, <2>2
    <3> QED
      BY <1>1, <2>1, <3>1, Monotone
  <2> DEFINE i == (k - w) + 1
  <2>5. i \in 1..n /\ i - 1 = k - w
    BY <1>1, <2>1, <2>3, <2>4
  <2>6. d * k - d * w = (k - w) * d
    BY <1>1, <2>1
  <2>7. StartOfDay(entry[o].at) - d * w = (i - 1) * d
    BY <2>1, <2>2, <2>5, <2>6
  <2> HIDE DEF i
  <2> QED
    BY <1>5, <1>7, <2>5, <2>7
<1>10. ASSUME NEW i \in DOMAIN bars, NEW j \in DOMAIN bars, NEW o \in rows,
              o \in bars[i], o \in bars[j]
       PROVE  i = j
  <2>1. i \in Int /\ j \in Int /\ (i - 1) * d = (j - 1) * d
    BY <1>1, <1>5, <1>7, <1>10
  <2>2. i - 1 \in Int /\ j - 1 \in Int /\ d * (i - 1) = d * (j - 1)
    BY <1>1, <2>1
  <2>3. i - 1 = j - 1
    BY <1>1, <2>2, Monotone
  <2> QED
    BY <2>1, <2>3
<1>11. IsFiniteSet(rows)
  BY AllOrders, FS_Subset
<1> HIDE DEF rows
<1>12. SumOfBars(bars) = Cardinality(rows)
  BY <1>8, <1>9, <1>10, <1>11, BarsAddUp
<1> QED
  BY <1>12 DEF bars, rows

\* The chart: every earning of its period falls in one of the bars, the last instant too.
LEMMA ChartAddsUp ==
  ASSUME ReportsInv, NEW bars \in Labels
  PROVE  SumOfBars(EarningsChart(bars)) = Cardinality(ChartRows)
<1> DEFINE In(o) == Bucket(ChartPeriod, bars, entry[o].earnedAt)
           chart == EarningsChart(bars)
<1>1. bars \in Int /\ bars > 0
  BY ReportsAssumption
<1>2. ChartRows \subseteq OfKind("order") /\ IsFiniteSet(ChartRows)
  <2>1. ChartRows \subseteq OfKind("order")
    BY DEF ChartRows, Earnings
  <2> QED
    BY <2>1, AllOrders, FS_Subset
<1>3. \E f \in Int : ChartPeriod.from = f /\ ChartPeriod.to = clock /\ clock \in Int
  <2>1. clock \in Int /\ DaysPerWeek - 1 \in Int
    BY EntryTypes, Units
  <2>2. clock - Days(DaysPerWeek - 1) \in Int
    BY <2>1, Units
  <2> QED
    BY <2>1, <2>2 DEF ChartPeriod, Through
<1>4. ASSUME NEW o \in ChartRows PROVE In(o) \in 1..bars
  <2>1. entry[o].earnedAt \in Int
    BY <1>2, OrderRows
  <2>2. PICK f \in Int, t \in Int, x \in Int :
          f = ChartPeriod.from /\ t = ChartPeriod.to /\ x = entry[o].earnedAt
    BY <1>3, <2>1
  <2> DEFINE span == t - f
             index == IF span >= bars THEN ((x - f) * bars) \div span ELSE x - f
  <2>3. index \in Int
    <3>1. CASE span >= bars
      <4>1. span \in Int /\ span > 0 /\ (x - f) * bars \in Int
        BY <1>1, <2>2, <3>1
      <4> QED
        BY <3>1, <4>1, Division
    <3>2. CASE ~(span >= bars)
      BY <2>2, <3>2
    <3> QED
      BY <3>1, <3>2
  <2>4. In(o) = 1 + AtMost(bars - 1, AtLeast(0, index))
    BY <2>2 DEF Bucket
  <2> HIDE DEF index, In
  <2> QED
    BY <1>1, <2>3, <2>4 DEF AtMost, AtLeast
<1>5. /\ DOMAIN chart = 1..bars
      /\ \A i \in 1..bars : chart[i] = {o \in ChartRows : In(o) = i}
  BY DEF EarningsChart
<1> HIDE DEF In, chart
<1>6. \A i \in DOMAIN chart : chart[i] \subseteq ChartRows
  BY <1>5
<1>7. \A o \in ChartRows : \E i \in DOMAIN chart : o \in chart[i]
  BY <1>4, <1>5
<1>8. \A i, j \in DOMAIN chart : \A o \in ChartRows : o \in chart[i] /\ o \in chart[j] => i = j
  BY <1>5
<1>9. SumOfBars(chart) = Cardinality(ChartRows)
  BY <1>2, <1>6, <1>7, <1>8, BarsAddUp
<1> QED
  BY <1>9 DEF chart

\* Two orders of the last seven days with the same day of the week are of the same day.
LEMMA PointIsOneDay ==
  ASSUME ReportsInv, NEW o \in RevenueAnalytics, NEW p \in RevenueAnalytics,
         PointLabel(entry[o].at) = PointLabel(entry[p].at)
  PROVE  StartOfDay(entry[o].at) = StartOfDay(entry[p].at)
<1> DEFINE n == DaysPerWeek
           d == TicksPerDay
<1>1. n \in Int /\ n > 0 /\ d \in Int /\ d > 0 /\ clock \in Int
  BY EntryTypes, Units
<1>2. o \in OfKind("order") /\ p \in OfKind("order")
  BY AllOrders DEF RevenueAnalytics
<1>3. PICK today \in Int : today = clock \div d /\ StartOfDay(clock) = d * today
                           /\ clock < d * today + d
  BY <1>1, Division DEF StartOfDay
<1>4. ASSUME NEW q \in RevenueAnalytics, q \in OfKind("order")
      PROVE  /\ entry[q].at \in Int /\ entry[q].at \div d \in Int
             /\ entry[q].at \div d <= today /\ today - n < entry[q].at \div d
             /\ StartOfDay(entry[q].at) = d * (entry[q].at \div d)
  <2>1. PICK t \in Int : t = entry[q].at /\ t <= clock
    BY <1>4, OrderRows
  <2>2. PICK k \in Int : k = t \div d
    BY <1>1, <2>1, Division
  <2>3. d * k <= t /\ t < d * k + d /\ StartOfDay(t) = d * k /\ d * k \in Int
    BY <1>1, <2>1, <2>2, Division DEF StartOfDay
  <2>4. d * today - (n - 1) * d <= t
    BY <1>3, <1>4, <2>1 DEF RevenueAnalytics, DailyRevenue, Within, Through, Days
  <2> HIDE DEF n, d
  <2>5. k <= today
    <3>1. d * k < d * (today + 1)
      BY <1>1, <1>3, <2>1, <2>2, <2>3
    <3>2. k < today + 1
      BY <1>1, <2>2, <3>1, Monotone
    <3> QED
      BY <2>2, <3>2
  <2>6. today - n < k
    <3>1. d * today - (n - 1) * d = d * ((today - n) + 1)
      BY <1>1
    <3>2. d * ((today - n) + 1) < d * (k + 1)
      BY <1>1, <2>1, <2>2, <2>3, <2>4, <3>1
    <3>3. (today - n) + 1 < k + 1
      BY <1>1, <2>2, <3>2, Monotone
    <3> QED
      BY <1>1, <2>2, <3>3
  <2> QED
    BY <2>1, <2>2, <2>3, <2>5, <2>6
<1>5. PICK a \in Int, b \in Int : /\ a = entry[o].at \div d /\ b = entry[p].at \div d
                                  /\ a <= today /\ today - n < a /\ b <= today /\ today - n < b
                                  /\ StartOfDay(entry[o].at) = d * a
                                  /\ StartOfDay(entry[p].at) = d * b
  BY <1>2, <1>4
<1>6. a % n = b % n
  BY <1>5 DEF PointLabel
<1> HIDE DEF n, d
<1>7. a - b < n /\ b - a < n
  BY <1>1, <1>5
<1>8. a = b
  BY <1>1, <1>6, <1>7, SameRemainder
<1> QED
  BY <1>5, <1>8

\* What the limit leaves of the payments of the trend's months is in its bars.
LEMMA TrendsTakeTheOldest ==
  ASSUME ReportsInv, NEW read \in RevenuePayments
  PROVE  LET paid == Payments({"SUCCEEDED"})
             before == {p \in paid : entry[p].at < TrendStart(1)}
         IN  SumOfBars(RevenueTrends(read)) =
               AtMost(Cardinality(paid \ before), AtLeast(0, MostRows - Cardinality(before)))
<1> DEFINE paid == Payments({"SUCCEEDED"})
           before == {p \in paid : entry[p].at < TrendStart(1)}
           at == [p \in paid |-> entry[p].at]
<1>1. paid \subseteq Created /\ IsFiniteSet(paid)
  BY AllOrders
<1>2. /\ read \in SUBSET paid /\ Cardinality(read) = AtMost(MostRows, Cardinality(paid))
      /\ \A p \in read, q \in paid \ read : entry[p].at <= entry[q].at
  BY DEF RevenuePayments
<1>3. \A p \in paid : at[p] = entry[p].at /\ at[p] \in Int /\ clock \in Int
  BY <1>1, EntryTypes
<1>4. SumOfBars(RevenueTrends(read)) = Cardinality({p \in read : entry[p].at >= TrendStart(1)})
  BY <1>2, TrendsAddUp
<1>5. TrendStart(1) \in Int /\ MostRows \in Int /\ MostRows >= 0
  BY EntryTypes, TrendCells, ReportsAssumption
<1> HIDE DEF paid, at
<1>6. before = {p \in paid : at[p] < TrendStart(1)}
  BY <1>3
<1>7. {p \in read : entry[p].at >= TrendStart(1)} = {p \in read : at[p] >= TrendStart(1)}
  BY <1>2, <1>3
<1>8. \A p \in read, q \in paid \ read : at[p] <= at[q]
  BY <1>2, <1>3
<1> HIDE DEF before
<1>9. Cardinality({p \in read : at[p] >= TrendStart(1)}) =
        AtMost(Cardinality(paid \ before), AtLeast(0, MostRows - Cardinality(before)))
  BY <1>1, <1>2, <1>3, <1>5, <1>6, <1>8, OldestFirst
<1> QED
  BY <1>4, <1>7, <1>9 DEF paid, before

\* The bars of a series add up to the rows of its period, those of the revenue trend to as
\* many of the payments of its months as the limit leaves after the older ones
\* (findRevenuePayments and revenueTrends, weekPerformance, the bucket of the earnings
\* chart, revenuePoints).
THEOREM SeriesAlwaysAddUp == ReportsSpec => []SeriesAddUp
<1>1. ReportsInv => SeriesAddUp
  BY TrendsTakeTheOldest, WeekAddsUp, ChartAddsUp, PointIsOneDay DEF SeriesAddUp
<1> QED
  BY <1>1, ReportsInvariant, PTL

-----------------------------------------------------------------------------
(* Directory: sorts.  Counting what comes before a row numbers the rows.   *)

\* R relates a row to those it comes before.
StrictOrder(R, S) ==
  /\ \A i \in S : <<i, i>> \notin R
  /\ \A i, j \in S : i # j => <<i, j>> \in R \/ <<j, i>> \in R
  /\ \A i, j, k \in S : <<i, j>> \in R /\ <<j, k>> \in R => <<i, k>> \in R

Ahead(R, S, i) == {j \in S : <<j, i>> \in R}

LEMMA RanksNumber ==
  ASSUME NEW S, IsFiniteSet(S), NEW R, StrictOrder(R, S)
  PROVE  [i \in S |-> Cardinality(Ahead(R, S, i))] \in Bijection(S, 0 .. Cardinality(S) - 1)
<1> DEFINE rank == [i \in S |-> Cardinality(Ahead(R, S, i))]
           n == Cardinality(S)
<1>1. n \in Nat
  BY FS_CardinalityType
<1>2. ASSUME NEW i \in S
      PROVE  /\ IsFiniteSet(Ahead(R, S, i)) /\ rank[i] = Cardinality(Ahead(R, S, i))
             /\ rank[i] \in 0 .. n - 1
  <2>1. Ahead(R, S, i) \in SUBSET (S \ {i})
    BY DEF StrictOrder, Ahead
  <2>2. IsFiniteSet(S \ {i}) /\ Cardinality(S \ {i}) = n - 1
    BY FS_RemoveElement
  <2>3. IsFiniteSet(Ahead(R, S, i)) /\ Cardinality(Ahead(R, S, i)) <= n - 1
    BY <2>1, <2>2, FS_Subset
  <2>4. Cardinality(Ahead(R, S, i)) \in Nat
    BY <2>3, FS_CardinalityType
  <2>5. rank[i] = Cardinality(Ahead(R, S, i))
    OBVIOUS
  <2> HIDE DEF n, rank
  <2> QED
    BY <1>1, <2>3, <2>4, <2>5
<1>3. ASSUME NEW i \in S, NEW j \in S, <<i, j>> \in R
      PROVE  rank[i] < rank[j]
  <2>1. Ahead(R, S, i) \cup {i} \in SUBSET Ahead(R, S, j)
    BY <1>3 DEF StrictOrder, Ahead
  <2>2. i \notin Ahead(R, S, i)
    BY DEF StrictOrder, Ahead
  <2>3. Cardinality(Ahead(R, S, i) \cup {i}) = Cardinality(Ahead(R, S, i)) + 1
    BY <1>2, <2>2, FS_AddElement
  <2>4. Cardinality(Ahead(R, S, i) \cup {i}) <= Cardinality(Ahead(R, S, j))
    BY <1>2, <2>1, FS_Subset
  <2>5. rank[i] \in Int /\ rank[j] \in Int
    BY <1>2
  <2>6. rank[i] = Cardinality(Ahead(R, S, i)) /\ rank[j] = Cardinality(Ahead(R, S, j))
    BY <1>2
  <2> HIDE DEF rank
  <2> QED
    BY <2>3, <2>4, <2>5, <2>6
<1>4. ASSUME NEW i \in S, NEW j \in S, i # j
      PROVE  rank[i] # rank[j]
  <2>1. rank[i] \in Int /\ rank[j] \in Int
    BY <1>2
  <2>2. <<i, j>> \in R \/ <<j, i>> \in R
    BY <1>4 DEF StrictOrder
  <2>3. rank[i] < rank[j] \/ rank[j] < rank[i]
    BY <1>3, <2>2
  <2> HIDE DEF rank
  <2> QED
    BY <2>1, <2>3
<1>5. rank \in [S -> 0 .. n - 1]
  BY <1>2
<1>6. rank \in Injection(S, 0 .. n - 1)
  <2> HIDE DEF rank, n
  <2> QED
    BY <1>4, <1>5 DEF Injection, IsInjective
<1>7. IsFiniteSet(0 .. n - 1) /\ Cardinality(0 .. n - 1) = n
  <2> HIDE DEF n
  <2> QED
    BY <1>1, FS_Interval
<1>8. rank \in Surjection(S, 0 .. n - 1)
  <2> HIDE DEF rank
  <2> QED
    BY <1>6, <1>7, FS_Injection
<1> QED
  BY <1>6, <1>8 DEF Bijection

\* A numbering read the other way lists the rows, each at one place.
Lists(all, S) ==
  /\ all \in Seq(S) /\ Len(all) = Cardinality(S)
  /\ \A i \in S : \E k \in 1 .. Len(all) : all[k] = i
  /\ \A j, k \in 1 .. Len(all) : all[j] = all[k] => j = k

\* A row's place is the number of rows before it, and one.
Numbers(all, R, S) ==
  \A i \in S, k \in 1 .. Cardinality(S) : all[k] = i <=> Cardinality(Ahead(R, S, i)) = k - 1

LEMMA SortedLists ==
  ASSUME NEW S, IsFiniteSet(S), NEW R, StrictOrder(R, S), NEW list,
         list = [k \in 1 .. Cardinality(S) |-> CHOOSE i \in S : Cardinality(Ahead(R, S, i)) = k - 1]
  PROVE  Lists(list, S) /\ Numbers(list, R, S)
<1> DEFINE rank == [i \in S |-> Cardinality(Ahead(R, S, i))]
           n == Cardinality(S)
           all == [k \in 1 .. n |-> CHOOSE i \in S : Cardinality(Ahead(R, S, i)) = k - 1]
<1>1. n \in Nat
  BY FS_CardinalityType
<1>2. rank \in Bijection(S, 0 .. n - 1)
  BY RanksNumber
<1>3. \A i \in S : rank[i] = Cardinality(Ahead(R, S, i)) /\ rank[i] \in 0 .. n - 1
  BY <1>2 DEF Bijection, Injection
<1>4. \A k \in 1 .. n : \E i \in S : rank[i] = k - 1
  <2> HIDE DEF rank, n
  <2> TAKE k \in 1 .. n
  <2>1. k - 1 \in 0 .. n - 1
    BY <1>1
  <2> QED
    BY <1>2, <2>1 DEF Bijection, Surjection
<1> HIDE DEF rank, n
<1>5. \A k \in 1 .. n : all[k] \in S /\ rank[all[k]] = k - 1
  <2> TAKE k \in 1 .. n
  <2>1. all[k] = CHOOSE i \in S : Cardinality(Ahead(R, S, i)) = k - 1
    OBVIOUS
  <2>2. \E i \in S : Cardinality(Ahead(R, S, i)) = k - 1
    BY <1>3, <1>4
  <2>3. all[k] \in S /\ Cardinality(Ahead(R, S, all[k])) = k - 1
    BY <2>1, <2>2
  <2> QED
    BY <1>3, <2>3
<1>6. all \in Seq(S) /\ Len(all) = n
  <2>1. all \in [1 .. n -> S]
    BY <1>5
  <2>2. DOMAIN all = 1 .. n
    OBVIOUS
  <2> HIDE DEF all
  <2> QED
    BY <1>1, <2>1, <2>2
<1> HIDE DEF all
<1>7. \A j, k \in 1 .. n : all[j] = all[k] => j = k
  BY <1>1, <1>5
<1>8. \A i \in S : \E k \in 1 .. n : all[k] = i
  <2> TAKE i \in S
  <2> DEFINE k == rank[i] + 1
  <2>1. k \in 1 .. n
    BY <1>1, <1>3
  <2>2. all[k] \in S /\ rank[all[k]] = rank[i]
    BY <1>1, <1>3, <1>5, <2>1
  <2>3. all[k] = i
    <3> HIDE DEF k
    <3> QED
      BY <1>2, <2>2 DEF Bijection, Injection, IsInjective
  <2> QED
    BY <2>1, <2>3
<1>9. Lists(all, S)
  BY <1>6, <1>7, <1>8 DEF Lists, n
<1>10. Numbers(all, R, S)
  <2> SUFFICES ASSUME NEW i \in S, NEW k \in 1 .. n
               PROVE  all[k] = i <=> Cardinality(Ahead(R, S, i)) = k - 1
    BY DEF Numbers, n
  <2>1. all[k] \in S /\ rank[all[k]] = k - 1 /\ rank[i] = Cardinality(Ahead(R, S, i))
    BY <1>3, <1>5
  <2>2. rank[i] = k - 1 => all[k] = i
    BY <1>2, <2>1 DEF Bijection, Injection, IsInjective
  <2> QED
    BY <2>1, <2>2
<1> QED
  BY <1>9, <1>10 DEF all, n

-----------------------------------------------------------------------------
(* Directory: pages.  A page is a piece of the list; t is the number of    *)
(* rows a page takes.                                                      *)

Skip(t, p) == (p - 1) * t
LastOn(all, t, p) == IF Skip(t, p) + t <= Len(all) THEN Skip(t, p) + t ELSE Len(all)
Cut(all, t, p) == SubSeq(all, Skip(t, p) + 1, LastOn(all, t, p))
PageCount(n, t) == (n + (t - 1)) \div t

LEMMA Multiples ==
  ASSUME NEW a \in Nat, NEW b \in Nat, NEW t \in Nat
  PROVE  /\ a * t \in Nat /\ (a + 1) * t = a * t + t
         /\ a <= b => a * t <= b * t
<1>1. a * t \in Nat /\ b * t \in Nat
  OBVIOUS
<1>2. (a + 1) * t = a * t + t
  OBVIOUS
<1>3. a <= b => a * t <= b * t
  <2>1. SUFFICES ASSUME a <= b PROVE a * t <= b * t
    OBVIOUS
  <2>2. b - a \in Nat /\ (b - a) * t \in Nat
    BY <2>1
  <2>3. b * t = a * t + (b - a) * t
    OBVIOUS
  <2> QED
    BY <1>1, <2>2, <2>3
<1> QED
  BY <1>1, <1>2, <1>3

LEMMA Skips ==
  ASSUME NEW t \in Nat \ {0}, NEW p \in Nat \ {0}, NEW q \in Nat \ {0}
  PROVE  /\ Skip(t, p) \in Nat /\ Skip(t, 1) = 0 /\ Skip(t, p + 1) = Skip(t, p) + t
         /\ p < q => Skip(t, p) + t <= Skip(t, q)
<1>1. p - 1 \in Nat /\ q - 1 \in Nat /\ (p + 1) - 1 = (p - 1) + 1 /\ t \in Nat
  OBVIOUS
<1>2. Skip(t, p) \in Nat /\ Skip(t, p + 1) = Skip(t, p) + t
  <2>1. ((p - 1) + 1) * t = (p - 1) * t + t /\ (p - 1) * t \in Nat
    BY <1>1, Multiples
  <2> QED
    BY <1>1, <2>1 DEF Skip
<1>3. Skip(t, 1) = 0
  BY DEF Skip
<1>4. p < q => Skip(t, p + 1) <= Skip(t, q)
  <2>1. p < q => (p - 1) + 1 <= q - 1
    OBVIOUS
  <2>2. (p - 1) + 1 <= q - 1 => ((p - 1) + 1) * t <= (q - 1) * t
    <3>1. (p - 1) + 1 \in Nat
      BY <1>1
    <3> QED
      BY <1>1, <3>1, Multiples
  <2> QED
    BY <1>1, <2>1, <2>2 DEF Skip
<1> QED
  BY <1>2, <1>3, <1>4

\* The last page is the one that reaches the end of the list.
LEMMA LastPage ==
  ASSUME NEW n \in Nat, NEW t \in Nat \ {0}
  PROVE  /\ PageCount(n, t) \in Nat
         /\ n <= PageCount(n, t) * t
         /\ \A p \in 1 .. PageCount(n, t) :
              /\ Skip(t, p) \in Nat /\ Skip(t, p) + 1 <= n
              /\ p < PageCount(n, t) => Skip(t, p) + t <= n
              /\ p = PageCount(n, t) => n <= Skip(t, p) + t
<1> DEFINE c == PageCount(n, t)
           m == n + (t - 1)
<1>1. m \in Nat /\ t > 0
  OBVIOUS
<1>2. c \in Nat /\ t * c <= m /\ m < t * c + t /\ t * c \in Int
  <2>1. m \div t \in Int /\ t * (m \div t) \in Int /\ t * (m \div t) <= m /\ m < t * (m \div t) + t
    <3> HIDE DEF m
    <3> QED
      BY <1>1, Division
  <2>2. m \div t \in Nat
    <3> HIDE DEF m
    <3> QED
      BY <1>1
  <2>3. c = m \div t
    BY DEF PageCount
  <2> HIDE DEF c, m
  <2> QED
    BY <2>1, <2>2, <2>3
<1>3. t * c = c * t
  <2> HIDE DEF c
  <2> QED
    BY <1>2
<1>4. n <= c * t
  <2> HIDE DEF c
  <2> QED
    BY <1>2, <1>3
<1>5. ASSUME NEW p \in 1 .. c
      PROVE  /\ Skip(t, p) \in Nat /\ Skip(t, p) + 1 <= n
             /\ p < c => Skip(t, p) + t <= n
             /\ p = c => n <= Skip(t, p) + t
  <2> HIDE DEF c
  <2>1. p \in Nat \ {0} /\ c \in Nat \ {0}
    BY <1>2
  <2>2. Skip(t, p) \in Nat /\ Skip(t, c) \in Nat
    BY <2>1, Skips
  <2>3. c * t = Skip(t, c) + t
    <3>1. c - 1 \in Nat /\ (c - 1) + 1 = c
      BY <2>1
    <3>2. ((c - 1) + 1) * t = (c - 1) * t + t
      BY <3>1, Multiples
    <3> QED
      BY <3>1, <3>2 DEF Skip
  <2>4. Skip(t, c) + 1 <= n
    BY <1>2, <1>3, <2>2, <2>3
  <2>5. p < c => Skip(t, p) + t <= Skip(t, c)
    BY <2>1, Skips
  <2>6. p < c \/ p = c
    BY <2>1
  <2> QED
    BY <1>4, <2>2, <2>3, <2>4, <2>5, <2>6
<1> QED
  BY <1>2, <1>4, <1>5

LEMMA CutIs ==
  ASSUME NEW S, NEW all \in Seq(S), NEW t \in Nat \ {0}, NEW p \in 1 .. PageCount(Len(all), t)
  PROVE  /\ LastOn(all, t, p) \in Skip(t, p) + 1 .. Len(all)
         /\ Cut(all, t, p) \in Seq(S) /\ Len(Cut(all, t, p)) \in 1 .. t
         /\ Len(Cut(all, t, p)) = LastOn(all, t, p) - Skip(t, p)
         /\ \A k \in 1 .. Len(Cut(all, t, p)) : Cut(all, t, p)[k] = all[Skip(t, p) + k]
<1> DEFINE n == Len(all)
           s == Skip(t, p)
           u == LastOn(all, t, p)
           piece == Cut(all, t, p)
<1>1. n \in Nat /\ s \in Nat /\ s + 1 <= n
  BY LastPage
<1>2. u = IF s + t <= n THEN s + t ELSE n
  BY DEF LastOn
<1> HIDE DEF n, s, u
<1>3. u \in s + 1 .. n /\ u - s \in 1 .. t
  BY <1>1, <1>2
<1>4. \A i \in s + 1 .. u : all[i] \in S
  <2>1. \A i \in 1 .. n : all[i] \in S
    BY DEF n
  <2> QED
    BY <1>1, <1>3, <2>1
<1>5. piece = SubSeq(all, s + 1, u)
  BY DEF Cut, s, u
<1> HIDE DEF piece
<1>6. /\ piece \in Seq(S)
      /\ Len(piece) = IF s + 1 <= u THEN (u - (s + 1)) + 1 ELSE 0
      /\ \A k \in 1 .. (u - (s + 1)) + 1 : piece[k] = all[((s + 1) + k) - 1]
  <2>1. s + 1 \in Int /\ u \in Int
    BY <1>1, <1>3
  <2> QED
    BY <1>4, <1>5, <2>1, SubSeqProperties
<1>7. Len(piece) = u - s
  BY <1>1, <1>3, <1>6
<1>8. \A k \in 1 .. Len(piece) : piece[k] = all[s + k]
  <2> TAKE k \in 1 .. Len(piece)
  <2>1. k \in 1 .. (u - (s + 1)) + 1 /\ ((s + 1) + k) - 1 = s + k
    BY <1>1, <1>3, <1>7
  <2> QED
    BY <1>6, <2>1
<1> QED
  BY <1>3, <1>6, <1>7, <1>8 DEF n, s, u, piece

\* Every position of the list is a place of one page, and of no other.
Placed(all, t, pos) ==
  \E p \in 1 .. PageCount(Len(all), t) : \E k \in 1 .. Len(Cut(all, t, p)) : Skip(t, p) + k = pos

LEMMA OnePlace ==
  ASSUME NEW S, NEW all \in Seq(S), NEW t \in Nat \ {0}, NEW pos \in 1 .. Len(all)
  PROVE  Placed(all, t, pos)
<1> DEFINE n == Len(all)
           c == PageCount(n, t)
           q == (pos - 1) \div t
           r == (pos - 1) % t
<1>1. n \in Nat /\ pos \in 1 .. n /\ pos - 1 \in Int /\ t > 0 /\ t \in Nat
  OBVIOUS
<1>2. q \in Nat /\ r \in 0 .. t - 1 /\ t * q + r = pos - 1 /\ t * q \in Int
  <2>1. q \in Int /\ r \in Int /\ pos - 1 = t * q + r /\ t * q \in Int
    BY <1>1, Division
  <2>2. q \in Nat /\ r \in 0 .. t - 1
    BY <1>1
  <2> HIDE DEF q, r
  <2> QED
    BY <2>1, <2>2
<1> HIDE DEF q, r
<1> DEFINE p == q + 1
           k == r + 1
<1>3. t * q = q * t /\ (p - 1) * t = q * t
  BY <1>2
<1>4. Skip(t, p) + k = pos
  BY <1>1, <1>2, <1>3 DEF Skip
<1>5. c \in Nat /\ n <= c * t
  BY <1>1, LastPage
<1>6. p \in 1 .. c
  <2> HIDE DEF c
  <2>1. ASSUME c <= q PROVE FALSE
    <3>1. c * t <= q * t /\ c * t \in Nat /\ q * t \in Nat
      BY <1>1, <1>2, <1>5, <2>1, Multiples
    <3> QED
      BY <1>1, <1>2, <1>3, <1>5, <3>1
  <2> QED
    BY <1>2, <1>5, <2>1
<1>7. k \in 1 .. Len(Cut(all, t, p))
  <2>1. /\ LastOn(all, t, p) \in Skip(t, p) + 1 .. n
        /\ Len(Cut(all, t, p)) = LastOn(all, t, p) - Skip(t, p)
    <3> HIDE DEF p
    <3> QED
      BY <1>6, CutIs
  <2>2. LastOn(all, t, p) = IF Skip(t, p) + t <= n THEN Skip(t, p) + t ELSE n
    BY DEF LastOn
  <2>3. Skip(t, p) \in Nat
    <3>1. p \in Nat \ {0}
      BY <1>2
    <3> HIDE DEF p
    <3> QED
      BY <3>1, Skips
  <2> HIDE DEF p
  <2> QED
    BY <1>1, <1>2, <1>4, <2>1, <2>2, <2>3
<1>8. \E l \in 1 .. Len(Cut(all, t, p)) : Skip(t, p) + l = pos
  BY <1>4, <1>7
<1>9. \E x \in 1 .. c : \E l \in 1 .. Len(Cut(all, t, x)) : Skip(t, x) + l = pos
  <2> HIDE DEF c, p
  <2> QED
    BY <1>6, <1>8
<1> QED
  BY <1>9 DEF Placed

LEMMA PlacesDiffer ==
  ASSUME NEW t \in Nat \ {0}, NEW p \in Nat \ {0}, NEW q \in Nat \ {0},
         NEW k \in 1 .. t, NEW l \in 1 .. t, Skip(t, p) + k = Skip(t, q) + l
  PROVE  p = q /\ k = l
<1>1. Skip(t, p) \in Nat /\ Skip(t, q) \in Nat
  BY Skips
<1>2. p < q => Skip(t, p) + t <= Skip(t, q)
  BY Skips
<1>3. q < p => Skip(t, q) + t <= Skip(t, p)
  BY Skips
<1>4. p = q
  BY <1>1, <1>2, <1>3
<1> QED
  BY <1>1, <1>4

\* A set of naturals has a least member.
LEMMA LeastNatural ==
  ASSUME NEW B \in SUBSET Nat, B # {}
  PROVE  \E m \in B : \A k \in B : m <= k
<1>1. PICK m \in B : \A k \in B : ~(<<k, m>> \in OpToRel(<, Nat))
  BY NatLessThanWellFounded, WFMin
<1>2. \A k \in B : ~(k < m)
  BY <1>1 DEF OpToRel
<1> QED
  BY <1>2

\* The pages one after the other are the list.
LEMMA PagesJoin ==
  ASSUME NEW S, NEW all \in Seq(S), NEW t \in Nat \ {0}
  PROVE  FlattenSeq([p \in 1 .. PageCount(Len(all), t) |-> Cut(all, t, p)]) = all
<1> DEFINE n == Len(all)
           c == PageCount(n, t)
           pages == [p \in 1 .. c |-> Cut(all, t, p)]
           Equation(f) == f = [i \in 1 .. c |-> IF i = 1 THEN pages[i] ELSE f[i - 1] \o pages[i]]
           g == [i \in 1 .. c |-> SubSeq(all, 1, LastOn(all, t, i))]
           flatten == CHOOSE f : Equation(f)
<1>1. n \in Nat /\ c \in Nat /\ n <= c * t
  <2>1. n \in Nat
    OBVIOUS
  <2> HIDE DEF n
  <2> QED
    BY <2>1, LastPage
<1>2. pages \in Seq(Seq(S)) /\ Len(pages) = c /\ \A p \in 1 .. c : pages[p] = Cut(all, t, p)
  <2>1. \A p \in 1 .. c : Cut(all, t, p) \in Seq(S)
    BY CutIs
  <2> HIDE DEF c
  <2>2. pages \in [1 .. c -> Seq(S)]
    BY <2>1
  <2>3. DOMAIN pages = 1 .. c
    OBVIOUS
  <2>4. \A p \in 1 .. c : pages[p] = Cut(all, t, p)
    OBVIOUS
  <2> HIDE DEF pages
  <2> QED
    BY <1>1, <2>2, <2>3, <2>4
<1>3. ASSUME NEW p \in 1 .. c
      PROVE  /\ Skip(t, p) \in Nat /\ Skip(t, p) + 1 <= n
             /\ p < c => Skip(t, p) + t <= n
             /\ p = c => n <= Skip(t, p) + t
             /\ LastOn(all, t, p) \in Skip(t, p) + 1 .. n
  BY <1>1, LastPage, CutIs
<1> HIDE DEF pages
<1>4. CASE c = 0
  <2>1. n = 0
    <3> HIDE DEF c, n
    <3> QED
      BY <1>1, <1>4
  <2>2. all = <<>>
    BY <2>1
  <2>3. pages = <<>>
    <3> HIDE DEF c
    <3> QED
      BY <1>2, <1>4
  <2>4. FlattenSeq(pages) = pages
    <3> HIDE DEF c
    <3> QED
      BY <1>2, <1>4 DEF FlattenSeq
  <2> QED
    BY <2>2, <2>3, <2>4 DEF pages
<1>5. CASE c # 0
  <2>1. g[1] = pages[1]
    <3>1. 1 \in 1 .. c
      BY <1>1, <1>5
    <3>2. Skip(t, 1) = 0
      BY Skips
    <3>3. pages[1] = SubSeq(all, 1, LastOn(all, t, 1))
      <4>1. Skip(t, 1) + 1 = 1
        BY <3>2
      <4>2. pages[1] = SubSeq(all, Skip(t, 1) + 1, LastOn(all, t, 1))
        BY <1>2, <3>1 DEF Cut
      <4> QED
        BY <4>1, <4>2, Zenon
    <3>4. g[1] = SubSeq(all, 1, LastOn(all, t, 1))
      BY <3>1
    <3> QED
      BY <3>3, <3>4
  <2>2. ASSUME NEW i \in 1 .. c, i # 1
        PROVE  g[i] = g[i - 1] \o pages[i]
    <3>1. i - 1 \in 1 .. c /\ i - 1 < c /\ (i - 1) + 1 = i /\ i - 1 \in Nat \ {0}
      BY <1>1, <2>2
    <3>2. Skip(t, i) = Skip(t, i - 1) + t
      <4>1. Skip(t, (i - 1) + 1) = Skip(t, i - 1) + t
        <5> DEFINE j == i - 1
        <5>1. j \in Nat \ {0}
          BY <3>1
        <5> HIDE DEF j
        <5>2. Skip(t, j + 1) = Skip(t, j) + t
          BY <5>1, Skips
        <5> QED
          BY <5>2 DEF j
      <4> QED
        BY <3>1, <4>1
    <3>3. Skip(t, i - 1) + t <= n
      BY <1>3, <3>1
    <3>4. LastOn(all, t, i - 1) = Skip(t, i)
      BY <3>2, <3>3 DEF LastOn
    <3>5. /\ Skip(t, i) \in Nat /\ Skip(t, i) + 1 <= n /\ LastOn(all, t, i) \in Skip(t, i) + 1 .. n
      BY <1>3
    <3>6. SubSeq(all, 1, Skip(t, i)) \o SubSeq(all, Skip(t, i) + 1, LastOn(all, t, i))
            = SubSeq(all, 1, LastOn(all, t, i))
      <4> DEFINE k == Skip(t, i)
                 u == LastOn(all, t, i)
      <4>1. 1 \in 1 .. Len(all) + 1 /\ k \in 1 - 1 .. Len(all) /\ u \in k .. Len(all)
        BY <1>1, <3>5
      <4> HIDE DEF k, u
      <4>2. SubSeq(all, 1, k) \o SubSeq(all, k + 1, u) = SubSeq(all, 1, u)
        BY <4>1, ConcatAdjacentSubSeq
      <4> QED
        BY <4>2 DEF k, u
    <3>7. /\ g[i] = SubSeq(all, 1, LastOn(all, t, i))
          /\ g[i - 1] = SubSeq(all, 1, LastOn(all, t, i - 1))
          /\ pages[i] = SubSeq(all, Skip(t, i) + 1, LastOn(all, t, i))
      BY <1>2, <3>1 DEF Cut
    <3> QED
      BY <3>4, <3>6, <3>7, Zenon
  <2>3. Equation(g)
    <3> DEFINE h == [i \in 1 .. c |-> IF i = 1 THEN pages[i] ELSE g[i - 1] \o pages[i]]
    <3>1. \A i \in 1 .. c : g[i] = h[i]
      BY <2>1, <2>2, Zenon
    <3>2. g = h
      BY <3>1, Zenon
    <3> QED
      BY <3>2, Zenon
  <2> HIDE DEF g
  <2>4. Equation(flatten)
    BY <2>3, Zenon
  <2> HIDE DEF flatten
  <2>5. \A i \in 1 .. c : flatten[i] = g[i]
    <3> DEFINE B == {i \in 1 .. c : flatten[i] # g[i]}
    <3>1. SUFFICES ASSUME B # {} PROVE FALSE
      BY Zenon
    <3>2. PICK m \in B : \A k \in B : m <= k
      <4>1. B \in SUBSET Nat
        BY <1>1
      <4> HIDE DEF B
      <4> QED
        BY <3>1, <4>1, LeastNatural
    <3>3. m \in 1 .. c /\ flatten[m] # g[m]
      BY <3>2
    <3>4. /\ flatten[m] = IF m = 1 THEN pages[m] ELSE flatten[m - 1] \o pages[m]
          /\ g[m] = IF m = 1 THEN pages[m] ELSE g[m - 1] \o pages[m]
      BY <2>3, <2>4, <3>3, Zenon
    <3>5. m # 1
      BY <3>3, <3>4
    <3>6. m - 1 \in 1 .. c /\ ~(m <= m - 1)
      BY <1>1, <3>3, <3>5
    <3>7. flatten[m - 1] = g[m - 1]
      BY <3>2, <3>6
    <3> QED
      BY <3>3, <3>4, <3>5, <3>7, Zenon
  <2>6. c \in 1 .. c
    BY <1>1, <1>5
  <2>7. LastOn(all, t, c) = n
    BY <1>1, <1>3, <2>6 DEF LastOn
  <2>8. g[c] = SubSeq(all, 1, n)
    BY <2>6, <2>7 DEF g
  <2>9. SubSeq(all, 1, n) = all
    BY SubSeqFull
  <2>10. FlattenSeq(pages) = flatten[c]
    <3>1. Len(pages) = c /\ Len(pages) # 0
      BY <1>2, <1>5
    <3>2. FlattenSeq(pages) = (CHOOSE f : f = [i \in 1 .. Len(pages) |->
                                 IF i = 1 THEN pages[i] ELSE f[i - 1] \o pages[i]])[Len(pages)]
      BY <3>1, Zenon DEF FlattenSeq
    <3> QED
      BY <3>1, <3>2, Zenon DEF flatten
  <2> QED
    BY <2>5, <2>6, <2>8, <2>9, <2>10 DEF pages
<1> QED
  BY <1>4, <1>5

-----------------------------------------------------------------------------
(* Directory: types, and the rows of a tab.                                *)

DirectoryInv == DirectoryTypeOK /\ Len(listed) <= MaxListed

LEMMA Tables ==
  ASSUME NEW name \in DOMAIN StatusOf
  PROVE  /\ name \in {"providers", "users", "items", "payments"}
         /\ name \in {"providers", "users"} => StatusOf[name] = UserStatuses
         /\ name = "items" => StatusOf[name] = GiftStatuses
BY DEF StatusOf

LEMMA ListsHave ==
  ASSUME table \in DOMAIN StatusOf, NEW list \in ListsOf[table]
  PROVE  \/ list = "providers" /\ table = "providers"
         \/ list = "users" /\ table = "users"
         \/ list = "items" /\ table = "items"
         \/ list \in {"analytics", "admin", "customer"} /\ table = "payments"
BY Tables DEF ListsOf

LEMMA PlainRowIn ==
  ASSUME DirectoryTypeOK, table # "payments", NEW row
  PROVE  row \in ListedRow <=> row \in PlainRow(StatusOf[table])
BY DEF ListedRow

LEMMA PaidRowFields ==
  ASSUME NEW row \in PaidRow
  PROVE  /\ row.status \in {"PENDING", "PROCESSING", "SUCCEEDED", "FAILED", "CANCELLED", "REFUNDED"}
         /\ row.refunded \in 0 .. Full
         /\ row.adminRefund \in {"NONE", "PARTIALLY_REFUNDED", "REFUNDED"}
BY DEF PaidRow, StatusOf

Settled(row, s) == [row EXCEPT !.status = s]
Requested(row, f) == [row EXCEPT !.refunded = f]
Marked(row, f, a) == [row EXCEPT !.refunded = f, !.adminRefund = a]
Closed(row, s, f, a) == [row EXCEPT !.status = s, !.refunded = f, !.adminRefund = a]
Marks == {"NONE", "PARTIALLY_REFUNDED", "REFUNDED"}

LEMMA PaidRowWrites ==
  ASSUME NEW row \in PaidRow, NEW s \in StatusOf.payments, NEW f \in 0 .. Full, NEW a \in Marks
  PROVE  /\ Settled(row, s) \in PaidRow /\ Requested(row, f) \in PaidRow
         /\ Marked(row, f, a) \in PaidRow /\ Closed(row, s, f, a) \in PaidRow
BY Zenon DEF PaidRow, Settled, Requested, Marked, Closed, Marks

LEMMA PaidRowsStay ==
  ASSUME NEW row \in PaidRow
  PROVE  /\ \A s \in {"PROCESSING", "SUCCEEDED", "FAILED", "CANCELLED"} : Settled(row, s) \in PaidRow
         /\ \A amount \in 1 .. Full - row.refunded :
              Requested(row, row.refunded + amount) \in PaidRow /\ Repaid(row, amount) \in PaidRow
<1>1. row.refunded \in 0 .. Full /\ Full \in Nat
  BY PaidRowFields, DirectoryAssumption
<1>2. {"PROCESSING", "SUCCEEDED", "FAILED", "CANCELLED", "REFUNDED"} \subseteq StatusOf.payments
  BY DEF StatusOf
<1>3. "NONE" \in Marks /\ "PARTIALLY_REFUNDED" \in Marks /\ "REFUNDED" \in Marks
  BY DEF Marks
<1>4. ASSUME NEW s \in {"PROCESSING", "SUCCEEDED", "FAILED", "CANCELLED"}
      PROVE  Settled(row, s) \in PaidRow
  BY <1>1, <1>2, <1>3, PaidRowWrites
<1>5. ASSUME NEW amount \in 1 .. Full - row.refunded
      PROVE  Requested(row, row.refunded + amount) \in PaidRow /\ Repaid(row, amount) \in PaidRow
  <2> DEFINE f == row.refunded + amount
  <2>1. f \in 0 .. Full /\ Full \in 0 .. Full /\ "REFUNDED" \in StatusOf.payments
    BY <1>1, <1>2
  <2>2. Repaid(row, amount) = Closed(row, "REFUNDED", Full, "REFUNDED")
        \/ Repaid(row, amount) = Marked(row, f, "PARTIALLY_REFUNDED")
    BY Zenon DEF Repaid, Closed, Marked
  <2> HIDE DEF f
  <2>3. /\ Requested(row, f) \in PaidRow /\ Marked(row, f, "PARTIALLY_REFUNDED") \in PaidRow
        /\ Closed(row, "REFUNDED", Full, "REFUNDED") \in PaidRow
    BY <1>3, <2>1, PaidRowWrites
  <2>4. Repaid(row, amount) \in PaidRow
    BY <2>2, <2>3, Zenon
  <2> QED
    BY <2>3, <2>4 DEF f
<1> QED
  BY <1>4, <1>5

LEMMA RowChanges ==
  ASSUME NEW R, NEW s \in Seq(R), NEW i \in 1 .. Len(s), NEW row \in R
  PROVE  [s EXCEPT ![i] = row] \in Seq(R) /\ Len([s EXCEPT ![i] = row]) = Len(s)
OBVIOUS

LEMMA DirectoryInvHolds == DirectorySpec => []DirectoryInv
<1>1. DirectoryInit => DirectoryInv
  BY DirectoryAssumption DEF DirectoryInit, DirectoryInv, DirectoryTypeOK
<1>2. DirectoryInv /\ [DirectoryNext]_directoryVars => DirectoryInv'
  <2> SUFFICES ASSUME DirectoryInv, [DirectoryNext]_directoryVars PROVE DirectoryInv'
    OBVIOUS
  <2>1. /\ table \in DOMAIN StatusOf /\ listed \in Seq(ListedRow) /\ Len(listed) <= MaxListed
        /\ aged \in 0 .. Len(listed)
    BY DEF DirectoryInv, DirectoryTypeOK
  <2>2. ASSUME UNCHANGED table, listed' \in Seq(ListedRow), Len(listed') <= MaxListed,
               aged' \in 0 .. Len(listed')
        PROVE  DirectoryInv'
    <3>1. ListedRow' = ListedRow
      BY <2>2 DEF ListedRow
    <3> QED
      BY <2>1, <2>2, <3>1 DEF DirectoryInv, DirectoryTypeOK
  <2>3. CASE UNCHANGED directoryVars
    BY <2>1, <2>2, <2>3 DEF directoryVars
  <2>4. CASE AddRow
    <3>1. PICK row \in NewListed : listed' = Append(listed, row)
      BY <2>4 DEF AddRow
    <3>2. row \in ListedRow
      <4>1. CASE table = "payments"
        <5>1. row = [status |-> "PENDING", refunded |-> 0, adminRefund |-> "NONE"]
          BY <3>1, <4>1 DEF NewListed
        <5>2. "PENDING" \in StatusOf.payments /\ 0 \in 0 .. Full
              /\ "NONE" \in {"NONE", "PARTIALLY_REFUNDED", "REFUNDED"}
          BY DirectoryAssumption DEF StatusOf
        <5>3. row \in PaidRow
          BY <5>1, <5>2, Zenon DEF PaidRow
        <5> QED
          BY <4>1, <5>3 DEF ListedRow
      <4>2. CASE table # "payments"
        <5>1. row \in [status : IF table = "items" THEN {"ACTIVE"} ELSE {"PENDING", "APPROVED"},
                       figure : {0}]
          BY <3>1, <4>2 DEF NewListed
        <5>2. (IF table = "items" THEN {"ACTIVE"} ELSE {"PENDING", "APPROVED"}) \subseteq StatusOf[table]
          BY <2>1, <4>2, Tables DEF UserStatuses, GiftStatuses
        <5>3. {0} \subseteq 0 .. 1
          OBVIOUS
        <5>4. row \in PlainRow(StatusOf[table])
          BY <5>1, <5>2, <5>3, Zenon DEF PlainRow
        <5> QED
          BY <4>2, <5>4 DEF ListedRow
      <4> QED
        BY <4>1, <4>2
    <3>3. listed' \in Seq(ListedRow) /\ Len(listed') = Len(listed) + 1
      BY <2>1, <3>1, <3>2
    <3>4. Len(listed') <= MaxListed /\ aged' \in 0 .. Len(listed')
      BY <2>1, <2>4, <3>3, DirectoryAssumption DEF AddRow
    <3> QED
      BY <2>2, <2>4, <3>3, <3>4 DEF AddRow
  <2>5. ASSUME NEW i \in 1 .. Len(listed), NEW row \in ListedRow,
               listed' = [listed EXCEPT ![i] = row], UNCHANGED <<table, aged>>
        PROVE  DirectoryInv'
    BY <2>1, <2>2, <2>5, RowChanges
  <2>6. ASSUME NEW i \in 1 .. Len(listed), ChangeRow(i) PROVE DirectoryInv'
    <3>1. PICK row \in PlainRow(StatusOf[table]) : listed' = [listed EXCEPT ![i] = row]
      BY <2>6 DEF ChangeRow
    <3>2. row \in ListedRow
      BY <2>6 DEF ChangeRow, ListedRow
    <3> QED
      BY <2>5, <2>6, <3>1, <3>2 DEF ChangeRow
  <2>7. ASSUME NEW i \in 1 .. Len(listed), SettleRow(i) PROVE DirectoryInv'
    <3>1. PICK s \in {"PROCESSING", "SUCCEEDED", "FAILED", "CANCELLED"} :
            listed' = [listed EXCEPT ![i].status = s]
      BY <2>7 DEF SettleRow
    <3>2. listed' = [listed EXCEPT ![i] = Settled(listed[i], s)]
      BY <3>1, Zenon DEF Settled
    <3>3. Settled(listed[i], s) \in ListedRow
      <4>1. listed[i] \in PaidRow
        BY <2>1, <2>7 DEF SettleRow, ListedRow
      <4> QED
        BY <2>7, <4>1, PaidRowsStay DEF SettleRow, ListedRow
    <3> QED
      BY <2>5, <2>7, <3>2, <3>3 DEF SettleRow
  <2>8. ASSUME NEW i \in 1 .. Len(listed), RefundListed(i) PROVE DirectoryInv'
    <3>1. PICK amount \in 1 .. Full - listed[i].refunded :
            listed' = [listed EXCEPT ![i] = Repaid(listed[i], amount)]
      BY <2>8, Zenon DEF RefundListed
    <3>2. Repaid(listed[i], amount) \in ListedRow
      <4>1. listed[i] \in PaidRow
        BY <2>1, <2>8 DEF RefundListed, ListedRow
      <4> QED
        BY <2>8, <4>1, PaidRowsStay DEF RefundListed, ListedRow
    <3> QED
      BY <2>5, <2>8, <3>1, <3>2 DEF RefundListed
  <2>9. ASSUME NEW i \in 1 .. Len(listed), RequestOnRow(i) PROVE DirectoryInv'
    <3>1. PICK amount \in 1 .. Full - listed[i].refunded :
            listed' = [listed EXCEPT ![i].refunded = @ + amount]
      BY <2>9 DEF RequestOnRow
    <3>2. listed' = [listed EXCEPT ![i] = Requested(listed[i], listed[i].refunded + amount)]
      BY <3>1, Zenon DEF Requested
    <3>3. Requested(listed[i], listed[i].refunded + amount) \in ListedRow
      <4>1. listed[i] \in PaidRow
        BY <2>1, <2>9 DEF RequestOnRow, ListedRow
      <4> QED
        BY <2>9, <4>1, PaidRowsStay DEF RequestOnRow, ListedRow
    <3> QED
      BY <2>5, <2>9, <3>2, <3>3 DEF RequestOnRow
  <2>10. CASE RowAges
    BY <2>1, <2>2, <2>10 DEF RowAges
  <2> QED
    BY <2>3, <2>4, <2>6, <2>7, <2>8, <2>9, <2>10 DEF DirectoryNext
<1> QED
  BY <1>1, <1>2, PTL DEF DirectorySpec

\* The rows of every list are what its table says they are.
THEOREM DirectoryTypeCorrect == DirectorySpec => []DirectoryTypeOK
<1>1. DirectoryInv => DirectoryTypeOK
  BY DEF DirectoryInv
<1> QED
  BY <1>1, DirectoryInvHolds, PTL

\* What a tab selects is what is shown with the status it names; the lists with a range leave
\* the aged rows out.
LEMMA TabsSelect ==
  ASSUME DirectoryInv, NEW list \in ListsOf[table], NEW tab, NEW dated \in BOOLEAN
  PROVE  Selected(list, tab, dated) = {i \in 1 .. Len(listed) : AsksFor(list, tab, dated, i)}
<1>1. table \in DOMAIN StatusOf /\ listed \in Seq(ListedRow)
  BY DEF DirectoryInv, DirectoryTypeOK
<1>2. SUFFICES ASSUME NEW i \in 1 .. Len(listed)
               PROVE  (/\ Where(list, tab, dated, i)
                       /\ list \notin {"providers", "users"} => Matches(list, tab, i))
                        <=> AsksFor(list, tab, dated, i)
  BY DEF Selected
<1>3. Matches(list, tab, i) <=> tab = "ALL" \/ Shown(list, i) = tab
  BY DEF Matches
<1>4. CASE list \in {"providers", "users"}
  <2>1. Where(list, tab, dated, i) <=> tab = "ALL" \/ listed[i].status = tab
    BY <1>4 DEF Where, StatusWhere
  <2>2. Shown(list, i) = listed[i].status
    BY <1>4 DEF Shown, ToStatus
  <2>3. AsksFor(list, tab, dated, i) <=> tab = "ALL" \/ Shown(list, i) = tab
    BY <1>4 DEF AsksFor
  <2> QED
    BY <1>4, <2>1, <2>2, <2>3
<1>5. CASE list = "analytics"
  <2>1. Where(list, tab, dated, i) <=> (dated \/ i > aged) /\ PaymentWhere(tab, listed[i])
    BY <1>5 DEF Where, InRange
  <2>2. Shown(list, i) = AnalyticsStatus(listed[i])
    BY <1>5 DEF Shown
  <2>3. listed[i] \in PaidRow
    BY <1>1, <1>5, ListsHave DEF ListedRow
  <2>4. tab = "ALL" => PaymentWhere(tab, listed[i])
    BY DEF PaymentWhere
  <2>5. PaymentWhere(AnalyticsStatus(listed[i]), listed[i])
    <3> DEFINE row == listed[i]
    <3>1. row.status \in {"PENDING", "PROCESSING", "SUCCEEDED", "FAILED", "CANCELLED", "REFUNDED"}
      BY <2>3, PaidRowFields
    <3> HIDE DEF row
    <3>2. PaymentWhere(AnalyticsStatus(row), row)
      BY <3>1 DEF PaymentWhere, AnalyticsStatus
    <3> QED
      BY <3>2 DEF row
  <2>6. AsksFor(list, tab, dated, i) <=> (dated \/ i > aged) /\ (tab = "ALL" \/ Shown(list, i) = tab)
    BY <1>5 DEF AsksFor
  <2> QED
    BY <1>3, <1>5, <2>1, <2>2, <2>4, <2>5, <2>6
<1>6. CASE list = "admin"
  <2>1. Where(list, tab, dated, i) <=> dated \/ i > aged
    BY <1>6 DEF Where, InRange
  <2>2. AsksFor(list, tab, dated, i) <=> (dated \/ i > aged) /\ (tab = "ALL" \/ Shown(list, i) = tab)
    BY <1>6 DEF AsksFor
  <2> QED
    BY <1>3, <1>6, <2>1, <2>2
<1>7. CASE list \notin {"providers", "users", "analytics", "admin"}
  <2>1. Where(list, tab, dated, i)
    BY <1>7 DEF Where
  <2>2. AsksFor(list, tab, dated, i) <=> tab = "ALL" \/ Shown(list, i) = tab
    BY <1>7 DEF AsksFor
  <2> QED
    BY <1>3, <1>7, <2>1, <2>2
<1> QED
  BY <1>4, <1>5, <1>6, <1>7

\* Rows that arrive one after the other are in order, whatever the sort.
LEMMA ArrivalsOrder ==
  ASSUME DirectoryInv, NEW list, NEW sort, NEW arrival \in Arrivals(list, sort)
  PROVE  \A i, j \in 1 .. Len(listed) :
           arrival[i] \in Int /\ (arrival[i] = arrival[j] => i = j)
<1>1. Len(listed) \in Nat
  BY DEF DirectoryInv, DirectoryTypeOK
<1>2. CASE list = "items" /\ sort.by = "figure"
  BY <1>1, <1>2 DEF Arrivals, Injection, IsInjective
<1>3. CASE ~(list = "items" /\ sort.by = "figure")
  <2>1. arrival = [i \in 1 .. Len(listed) |-> Len(listed) + 1 - i]
    BY <1>3 DEF Arrivals
  <2> QED
    BY <1>1, <2>1
<1> QED
  BY <1>2, <1>3

LEMMA FiguresCompare ==
  ASSUME DirectoryInv, NEW i \in 1 .. Len(listed)
  PROVE  Figure(i) \in Int
<1>1. CASE table = "payments"
  BY <1>1, DirectoryAssumption DEF Figure
<1>2. CASE table # "payments"
  <2>1. listed[i] \in PlainRow(StatusOf[table])
    BY <1>2 DEF DirectoryInv, DirectoryTypeOK, ListedRow
  <2>2. listed[i].figure \in 0 .. 1
    BY <2>1 DEF PlainRow
  <2> QED
    BY <1>2, <2>2 DEF Figure
<1> QED
  BY <1>1, <1>2

Precedes(sort, arrival, S) == {pair \in S \X S : Before(sort, arrival, pair[1], pair[2])}

LEMMA Precedence ==
  ASSUME NEW S, NEW i \in S, NEW j \in S, NEW sort, NEW arrival
  PROVE  <<i, j>> \in Precedes(sort, arrival, S) <=> Before(sort, arrival, i, j)
BY DEF Precedes

LEMMA SortsOrder ==
  ASSUME DirectoryInv, NEW sort \in Sorts, NEW list, NEW arrival \in Arrivals(list, sort),
         NEW S \in SUBSET (1 .. Len(listed))
  PROVE  StrictOrder(Precedes(sort, arrival, S), S)
<1> DEFINE R == Precedes(sort, arrival, S)
<1> SUFFICES StrictOrder(R, S)
  OBVIOUS
<1>1. \A i \in S : i \in Int
  OBVIOUS
<1>4. \A i, j \in S : <<i, j>> \in R <=> Before(sort, arrival, i, j)
  BY Precedence
<1> HIDE DEF R
<1>2. CASE sort.by = "createdAt"
  <2>1. \A i, j \in S : <<i, j>> \in R <=> IF sort.ascending THEN i < j ELSE j < i
    BY <1>2, <1>4 DEF Before, Directed
  <2>2. CASE sort.ascending
    BY <1>1, <2>1, <2>2 DEF StrictOrder
  <2>3. CASE ~sort.ascending
    BY <1>1, <2>1, <2>3 DEF StrictOrder
  <2> QED
    BY <2>2, <2>3
<1>3. CASE sort.by # "createdAt"
  <2> DEFINE figure == [i \in S |-> Figure(i)]
             place == [i \in S |-> arrival[i]]
  <2>1. \A i \in S : figure[i] = Figure(i) /\ figure[i] \in Int /\ place[i] = arrival[i]
    BY FiguresCompare
  <2>2. \A i, j \in S : place[i] \in Int /\ (place[i] = place[j] => i = j)
    BY ArrivalsOrder
  <2>3. \A i, j \in S : <<i, j>> \in R
          <=> \/ IF sort.ascending THEN figure[i] < figure[j] ELSE figure[j] < figure[i]
              \/ figure[i] = figure[j] /\ place[i] < place[j]
    BY <1>3, <1>4, <2>1 DEF Before, Directed
  <2> HIDE DEF figure, place
  <2>4. CASE sort.ascending
    <3>1. \A i, j \in S : <<i, j>> \in R
            <=> figure[i] < figure[j] \/ (figure[i] = figure[j] /\ place[i] < place[j])
      BY <2>3, <2>4
    <3> QED
      BY <2>1, <2>2, <3>1 DEF StrictOrder
  <2>5. CASE ~sort.ascending
    <3>1. \A i, j \in S : <<i, j>> \in R
            <=> figure[j] < figure[i] \/ (figure[i] = figure[j] /\ place[i] < place[j])
      BY <2>3, <2>5
    <3> QED
      BY <2>1, <2>2, <3>1 DEF StrictOrder
  <2> QED
    BY <2>4, <2>5
<1> QED
  BY <1>2, <1>3

LEMMA SortedRows ==
  ASSUME DirectoryInv, NEW list, NEW tab, NEW dated, NEW sort \in Sorts, NEW arrival \in Arrivals(list, sort)
  PROVE  LET rows == Selected(list, tab, dated)
             all == Sorted(list, tab, dated, sort, arrival)
         IN  /\ rows \in SUBSET (1 .. Len(listed))
             /\ Cardinality(rows) \in Nat /\ Cardinality(rows) <= MaxListed
             /\ Lists(all, rows)
             /\ \A i \in rows, k \in 1 .. Cardinality(rows) :
                  all[k] = i <=> Cardinality({j \in rows : Before(sort, arrival, j, i)}) = k - 1
<1> DEFINE S == Selected(list, tab, dated)
           R == Precedes(sort, arrival, S)
           all == Sorted(list, tab, dated, sort, arrival)
<1>1. S \in SUBSET (1 .. Len(listed)) /\ Len(listed) \in Nat
  BY DEF Selected, DirectoryInv, DirectoryTypeOK
<1>2. IsFiniteSet(1 .. Len(listed)) /\ Cardinality(1 .. Len(listed)) = Len(listed)
  <2> DEFINE N == Len(listed)
  <2>1. N \in Nat
    BY <1>1
  <2> HIDE DEF N
  <2>2. IsFiniteSet(1 .. N) /\ Cardinality(1 .. N) = N
    BY <2>1, FS_Interval
  <2> QED
    BY <2>2 DEF N
<1> HIDE DEF S
<1>3. IsFiniteSet(S) /\ Cardinality(S) <= Len(listed) /\ Cardinality(S) \in Nat
  BY <1>1, <1>2, FS_Subset, FS_CardinalityType
<1>4. StrictOrder(R, S)
  BY <1>1, SortsOrder
<1>5. \A i \in S : Ahead(R, S, i) = {j \in S : Before(sort, arrival, j, i)}
  BY Precedence DEF Ahead
<1>6. all = [k \in 1 .. Cardinality(S) |->
               CHOOSE i \in S : Cardinality({j \in S : Before(sort, arrival, j, i)}) = k - 1]
  BY Zenon DEF Sorted, S
<1> HIDE DEF R, all
<1>7. \A k \in 1 .. Cardinality(S) :
        (CHOOSE i \in S : Cardinality({j \in S : Before(sort, arrival, j, i)}) = k - 1)
          = (CHOOSE i \in S : Cardinality(Ahead(R, S, i)) = k - 1)
  <2> TAKE k \in 1 .. Cardinality(S)
  <2>1. \A i : (i \in S /\ Cardinality({j \in S : Before(sort, arrival, j, i)}) = k - 1)
                 <=> (i \in S /\ Cardinality(Ahead(R, S, i)) = k - 1)
    BY <1>5, Zenon
  <2> QED
    BY <2>1, Zenon
<1>8. all = [k \in 1 .. Cardinality(S) |-> CHOOSE i \in S : Cardinality(Ahead(R, S, i)) = k - 1]
  <2> DEFINE Here(k) == CHOOSE i \in S : Cardinality({j \in S : Before(sort, arrival, j, i)}) = k - 1
             There(k) == CHOOSE i \in S : Cardinality(Ahead(R, S, i)) = k - 1
  <2>1. all = [k \in 1 .. Cardinality(S) |-> Here(k)]
    BY <1>6
  <2>2. \A k \in 1 .. Cardinality(S) : Here(k) = There(k)
    BY <1>7
  <2> HIDE DEF Here, There
  <2>3. all = [k \in 1 .. Cardinality(S) |-> There(k)]
    BY <2>1, <2>2, Zenon
  <2> QED
    BY <2>3 DEF There
<1>9. Lists(all, S) /\ Numbers(all, R, S)
  BY <1>3, <1>4, <1>8, SortedLists
<1>10. \A i \in S, k \in 1 .. Cardinality(S) :
         all[k] = i <=> Cardinality({j \in S : Before(sort, arrival, j, i)}) = k - 1
  BY <1>5, <1>9, Zenon DEF Numbers
<1>11. Cardinality(S) <= MaxListed
  BY <1>1, <1>3, DirectoryAssumption DEF DirectoryInv
<1> QED
  BY <1>1, <1>3, <1>9, <1>10, <1>11, Zenon DEF S, all

\* A sort by creation, and a row in no tie, do not depend on how the rows arrive.
LEMMA CreationSorts ==
  ASSUME NEW list, NEW tab, NEW dated, NEW sort, sort.by = "createdAt", NEW a, NEW b
  PROVE  Sorted(list, tab, dated, sort, a) = Sorted(list, tab, dated, sort, b)
<1> DEFINE S == Selected(list, tab, dated)
           Next(k, x) == CHOOSE i \in S : Cardinality({j \in S : Before(sort, x, j, i)}) = k - 1
<1>1. \A i, j : Before(sort, a, i, j) <=> Before(sort, b, i, j)
  BY DEF Before
<1>2. /\ Sorted(list, tab, dated, sort, a) = [k \in 1 .. Cardinality(S) |-> Next(k, a)]
      /\ Sorted(list, tab, dated, sort, b) = [k \in 1 .. Cardinality(S) |-> Next(k, b)]
  BY Zenon DEF Sorted
<1> HIDE DEF S
<1>3. \A i : {j \in S : Before(sort, a, j, i)} = {j \in S : Before(sort, b, j, i)}
  BY <1>1
<1>4. \A k : Next(k, a) = Next(k, b)
  <2> TAKE k
  <2>1. \A i : (i \in S /\ Cardinality({j \in S : Before(sort, a, j, i)}) = k - 1)
                 <=> (i \in S /\ Cardinality({j \in S : Before(sort, b, j, i)}) = k - 1)
    BY <1>3, Zenon
  <2> QED
    BY <2>1, Zenon
<1> QED
  BY <1>2, <1>4, Zenon

LEMMA PlacesAgree ==
  ASSUME DirectoryInv, NEW list, NEW sort \in Sorts, NEW S \in SUBSET (1 .. Len(listed)),
         NEW i \in S, ~InTie(list, sort, S, i),
         NEW a \in Arrivals(list, sort), NEW b \in Arrivals(list, sort)
  PROVE  {j \in S : Before(sort, a, j, i)} = {j \in S : Before(sort, b, j, i)}
<1>1. CASE list # "items"
  <2>1. a = b
    BY <1>1 DEF Arrivals
  <2> QED
    BY <2>1
<1>2. CASE sort.by = "createdAt"
  BY <1>2 DEF Before
<1>3. CASE list = "items" /\ sort.by # "createdAt"
  <2>1. sort.by = "figure"
    BY <1>3 DEF Sorts
  <2>2. ASSUME NEW j \in S PROVE Before(sort, a, j, i) <=> Before(sort, b, j, i)
    <3>1. CASE j = i
      <4>1. a[i] \in Int /\ b[i] \in Int
        BY ArrivalsOrder
      <4>2. ~(a[i] < a[i]) /\ ~(b[i] < b[i])
        BY <4>1
      <4> QED
        BY <2>1, <3>1, <4>2 DEF Before
    <3>2. CASE j # i
      <4>1. Figure(j) # Figure(i)
        BY <1>3, <2>1, <3>2 DEF InTie
      <4> QED
        BY <2>1, <4>1 DEF Before
    <3> QED
      BY <3>1, <3>2
  <2> QED
    BY <2>2
<1> QED
  BY <1>1, <1>2, <1>3

LEMMA PagesAreCuts ==
  ASSUME NEW limit \in 1 .. MaxPageLimit + 1
  PROVE  \E t \in Nat \ {0} :
           /\ \A n : TotalPages(n, limit) = PageCount(n, t)
           /\ \A all, p : Page(all, p, limit) = Cut(all, t, p)
<1> DEFINE t == IF limit <= MaxPageLimit THEN limit ELSE MaxPageLimit
<1>1. t \in Nat \ {0}
  BY DirectoryAssumption
<1>2. \A p : GetPagination(p, limit) = [skip |-> (p - 1) * t, take |-> t]
  BY Zenon DEF GetPagination
<1>3. \A p : GetPagination(p, limit).skip = (p - 1) * t /\ GetPagination(p, limit).take = t
  BY <1>2
<1> HIDE DEF t
<1>4. \A n : TotalPages(n, limit) = PageCount(n, t)
  BY <1>3, Zenon DEF TotalPages, PageCount
<1>5. \A all, p : Page(all, p, limit) = Cut(all, t, p)
  <2> TAKE all, p
  <2>1. Page(all, p, limit) =
          SubSeq(all, GetPagination(p, limit).skip + 1,
                 IF GetPagination(p, limit).skip + GetPagination(p, limit).take <= Len(all)
                 THEN GetPagination(p, limit).skip + GetPagination(p, limit).take ELSE Len(all))
    BY Zenon DEF Page
  <2> QED
    BY <1>3, <2>1, Zenon DEF Cut, LastOn, Skip
<1> QED
  BY <1>1, <1>4, <1>5

\* Pages cut from lists of the same rows meet a row once, if it has one place in them all; a row
\* of none of the lists they do not meet.
CutFrom(pages, alls, S, n, limit) ==
  /\ pages = [p \in 1 .. TotalPages(n, limit) |-> Page(alls[p], p, limit)]
  /\ \A p \in 1 .. TotalPages(n, limit) : Lists(alls[p], S) /\ Len(alls[p]) = n
SamePlace(alls, n, limit, i) ==
  \E pos \in 1 .. n : \A p \in 1 .. TotalPages(n, limit) : alls[p][pos] = i

LEMMA PagesMeetOnce ==
  ASSUME NEW S \in SUBSET Int, NEW n \in Nat, n <= MaxListed, NEW limit \in 1 .. MaxPageLimit + 1,
         NEW alls, NEW pages, CutFrom(pages, alls, S, n, limit),
         NEW i, i \in S => SamePlace(alls, n, limit, i)
  PROVE  /\ i \in S => Cardinality(PlacesIn(pages, i)) = 1
         /\ i \notin S => PlacesIn(pages, i) = {}
<1>1. PICK t \in Nat \ {0} : /\ \A m : TotalPages(m, limit) = PageCount(m, t)
                             /\ \A all, p : Page(all, p, limit) = Cut(all, t, p)
  BY PagesAreCuts
<1> DEFINE c == PageCount(n, t)
           Piece(p) == Cut(alls[p], t, p)
           places == PlacesIn(pages, i)
<1>2. MaxListed \in Nat /\ c \in Nat /\ TotalPages(n, limit) = c
  BY <1>1, LastPage, DirectoryAssumption
<1>3. DOMAIN pages = 1 .. c /\ \A p \in 1 .. c : pages[p] = Piece(p)
  BY <1>1 DEF CutFrom
<1>4. ASSUME NEW p \in 1 .. c
      PROVE  /\ alls[p] \in Seq(S) /\ Len(alls[p]) = n
             /\ \A j, k \in 1 .. n : alls[p][j] = alls[p][k] => j = k
  <2>1. Lists(alls[p], S) /\ Len(alls[p]) = n
    BY <1>2 DEF CutFrom
  <2> QED
    BY <2>1 DEF Lists
<1>5. ASSUME NEW p \in 1 .. c
      PROVE  /\ Len(Piece(p)) \in 1 .. t /\ p \in Nat \ {0}
             /\ Len(Piece(p)) = (IF Skip(t, p) + t <= n THEN Skip(t, p) + t ELSE n) - Skip(t, p)
             /\ Len(Piece(p)) <= MaxListed
             /\ \A k \in 1 .. Len(Piece(p)) :
                  /\ Skip(t, p) + k \in 1 .. n /\ k \in 1 .. t /\ k \in 1 .. MaxListed
                  /\ Piece(p)[k] = alls[p][Skip(t, p) + k]
  <2>1. p \in Nat \ {0}
    <3> HIDE DEF c
    <3> QED
      BY <1>2
  <2>2. Skip(t, p) \in Nat
    BY <2>1, Skips
  <2>3. p \in 1 .. PageCount(Len(alls[p]), t)
    BY <1>4
  <2>4. /\ LastOn(alls[p], t, p) \in Skip(t, p) + 1 .. Len(alls[p])
        /\ Len(Piece(p)) \in 1 .. t
        /\ Len(Piece(p)) = LastOn(alls[p], t, p) - Skip(t, p)
        /\ \A k \in 1 .. Len(Piece(p)) : Piece(p)[k] = alls[p][Skip(t, p) + k]
    BY <1>4, <2>3, CutIs
  <2>5. LastOn(alls[p], t, p) = IF Skip(t, p) + t <= n THEN Skip(t, p) + t ELSE n
    BY <1>4 DEF LastOn
  <2> DEFINE len == Len(Piece(p))
             last == LastOn(alls[p], t, p)
  <2>6. last \in Skip(t, p) + 1 .. n /\ len \in 1 .. t /\ len = last - Skip(t, p)
    BY <1>4, <2>4
  <2> HIDE DEF c, len, last
  <2>7. Skip(t, p) + len <= n /\ len <= MaxListed
    BY <1>2, <2>2, <2>6
  <2>8. \A k \in 1 .. len : Skip(t, p) + k \in 1 .. n /\ k \in 1 .. t /\ k \in 1 .. MaxListed
    BY <1>2, <2>2, <2>6, <2>7
  <2> QED
    BY <2>1, <2>4, <2>5, <2>6, <2>7, <2>8 DEF len, last
<1>6. \A place : place \in places
        <=> /\ place \in (1 .. c) \X (1 .. MaxListed)
            /\ place[2] <= Len(Piece(place[1])) /\ Piece(place[1])[place[2]] = i
  <2> HIDE DEF c, Piece
  <2> QED
    BY <1>3 DEF PlacesIn
<1>7. \A x \in 1 .. n : \E p \in 1 .. c : \E k \in 1 .. Len(Piece(p)) : Skip(t, p) + k = x
  <2> DEFINE blank == [k \in 1 .. n |-> 0]
  <2>1. blank \in Seq({0}) /\ Len(blank) = n
    OBVIOUS
  <2> HIDE DEF blank
  <2> TAKE x \in 1 .. n
  <2>2. Placed(blank, t, x)
    BY <2>1, OnePlace
  <2>3. PICK p \in 1 .. c : \E k \in 1 .. Len(Cut(blank, t, p)) : Skip(t, p) + k = x
    BY <2>1, <2>2 DEF Placed
  <2>4. Len(Cut(blank, t, p)) = LastOn(blank, t, p) - Skip(t, p)
    BY <2>1, CutIs
  <2>5. LastOn(blank, t, p) = IF Skip(t, p) + t <= n THEN Skip(t, p) + t ELSE n
    BY <2>1 DEF LastOn
  <2>6. Len(Piece(p)) = Len(Cut(blank, t, p))
    BY <1>5, <2>4, <2>5, Zenon
  <2> QED
    BY <2>3, <2>6, Zenon
<1> HIDE DEF places, c, Piece
<1>8. CASE i \in S
  <2>1. PICK pos \in 1 .. n : \A p \in 1 .. c : alls[p][pos] = i
    BY <1>2, <1>8 DEF SamePlace
  <2>2. PICK p \in 1 .. c : \E k \in 1 .. Len(Piece(p)) : Skip(t, p) + k = pos
    BY <1>7
  <2>3. PICK k \in 1 .. Len(Piece(p)) : Skip(t, p) + k = pos
    BY <2>2
  <2>4. <<p, k>> \in places
    <3>1. k \in 1 .. MaxListed /\ k <= Len(Piece(p)) /\ Piece(p)[k] = i
      BY <1>5, <2>1, <2>3
    <3> QED
      BY <1>6, <3>1
  <2>5. ASSUME NEW place \in places PROVE place = <<p, k>>
    <3>1. PICK q \in 1 .. c, l \in 1 .. MaxListed : place = <<q, l>>
      BY <1>6
    <3>2. l <= Len(Piece(q)) /\ Piece(q)[l] = i
      BY <1>6, <3>1
    <3>3. l \in 1 .. Len(Piece(q))
      BY <1>5, <3>2
    <3>4. alls[q][Skip(t, q) + l] = i /\ Skip(t, q) + l \in 1 .. n
      BY <1>5, <3>2, <3>3
    <3>5. Skip(t, q) + l = Skip(t, p) + k
      BY <1>4, <2>1, <2>3, <3>4
    <3>6. q \in Nat \ {0} /\ p \in Nat \ {0} /\ l \in 1 .. t /\ k \in 1 .. t
      BY <1>5, <3>3
    <3>7. q = p /\ l = k
      BY <3>5, <3>6, PlacesDiffer
    <3> QED
      BY <3>1, <3>7
  <2>6. places = {<<p, k>>}
    BY <2>4, <2>5
  <2> QED
    BY <1>8, <2>6, FS_Singleton DEF places
<1>9. CASE i \notin S
  <2>1. ASSUME NEW place \in places PROVE FALSE
    <3>1. PICK q \in 1 .. c, l \in 1 .. MaxListed : place = <<q, l>>
      BY <1>6
    <3>2. l <= Len(Piece(q)) /\ Piece(q)[l] = i
      BY <1>6, <3>1
    <3>3. l \in 1 .. Len(Piece(q))
      BY <1>5, <3>2
    <3>4. alls[q][Skip(t, q) + l] = i /\ Skip(t, q) + l \in 1 .. n
      BY <1>5, <3>2, <3>3
    <3>5. alls[q][Skip(t, q) + l] \in S
      BY <1>4, <3>4
    <3> QED
      BY <1>9, <3>4, <3>5
  <2>2. places = {}
    BY <2>1
  <2> QED
    BY <1>9, <2>2 DEF places
<1> QED
  BY <1>8, <1>9

\* Whatever the rows, the list, the tab, the range, the sort and the page size, and however each
\* page's query hands the rows over: the pages of a tab meet each row shown with its status, and
\* inside the list's range, exactly once (an item in a tie by sales left aside) and no other row;
\* joined they are the tab's export, and the provider lookups are the tabs they stand for.
THEOREM PagesAlwaysCover == DirectorySpec => []PagesCoverTheList
<1>1. DirectoryInv => PagesCoverTheList
  <2> SUFFICES ASSUME DirectoryInv PROVE PagesCoverTheList
    OBVIOUS
  <2>1. ASSUME NEW list \in ListsOf[table], NEW dated \in BOOLEAN, NEW tab, NEW sort \in Sorts,
               NEW limit \in 1 .. MaxPageLimit + 1,
               NEW arrivals \in [1 .. TotalPages(Cardinality(Selected(list, tab, dated)), limit)
                                  -> Arrivals(list, sort)]
        PROVE  PagesCover(list, tab, dated, sort, limit, arrivals)
    <3> DEFINE S == Selected(list, tab, dated)
               n == Cardinality(S)
               c == TotalPages(n, limit)
               All(arrival) == Sorted(list, tab, dated, sort, arrival)
               alls == [p \in 1 .. c |-> All(arrivals[p])]
               pages == [p \in 1 .. c |-> Page(All(arrivals[p]), p, limit)]
    <3>1. S = {i \in 1 .. Len(listed) : AsksFor(list, tab, dated, i)}
      BY TabsSelect
    <3>2. ASSUME NEW arrival \in Arrivals(list, sort)
          PROVE  /\ S \in SUBSET (1 .. Len(listed)) /\ n \in Nat /\ n <= MaxListed
                 /\ Lists(All(arrival), S)
                 /\ \A i \in S, k \in 1 .. n :
                      All(arrival)[k] = i <=> Cardinality({j \in S : Before(sort, arrival, j, i)}) = k - 1
      BY SortedRows
    <3>3. S \in SUBSET (1 .. Len(listed)) /\ S \in SUBSET Int /\ n \in Nat /\ n <= MaxListed
          /\ \E arrival : arrival \in Arrivals(list, sort)
      <4>1. \E arrival : arrival \in Arrivals(list, sort)
        <5>1. CASE list = "items" /\ sort.by = "figure"
          <6>1. [i \in 1 .. Len(listed) |-> i] \in Injection(1 .. Len(listed), 1 .. Len(listed))
            BY DEF Injection, IsInjective
          <6> QED
            BY <5>1, <6>1 DEF Arrivals
        <5>2. CASE ~(list = "items" /\ sort.by = "figure")
          BY <5>2 DEF Arrivals
        <5> QED
          BY <5>1, <5>2
      <4>2. S \in SUBSET (1 .. Len(listed))
        BY <3>1
      <4>3. S \in SUBSET Int
        BY <4>2
      <4> HIDE DEF S, n
      <4> QED
        BY <3>2, <4>1, <4>2, <4>3
    <3>4. \A p \in 1 .. c : arrivals[p] \in Arrivals(list, sort) /\ alls[p] = All(arrivals[p])
      OBVIOUS
    <3>5. pages = [p \in 1 .. c |-> Page(alls[p], p, limit)]
      BY <3>4, Zenon
    <3>6. \A p \in 1 .. c : Lists(alls[p], S) /\ Len(alls[p]) = n
      <4> HIDE DEF S, c, All, alls
      <4> TAKE p \in 1 .. c
      <4>1. Lists(alls[p], S)
        BY <3>2, <3>4
      <4> QED
        BY <4>1 DEF Lists
    <3> HIDE DEF S, n, c, All, alls, pages
    <3>7. ASSUME NEW i \in 1 .. Len(listed), ~(i \in S /\ InTie(list, sort, S, i))
          PROVE  /\ i \in S => Cardinality(PlacesIn(pages, i)) = 1
                 /\ i \notin S => PlacesIn(pages, i) = {}
      <4>1. i \in S => \E pos \in 1 .. n : \A p \in 1 .. c : alls[p][pos] = i
        <5> SUFFICES ASSUME i \in S PROVE \E pos \in 1 .. n : \A p \in 1 .. c : alls[p][pos] = i
          OBVIOUS
        <5>1. PICK arrival : arrival \in Arrivals(list, sort)
          BY <3>3
        <5>2. PICK pos \in 1 .. n : All(arrival)[pos] = i
          <6>1. Lists(All(arrival), S)
            BY <3>2, <5>1
          <6> QED
            BY <6>1 DEF Lists, n
        <5>3. ASSUME NEW p \in 1 .. c PROVE alls[p][pos] = i
          <6>1. {j \in S : Before(sort, arrival, j, i)} = {j \in S : Before(sort, arrivals[p], j, i)}
            BY <3>3, <3>4, <3>7, <5>1, PlacesAgree
          <6>2. Cardinality({j \in S : Before(sort, arrival, j, i)}) = pos - 1
            BY <3>2, <5>1, <5>2, Zenon
          <6>3. Cardinality({j \in S : Before(sort, arrivals[p], j, i)}) = pos - 1
            BY <6>1, <6>2, Zenon
          <6>4. All(arrivals[p])[pos] = i
            BY <3>2, <3>4, <6>3, Zenon
          <6> QED
            BY <3>4, <6>4, Zenon
        <5> QED
          BY <5>3
      <4>2. CutFrom(pages, alls, S, n, limit)
        BY <3>5, <3>6, Zenon DEF c, CutFrom
      <4>3. i \in S => SamePlace(alls, n, limit, i)
        BY <4>1, Zenon DEF c, SamePlace
      <4>4. S \in SUBSET Int /\ n \in Nat /\ n <= MaxListed
        BY <3>3, Zenon
      <4> QED
        BY <4>2, <4>3, <4>4, PagesMeetOnce, Zenon
    <3>8. ASSUME sort = NewestFirst, NEW arrival \in Arrivals(list, sort)
          PROVE  FlattenSeq(pages) = Export(list, tab, dated, sort, arrival)
      <4>1. sort.by = "createdAt"
        BY <3>8 DEF NewestFirst
      <4>2. \A p \in 1 .. c : alls[p] = All(arrival)
        BY <3>4, <4>1, CreationSorts DEF All
      <4>3. PICK t \in Nat \ {0} : /\ \A m : TotalPages(m, limit) = PageCount(m, t)
                                   /\ \A all, p : Page(all, p, limit) = Cut(all, t, p)
        BY PagesAreCuts
      <4>4. All(arrival) \in Seq(S) /\ Len(All(arrival)) = n
        BY <3>2 DEF Lists, n
      <4>5. c = PageCount(Len(All(arrival)), t)
        BY <4>3, <4>4, Zenon DEF c
      <4>6. \A p \in 1 .. c : Page(alls[p], p, limit) = Cut(All(arrival), t, p)
        BY <4>2, <4>3, Zenon
      <4>7. pages = [p \in 1 .. PageCount(Len(All(arrival)), t) |-> Cut(All(arrival), t, p)]
        BY <3>5, <4>5, <4>6, Zenon
      <4>8. FlattenSeq(pages) = All(arrival)
        BY <4>4, <4>7, PagesJoin
      <4>9. Export(list, tab, dated, sort, arrival) = All(arrival)
        BY <3>8, Zenon DEF Export, All
      <4> QED
        BY <4>8, <4>9
    <3>9. \A i \in 1 .. Len(listed) : i \in S <=> AsksFor(list, tab, dated, i)
      BY <3>1
    <3>10. \A i \in 1 .. Len(listed) :
             /\ AsksFor(list, tab, dated, i) /\ ~InTie(list, sort, S, i) =>
                  Cardinality(PlacesIn(pages, i)) = 1
             /\ ~AsksFor(list, tab, dated, i) => PlacesIn(pages, i) = {}
      BY <3>7, <3>9
    <3>11. pages = [p \in DOMAIN arrivals |->
                      Page(Sorted(list, tab, dated, sort, arrivals[p]), p, limit)]
      BY Zenon DEF pages, All, c, n, S
    <3> QED
      BY <3>8, <3>10, <3>11, Zenon DEF S, PagesCover
  <2>2. ASSUME table = "providers"
        PROVE  /\ ProviderLookup(TRUE) = Selected("providers", "APPROVED", FALSE)
               /\ ProviderLookup(FALSE) = InactiveProviders
               /\ Selected("providers", "ALL", FALSE) =
                    ProviderLookup(TRUE) \cup ProviderLookup(FALSE)
                      \cup Selected("providers", "PENDING", FALSE)
    <3>1. "providers" \in ListsOf[table]
      BY <2>2 DEF ListsOf
    <3>2. \A i \in 1 .. Len(listed) : Shown("providers", i) = listed[i].status
      BY DEF Shown, ToStatus
    <3>3. \A tab : Selected("providers", tab, FALSE) =
            {i \in 1 .. Len(listed) : tab \in {"ALL", listed[i].status}}
      <4> DEFINE none == FALSE
      <4>1. none \in BOOLEAN
        OBVIOUS
      <4> HIDE DEF none
      <4> TAKE tab
      <4>2. Selected("providers", tab, none) =
              {i \in 1 .. Len(listed) : AsksFor("providers", tab, none, i)}
        BY <3>1, <4>1, TabsSelect
      <4>3. \A i \in 1 .. Len(listed) :
              AsksFor("providers", tab, none, i) <=> tab \in {"ALL", listed[i].status}
        BY <3>2 DEF AsksFor
      <4>4. Selected("providers", tab, none) = {i \in 1 .. Len(listed) : tab \in {"ALL", listed[i].status}}
        BY <4>2, <4>3
      <4> QED
        BY <4>4 DEF none
    <3>4. \A i \in 1 .. Len(listed) :
            listed[i].status \in {"PENDING", "APPROVED", "REJECTED", "SUSPENDED", "BLOCKED"}
      <4> TAKE i \in 1 .. Len(listed)
      <4>1. listed[i] \in PlainRow(StatusOf[table]) /\ StatusOf[table] = UserStatuses
        BY <2>2, Tables DEF DirectoryInv, DirectoryTypeOK, ListedRow
      <4> QED
        BY <4>1 DEF PlainRow, UserStatuses
    <3>5. ProviderLookup(TRUE) = {i \in 1 .. Len(listed) : listed[i].status = "APPROVED"}
      BY DEF ProviderLookup
    <3>6. ProviderLookup(FALSE) =
            {i \in 1 .. Len(listed) : listed[i].status \in {"BLOCKED", "SUSPENDED", "REJECTED"}}
      BY DEF ProviderLookup
    <3>7. ProviderLookup(FALSE) = InactiveProviders
      BY <3>6 DEF InactiveProviders
    <3>8. ProviderLookup(TRUE) = Selected("providers", "APPROVED", FALSE)
      BY <3>3, <3>4, <3>5
    <3>9. Selected("providers", "ALL", FALSE) =
            ProviderLookup(TRUE) \cup ProviderLookup(FALSE) \cup Selected("providers", "PENDING", FALSE)
      BY <3>3, <3>4, <3>5, <3>6
    <3> QED
      BY <3>7, <3>8, <3>9
  <2>3. \A list \in ListsOf[table] : \A dated \in Dates(list) : dated \in BOOLEAN
    BY DEF Dates
  <2> QED
    BY <2>1, <2>2, <2>3, Zenon DEF PagesCoverTheList
<1> QED
  BY <1>1, DirectoryInvHolds, PTL

=============================================================================
