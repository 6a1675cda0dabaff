------------------------------- MODULE Reviews -------------------------------
(***************************************************************************)
(* The reviews one customer writes about one delivered order: submitted,   *)
(* edited and deleted by the customer, moderated by administrators and     *)
(* answered by the provider.  Every request reads before it writes.  The   *)
(* text is judged by moderateText: clean or flagged.                       *)
(***************************************************************************)
EXTENDS Naturals

CONSTANTS
  Review,     \* rows of reviews that can be created
  Author      \* requests that may overlap

VARIABLES
  review,     \* review[v]: the row
  author      \* author[a]: what a request has read

reviewVars == <<review, author>>

ReviewStatus == {"PUBLISHED", "PENDING", "FLAGGED", "HIDDEN", "REMOVED", "PENALIZED"}

\* late, back (history): the row was created by a submission that had looked for others
\* before one of them was there; it was removed and came back.
ReviewRow == [status : ReviewStatus, response : BOOLEAN, late : BOOLEAN, back : BOOLEAN]
NoReview == [status |-> "NONE"]
Deleted == [status |-> "DELETED"]

Kept(v) == review[v] \notin {NoReview, Deleted}
Standing(v) == Kept(v) /\ review[v].status # "REMOVED"

Quiet == [op |-> "quiet"]

\* Mutant: only published reviews are looked for.
MutantFindExisting == {v \in Review : Kept(v) /\ review[v].status = "PUBLISHED"}

\* findExistingReviewForOrder
FindExisting == {v \in Review : Standing(v)}

ModerateText == {"PUBLISHED", "FLAGGED"}

\* A request to a, which reads; the others are as they were.
Asks(a, job) == author[a] = Quiet /\ author' = [author EXCEPT ![a] = job] /\ UNCHANGED review
Answered(a) == author' = [author EXCEPT ![a] = Quiet]

-----------------------------------------------------------------------------
(* The customer *)

\* known: the reviews that were there when the others were looked for.
SubmitReview(a) == FindExisting = {} /\ Asks(a, [op |-> "submit", known |-> {v \in Review : Kept(v)}])

CreateReview(a, v) ==
  /\ author[a].op = "submit" /\ review[v] = NoReview
  /\ \E status \in ModerateText :
       review' = [review EXCEPT ![v] =
         [status |-> status, response |-> FALSE, back |-> FALSE,
          late |-> \E u \in Review : Standing(u) /\ u \notin author[a].known]]
  /\ Answered(a)

GetReview(a, v) == Kept(v) /\ Asks(a, [op |-> "edit", id |-> v, read |-> review[v].status])

\* The status is that of the new text, whatever an administrator had made of the review.
UpdateReview(a) ==
  /\ author[a].op = "edit" /\ author[a].read # "REMOVED"
  /\ LET v == author[a].id
     IN /\ Kept(v)
        /\ \E status \in ModerateText :
             review' = [review EXCEPT ![v].status = status,
                                      ![v].back = @ \/ review[v].status = "REMOVED"]
  /\ Answered(a)

\* The answer to a review refers to it and keeps it from being deleted.
DeleteReview(a) ==
  /\ author[a].op = "edit"
  /\ LET v == author[a].id
     IN /\ Kept(v) /\ ~review[v].response
        /\ review' = [review EXCEPT ![v] = Deleted]
  /\ Answered(a)

\* Refused, or stopped.
AuthorStops(a) == author[a] # Quiet /\ Answered(a) /\ UNCHANGED review

-----------------------------------------------------------------------------
(* Administrators and the provider *)

\* Approve and restore, hide and mark as spam, remove and mark as fake, penalize: from any
\* status.  What was read goes to the audit log only.
Moderate(v) ==
  /\ Kept(v)
  /\ \E status \in {"PUBLISHED", "HIDDEN", "REMOVED", "PENALIZED"} :
       review' = [review EXCEPT ![v].status = status,
                    ![v].back = @ \/ (review[v].status = "REMOVED" /\ status # "REMOVED")]
  /\ UNCHANGED author

\* publicReviewWhere: what the provider can read and answer.
Visible(v) == Kept(v) /\ review[v].status \notin {"HIDDEN", "REMOVED"}

\* reviewId is unique: two answers at once leave one.
CreateResponse(v) ==
  /\ Visible(v) /\ ~review[v].response
  /\ review' = [review EXCEPT ![v].response = TRUE]
  /\ UNCHANGED author

DeleteResponse(v) ==
  /\ Visible(v) /\ review[v].response
  /\ review' = [review EXCEPT ![v].response = FALSE]
  /\ UNCHANGED author

ReviewsInit == review = [v \in Review |-> NoReview] /\ author = [a \in Author |-> Quiet]

ReviewsNext ==
  \/ \E v \in Review : Moderate(v) \/ CreateResponse(v) \/ DeleteResponse(v)
  \/ \E a \in Author : \/ SubmitReview(a) \/ UpdateReview(a) \/ DeleteReview(a)
                       \/ AuthorStops(a)
                       \/ \E v \in Review : CreateReview(a, v) \/ GetReview(a, v)

ReviewsSpec == ReviewsInit /\ [][ReviewsNext]_reviewVars

-----------------------------------------------------------------------------
\* The rows and the requests have the shape the code gives them.
ReviewsTypeOK ==
  /\ review \in [Review -> ReviewRow \cup {NoReview, Deleted}]
  /\ author \in [Author -> {Quiet} \cup [op : {"submit"}, known : SUBSET Review]
                           \cup [op : {"edit"}, id : Review, read : ReviewStatus]]

\* "You have already reviewed this provider order": an order has one review that is not
\* removed, unless two submissions overlapped or a removed review came back beside the one
\* written in its place.
OneReview ==
  \A u, v \in Review : u # v /\ Standing(u) /\ Standing(v) =>
    \/ review[u].late \/ review[v].late
    \/ review[u].back \/ review[v].back

=============================================================================
