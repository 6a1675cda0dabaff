------------------------------- MODULE Offers -------------------------------
(***************************************************************************)
(* One promotional offer: its provider and the administrators edit it, the *)
(* administrators approve, reject, activate and deactivate it.  Every      *)
(* request reads the row, decides on what it read, and writes later.  The  *)
(* terms (title, discount, dates) are a version number; an offer whose     *)
(* dates have not begun or are over is not told apart from one that runs.  *)
(***************************************************************************)
EXTENDS Naturals

CONSTANTS
  Editor,     \* requests that may overlap
  MaxTerms    \* bound of the model: versions of the terms

ASSUME OffersAssumption == MaxTerms \in Nat \ {0}

VARIABLES
  offer,      \* the row of promotional_offers
  editor      \* editor[e]: the row as a request has read it

offerVars == <<offer, editor>>

Approval == {"PENDING", "APPROVED", "REJECTED"}

\* seen (history): the terms an administrator wrote, or approved.  overlapped (history):
\* the approval was written by a request that had read an older row.
OfferRow == [approval : Approval, active : BOOLEAN, terms : 1 .. MaxTerms,
             seen : 0 .. MaxTerms, overlapped : BOOLEAN]
NoOffer == [approval |-> "NONE"]
NotReading == [approval |-> "NOTHING READ"]

NewOffer(approval, active) ==
  [approval |-> approval, active |-> active, terms |-> 1,
   seen |-> IF approval = "APPROVED" THEN 1 ELSE 0, overlapped |-> FALSE]

Reading(e) == editor[e] # NotReading
Done(e) == editor' = [editor EXCEPT ![e] = NotReading]

\* Since the request read the row, its approval or its terms have changed.
Stale(e) == \/ editor[e].approval # offer.approval
            \/ editor[e].terms # offer.terms

-----------------------------------------------------------------------------
\* The provider's offer waits for approval, active or not.
CreateProviderOffer ==
  /\ offer = NoOffer
  /\ \E active \in BOOLEAN : offer' = NewOffer("PENDING", active)
  /\ UNCHANGED editor

CreateAdminOffer ==
  /\ offer = NoOffer
  /\ \E approval \in Approval, active \in BOOLEAN : offer' = NewOffer(approval, active)
  /\ UNCHANGED editor

GetOffer(e) ==
  /\ offer # NoOffer /\ ~Reading(e)
  /\ editor' = [editor EXCEPT ![e] = offer]
  /\ UNCHANGED offer

\* Mutant: an edit keeps the approval, whoever makes it.
MutantApprovalAfter(e, provider, material) == editor[e].approval

\* A provider's material change of an approved offer asks for a new approval; any other
\* edit writes the approval it has read.
ApprovalAfter(e, provider, material) ==
  IF provider /\ material /\ editor[e].approval = "APPROVED" THEN "PENDING"
  ELSE editor[e].approval

\* updateOffer: isActive is written when the request names it, and the offer that results
\* is not active until it is approved.
UpdateOffer(e, provider, material) ==
  /\ Reading(e) /\ offer # NoOffer
  /\ material => offer.terms < MaxTerms
  /\ \E named, active \in BOOLEAN :
       /\ (IF named THEN active ELSE editor[e].active) => editor[e].approval = "APPROVED"
       /\ LET terms == IF material THEN offer.terms + 1 ELSE offer.terms
              written == ~provider /\ material /\ ~Stale(e)
          IN offer' = [offer EXCEPT
               !.approval = ApprovalAfter(e, provider, material),
               !.active = IF named THEN active ELSE @,
               !.terms = terms,
               !.seen = IF written THEN terms ELSE @,
               !.overlapped = Stale(e) \/ (@ /\ ~written)]
  /\ Done(e)

ApproveAction(e) ==
  /\ Reading(e) /\ offer # NoOffer /\ editor[e].approval = "PENDING"
  /\ offer' = [offer EXCEPT !.approval = "APPROVED", !.seen = editor[e].terms,
                            !.overlapped = Stale(e)]
  /\ Done(e)

RejectAction(e) ==
  /\ Reading(e) /\ offer # NoOffer /\ editor[e].approval = "PENDING"
  /\ offer' = [offer EXCEPT !.approval = "REJECTED"]
  /\ Done(e)

ActivateAction(e) ==
  /\ Reading(e) /\ offer # NoOffer /\ editor[e].approval = "APPROVED" /\ ~editor[e].active
  /\ offer' = [offer EXCEPT !.active = TRUE]
  /\ Done(e)

DeactivateAction(e) ==
  /\ Reading(e) /\ offer # NoOffer /\ editor[e].active
  /\ offer' = [offer EXCEPT !.active = FALSE]
  /\ Done(e)

\* The row goes; requests that have read it find nothing to update.
DeleteOffer(e) ==
  /\ Reading(e) /\ offer # NoOffer
  /\ offer' = NoOffer
  /\ editor' = [f \in Editor |-> NotReading]

\* The request is refused or stops.
EditorStops(e) == Reading(e) /\ Done(e) /\ UNCHANGED offer

OffersInit == offer = NoOffer /\ editor = [e \in Editor |-> NotReading]

OffersNext ==
  \/ CreateProviderOffer \/ CreateAdminOffer
  \/ \E e \in Editor :
       \/ GetOffer(e)
       \/ \E provider, material \in BOOLEAN : UpdateOffer(e, provider, material)
       \/ ApproveAction(e) \/ RejectAction(e) \/ ActivateAction(e) \/ DeactivateAction(e)
       \/ DeleteOffer(e) \/ EditorStops(e)

OffersSpec == OffersInit /\ [][OffersNext]_offerVars

-----------------------------------------------------------------------------
\* The row, and the rows the requests have read, have the shape the code gives them.
OffersTypeOK == /\ offer \in OfferRow \cup {NoOffer}
                /\ editor \in [Editor -> OfferRow \cup {NotReading}]

\* What customers are offered: activeOfferWhere, within the dates.
Live == offer # NoOffer /\ offer.approval = "APPROVED" /\ offer.active

\* Customers see only terms an administrator wrote or approved, unless the approval was
\* written by a request that had read the offer before another one changed it.
LiveOfferIsReviewed == Live => offer.seen = offer.terms \/ offer.overlapped

=============================================================================
