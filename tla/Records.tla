-------------------------------- MODULE Records -------------------------------
(***************************************************************************)
(* Favorites, reviews and categories: requests that look whether a write   *)
(* is allowed and then write, with a constraint of the database to catch   *)
(* what happens in between.  One customer and one provider: the favorite,  *)
(* a booking and its review, a service and the category it is in.          *)
(***************************************************************************)
EXTENDS Integers, FiniteSets

CONSTANTS Clients,       \* requests the server may be working on
          MaxReviews     \* reviews are created up to this many

VARIABLES recFavorite,   \* is the provider a favorite?
          recBooking,    \* the booking's status, or "deleted"
          recReview,     \* the id of the review: {}, or {id}
          recReviews,    \* ids given so far
          recCategory,   \* is the category there?
          recService,    \* is the service there, and in the category?
          recCall,       \* how far each request has come
          recLapsed      \* was the review written for a booking no longer COMPLETED?

recVars == <<recFavorite, recBooking, recReview, recReviews, recCategory, recService, recCall, recLapsed>>

-----------------------------------------------------------------------------

\* answer: "notFound" is a 404, "invalid" a 400, "conflict" a 409, "error" a 500
\* that the service did not foresee.  review: the id the request is about.
\* passed: its check found all it asks for; raced: and another has undone that;
\* unchecked: its write was bound to fail for what the check does not ask;
\* unnotified: its notification could not be written.
NoRequest == [op |-> "none", stage |-> "idle", review |-> {}, passed |-> FALSE, raced |-> FALSE,
              unchecked |-> FALSE, unnotified |-> FALSE, answer |-> "none"]

\* What no check asks: whether a service has the name already, or the category
\* to delete is there.
Unchecked(op) == (op = "createService" /\ recService) \/ (op = "deleteCategory" /\ ~recCategory)

Checked(c, request) ==
    /\ recCall[c].stage \in {"idle", "answered"}
    /\ recCall' = [recCall EXCEPT ![c] = request]
    /\ UNCHANGED <<recFavorite, recBooking, recReview, recReviews, recCategory, recService, recLapsed>>

\* The request has found all it asks for, and goes on to write.
Passes(c, op) == Checked(c, [NoRequest EXCEPT !.op = op, !.stage = "checked", !.review = recReview,
                                              !.passed = TRUE, !.unchecked = Unchecked(op)])

\* Its check is what it is answered by.
IsAnswered(c, op, answer) == Checked(c, [NoRequest EXCEPT !.op = op, !.stage = "answered", !.answer = answer])

\* The calls after a write that undoes what others of these operations checked.
Spoiled(ops) == [c \in Clients |-> IF recCall[c].stage = "checked" /\ recCall[c].op \in ops
                                  THEN [recCall[c] EXCEPT !.raced = TRUE] ELSE recCall[c]]

Writing(c, op) == recCall[c].stage = "checked" /\ recCall[c].op = op

AnsweredBy(c, answer) == [recCall[c] EXCEPT !.stage = "answered", !.answer = answer]

\* The write succeeds, and spoils the checks of the others.
Succeeds(c, ops) == recCall' = [Spoiled(ops) EXCEPT ![c] = AnsweredBy(c, "ok")]

\* A constraint refuses it.
IsRefused(c, answer) ==
    /\ recCall' = [recCall EXCEPT ![c] = AnsweredBy(c, answer)]
    /\ UNCHANGED <<recFavorite, recBooking, recReview, recReviews, recCategory, recService, recLapsed>>

-----------------------------------------------------------------------------
(* favorite.service.js                                                     *)

\* Mutant of CheckFavorite: nobody looks for the one that is there.
CheckNothing(c) == Passes(c, "addFavorite")

\* One that is there already is the answer.
CheckFavorite(c) ==
    \/ recFavorite /\ IsAnswered(c, "addFavorite", "ok")
    \/ ~recFavorite /\ Passes(c, "addFavorite")

AddFavorite(c) ==
    /\ Writing(c, "addFavorite") /\ ~recFavorite
    /\ recFavorite' = TRUE
    /\ Succeeds(c, {"addFavorite"})
    /\ UNCHANGED <<recBooking, recReview, recReviews, recCategory, recService, recLapsed>>

\* P2002 is not looked for here.
AddFavoriteAgain(c) == Writing(c, "addFavorite") /\ recFavorite /\ IsRefused(c, "error")

RemoveFavorite ==
    /\ recFavorite /\ recFavorite' = FALSE
    /\ UNCHANGED <<recBooking, recReview, recReviews, recCategory, recService, recCall, recLapsed>>

-----------------------------------------------------------------------------
(* review.service.js                                                       *)

\* Mutant of CheckReview: any booking may be reviewed.
CheckReviewAny(c) ==
    /\ recBooking # "deleted" /\ recReview = {}
    /\ Passes(c, "createReview")

CheckReview(c) ==
    \/ recBooking = "deleted" /\ IsAnswered(c, "createReview", "notFound")
    \/ recBooking \notin {"deleted", "COMPLETED"} /\ IsAnswered(c, "createReview", "invalid")
    \/ recBooking = "COMPLETED" /\ recReview # {} /\ IsAnswered(c, "createReview", "conflict")
    \/ recBooking = "COMPLETED" /\ recReview = {} /\ Passes(c, "createReview")

CreateReview(c) ==
    /\ Writing(c, "createReview") /\ recReview = {} /\ recBooking # "deleted" /\ recReviews < MaxReviews
    /\ recReviews' = recReviews + 1
    /\ recReview' = {recReviews + 1}
    /\ recLapsed' = recCall[c].raced
    /\ recCall' = [Spoiled({"createReview"}) EXCEPT ![c] = [recCall[c] EXCEPT !.stage = "notifying"]]
    /\ UNCHANGED <<recFavorite, recBooking, recCategory, recService>>

\* The unique index on bookingId, and the foreign key.
CreateReviewAgain(c) == Writing(c, "createReview") /\ recReview # {} /\ IsRefused(c, "conflict")

CreateReviewForNothing(c) == Writing(c, "createReview") /\ recBooking = "deleted" /\ IsRefused(c, "error")

\* The notification is written in the same try: its error is the answer.
NotifyProvider(c, written) ==
    /\ recCall[c].stage = "notifying"
    /\ recCall' = [recCall EXCEPT ![c] = [AnsweredBy(c, IF written THEN "ok" ELSE "error")
                                          EXCEPT !.unnotified = ~written]]
    /\ UNCHANGED <<recFavorite, recBooking, recReview, recReviews, recCategory, recService, recLapsed>>

\* A review that is there, or one that has been.
CheckOwnReview(c) ==
    \/ recReview # {} /\ Passes(c, "deleteReview")
    \/ recReviews > Cardinality(recReview) /\ IsAnswered(c, "deleteReview", "notFound")

DeleteReview(c) ==
    /\ Writing(c, "deleteReview") /\ recReview = recCall[c].review
    /\ recReview' = {} /\ recLapsed' = FALSE
    /\ Succeeds(c, {"deleteReview"})
    /\ UNCHANGED <<recFavorite, recBooking, recReviews, recCategory, recService>>

DeleteReviewAgain(c) ==
    /\ Writing(c, "deleteReview") /\ recReview # recCall[c].review
    /\ IsRefused(c, "error")

\* A booking can be completed, leave COMPLETED by a stale write (BookingLedger
\* has how), or be deleted, which leaves its review without one.
BookingChanges(status) ==
    /\ recBooking # "deleted" /\ status # recBooking
    /\ recBooking' = status
    /\ recCall' = IF status = "COMPLETED" THEN recCall ELSE Spoiled({"createReview"})
    /\ recLapsed' = (recLapsed \/ (recReview # {} /\ status # "COMPLETED"))
    /\ UNCHANGED <<recFavorite, recReview, recReviews, recCategory, recService>>

-----------------------------------------------------------------------------
(* category.service.js, and the services that are in a category            *)

\* The services in it are counted; of one that is gone there are none.
CheckUnused(c) ==
    \/ recService /\ IsAnswered(c, "deleteCategory", "conflict")
    \/ ~recService /\ Passes(c, "deleteCategory")

DeleteCategory(c) ==
    /\ Writing(c, "deleteCategory") /\ recCategory /\ ~recService
    /\ recCategory' = FALSE
    /\ Succeeds(c, {"deleteCategory", "createService"})
    /\ UNCHANGED <<recFavorite, recBooking, recReview, recReviews, recService, recLapsed>>

\* The foreign key of a service, or nothing left to delete.
DeleteCategoryFails(c) ==
    /\ Writing(c, "deleteCategory") /\ (recService \/ ~recCategory)
    /\ IsRefused(c, "error")

CheckCategory(c) ==
    \/ ~recCategory /\ IsAnswered(c, "createService", "notFound")
    \/ recCategory /\ Passes(c, "createService")

CreateService(c) ==
    /\ Writing(c, "createService") /\ recCategory /\ ~recService
    /\ recService' = TRUE
    /\ Succeeds(c, {"deleteCategory", "createService"})
    /\ UNCHANGED <<recFavorite, recBooking, recReview, recReviews, recCategory, recLapsed>>

\* A service of that name is there: P2002, which is foreseen.
CreateServiceAgain(c) == Writing(c, "createService") /\ recService /\ IsRefused(c, "conflict")

CreateServiceNowhere(c) == Writing(c, "createService") /\ ~recCategory /\ IsRefused(c, "error")

DeleteService ==
    /\ recService /\ recService' = FALSE
    /\ UNCHANGED <<recFavorite, recBooking, recReview, recReviews, recCategory, recCall, recLapsed>>

-----------------------------------------------------------------------------

RecordsInit ==
    /\ recFavorite = FALSE /\ recBooking = "CONFIRMED" /\ recReview = {} /\ recReviews = 0
    /\ recCategory = TRUE /\ recService = FALSE
    /\ recCall = [c \in Clients |-> NoRequest] /\ recLapsed = FALSE

RecordsNext ==
    \/ \E c \in Clients :
          \/ CheckFavorite(c) \/ AddFavorite(c) \/ AddFavoriteAgain(c)
          \/ CheckReview(c) \/ CreateReview(c) \/ CreateReviewAgain(c) \/ CreateReviewForNothing(c)
          \/ \E written \in BOOLEAN : NotifyProvider(c, written)
          \/ CheckOwnReview(c) \/ DeleteReview(c) \/ DeleteReviewAgain(c)
          \/ CheckUnused(c) \/ DeleteCategory(c) \/ DeleteCategoryFails(c)
          \/ CheckCategory(c) \/ CreateService(c) \/ CreateServiceAgain(c) \/ CreateServiceNowhere(c)
    \/ RemoveFavorite \/ DeleteService
    \/ \E status \in {"CONFIRMED", "COMPLETED", "CANCELLED", "deleted"} : BookingChanges(status)

RecordsSpec == RecordsInit /\ [][RecordsNext]_recVars

-----------------------------------------------------------------------------
(* Properties.                                                             *)

\* A request whose check has passed is answered by a 409, or an error that the
\* service did not foresee, only if another request or a change of the booking
\* came between the check and the write, if its review was written and the
\* notification was not, or if the write was bound to fail for what the check
\* leaves out: a second service of the name, a category deleted before.  The
\* other refusals, 409s included, are the check's own.
ErrorsComeOfRaces ==
    \A c \in Clients :
        recCall[c].passed /\ recCall[c].answer \in {"error", "conflict"}
        => recCall[c].raced \/ recCall[c].unnotified \/ recCall[c].unchecked

\* A booking has one review at most, and was COMPLETED if it has, unless it
\* changed between the check and the insert, or since.
ReviewsAreOfCompletedBookings ==
    /\ Cardinality(recReview) <= 1
    /\ recReview # {} /\ ~recLapsed => recBooking = "COMPLETED"

=============================================================================
