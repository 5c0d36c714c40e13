---------------------------- MODULE Announcements ----------------------------
(***************************************************************************)
(* What the controllers do after an operation has committed and been       *)
(* answered: announce it over Socket.IO, write the notification and the    *)
(* audit record, each step guarded so that one failing spares the rest     *)
(* (a queue request puts everything into a single guard).  And one open    *)
(* web screen, of a kind that hears of changes by such announcements.      *)
(***************************************************************************)
EXTENDS Integers, SequencesExt, QueryCache

CONSTANTS Requests,      \* operations the server may be working on
          MaxChanges     \* operations are explored up to this many

VARIABLES annScreen,     \* the kind of screen
          annVersion,    \* changes to what it shows
          annOps,        \* operations so far
          annRequest,    \* what each request has yet to do
          annOnline,     \* is its socket connected?
          annChannel,    \* announcements on their way to it
          annCache,      \* its query
          annEmitted,    \* the newest version announced to it
          annHeard,      \* the newest version an announcement brought it
          annAudit,      \* audit records owed, written and lost
          annCauses      \* why it may be out of date

annVars == <<annScreen, annVersion, annOps, annRequest, annOnline, annChannel, annCache,
             annEmitted, annHeard, annAudit, annCauses>>

-----------------------------------------------------------------------------
(* The operations and what follows each.                                   *)

\* The screens, by the query they show and, for bookings, by who looks.
Screens == {"customerBookings", "providerBookings", "availability", "providers", "fuel", "finance"}

BookingScreens == {"customerBookings", "providerBookings"}

Announce(screens) == [kind |-> "announce", screens |-> screens]
Broadcast == [kind |-> "broadcast", screens |-> {}]   \* the queue's snapshot: QueueScreen
Notify == [kind |-> "notify", screens |-> {}]
Audit  == [kind |-> "audit", screens |-> {}]

\* Mutant of StatusChanged: the booking route leaves the provider's room out.
StatusChangedToCustomer == Announce({"customerBookings"})

\* booking:status_changed goes to the customer's room, on the booking route to
\* the provider's as well; the other announcements go to everyone.
StatusChanged        == Announce(BookingScreens)
StatusChangedByQueue == Announce({"customerBookings"})
AvailabilityChanged  == Announce({"availability"})
ProviderStatus       == Announce({"providers"})
FuelUpdated          == Announce({"fuel"})
FinanceUpdated       == Announce({"finance"})

\* changes: the screens that show something else once it has committed;
\* after: the steps that follow the answer; guarded: does each have a guard?
Op(changes, after)      == [changes |-> changes, after |-> after, guarded |-> TRUE]
QueueOp(changes, after) == [changes |-> changes, after |-> after, guarded |-> FALSE]

\* booking.controller.js.  A status change by an admin is audited; whoever
\* completes a booking has the provider's finance announced as well.
BookingOperations ==
    LET everyBooking == BookingScreens \cup {"availability"}
    IN  [ createBooking       |-> Op(everyBooking, <<Notify, AvailabilityChanged>>),
          updateStatus        |-> Op(everyBooking, <<StatusChanged, AvailabilityChanged, Notify>>),
          updateStatusByAdmin |-> Op(everyBooking, <<StatusChanged, AvailabilityChanged, Notify, Audit>>),
          completeBooking     |-> Op(everyBooking \cup {"finance"},
                                     <<StatusChanged, AvailabilityChanged, FinanceUpdated, Notify>>),
          completeBookingByAdmin |->
              Op(everyBooking \cup {"finance"},
                 <<StatusChanged, AvailabilityChanged, FinanceUpdated, Notify, Audit>>),
          deleteBooking       |-> Op(everyBooking, <<>>) ]

\* queue.controller.js, for entries that have a booking: the others change
\* none of these screens.
QueueOperations ==
    [ enqueueBooking  |-> QueueOp(BookingScreens, <<Broadcast, StatusChangedByQueue, Notify>>),
      removeFromQueue |-> QueueOp(BookingScreens \cup {"availability"}, <<Broadcast, StatusChangedByQueue, Notify>>),
      completeInQueue |-> QueueOp(BookingScreens \cup {"availability", "finance"},
                                  <<Broadcast, StatusChangedByQueue, Notify, FinanceUpdated>>) ]

\* provider.controller.js.  updateMe announces a change to isOpen or to the
\* wait (here updateMe), and no other (describeMe: a name, an address).
ProviderOperations ==
    [ approve         |-> Op({"providers", "availability"}, <<>>),
      setApproval     |-> Op({"providers", "availability"}, <<ProviderStatus, Notify, Audit>>),
      updateMe        |-> Op({"providers"}, <<ProviderStatus>>),
      describeMe      |-> Op({"providers"}, <<>>),
      deactivateMe    |-> Op({"providers"}, <<>>),
      changeMyService |-> Op({"providers", "availability"}, <<>>),
      updateMyHours   |-> Op({"availability"}, <<>>) ]

\* admin.controller.js
AdminOperations ==
    [ updateProviderFuel       |-> Op({"fuel"}, <<FuelUpdated, Audit>>),
      settleFinanceTransaction |-> Op({"finance"}, <<FinanceUpdated, Audit>>),
      setProviderCommission    |-> Op({"finance"}, <<FinanceUpdated, Audit>>),
      updateBookingPolicy      |-> Op({"availability"}, <<Audit>>),
      updateComplaint          |-> Op({}, <<>>),
      exportBackup             |-> Op({}, <<Audit>>) ]

\* category.controller.js: a category's name is on its services in the list.
CategoryOperations == [ changeCategory |-> Op({"providers"}, <<Audit>>) ]

\* review.controller.js, for an admin: no list shows the reviews of others.
ReviewOperations == [ deleteReview |-> Op({}, <<>>) ]

Controllers == {BookingOperations, QueueOperations, ProviderOperations, AdminOperations,
                CategoryOperations, ReviewOperations}

Operation == [op \in UNION {DOMAIN c : c \in Controllers} |->
                 LET controller == CHOOSE c \in Controllers : op \in DOMAIN c IN controller[op]]

\* The operations that change a screen and tell it nothing.
Silent ==
    [ customerBookings |-> {"createBooking", "deleteBooking"},
      providerBookings |-> {"createBooking", "deleteBooking", "enqueueBooking", "removeFromQueue",
                            "completeInQueue"},
      availability     |-> {"deleteBooking", "removeFromQueue", "completeInQueue", "approve", "setApproval",
                            "changeMyService", "updateMyHours", "updateBookingPolicy"},
      providers        |-> {"approve", "describeMe", "deactivateMe", "changeMyService", "changeCategory"},
      fuel             |-> {},
      finance          |-> {} ]

\* What administrators do, they alone or they as well.
ByAdmin == {"updateStatusByAdmin", "completeBookingByAdmin", "deleteBooking", "approve", "setApproval"}
           \cup DOMAIN QueueOperations \cup DOMAIN AdminOperations \cup DOMAIN CategoryOperations
           \cup DOMAIN ReviewOperations

\* Of it, what leaves no record in the audit log.
Unaudited == {"deleteBooking", "approve", "updateComplaint", "deleteReview"} \cup DOMAIN QueueOperations

OwesAudit == ByAdmin \ Unaudited

Done == [left |-> <<>>, guarded |-> TRUE, version |-> 0]

Audited(steps) == \E i \in DOMAIN steps : steps[i] = Audit

-----------------------------------------------------------------------------
(* The server.                                                             *)

Commit(r, op) ==
    LET seen == annScreen \in Operation[op].changes
    IN  /\ annRequest[r] = Done /\ annOps < MaxChanges
        /\ annOps' = annOps + 1
        /\ annVersion' = IF seen THEN annVersion + 1 ELSE annVersion
        /\ annRequest' = [annRequest EXCEPT ![r] = [left    |-> Operation[op].after,
                                                    guarded |-> Operation[op].guarded,
                                                    version |-> annVersion']]
        /\ annAudit' = IF op \in OwesAudit THEN [annAudit EXCEPT !.owed = @ + 1] ELSE annAudit
        /\ annCauses' = IF op \in Silent[annScreen] THEN Blamed(annCauses, "silent") ELSE annCauses
        /\ UNCHANGED <<annScreen, annOnline, annChannel, annCache, annEmitted, annHeard>>

NextStep(r) == Head(annRequest[r].left)

\* The steps that ask the database, which may fail.
Queries == {"broadcast", "notify"}

Proceed(r) ==
    LET rest == Tail(annRequest[r].left)
    IN  annRequest' = [annRequest EXCEPT ![r] = IF rest = <<>> THEN Done ELSE [@ EXCEPT !.left = rest]]

\* notify...: emits at once; who is not connected will not hear of it.
Emit(r) ==
    /\ annRequest[r].left # <<>> /\ NextStep(r).kind = "announce"
    /\ IF annScreen \in NextStep(r).screens
       THEN /\ annChannel' = IF annOnline THEN Append(annChannel, annRequest[r].version) ELSE annChannel
            /\ annEmitted' = Max({annEmitted, annRequest[r].version})
            /\ annCauses' = IF annScreen = "providers" /\ annRequest[r].version < annEmitted
                            THEN Blamed(annCauses, "crossed") ELSE annCauses
       ELSE UNCHANGED <<annChannel, annEmitted, annCauses>>
    /\ Proceed(r)
    /\ UNCHANGED <<annScreen, annVersion, annOps, annOnline, annCache, annHeard, annAudit>>

StepSucceeds(r) ==
    /\ annRequest[r].left # <<>> /\ NextStep(r).kind \in Queries
    /\ Proceed(r)
    /\ UNCHANGED <<annScreen, annVersion, annOps, annOnline, annChannel, annCache, annEmitted,
                   annHeard, annAudit, annCauses>>

\* Mutant of StepFails: its error reaches the handler's own catch.
StepFailsAll(r) ==
    /\ annRequest[r].left # <<>> /\ NextStep(r).kind \in Queries
    /\ annRequest' = [annRequest EXCEPT ![r] = Done]
    /\ UNCHANGED <<annScreen, annVersion, annOps, annOnline, annChannel, annCache, annEmitted,
                   annHeard, annAudit, annCauses>>

\* The error stops at the nearest guard: it costs a queue request the rest.
StepFails(r) ==
    /\ annRequest[r].left # <<>> /\ NextStep(r).kind \in Queries
    /\ IF annRequest[r].guarded THEN Proceed(r) ELSE annRequest' = [annRequest EXCEPT ![r] = Done]
    /\ annCauses' = IF ~annRequest[r].guarded /\ \E i \in DOMAIN annRequest[r].left :
                                                    annScreen \in annRequest[r].left[i].screens
                    THEN Blamed(annCauses, "failed") ELSE annCauses
    /\ UNCHANGED <<annScreen, annVersion, annOps, annOnline, annChannel, annCache, annEmitted,
                   annHeard, annAudit>>

\* record() never throws: a write that fails is logged and lost.
RecordAudit(r, succeeds) ==
    /\ annRequest[r].left # <<>> /\ NextStep(r).kind = "audit"
    /\ annAudit' = IF succeeds THEN [annAudit EXCEPT !.written = @ + 1]
                               ELSE [annAudit EXCEPT !.lost = @ + 1]
    /\ Proceed(r)
    /\ UNCHANGED <<annScreen, annVersion, annOps, annOnline, annChannel, annCache, annEmitted,
                   annHeard, annCauses>>

\* What requests had yet to do is not taken up again; every socket closes.
ServerRestarts ==
    /\ annRequest' = [r \in Requests |-> Done]
    /\ annAudit' = [annAudit EXCEPT !.lost = @ + Cardinality({r \in Requests : Audited(annRequest[r].left)})]
    /\ annOnline' = FALSE /\ annChannel' = <<>>
    /\ UNCHANGED <<annScreen, annVersion, annOps, annCache, annEmitted, annHeard, annCauses>>

AnswerQuery ==
    /\ annCache.fetch = "sent"
    /\ annCache' = Answered(annCache, annVersion)
    /\ UNCHANGED <<annScreen, annVersion, annOps, annRequest, annOnline, annChannel, annEmitted,
                   annHeard, annAudit, annCauses>>

-----------------------------------------------------------------------------
(* The screen.                                                             *)

annAtRest == annChannel = <<>> /\ \A r \in Requests : annRequest[r] = Done

DeliverAnswer ==
    /\ annCache.fetch = "answered"
    /\ annCache' = Delivered(annCache)
    /\ annCauses' = IF annAtRest /\ annCache.result = {annVersion} THEN {}
                    ELSE IF annScreen = "providers" /\ \E v \in annCache.result : v < annHeard
                         THEN Blamed(annCauses, "overtaken") ELSE annCauses
    /\ UNCHANGED <<annScreen, annVersion, annOps, annRequest, annOnline, annChannel, annEmitted,
                   annHeard, annAudit>>

QueryFails ==
    /\ Fetching(annCache)
    /\ annCache' = GaveUp(annCache)
    /\ annCauses' = Blamed(annCauses, "failed")
    /\ UNCHANGED <<annScreen, annVersion, annOps, annRequest, annOnline, annChannel, annEmitted,
                   annHeard, annAudit>>

RefetchScreen ==
    /\ annCache' = Invalidated(annCache)
    /\ annCauses' = IF JoinsOlder(annCache) THEN Blamed(annCauses, "joined") ELSE annCauses

\* onProviderStatusChanged patches a list that is there with what was pushed;
\* the other handlers refetch.
Hear ==
    /\ annChannel # <<>>
    /\ IF annScreen = "providers"
       THEN /\ annCache' = IF annCache.data = {} THEN annCache ELSE WithData(annCache, Head(annChannel))
            /\ UNCHANGED annCauses
       ELSE RefetchScreen
    /\ annHeard' = Max({annHeard, Head(annChannel)})
    /\ annChannel' = Tail(annChannel)
    /\ UNCHANGED <<annScreen, annVersion, annOps, annRequest, annOnline, annEmitted, annAudit>>

GoOnline ==
    /\ ~annOnline /\ annOnline' = TRUE
    /\ RefetchScreen
    /\ UNCHANGED <<annScreen, annVersion, annOps, annRequest, annChannel, annEmitted, annHeard, annAudit>>

GoOffline ==
    /\ annOnline /\ annOnline' = FALSE
    /\ annChannel' = <<>>
    /\ UNCHANGED <<annScreen, annVersion, annOps, annRequest, annCache, annEmitted, annHeard,
                   annAudit, annCauses>>

-----------------------------------------------------------------------------

AnnouncementsStart(screen) ==
    /\ annScreen = screen /\ annVersion = 0 /\ annOps = 0
    /\ annRequest = [r \in Requests |-> Done]
    /\ annOnline = FALSE /\ annChannel = <<>> /\ annCache = Mounted
    /\ annEmitted = 0 /\ annHeard = 0
    /\ annAudit = [owed |-> 0, written |-> 0, lost |-> 0]
    /\ annCauses = {}

AnnouncementsNext ==
    \/ \E r \in Requests : \/ \E op \in DOMAIN Operation : Commit(r, op)
                           \/ Emit(r) \/ StepSucceeds(r) \/ StepFails(r)
                           \/ \E succeeds \in BOOLEAN : RecordAudit(r, succeeds)
    \/ ServerRestarts \/ AnswerQuery \/ DeliverAnswer \/ QueryFails
    \/ Hear \/ GoOnline \/ GoOffline

AnnouncementsSpec == (\E screen \in Screens : AnnouncementsStart(screen)) /\ [][AnnouncementsNext]_annVars

-----------------------------------------------------------------------------
(* Properties.                                                             *)

\* Once nothing is on its way, a connected screen shows what the database
\* has, unless an operation that announces nothing to it has changed it, a
\* request or a step of a queue request failed, the first answer was read
\* before the change that an invalidation was about, or, for the provider
\* list that is patched in place, two patches crossed each other or an answer.
AnnouncedScreenIsCurrent ==
    annAtRest /\ annOnline /\ ~Fetching(annCache) /\ annCauses = {}
    => annCache.data \subseteq {annVersion}

\* An administrative action leaves one record in the audit log, whatever else
\* fails after the answer, unless the record's own write fails or the server
\* stops; and nothing else leaves any.  The routes of Unaudited are excepted:
\* they have no such step.
OwedAuditsAreWritten ==
    /\ annAudit.written + annAudit.lost <= annAudit.owed
    /\ (\A r \in Requests : annRequest[r] = Done) => annAudit.written + annAudit.lost = annAudit.owed

=============================================================================
