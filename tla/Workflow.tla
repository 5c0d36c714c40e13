------------------------------- MODULE Workflow -------------------------------
(***************************************************************************)
(* One visit to a station, a booking's or a walk-in's, and the screens it  *)
(* is run from: the web and phone screens of the provider's staff and of   *)
(* the customer.  A screen offers what the status it shows allows; it may  *)
(* show an older one, of the booking and of the queue entry apart, and a   *)
(* confirmation dialog keeps what was chosen on it.  The backend decides   *)
(* each call by the state it finds; how the calls' statements interleave   *)
(* is QueueBooking's concern.                                              *)
(***************************************************************************)
EXTENDS BookingTransitions

CONSTANT Desks  \* the open screens

VARIABLES
    deskKind,  \* which screen each is
    visit,     \* the booking's status, or "none" of a walk-in; the entry's, or "none"
    onScreen,  \* the same, as each screen shows it
    dialog,    \* the choice each screen's dialog asks to confirm
    sending,   \* the choice each screen has a request under way for
    overtaken  \* a booking was moved past its entry by a choice made on an older status

wfVars == <<deskKind, visit, onScreen, dialog, sending, overtaken>>

StaffBookingKinds == {"webBookings", "phoneBooking"}
QueueKinds        == {"webQueue", "phoneQueue"}
CustomerKinds     == {"webCustomer", "phoneCustomer"}
AnyKind           == StaffBookingKinds \cup QueueKinds \cup CustomerKinds

Role(d) == IF deskKind[d] \in CustomerKinds THEN "CUSTOMER" ELSE "PROVIDER"

-----------------------------------------------------------------------------
(* What the screens offer.                                                 *)

MoveBooking(to) == [call |-> "PATCH /bookings", to |-> to]
AddToQueue      == [call |-> "POST /queue", to |-> "WAITING"]
MoveEntry(to)   == [call |-> "PATCH /queue", to |-> to]
RemoveFromQueue == [call |-> "DELETE /queue", to |-> "none"]

NoChoice == [act |-> [call |-> "none", to |-> "none"], seen |-> "none"]

needsQueueEntry(act) == act.call \in {"PATCH /queue", "DELETE /queue"}

needsConfirmation(act) ==
    act \in {MoveBooking("REJECTED"), MoveBooking("CANCELLED"), MoveEntry("COMPLETED"), RemoveFromQueue}

\* Mutant of getProviderActions: a queued booking is removed by cancelling it.
getProviderActionsOfBookingOnly(status) ==
    CASE status = "PENDING"    -> {MoveBooking("CONFIRMED"), MoveBooking("REJECTED")}
      [] status = "CONFIRMED"  -> {MoveBooking("ARRIVED"), MoveBooking("CANCELLED")}
      [] status = "ARRIVED"    -> {AddToQueue, MoveBooking("CANCELLED")}
      [] status = "IN_QUEUE"   -> {MoveEntry("IN_SERVICE"), MoveBooking("CANCELLED")}
      [] status = "IN_SERVICE" -> {MoveEntry("COMPLETED")}
      [] OTHER                 -> {}

\* getProviderActions of the web, providerActionsFor of the phone.
getProviderActions(status) ==
    CASE status = "PENDING"    -> {MoveBooking("CONFIRMED"), MoveBooking("REJECTED")}
      [] status = "CONFIRMED"  -> {MoveBooking("ARRIVED"), MoveBooking("CANCELLED")}
      [] status = "ARRIVED"    -> {AddToQueue, MoveBooking("CANCELLED")}
      [] status = "IN_QUEUE"   -> {MoveEntry("IN_SERVICE"), RemoveFromQueue}
      [] status = "IN_SERVICE" -> {MoveEntry("COMPLETED")}
      [] OTHER                 -> {}

CUSTOMER_CANCELLABLE_STATUSES == {"PENDING", "CONFIRMED"}

\* A button that needs the entry is disabled until the entry is known.
BookingButtons(d) ==
    {act \in getProviderActions(onScreen[d].booking) :
        needsQueueEntry(act) => onScreen[d].entry # "none"}

\* The queue's screens and the dashboards' "start next".
QueueButtons(d) ==
    CASE onScreen[d].entry = "WAITING"    -> {MoveEntry("IN_SERVICE"), RemoveFromQueue}
      [] onScreen[d].entry = "IN_SERVICE" -> {MoveEntry("COMPLETED")} \cup
                                             (IF deskKind[d] = "webQueue" THEN {RemoveFromQueue} ELSE {})
      [] OTHER                            -> {}

CustomerButtons(d) ==
    {act \in {MoveBooking("CANCELLED")} : onScreen[d].booking \in CUSTOMER_CANCELLABLE_STATUSES}

Offered(d) == CASE deskKind[d] \in StaffBookingKinds -> BookingButtons(d)
                [] deskKind[d] \in QueueKinds        -> QueueButtons(d)
                [] OTHER                             -> CustomerButtons(d)

-----------------------------------------------------------------------------
(* What the backend admits and does.                                       *)

linked == visit.booking # "none"

\* updateBookingStatus inside a queue operation, for an entry with a booking.
Syncs(to, role) == linked => MayDrive(role, visit.booking, to)

\* updateBookingStatus, createFromBooking, updateQueueEntryStatus (along
\* QUEUE_TRANSITIONS), removeQueueEntry.
Admitted(act, role) ==
    CASE act.call = "PATCH /bookings" -> MayDrive(role, visit.booking, act.to)
      [] act.call = "POST /queue"     -> visit.entry = "none" /\ visit.booking = "ARRIVED"
      [] act.call = "PATCH /queue"    -> /\ <<visit.entry, act.to>> \in {<<"WAITING", "IN_SERVICE">>,
                                                                         <<"IN_SERVICE", "COMPLETED">>}
                                         /\ Syncs(act.to, role)
      [] act.call = "DELETE /queue"   -> /\ visit.entry # "none"
                                         /\ ~(linked /\ visit.entry = "IN_SERVICE")
                                         /\ visit.entry = "WAITING" => Syncs("CANCELLED", role)

\* The booking follows the entry wherever that has a status for it.
Outcome(act) ==
    CASE act.call = "PATCH /bookings" -> [visit EXCEPT !.booking = act.to]
      [] act.call = "POST /queue"     -> [booking |-> "IN_QUEUE", entry |-> "WAITING"]
      [] act.call = "PATCH /queue"    -> [booking |-> IF linked THEN act.to ELSE "none", entry |-> act.to]
      [] act.call = "DELETE /queue"   -> [booking |-> IF linked /\ visit.entry = "WAITING" THEN "CANCELLED"
                                                      ELSE visit.booking,
                                          entry   |-> "none"]

-----------------------------------------------------------------------------
(* The screens at work.                                                    *)

\* The two caches are fetched apart.
RefreshBooking(d) == /\ onScreen' = [onScreen EXCEPT ![d].booking = visit.booking]
                     /\ UNCHANGED <<deskKind, visit, dialog, sending, overtaken>>

RefreshEntry(d) == /\ onScreen' = [onScreen EXCEPT ![d].entry = visit.entry]
                   /\ UNCHANGED <<deskKind, visit, dialog, sending, overtaken>>

\* Buttons are disabled while a request is under way and covered by a dialog.
PressButton(d) ==
    /\ dialog[d] = NoChoice /\ sending[d] = NoChoice
    /\ \E act \in Offered(d) :
         LET choice == [act |-> act, seen |-> onScreen[d].booking]
         IN  IF needsConfirmation(act)
             THEN dialog' = [dialog EXCEPT ![d] = choice] /\ UNCHANGED sending
             ELSE sending' = [sending EXCEPT ![d] = choice] /\ UNCHANGED dialog
    /\ UNCHANGED <<deskKind, visit, onScreen, overtaken>>

\* The dialog of the web's BookingActions goes out of sight with the buttons,
\* and looks the entry up again, which the others have kept.
CanConfirm(d) ==
    /\ dialog[d] # NoChoice /\ sending[d] = NoChoice
    /\ deskKind[d] = "webBookings" => getProviderActions(onScreen[d].booking) # {}

FindsEntry(d) ==
    deskKind[d] = "webBookings" /\ needsQueueEntry(dialog[d].act) => onScreen[d].entry # "none"

\* A phone's dialog closes at once, the web's when the request is answered.
ConfirmChoice(d) ==
    /\ CanConfirm(d) /\ FindsEntry(d)
    /\ sending' = [sending EXCEPT ![d] = dialog[d]]
    /\ dialog' = IF deskKind[d] \in {"phoneBooking", "phoneQueue", "phoneCustomer"}
                 THEN [dialog EXCEPT ![d] = NoChoice] ELSE dialog
    /\ UNCHANGED <<deskKind, visit, onScreen, overtaken>>

\* "This booking has no queue entry yet": nothing is sent.
ConfirmInVain(d) == /\ CanConfirm(d) /\ ~FindsEntry(d)
                    /\ dialog' = [dialog EXCEPT ![d] = NoChoice]
                    /\ UNCHANGED <<deskKind, visit, onScreen, sending, overtaken>>

DismissDialog(d) == /\ dialog[d] # NoChoice
                    /\ dialog' = [dialog EXCEPT ![d] = NoChoice]
                    /\ UNCHANGED <<deskKind, visit, onScreen, sending, overtaken>>

Serve(d) == /\ sending[d] # NoChoice
            /\ Admitted(sending[d].act, Role(d))
            /\ visit' = Outcome(sending[d].act)
            /\ overtaken' = \/ overtaken
                            \/ /\ sending[d].act.call = "PATCH /bookings"
                               /\ visit.entry # "none"
                               /\ sending[d].seen # visit.booking
            /\ sending' = [sending EXCEPT ![d] = NoChoice]
            /\ dialog' = [dialog EXCEPT ![d] = NoChoice]
            /\ UNCHANGED <<deskKind, onScreen>>

\* The web's Queue page and the customer's booking page leave the dialog open.
Refuse(d) == /\ sending[d] # NoChoice
             /\ ~Admitted(sending[d].act, Role(d))
             /\ sending' = [sending EXCEPT ![d] = NoChoice]
             /\ dialog' = IF deskKind[d] = "webBookings" THEN [dialog EXCEPT ![d] = NoChoice] ELSE dialog
             /\ UNCHANGED <<deskKind, visit, onScreen, overtaken>>

WorkflowStart(kinds) ==
    /\ deskKind \in [Desks -> kinds]
    /\ visit \in {[booking |-> "PENDING", entry |-> "none"], [booking |-> "none", entry |-> "WAITING"]}
    /\ onScreen = [d \in Desks |-> visit]
    /\ dialog = [d \in Desks |-> NoChoice]
    /\ sending = [d \in Desks |-> NoChoice]
    /\ overtaken = FALSE

WorkflowNext == \E d \in Desks : \/ RefreshBooking(d) \/ RefreshEntry(d)
                                 \/ PressButton(d) \/ ConfirmChoice(d) \/ ConfirmInVain(d) \/ DismissDialog(d)
                                 \/ Serve(d) \/ Refuse(d)

WorkflowSpec == WorkflowStart(AnyKind) /\ [][WorkflowNext]_wfVars

-----------------------------------------------------------------------------

Statuses      == AllStatuses \cup {"none"}
EntryStatuses == {"WAITING", "IN_SERVICE", "COMPLETED", "none"}

Acts == [call : {"PATCH /bookings", "POST /queue", "PATCH /queue", "DELETE /queue"},
         to   : {"CONFIRMED", "REJECTED", "ARRIVED", "CANCELLED", "WAITING", "IN_SERVICE", "COMPLETED", "none"}]

Pressed == [act : Acts, seen : Statuses]

WorkflowTypeOK ==
    /\ deskKind \in [Desks -> AnyKind]
    /\ visit \in [booking : Statuses, entry : EntryStatuses]
    /\ onScreen \in [Desks -> [booking : Statuses, entry : EntryStatuses]]
    /\ dialog \in [Desks -> Pressed \cup {NoChoice}]
    /\ sending \in [Desks -> Pressed \cup {NoChoice}]
    /\ overtaken \in BOOLEAN

\* The booking route is used of a booking seen before it was queued.
SeenBeforeQueued(choice) ==
    choice.act.call = "PATCH /bookings" =>
        /\ choice.act.to \in {"CONFIRMED", "REJECTED", "ARRIVED", "CANCELLED"}
        /\ choice.seen \in {"PENDING", "CONFIRMED", "ARRIVED"}

BookingRouteIsEarly == \A d \in Desks : SeenBeforeQueued(dialog[d]) /\ SeenBeforeQueued(sending[d])

\* Booking and entry, or a walk-in's entry, as they go together.
InStep == {[booking |-> b, entry |-> "none"] : b \in Statuses \ {"IN_QUEUE", "IN_SERVICE"}}
          \cup {[booking |-> "none", entry |-> e] : e \in EntryStatuses}
          \cup {[booking |-> "IN_QUEUE",   entry |-> "WAITING"],
                [booking |-> "IN_SERVICE", entry |-> "IN_SERVICE"],
                [booking |-> "COMPLETED",  entry |-> "COMPLETED"]}

Parted == [booking |-> "CANCELLED", entry |-> "WAITING"]

VisitInStep == IF overtaken THEN visit = Parted ELSE visit \in InStep

\* The inductive invariant of the workflow screens in ClientProofs.
WorkflowInv == WorkflowTypeOK /\ BookingRouteIsEarly /\ VisitInStep

\* A screen that shows the visit as it is offers nothing the backend would
\* refuse, but for the web Queue page's Remove of a booking in service; and
\* no booking is parted from its entry but by a choice made before it was
\* queued: the staff's "Cancel", pressed or confirmed after a colleague has
\* added it to the queue.  Its entry then waits for good: no screen serves
\* or removes it.
OfferedIsAdmitted ==
    IF overtaken THEN visit = Parted
    ELSE \A d \in Desks : onScreen[d] = visit =>
             \A act \in Offered(d) :
                 \/ Admitted(act, Role(d))
                 \/ /\ deskKind[d] = "webQueue" /\ act = RemoveFromQueue
                    /\ linked /\ visit.entry = "IN_SERVICE"

=============================================================================
