---------------------------- MODULE QueueBooking ----------------------------
(***************************************************************************)
(* The waiting queue, composed with the bookings its entries are linked    *)
(* to.  A request of queue.service.js is one database transaction that     *)
(* writes queue entries and then, for a linked entry, runs                 *)
(* updateBookingStatus inside the same transaction: its booking statements *)
(* are the actions of BookingLedger.                                       *)
(*                                                                         *)
(* Queue rows follow the same rules as booking rows (see BookingLedger).   *)
(* The versions a transaction has written and not committed are its draft; *)
(* the rows it has drafted are the rows it has locked.                     *)
(***************************************************************************)
EXTENDS BookingLedger, SequencesExt

CONSTANT Entries      \* queue entry ids; the database never reuses one

ASSUME EntriesAssumption == Entries \subseteq Nat \ {0}

VARIABLES queue,      \* the QueueEntry table, committed
          qtxn        \* how far each request has come with the queue

queueVars == <<queue, qtxn>>
allVars == <<vars, queueVars>>

-----------------------------------------------------------------------------
(* Rows.                                                                   *)

QueueStatuses == {"WAITING", "IN_SERVICE", "COMPLETED", "CANCELLED"}

\* QUEUE_TRANSITIONS; every edge is open to both staff roles and only to them.
QueueEdges == { <<"WAITING",    "IN_SERVICE">>,
                <<"WAITING",    "CANCELLED">>,
                <<"IN_SERVICE", "COMPLETED">> }

QueueRow ==
    [ status   : QueueStatuses \cup {"NONE", "DELETED"},
      provider : Providers \cup {Nobody},
      booking  : Bookings \cup {Nobody},
      position : Nat ]

Blank(status) ==
    [status |-> status, provider |-> Nobody, booking |-> Nobody, position |-> 0]

NoQueueRow == Blank("NONE")

Live(row) == row.status \in QueueStatuses

Waiting(p) ==
    { e \in Entries : queue[e].status = "WAITING" /\ queue[e].provider = p }

\* The places taken by a provider's entries, whatever their status.
Places(p) == { queue[e].position : e \in { x \in Entries : queue[x].provider = p } }

\* nextPosition: one after the last place; one value, written as a set.
NextPositions(p) ==
    { last + 1 : last \in { n \in Places(p) \cup {0} : \A m \in Places(p) : m <= n } }

\* Parked positions are out of every real one's way and still positive.
SentinelOffset == 1000000000

-----------------------------------------------------------------------------
(* Requests.                                                               *)

QueuePhases ==
    { "idle",
      "arrived",    \* createFromBooking has read its ARRIVED booking
      "placed",     \* read the next position
      "found",      \* a status change or removal has read its entry
      "listed",     \* a reorder has read the entries it was given
      "parking",    \* checked them against the waiting set; parking them
      "placing",    \* parked them all
      "sync",       \* wrote the entry; its booking has to follow
      "syncing",    \* in updateBookingStatus
      "ready" }     \* every statement ran; COMMIT remains

\* slots: the places a reorder redistributes.  draft: the versions written;
\* a row not written is NoQueueRow there.
QueueTransactions ==
    [ phase : QueuePhases, entry : Entries \cup {Nobody},
      to : QueueStatuses \cup {"NONE", "IN_QUEUE", "DELETED"},
      link : Bookings \cup {Nobody}, provider : Providers \cup {Nobody},
      position : Nat, order : Seq(Entries), slots : SUBSET Nat,
      draft : [Entries -> QueueRow] ]

QIdle ==
    [ phase |-> "idle", entry |-> Nobody, to |-> "NONE", link |-> Nobody,
      provider |-> Nobody, position |-> 0, order |-> <<>>, slots |-> {},
      draft |-> [e \in Entries |-> NoQueueRow] ]

QueueTypeOK ==
    /\ queue \in [Entries -> QueueRow]
    /\ qtxn \in [Requests -> QueueTransactions]

Free(r) == qtxn[r].phase = "idle" /\ txn[r].phase = "idle"

Holds(r, e) == qtxn[r].draft[e] # NoQueueRow

HeldByOther(r, e) == \E s \in Requests \ {r} : Holds(s, e)

Draft(r, e, row) == [qtxn[r].draft EXCEPT ![e] = row]

\* Mutant of Onward: the booking is left to follow by other means.
NeverOnward(r) == "ready"

\* A request has written its one entry.  What is left to do is its booking's
\* update, if the entry has one.
Onward(r) == IF qtxn[r].link = Nobody THEN "ready" ELSE "sync"

WriteOnly(r, e, row) ==
    qtxn' = [qtxn EXCEPT ![r] =
               [QIdle EXCEPT !.phase = Onward(r),
                             !.to = qtxn[r].to,
                             !.link = qtxn[r].link,
                             !.draft = Draft(r, e, row)]]

\* Mutant of Drop: the transaction is left open, its rows locked.
DropKeepingLocks(r) ==
    /\ qtxn' = [qtxn EXCEPT ![r] = [QIdle EXCEPT !.draft = qtxn[r].draft]]
    /\ UNCHANGED queue

Drop(r) == qtxn' = [qtxn EXCEPT ![r] = QIdle] /\ UNCHANGED queue

Apply(r) ==
    /\ queue' = [e \in Entries |-> IF Holds(r, e) THEN qtxn[r].draft[e] ELSE queue[e]]
    /\ qtxn' = [qtxn EXCEPT ![r] = QIdle]

\* The whole transaction, bookings included, is rolled back.
RollbackAll(r) == Rollback(r) /\ Drop(r)

-----------------------------------------------------------------------------
(* createQueueEntry: createFromBooking and createWalkIn.                   *)

CreateFromBooking(r, b) ==
    /\ Free(r)
    /\ booking[b].status = "ARRIVED"
    /\ \A e \in Entries : queue[e].booking # b
    /\ qtxn' = [qtxn EXCEPT ![r] = [QIdle EXCEPT !.phase = "arrived", !.link = b,
                                                 !.to = "IN_QUEUE", !.provider = Owner[b]]]
    /\ UNCHANGED <<vars, queue>>

ReadPosition(r) ==
    /\ qtxn[r].phase = "arrived"
    /\ \E n \in NextPositions(qtxn[r].provider) :
          qtxn' = [qtxn EXCEPT ![r] = [@ EXCEPT !.phase = "placed", !.position = n]]
    /\ UNCHANGED <<vars, queue>>

CreateWalkIn(r, p) ==
    /\ Free(r)
    /\ \E n \in NextPositions(p) :
          qtxn' = [qtxn EXCEPT ![r] = [QIdle EXCEPT !.phase = "placed", !.provider = p,
                                                    !.position = n]]
    /\ UNCHANGED <<vars, queue>>

\* UNIQUE (providerId, position) and UNIQUE (bookingId).
Clashes(row, t) ==
    /\ Live(row)
    /\ \/ row.provider = t.provider /\ row.position = t.position
       \/ t.link # Nobody /\ row.booking = t.link

\* Request s holds a version, old or new, of a row the insert would clash
\* with, or is deleting the booking the new row would reference.
InsertWaitsFor(r, s) ==
    \/ \E e \in Entries :
          Holds(s, e) /\ (Clashes(queue[e], qtxn[r]) \/ Clashes(qtxn[s].draft[e], qtxn[r]))
    \/ \E b \in Bookings :
          b = qtxn[r].link /\ lock[b] = s /\ txn[s].phase = "deleted"

\* Mutant of CanInsert: nothing unique but the id.
CanInsertAnywhere(r) == qtxn[r].link # Nobody => Exists(booking[qtxn[r].link])

CanInsert(r) ==
    /\ \A e \in Entries : ~Clashes(queue[e], qtxn[r])
    /\ qtxn[r].link # Nobody => Exists(booking[qtxn[r].link])

InsertEntry(r, e) ==
    /\ qtxn[r].phase = "placed"
    /\ queue[e] = NoQueueRow /\ ~HeldByOther(r, e)
    /\ \A x \in Entries : x < e => queue[x] # NoQueueRow \/ HeldByOther(r, x)
    /\ \A s \in Requests \ {r} : ~InsertWaitsFor(r, s)
    /\ CanInsert(r)
    /\ WriteOnly(r, e, [status  |-> "WAITING",      provider |-> qtxn[r].provider,
                        booking |-> qtxn[r].link,   position |-> qtxn[r].position])
    /\ UNCHANGED <<vars, queue>>

\* The bound on ids: an insert that finds none unused is one that fails.
IdsUsedUp(r) == \A e \in Entries : queue[e] # NoQueueRow \/ HeldByOther(r, e)

\* A unique violation (409 "Queue position conflict, please retry") or a
\* booking deleted since it was read.
InsertFails(r) ==
    /\ qtxn[r].phase = "placed"
    /\ \A s \in Requests \ {r} : ~InsertWaitsFor(r, s)
    /\ ~CanInsert(r) \/ IdsUsedUp(r)
    /\ RollbackAll(r)

-----------------------------------------------------------------------------
(* updateQueueEntryStatus and removeQueueEntry.                            *)

FindEntry(r, e, to) ==
    /\ Free(r)
    /\ <<queue[e].status, to>> \in QueueEdges
    /\ qtxn' = [qtxn EXCEPT ![r] = [QIdle EXCEPT !.phase = "found", !.entry = e, !.to = to,
                                                 !.link = queue[e].booking]]
    /\ UNCHANGED <<vars, queue>>

FindEntryToRemove(r, e) ==
    /\ Free(r)
    /\ Live(queue[e])
    /\ ~(queue[e].booking # Nobody /\ queue[e].status = "IN_SERVICE")
    /\ qtxn' = [qtxn EXCEPT ![r] =
                  [QIdle EXCEPT !.phase = "found", !.entry = e, !.to = "DELETED",
                                !.link = IF queue[e].status = "WAITING"
                                         THEN queue[e].booking ELSE Nobody]]
    /\ UNCHANGED <<vars, queue>>

\* queueEntry.update or queueEntry.delete by id, with no predicate on the
\* status just read.
WriteEntry(r) ==
    LET e == qtxn[r].entry
    IN  /\ qtxn[r].phase = "found"
        /\ ~HeldByOther(r, e)
        /\ Live(queue[e])
        /\ WriteOnly(r, e, IF qtxn[r].to = "DELETED"
                           THEN Blank("DELETED")
                           ELSE [queue[e] EXCEPT !.status = qtxn[r].to])
        /\ UNCHANGED <<vars, queue>>

\* The row is gone (P2025).
WriteEntryFails(r) ==
    /\ qtxn[r].phase = "found"
    /\ ~HeldByOther(r, qtxn[r].entry)
    /\ ~Live(queue[qtxn[r].entry])
    /\ RollbackAll(r)

\* BOOKING_SYNC maps each queue status to the booking status of the same
\* name; removing a waiting entry cancels its booking.
SyncStatus(to) == IF to = "DELETED" THEN "CANCELLED" ELSE to

\* Mutant of SyncBooking: writes the booking's status without the edge check.
SyncUnchecked(r) ==
    /\ qtxn[r].phase = "sync"
    /\ Exists(booking[qtxn[r].link])
    /\ txn' = [txn EXCEPT ![r] = Busy("found", qtxn[r].link, SyncStatus(qtxn[r].to))]
    /\ qtxn' = [qtxn EXCEPT ![r] =
                  [QIdle EXCEPT !.phase = "syncing", !.draft = qtxn[r].draft]]
    /\ UNCHANGED <<booking, ledger, commissionRate, lock, queue>>

\* updateBookingStatus reads the booking afresh and checks the edge from the
\* status it then has.  Which staff role is calling decides nothing here.
SyncBooking(r) ==
    /\ qtxn[r].phase = "sync"
    /\ \E role \in Staff : FindBooking(r, qtxn[r].link, SyncStatus(qtxn[r].to), role)
    /\ qtxn' = [qtxn EXCEPT ![r] =
                  [QIdle EXCEPT !.phase = "syncing", !.draft = qtxn[r].draft]]
    /\ UNCHANGED queue

\* Mutant of SyncRefused: the error is caught and the entry committed.
SyncRefusalIgnored(r) ==
    /\ qtxn[r].phase = "sync"
    /\ LET row == booking[qtxn[r].link]
       IN  \A role \in Staff :
              ~(Exists(row) /\ MayDrive(role, row.status, SyncStatus(qtxn[r].to)))
    /\ Apply(r)
    /\ UNCHANGED vars

SyncRefused(r) ==
    /\ qtxn[r].phase = "sync"
    /\ LET row == booking[qtxn[r].link]
       IN  \A role \in Staff :
              ~(Exists(row) /\ MayDrive(role, row.status, SyncStatus(qtxn[r].to)))
    /\ RollbackAll(r)

-----------------------------------------------------------------------------
(* reorderQueue.                                                           *)

\* The first read: the ids are distinct, exist, belong to one provider and wait.
FindEntries(r, p, order) ==
    /\ Free(r)
    /\ IsInjective(order)
    /\ ToSet(order) \subseteq Waiting(p)
    /\ qtxn' = [qtxn EXCEPT ![r] =
                  [QIdle EXCEPT !.phase = "listed", !.provider = p, !.order = order,
                                !.slots = {queue[e].position : e \in ToSet(order)}]]
    /\ UNCHANGED <<vars, queue>>

\* The second read: they are all the waiting entries, or the call is refused.
CheckWaiting(r) ==
    /\ qtxn[r].phase = "listed"
    /\ IF ToSet(qtxn[r].order) = Waiting(qtxn[r].provider)
       THEN qtxn' = [qtxn EXCEPT ![r].phase = "parking"] /\ UNCHANGED <<vars, queue>>
       ELSE RollbackAll(r)

\* Phase one moves the rows, in the caller's order, to sentinel positions.
Parked(r) == { e \in Entries : Holds(r, e) }

NextToPark(r) == qtxn[r].order[Cardinality(Parked(r)) + 1]

\* Mutant of ParkEntry: commits after phase one.
ParkOnly(r) ==
    /\ qtxn[r].phase = "parking"
    /\ LET e == NextToPark(r)
       IN  /\ ~HeldByOther(r, e)
           /\ Live(queue[e])
           /\ qtxn' = [qtxn EXCEPT ![r] =
                 [@ EXCEPT !.phase = IF Cardinality(Parked(r)) + 1 = Len(qtxn[r].order)
                                     THEN "ready" ELSE "parking",
                           !.draft = Draft(r, e, [queue[e] EXCEPT
                                                    !.position = SentinelOffset + e])]]
    /\ UNCHANGED <<vars, queue>>

ParkEntry(r) ==
    /\ qtxn[r].phase = "parking"
    /\ LET e == NextToPark(r)
       IN  /\ ~HeldByOther(r, e)
           /\ Live(queue[e])
           /\ qtxn' = [qtxn EXCEPT ![r] =
                 [@ EXCEPT !.phase = IF Cardinality(Parked(r)) + 1 = Len(qtxn[r].order)
                                     THEN "placing" ELSE "parking",
                           !.draft = Draft(r, e, [queue[e] EXCEPT
                                                    !.position = SentinelOffset + e])]]
    /\ UNCHANGED <<vars, queue>>

ParkFails(r) ==
    /\ qtxn[r].phase = "parking"
    /\ ~HeldByOther(r, NextToPark(r))
    /\ ~Live(queue[NextToPark(r)])
    /\ RollbackAll(r)

\* Phase two gives them the places read at the start, in order: the i-th id
\* the i-th smallest.  Every row is locked by now, so its statements are one
\* step here.
Occupies(row, t) ==
    Live(row) /\ row.provider = t.provider /\ row.position \in t.slots

PlacingWaitsFor(r, s) ==
    \E e \in Entries :
        Holds(s, e) /\ (Occupies(queue[e], qtxn[r]) \/ Occupies(qtxn[s].draft[e], qtxn[r]))

SlotsFree(r) ==
    \A e \in Entries : Occupies(queue[e], qtxn[r]) => Holds(r, e)

InOrder(place, order) ==
    \A i, j \in DOMAIN order : i < j => place[order[i]] < place[order[j]]

PlaceEntries(r) ==
    /\ qtxn[r].phase = "placing"
    /\ \A s \in Requests \ {r} : ~PlacingWaitsFor(r, s)
    /\ SlotsFree(r)
    /\ \E place \in [Parked(r) -> qtxn[r].slots] :
          /\ InOrder(place, qtxn[r].order)
          /\ qtxn' = [qtxn EXCEPT ![r] =
                        [QIdle EXCEPT !.phase = "ready",
                                      !.draft = [e \in Entries |->
                                          IF e \in Parked(r)
                                          THEN [qtxn[r].draft[e] EXCEPT !.position = place[e]]
                                          ELSE NoQueueRow]]]
    /\ UNCHANGED <<vars, queue>>

PlaceFails(r) ==
    /\ qtxn[r].phase = "placing"
    /\ \A s \in Requests \ {r} : ~PlacingWaitsFor(r, s)
    /\ ~SlotsFree(r)
    /\ RollbackAll(r)

-----------------------------------------------------------------------------
(* Bookings, as the direct calls and the queue's requests work on them.    *)

DirectCall(r) == Free(r) /\ Call(r) /\ UNCHANGED queueVars

\* The statements of updateBookingStatus; when one fails, so does the queue
\* request it runs in.
BookingStatement(r) ==
    /\ \/ UpdateBooking(r)
       \/ UpdateFails(r)
       \/ FindLedgerRow(r)
       \/ SplitPrice(r)
       \/ CreateLedgerRow(r)
    /\ IF txn'[r] = Idle THEN Drop(r) ELSE UNCHANGED queueVars

\* COMMIT, of a direct call or of a queue request with its booking's update.
CommitBoth(r) == CommitUpdate(r) /\ Apply(r)

\* COMMIT of a queue request that wrote no booking.
CommitQueue(r) == qtxn[r].phase = "ready" /\ Apply(r) /\ UNCHANGED vars

\* Request s has inserted an entry linked to booking b: its foreign key check
\* holds FOR KEY SHARE on b, which an UPDATE of b does not mind and a DELETE
\* waits for.
KeyShared(s, b) ==
    \E e \in Entries : queue[e] = NoQueueRow /\ qtxn[s].draft[e].booking = b

StartDelete(r) ==
    /\ \A s \in Requests \ {r} : ~KeyShared(s, txn[r].booking)
    /\ DeleteBooking(r) \/ DeleteFails(r)
    /\ UNCHANGED queueVars

\* The DELETE's trigger unlinks the booking's entry (ON DELETE SET NULL), for
\* which it needs the entry's row lock; then it commits.
LinkedTo(b) == { e \in Entries : queue[e].booking = b }

\* Mutant of CommitDeletion: the entry keeps its link.
CommitDeletionOnly(r) == CommitDelete(r) /\ UNCHANGED queueVars

CommitDeletion(r) ==
    /\ \A e \in LinkedTo(txn[r].booking) : ~HeldByOther(r, e)
    /\ CommitDelete(r)
    /\ queue' = [e \in Entries |-> IF e \in LinkedTo(txn[r].booking)
                                   THEN [queue[e] EXCEPT !.booking = Nobody]
                                   ELSE queue[e]]
    /\ UNCHANGED qtxn

Settle(r) == (\E admin \in Admins : SettleTransaction(r, admin)) /\ UNCHANGED queueVars

QueueAbort(r) == ~Free(r) /\ RollbackAll(r)

-----------------------------------------------------------------------------
(* The composition.                                                        *)

QueueInit ==
    /\ Init
    /\ queue = [e \in Entries |-> NoQueueRow]
    /\ qtxn = [r \in Requests |-> QIdle]

QueueCall(r) ==
    \/ \E b \in Bookings : CreateFromBooking(r, b)
    \/ \E p \in Providers : CreateWalkIn(r, p)
    \/ \E e \in Entries, to \in QueueStatuses : FindEntry(r, e, to)
    \/ \E e \in Entries : FindEntryToRemove(r, e)
    \/ \E p \in Providers : \E n \in 1..Cardinality(Waiting(p)) :
          \E order \in [1..n -> Entries] : FindEntries(r, p, order)

QueueStep(r) ==
    \/ ReadPosition(r)
    \/ \E e \in Entries : InsertEntry(r, e)
    \/ InsertFails(r)
    \/ WriteEntry(r)
    \/ WriteEntryFails(r)
    \/ SyncBooking(r)
    \/ SyncRefused(r)
    \/ CheckWaiting(r)
    \/ ParkEntry(r)
    \/ ParkFails(r)
    \/ PlaceEntries(r)
    \/ PlaceFails(r)
    \/ BookingStatement(r)
    \/ CommitBoth(r)
    \/ CommitQueue(r)
    \/ StartDelete(r)
    \/ CommitDeletion(r)
    \/ Settle(r)

QueueNext ==
    \/ (\E b \in Bookings : CreateBooking(b)) /\ UNCHANGED queueVars
    \/ (\E p \in Providers, rate \in Rates : SetProviderCommission(p, rate))
          /\ UNCHANGED queueVars
    \/ \E r \in Requests : DirectCall(r) \/ QueueCall(r) \/ QueueStep(r) \/ QueueAbort(r)

QueueSpec == QueueInit /\ [][QueueNext]_allVars

-----------------------------------------------------------------------------
(* Deadlock and fairness.  Every statement the server has started on is    *)
(* eventually run; PostgreSQL queues the waiters of a row lock, so one     *)
(* that keeps getting free is eventually had; and it aborts one of a set   *)
(* of transactions that wait for each other.  Nothing obliges anyone to    *)
(* call, or a request to abort otherwise.                                  *)

WaitsFor(r, s) ==
    /\ r # s
    /\ \/ qtxn[r].phase = "placed" /\ InsertWaitsFor(r, s)
       \/ qtxn[r].phase = "found" /\ Holds(s, qtxn[r].entry)
       \/ qtxn[r].phase = "parking" /\ Holds(s, NextToPark(r))
       \/ qtxn[r].phase = "placing" /\ PlacingWaitsFor(r, s)
       \/ txn[r].phase = "found" /\ lock[txn[r].booking] = s
       \/ Deleting(r) /\ (lock[txn[r].booking] = s \/ KeyShared(s, txn[r].booking))
       \/ txn[r].phase = "deleted" /\ \E e \in LinkedTo(txn[r].booking) : Holds(s, e)

Deadlocked(S) == S # {} /\ \A r \in S : \E s \in S : WaitsFor(r, s)

DeadlockVictim ==
    \E S \in SUBSET Requests : Deadlocked(S) /\ \E r \in S : RollbackAll(r)

QueueFairness ==
    /\ \A r \in Requests : SF_allVars(QueueStep(r))
    /\ WF_allVars(DeadlockVictim)

QueueFairSpec == QueueSpec /\ QueueFairness

-----------------------------------------------------------------------------
(* Properties.                                                             *)

\* A provider's entries stand in distinct places, and a booking has at most
\* one entry, whatever inserts, removals and reorders cross: nextPosition is
\* read before the insert, a reorder's places before its writes.
PlacesAreUnique ==
    \A e, x \in Entries :
        (e # x /\ Live(queue[e]) /\ Live(queue[x])) =>
            /\ queue[e].provider = queue[x].provider => queue[e].position # queue[x].position
            /\ queue[e].booking # Nobody => queue[e].booking # queue[x].booking

\* No committed entry is left at a parked position: reorderQueue's second
\* phase reaches every row its first phase moved, or neither does.
NobodyIsParked ==
    \A e \in Entries : queue[e].position < SentinelOffset

\* An entry's booking exists: a booking deleted while its entry is being
\* created, moved or removed unlinks it.
LinksResolve ==
    \A e \in Entries : queue[e].booking # Nobody => Exists(booking[queue[e].booking])

\* Completing a booking's queue entry charges for it: the entry's COMPLETED
\* and the booking's ledger row are committed together.
CompletedEntryIsAccounted ==
    \A e \in Entries :
        (queue[e].status = "COMPLETED" /\ queue[e].booking # Nobody)
            => InLedger(queue[e].booking)

\* "rather than leaving Queue and Booking disagreeing": the step that commits
\* a linked entry's new status, or removes it while it waits, commits the
\* status that goes with it to the booking.
EntriesMoveWithBookings ==
    \A e \in Entries :
       LET b == queue[e].booking
           to == queue'[e].status
       IN  ( b # Nobody /\ queue[e].status # to
             /\ (to = "DELETED" => queue[e].status = "WAITING") )
           => booking'[b].status = SyncStatus(to)

\* Every step commits them together (updateBookingStatus inside the transaction of
\* updateQueueEntryStatus and removeQueueEntry).
QueueMovesWithBooking == [][EntriesMoveWithBookings]_allVars

\* The queue's requests work on bookings and the ledger as direct calls do:
\* composed with the queue, BookingLedger is still what its own module says.
ImplementsBookingLedger == Spec

\* Every request ends, deadlocks and all.
EveryCallEnds == \A r \in Requests : ~Free(r) ~> Free(r)

-----------------------------------------------------------------------------
(* What the code's comments and messages say and the code does not keep.   *)

\* "Queue and Booking disagreeing about reality": a waiting entry's booking is
\* IN_QUEUE, an entry in service has its booking IN_SERVICE.
QueueAndBookingAgree ==
    \A e \in Entries : queue[e].booking # Nobody =>
        /\ queue[e].status = "WAITING"    => booking[queue[e].booking].status = "IN_QUEUE"
        /\ queue[e].status = "IN_SERVICE" => booking[queue[e].booking].status = "IN_SERVICE"

\* "Only WAITING entries can be reordered": an entry that is not waiting keeps
\* its position.
OnlyWaitingReordered ==
    [][ \A e \in Entries :
           (Live(queue[e]) /\ Live(queue'[e]) /\ queue[e].status # "WAITING")
               => queue'[e].position = queue[e].position ]_allVars

=============================================================================
