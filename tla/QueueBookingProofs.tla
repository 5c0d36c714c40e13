------------------------- MODULE QueueBookingProofs --------------------------
(***************************************************************************)
(* Composed with the queue, bookings and ledger still behave as            *)
(* BookingLedger says, so that every theorem of BookingLedgerProofs holds  *)
(* of the composition.                                                     *)
(***************************************************************************)
EXTENDS QueueBooking, BookingLedgerProofs

-----------------------------------------------------------------------------
(* Rows and requests keep their types.                                     *)

\* A request about to update its booking has one; a status change or removal
\* has an entry and a status for it.
Knows(t) ==
    /\ t.phase = "sync" => t.link # Nobody
    /\ t.phase = "found" => t.entry \in Entries /\ t.to \in QueueStatuses \cup {"DELETED"}

QueueInformed == \A r \in Requests : Knows(qtxn[r])

QueueInv == QueueTypeOK /\ QueueInformed

LEMMA BlankIsRow ==
    ASSUME NEW status \in {"NONE", "DELETED"}
    PROVE  Blank(status) \in QueueRow
  BY DEF Blank, QueueRow, QueueStatuses

LEMMA QIdleIsTransaction == QIdle \in QueueTransactions
  BY BlankIsRow DEF QIdle, QueueTransactions, QueuePhases, NoQueueRow

\* A request may go on with any record of the right type.
LEMMA MoveType ==
    ASSUME QueueInv, NEW r \in Requests, NEW t \in QueueTransactions,
           Knows(t),
           qtxn' = [qtxn EXCEPT ![r] = t],
           UNCHANGED queue
    PROVE  QueueInv'
<1>1. qtxn' \in [Requests -> QueueTransactions]
  BY DEF QueueInv, QueueTypeOK
<1>2. QueueInformed'
  BY DEF QueueInv, QueueTypeOK, QueueInformed
<1>3. QED
  BY <1>1, <1>2 DEF QueueInv, QueueTypeOK

\* What a step may change of a request without knowing more about it.
LEMMA MovedType ==
    ASSUME NEW t \in QueueTransactions, NEW phase \in QueuePhases \ {"sync", "found"}
    PROVE  /\ [t EXCEPT !.phase = phase] \in QueueTransactions
           /\ Knows([t EXCEPT !.phase = phase])
  BY DEF QueueTransactions, Knows

LEMMA PositionedType ==
    ASSUME NEW t \in QueueTransactions, NEW phase \in QueuePhases \ {"sync", "found"},
           NEW n \in Nat
    PROVE  /\ [t EXCEPT !.phase = phase, !.position = n] \in QueueTransactions
           /\ Knows([t EXCEPT !.phase = phase, !.position = n])
  BY DEF QueueTransactions, Knows

LEMMA DraftedType ==
    ASSUME NEW t \in QueueTransactions, NEW phase \in QueuePhases \ {"sync", "found"},
           NEW draft \in [Entries -> QueueRow]
    PROVE  /\ [t EXCEPT !.phase = phase, !.draft = draft] \in QueueTransactions
           /\ Knows([t EXCEPT !.phase = phase, !.draft = draft])
  BY DEF QueueTransactions, Knows

LEMMA DropType ==
    ASSUME QueueInv, NEW r \in Requests, Drop(r)
    PROVE  QueueInv'
<1>1. Knows(QIdle)
  BY DEF QIdle, Knows
<1>2. QED
  BY <1>1, MoveType, QIdleIsTransaction DEF Drop

LEMMA ApplyType ==
    ASSUME QueueInv, NEW r \in Requests, Apply(r)
    PROVE  QueueInv'
<1>1. queue' \in [Entries -> QueueRow]
  BY DEF QueueInv, QueueTypeOK, Apply, QueueTransactions
<1>2. qtxn' \in [Requests -> QueueTransactions]
  BY QIdleIsTransaction DEF QueueInv, QueueTypeOK, Apply
<1>3. QueueInformed'
  BY DEF QueueInv, QueueTypeOK, Apply, QueueInformed, Knows, QIdle
<1>4. QED
  BY <1>1, <1>2, <1>3 DEF QueueInv, QueueTypeOK

LEMMA NextPositionIsNat ==
    ASSUME QueueTypeOK, NEW p, NEW n \in NextPositions(p)
    PROVE  n \in Nat
<1>1. Places(p) \subseteq Nat
  BY DEF QueueTypeOK, Places, QueueRow
<1>2. QED
  BY <1>1 DEF NextPositions

LEMMA SentinelIsNat ==
    ASSUME NEW e \in Entries
    PROVE  SentinelOffset + e \in Nat
  BY EntriesAssumption, SMT DEF SentinelOffset

\* A draft of a version of the right type.
LEMMA DraftType ==
    ASSUME QueueTypeOK, NEW r \in Requests, NEW e, NEW row, e \in Entries => row \in QueueRow
    PROVE  Draft(r, e, row) \in [Entries -> QueueRow]
  BY DEF QueueTypeOK, QueueTransactions, Draft

LEMMA WriteOnlyType ==
    ASSUME QueueInv, NEW r \in Requests, NEW e, NEW row, e \in Entries => row \in QueueRow,
           WriteOnly(r, e, row), UNCHANGED queue
    PROVE  QueueInv'
<1> DEFINE t == [QIdle EXCEPT !.phase = Onward(r),
                              !.to = qtxn[r].to,
                              !.link = qtxn[r].link,
                              !.draft = Draft(r, e, row)]
<1>1. Draft(r, e, row) \in [Entries -> QueueRow]
  BY DraftType DEF QueueInv
<1>2. /\ qtxn[r].to \in QueueStatuses \cup {"NONE", "IN_QUEUE", "DELETED"}
      /\ qtxn[r].link \in Bookings \cup {Nobody}
  BY DEF QueueInv, QueueTypeOK, QueueTransactions
<1>3. Onward(r) \in QueuePhases /\ (Onward(r) = "sync" => qtxn[r].link # Nobody)
  BY DEF Onward, QueuePhases
<1>4. t \in QueueTransactions
  BY <1>1, <1>2, <1>3, QIdleIsTransaction DEF QueueTransactions
<1>5. Knows(t)
  BY <1>3, QIdleIsTransaction DEF QueueTransactions, Knows, Onward
<1>6. qtxn' = [qtxn EXCEPT ![r] = t]
  BY DEF WriteOnly
<1> HIDE DEF t
<1>7. QED
  BY <1>4, <1>5, <1>6, MoveType

-----------------------------------------------------------------------------
(* Each action of the queue.                                               *)

LEMMA CallType ==
    ASSUME QueueInv, NEW r \in Requests, QueueCall(r)
    PROVE  QueueInv'
<1> USE QIdleIsTransaction
<1>1. ASSUME NEW b \in Bookings, CreateFromBooking(r, b) PROVE QueueInv'
  <2> DEFINE t == [QIdle EXCEPT !.phase = "arrived", !.link = b,
                                !.to = "IN_QUEUE", !.provider = Owner[b]]
  <2>1. t \in QueueTransactions /\ Knows(t)
    BY OwnerAssumption DEF QueueTransactions, QueuePhases, Knows
  <2>2. QED
    BY <1>1, <2>1, MoveType DEF CreateFromBooking
<1>2. ASSUME NEW p \in Providers, CreateWalkIn(r, p) PROVE QueueInv'
  <2>1. PICK n \in NextPositions(p) :
          qtxn' = [qtxn EXCEPT ![r] = [QIdle EXCEPT !.phase = "placed", !.provider = p,
                                                    !.position = n]]
    BY <1>2 DEF CreateWalkIn
  <2> DEFINE t == [QIdle EXCEPT !.phase = "placed", !.provider = p, !.position = n]
  <2>2. n \in Nat
    BY NextPositionIsNat DEF QueueInv
  <2>3. t \in QueueTransactions /\ Knows(t)
    BY <2>2 DEF QueueTransactions, QueuePhases, Knows
  <2>4. QED
    BY <1>2, <2>1, <2>3, MoveType DEF CreateWalkIn
<1>3. ASSUME NEW e \in Entries, NEW to \in QueueStatuses, FindEntry(r, e, to)
      PROVE  QueueInv'
  <2> DEFINE t == [QIdle EXCEPT !.phase = "found", !.entry = e, !.to = to,
                                !.link = queue[e].booking]
  <2>1. queue[e].booking \in Bookings \cup {Nobody}
    BY DEF QueueInv, QueueTypeOK, QueueRow
  <2>2. t \in QueueTransactions /\ Knows(t)
    BY <2>1 DEF QueueTransactions, QueuePhases, Knows
  <2>3. QED
    BY <1>3, <2>2, MoveType DEF FindEntry
<1>4. ASSUME NEW e \in Entries, FindEntryToRemove(r, e) PROVE QueueInv'
  <2> DEFINE link == IF queue[e].status = "WAITING" THEN queue[e].booking ELSE Nobody
  <2> DEFINE t == [QIdle EXCEPT !.phase = "found", !.entry = e, !.to = "DELETED",
                                !.link = link]
  <2>1. link \in Bookings \cup {Nobody}
    BY DEF QueueInv, QueueTypeOK, QueueRow
  <2>2. qtxn' = [qtxn EXCEPT ![r] = t] /\ UNCHANGED queue
    BY <1>4 DEF FindEntryToRemove
  <2> HIDE DEF link
  <2>3. t \in QueueTransactions /\ Knows(t)
    BY <2>1 DEF QueueTransactions, QueuePhases, Knows
  <2>4. QED
    BY <2>2, <2>3, MoveType
<1>5. ASSUME NEW p \in Providers, NEW n \in 1..Cardinality(Waiting(p)),
             NEW order \in [1..n -> Entries], FindEntries(r, p, order)
      PROVE  QueueInv'
  <2> DEFINE slots == {queue[e].position : e \in ToSet(order)}
  <2> DEFINE t == [QIdle EXCEPT !.phase = "listed", !.provider = p, !.order = order,
                                !.slots = slots]
  <2>1. order \in Seq(Entries)
    OBVIOUS
  <2>2. ToSet(order) \subseteq Entries
    BY <1>5 DEF FindEntries, Waiting
  <2>3. slots \in SUBSET Nat
    BY <2>2 DEF QueueInv, QueueTypeOK, QueueRow
  <2>4. qtxn' = [qtxn EXCEPT ![r] = t] /\ UNCHANGED queue
    BY <1>5 DEF FindEntries
  <2> HIDE DEF slots
  <2>5. t \in QueueTransactions /\ Knows(t)
    BY <2>1, <2>3 DEF QueueTransactions, QueuePhases, Knows
  <2>6. QED
    BY <2>4, <2>5, MoveType
<1>6. QED
  BY <1>1, <1>2, <1>3, <1>4, <1>5 DEF QueueCall

LEMMA RollbackAllType ==
    ASSUME QueueInv, NEW r \in Requests, RollbackAll(r)
    PROVE  QueueInv'
  BY DropType DEF RollbackAll

LEMMA StepType ==
    ASSUME QueueInv, NEW r \in Requests, QueueStep(r)
    PROVE  QueueInv'
<1> USE QIdleIsTransaction
<1>0. /\ qtxn[r] \in QueueTransactions
      /\ queue \in [Entries -> QueueRow]
      /\ Knows(qtxn[r])
  BY DEF QueueInv, QueueTypeOK, QueueInformed
<1>1. CASE ReadPosition(r)
  <2>1. PICK n \in NextPositions(qtxn[r].provider) :
          qtxn' = [qtxn EXCEPT ![r] = [@ EXCEPT !.phase = "placed", !.position = n]]
    BY <1>1 DEF ReadPosition
  <2> DEFINE t == [qtxn[r] EXCEPT !.phase = "placed", !.position = n]
  <2>2. n \in Nat /\ "placed" \in QueuePhases \ {"sync", "found"}
    BY NextPositionIsNat DEF QueueInv, QueuePhases
  <2>3. t \in QueueTransactions /\ Knows(t)
    BY <1>0, <2>2, PositionedType
  <2>4. QED
    BY <1>1, <2>1, <2>3, MoveType DEF ReadPosition
<1>2. ASSUME NEW e \in Entries, InsertEntry(r, e) PROVE QueueInv'
  <2> DEFINE row == [status  |-> "WAITING",      provider |-> qtxn[r].provider,
                     booking |-> qtxn[r].link,   position |-> qtxn[r].position]
  <2>1. row \in QueueRow
    BY <1>0 DEF QueueTransactions, QueueRow, QueueStatuses
  <2>2. QED
    BY <1>2, <2>1, WriteOnlyType DEF InsertEntry
<1>3. CASE WriteEntry(r)
  <2> DEFINE row == IF qtxn[r].to = "DELETED"
                    THEN Blank("DELETED")
                    ELSE [queue[qtxn[r].entry] EXCEPT !.status = qtxn[r].to]
  <2>1. Blank("DELETED") \in QueueRow
    BY BlankIsRow
  <2>2. PICK e \in Entries : e = qtxn[r].entry
    BY <1>0, <1>3 DEF WriteEntry, Knows
  <2>3. PICK to \in QueueStatuses \cup {"DELETED"} : to = qtxn[r].to
    BY <1>0, <1>3 DEF WriteEntry, Knows
  <2>4. to # "DELETED" => [queue[e] EXCEPT !.status = to] \in QueueRow
    BY <1>0, <2>3 DEF QueueRow
  <2>5. row \in QueueRow
    BY <2>1, <2>2, <2>3, <2>4
  <2>6. WriteOnly(r, qtxn[r].entry, row) /\ UNCHANGED queue
    BY <1>3 DEF WriteEntry
  <2>7. QED
    BY <2>5, <2>6, WriteOnlyType
<1>4. CASE SyncBooking(r)
  <2> DEFINE t == [QIdle EXCEPT !.phase = "syncing", !.draft = qtxn[r].draft]
  <2>1. t \in QueueTransactions /\ Knows(t)
    BY <1>0 DEF QueueTransactions, QueuePhases, Knows
  <2>2. QED
    BY <1>4, <2>1, MoveType DEF SyncBooking
<1>5. CASE CheckWaiting(r)
  <2> DEFINE t == [qtxn[r] EXCEPT !.phase = "parking"]
  <2>0. "parking" \in QueuePhases \ {"sync", "found"}
    BY DEF QueuePhases
  <2>1. t \in QueueTransactions /\ Knows(t)
    BY <1>0, <2>0, MovedType
  <2>2. \/ qtxn' = [qtxn EXCEPT ![r] = t] /\ UNCHANGED queue
        \/ RollbackAll(r)
    BY <1>5 DEF CheckWaiting
  <2>3. QED
    BY <2>1, <2>2, MoveType, RollbackAllType
<1>6. CASE ParkEntry(r)
  <2> DEFINE e == NextToPark(r)
             row == [queue[e] EXCEPT !.position = SentinelOffset + e]
  <2>1. PICK phase \in {"placing", "parking"} :
          qtxn' = [qtxn EXCEPT ![r] =
                     [@ EXCEPT !.phase = phase, !.draft = Draft(r, e, row)]]
    BY <1>6 DEF ParkEntry
  <2>2. ASSUME e \in Entries PROVE row \in QueueRow
    <3>1. SentinelOffset + e \in Nat
      BY <2>2, SentinelIsNat
    <3>2. QED
      BY <1>0, <2>2, <3>1 DEF QueueRow
  <2>3. Draft(r, e, row) \in [Entries -> QueueRow]
    BY <2>2, DraftType DEF QueueInv
  <2> DEFINE t == [qtxn[r] EXCEPT !.phase = phase, !.draft = Draft(r, e, row)]
  <2>4. phase \in QueuePhases \ {"sync", "found"}
    BY DEF QueuePhases
  <2> HIDE DEF e, row
  <2>5. t \in QueueTransactions /\ Knows(t)
    BY <1>0, <2>3, <2>4, DraftedType
  <2>6. UNCHANGED queue
    BY <1>6 DEF ParkEntry
  <2>7. QED
    BY <2>1, <2>5, <2>6, MoveType
<1>7. CASE PlaceEntries(r)
  <2>1. PICK place \in [Parked(r) -> qtxn[r].slots] :
          qtxn' = [qtxn EXCEPT ![r] =
                     [QIdle EXCEPT !.phase = "ready",
                                   !.draft = [e \in Entries |->
                                       IF e \in Parked(r)
                                       THEN [qtxn[r].draft[e] EXCEPT !.position = place[e]]
                                       ELSE NoQueueRow]]]
    BY <1>7 DEF PlaceEntries
  <2> DEFINE draft == [e \in Entries |->
                         IF e \in Parked(r)
                         THEN [qtxn[r].draft[e] EXCEPT !.position = place[e]]
                         ELSE NoQueueRow]
  <2>2. ASSUME NEW e \in Entries PROVE draft[e] \in QueueRow
    <3>1. NoQueueRow \in QueueRow
      BY BlankIsRow DEF NoQueueRow
    <3>2. qtxn[r].draft[e] \in QueueRow /\ qtxn[r].slots \subseteq Nat
      BY <1>0 DEF QueueTransactions
    <3>3. ASSUME e \in Parked(r)
          PROVE  [qtxn[r].draft[e] EXCEPT !.position = place[e]] \in QueueRow
      BY <3>2, <3>3 DEF QueueRow
    <3>4. QED
      BY <3>1, <3>3
  <2>3. draft \in [Entries -> QueueRow]
    BY <2>2
  <2> DEFINE t == [QIdle EXCEPT !.phase = "ready", !.draft = draft]
  <2>4. qtxn' = [qtxn EXCEPT ![r] = t] /\ UNCHANGED queue
    BY <1>7, <2>1 DEF PlaceEntries
  <2> HIDE DEF draft
  <2>5. t \in QueueTransactions /\ Knows(t)
    BY <2>3, DraftedType DEF QueuePhases
  <2>6. QED
    BY <2>4, <2>5, MoveType
<1>8. CASE BookingStatement(r)
  BY <1>8, DropType DEF BookingStatement, queueVars, QueueInv, QueueTypeOK, QueueInformed
<1>9. CASE CommitBoth(r)
  BY <1>9, ApplyType DEF CommitBoth
<1>10. CASE CommitQueue(r)
  BY <1>10, ApplyType DEF CommitQueue
<1>11. CASE StartDelete(r)
  BY <1>11 DEF StartDelete, queueVars, QueueInv, QueueTypeOK, QueueInformed
<1>12. CASE CommitDeletion(r)
  <2>1. queue' \in [Entries -> QueueRow]
    BY <1>0, <1>12 DEF CommitDeletion, QueueRow
  <2>2. QED
    BY <1>12, <2>1 DEF CommitDeletion, QueueInv, QueueTypeOK, QueueInformed
<1>13. CASE Settle(r)
  BY <1>13 DEF Settle, queueVars, QueueInv, QueueTypeOK, QueueInformed
<1>14. CASE \/ InsertFails(r) \/ WriteEntryFails(r) \/ SyncRefused(r)
            \/ ParkFails(r) \/ PlaceFails(r)
  BY <1>14, RollbackAllType
  DEF InsertFails, WriteEntryFails, SyncRefused, ParkFails, PlaceFails
<1>15. QED
  BY <1>1, <1>2, <1>3, <1>4, <1>5, <1>6, <1>7, <1>8, <1>9, <1>10, <1>11, <1>12, <1>13, <1>14
  DEF QueueStep

LEMMA QueueInitInv == QueueInit => QueueInv /\ IInv
<1> SUFFICES ASSUME QueueInit PROVE QueueInv /\ IInv
  OBVIOUS
<1>1. QueueTypeOK
  BY QIdleIsTransaction, BlankIsRow DEF QueueInit, QueueTypeOK, NoQueueRow
<1>2. QueueInformed
  BY DEF QueueInit, QueueInformed, Knows, QIdle
<1>3. QED
  BY <1>1, <1>2, InitInv DEF QueueInit, QueueInv

LEMMA QueueTypeStep == QueueInv /\ [QueueNext]_allVars => QueueInv'
<1> SUFFICES ASSUME QueueInv, [QueueNext]_allVars PROVE QueueInv'
  OBVIOUS
<1>1. CASE UNCHANGED queueVars
  BY <1>1 DEF queueVars, QueueInv, QueueTypeOK, QueueInformed
<1>2. ASSUME NEW r \in Requests, QueueCall(r) PROVE QueueInv'
  BY <1>2, CallType
<1>3. ASSUME NEW r \in Requests, QueueStep(r) PROVE QueueInv'
  BY <1>3, StepType
<1>4. ASSUME NEW r \in Requests, QueueAbort(r) PROVE QueueInv'
  BY <1>4, RollbackAllType DEF QueueAbort
<1>5. QED
  BY <1>1, <1>2, <1>3, <1>4 DEF QueueNext, DirectCall, allVars

-----------------------------------------------------------------------------
(* Each step of the composition is one of BookingLedger, or none.          *)

\* Rolling back a request that has written no booking changes no booking,
\* ledger row or lock.
LEMMA RollbackIsAbort ==
    ASSUME IInv, NEW r \in Requests, Rollback(r)
    PROVE  [Next]_vars
<1>1. CASE txn[r] # Idle
  BY <1>1 DEF Next, Abort
<1>2. CASE txn[r] = Idle
  <2>1. txn' = txn
    BY <1>2 DEF Rollback, End, IInv, TypeOK
  <2>2. \A b \in Bookings : lock[b] # r
    BY <1>2, NobodyAssumption DEF IInv, WriteInvariant, Idle, Holding
  <2>3. lock' = lock
    BY <2>2 DEF Rollback, End, IInv, TypeOK
  <2>4. QED
    BY <2>1, <2>3 DEF Rollback, vars
<1>3. QED
  BY <1>1, <1>2

\* The status a queue request gives its booking comes through the same edge
\* check as a direct call's.
LEMMA SyncIsCall ==
    ASSUME QueueInv, NEW r \in Requests, SyncBooking(r)
    PROVE  Call(r)
<1> DEFINE b == qtxn[r].link
           to == SyncStatus(qtxn[r].to)
<1>1. b \in Bookings
  BY DEF SyncBooking, QueueInv, QueueTypeOK, QueueTransactions, QueueInformed, Knows
<1>2. PICK role \in Staff : FindBooking(r, b, to, role)
  BY DEF SyncBooking
<1>3. role \in Roles
  BY DEF Staff, Roles
<1>4. to \in AllStatuses
  BY <1>2 DEF FindBooking, MayDrive, Edges, CustomerEdges, AllStatuses, ActiveStatuses, TerminalStatuses
<1> HIDE DEF b, to
<1>5. QED
  BY <1>1, <1>2, <1>3, <1>4 DEF Call

LEMMA BookingStep == QueueInv /\ IInv /\ [QueueNext]_allVars => [Next]_vars
<1> SUFFICES ASSUME QueueInv, IInv, [QueueNext]_allVars PROVE [Next]_vars
  OBVIOUS
<1>1. ASSUME NEW r \in Requests, RollbackAll(r) PROVE [Next]_vars
  BY <1>1, RollbackIsAbort DEF RollbackAll
<1>2. ASSUME NEW r \in Requests, QueueCall(r) PROVE UNCHANGED vars
  <2>1. ASSUME NEW b, CreateFromBooking(r, b) PROVE UNCHANGED vars
    BY <2>1 DEF CreateFromBooking
  <2>2. ASSUME NEW p, CreateWalkIn(r, p) PROVE UNCHANGED vars
    BY <2>2 DEF CreateWalkIn
  <2>3. ASSUME NEW e, NEW to, FindEntry(r, e, to) PROVE UNCHANGED vars
    BY <2>3 DEF FindEntry
  <2>4. ASSUME NEW e, FindEntryToRemove(r, e) PROVE UNCHANGED vars
    BY <2>4 DEF FindEntryToRemove
  <2>5. ASSUME NEW p, NEW order, FindEntries(r, p, order) PROVE UNCHANGED vars
    BY <2>5 DEF FindEntries
  <2>6. QED
    BY <1>2, <2>1, <2>2, <2>3, <2>4, <2>5 DEF QueueCall
<1>3. ASSUME NEW r \in Requests, QueueStep(r) PROVE [Next]_vars
  <2>1. CASE \/ InsertFails(r) \/ WriteEntryFails(r) \/ SyncRefused(r)
             \/ ParkFails(r) \/ PlaceFails(r)
    BY <2>1, <1>1 DEF InsertFails, WriteEntryFails, SyncRefused, ParkFails, PlaceFails
  <2>2. CASE \/ ReadPosition(r) \/ (\E e \in Entries : InsertEntry(r, e))
             \/ WriteEntry(r) \/ ParkEntry(r) \/ PlaceEntries(r) \/ CommitQueue(r)
    <3>1. ASSUME NEW e, InsertEntry(r, e) PROVE UNCHANGED vars
      BY <3>1 DEF InsertEntry
    <3>2. CASE ReadPosition(r)
      BY <3>2 DEF ReadPosition
    <3>3. CASE WriteEntry(r)
      BY <3>3 DEF WriteEntry
    <3>4. CASE ParkEntry(r)
      BY <3>4 DEF ParkEntry
    <3>5. CASE PlaceEntries(r)
      BY <3>5 DEF PlaceEntries
    <3>6. CASE CommitQueue(r)
      BY <3>6 DEF CommitQueue
    <3>7. QED
      BY <2>2, <3>1, <3>2, <3>3, <3>4, <3>5, <3>6
  <2>3. CASE CheckWaiting(r)
    BY <2>3, <1>1 DEF CheckWaiting
  <2>4. CASE SyncBooking(r)
    BY <2>4, SyncIsCall DEF Next
  <2>5. CASE BookingStatement(r) \/ CommitBoth(r) \/ StartDelete(r)
             \/ CommitDeletion(r) \/ Settle(r)
    <3>1. Step(r)
      BY <2>5
      DEF BookingStatement, CommitBoth, StartDelete, CommitDeletion, Settle, Step
    <3>2. QED
      BY <3>1 DEF Next
  <2>6. QED
    BY <1>3, <2>1, <2>2, <2>3, <2>4, <2>5 DEF QueueStep
<1>4. ASSUME NEW r \in Requests, DirectCall(r) PROVE [Next]_vars
  BY <1>4 DEF DirectCall, Next
<1>5. ASSUME NEW r \in Requests, QueueAbort(r) PROVE [Next]_vars
  BY <1>5, <1>1 DEF QueueAbort
<1>6. CASE UNCHANGED allVars
  BY <1>6 DEF allVars
<1>7. CASE \/ \E b \in Bookings : CreateBooking(b)
           \/ \E p \in Providers, rate \in Rates : SetProviderCommission(p, rate)
  BY <1>7 DEF Next
<1>8. QED
  BY <1>2, <1>3, <1>4, <1>5, <1>6, <1>7 DEF QueueNext

-----------------------------------------------------------------------------
(* The theorems.                                                           *)

LEMMA CompositionInvariant == QueueSpec => [](QueueInv /\ IInv)
<1>1. QueueInv /\ IInv /\ [QueueNext]_allVars => (QueueInv /\ IInv)'
  <2>1. IInv /\ [Next]_vars => IInv'
    BY TypeStep, WriteStep, TableStep DEF IInv
  <2>2. QED
    BY <2>1, QueueTypeStep, BookingStep
<1>2. QED
  BY <1>1, QueueInitInv, PTL DEF QueueSpec

\* Queue rows and requests keep their types: no position is ever anything but
\* a natural number, no entry is linked to anything but a booking.
THEOREM QueueTypeCorrect == QueueSpec => []QueueTypeOK
<1>1. QueueInv => QueueTypeOK
  BY DEF QueueInv
<1>2. QED
  BY <1>1, CompositionInvariant, PTL

\* The queue's requests work on bookings and the ledger as direct calls do:
\* whatever they roll back, cascade or commit is a behaviour of BookingLedger.
THEOREM QueueImplementsLedger == QueueSpec => ImplementsBookingLedger
<1>1. QueueInit => Init
  BY DEF QueueInit
<1>2. QED
  BY <1>1, BookingStep, CompositionInvariant, PTL
  DEF QueueSpec, ImplementsBookingLedger, Spec

\* So completion stays atomic with its charge when it comes from the queue.
THEOREM QueueCompletionIsAtomic == QueueSpec => []CompletedIsAccounted
  BY QueueImplementsLedger, CompletionIsAtomic, PTL DEF ImplementsBookingLedger

=============================================================================
