-------------------------- MODULE QueueEntryProofs --------------------------
(***************************************************************************)
(* The queue's own invariants: distinct places, links that resolve, and    *)
(* entries that move with their bookings and are charged for, for any      *)
(* number of requests, bookings and entries.                               *)
(*                                                                         *)
(* The argument is the database's: a row has one uncommitted version at a  *)
(* time, an insert or a move to a place waits for whoever else may come to *)
(* have that place, and whoever waits looks again afterwards.              *)
(***************************************************************************)
EXTENDS QueueBookingProofs, FiniteSetTheorems

-----------------------------------------------------------------------------
(* The inductive invariant.                                                *)

\* The phases in which what a request has drafted may become what it commits.
Written == {"sync", "syncing", "ready"}

\* Only updateBookingStatus runs inside a queue request, and a request that
\* has not come to its first write has drafted nothing.
InStep(r) ==
    /\ qtxn[r].phase \notin {"idle", "syncing"} => txn[r] = Idle
    /\ qtxn[r].phase = "syncing"
       => txn[r].phase \in {"found", "updated", "unaccounted", "split", "done"}
    /\ qtxn[r].phase \in {"idle", "arrived", "placed", "found", "listed"}
       => \A e \in Entries : ~Holds(r, e)

\* What a version may be, given the committed row.
Version(r, old, new) ==
    \/ old = NoQueueRow /\ new.status = "WAITING" /\ qtxn[r].phase \in Written
    \/ Live(old) /\ new = Blank("DELETED") /\ qtxn[r].phase \in Written
    \/ /\ Live(old) /\ Live(new)
       /\ new.provider = old.provider /\ new.booking = old.booking
       /\ new.status = old.status \/ (new.status # "WAITING" /\ qtxn[r].phase \in Written)

Versions(r) == \A e \in Entries : Holds(r, e) => Version(r, queue[e], qtxn[r].draft[e])

\* Two rows that UNIQUE (providerId, position) or UNIQUE (bookingId) keep apart.
Conflict(row, other) ==
    /\ Live(row) /\ Live(other)
    /\ \/ row.provider = other.provider /\ row.position = other.position
       \/ row.booking # Nobody /\ row.booking = other.booking

\* What a request has written is in conflict neither with the other rows as
\* it has written them nor, where it has not, as they are committed.
Apart(r) ==
    \A e, x \in Entries :
        (qtxn[r].phase \in Written /\ Holds(r, e) /\ e # x)
            => ~Conflict(qtxn[r].draft[e], IF Holds(r, x) THEN qtxn[r].draft[x] ELSE queue[x])

\* A reorder's entries stay its provider's while they exist, and those it has
\* parked are the first of them.
Reordering(r) ==
    qtxn[r].phase \in {"listed", "parking", "placing"} =>
        /\ IsInjective(qtxn[r].order) /\ Len(qtxn[r].order) > 0
        /\ \A e \in ToSet(qtxn[r].order) :
              /\ queue[e].status # "NONE"
              /\ Live(queue[e]) => queue[e].provider = qtxn[r].provider

FirstParked(r) ==
    qtxn[r].phase \in {"parking", "placing"} =>
        \E n \in 0 .. Len(qtxn[r].order) :
            /\ Parked(r) = { qtxn[r].order[i] : i \in 1 .. n }
            /\ IsFiniteSet(Parked(r)) /\ Cardinality(Parked(r)) = n
            /\ qtxn[r].phase = "parking" => n < Len(qtxn[r].order)

\* What is left of what a status change or a removal has read: the entry has
\* the booking it had, or none; and one that did not wait does not wait now.
EntryRead(r) ==
    qtxn[r].phase = "found" =>
        LET row == queue[qtxn[r].entry]
        IN  /\ row.status # "NONE" /\ qtxn[r].to # "WAITING"
            /\ (qtxn[r].to = "DELETED" => row.status = "WAITING")
               => row.booking \in {Nobody, qtxn[r].link}

\* A version the entry's booking has to follow: its status is another one.
Moves(old, new) ==
    /\ old.booking # Nobody /\ old.status # new.status
    /\ new.status = "DELETED" => old.status = "WAITING"

BookingFollows(r) ==
    \A e \in Entries :
        (Holds(r, e) /\ Moves(queue[e], qtxn[r].draft[e])) =>
            LET b  == queue[e].booking
                to == qtxn[r].draft[e].status
            IN  \/ qtxn[r].phase = "sync" /\ b = qtxn[r].link /\ to = qtxn[r].to
                \/ qtxn[r].phase = "syncing" /\ b = txn[r].booking /\ SyncStatus(to) = txn[r].to

\* The booking of an entry being inserted exists and is not being deleted.
InsertReferences(r) ==
    \A e \in Entries :
        LET b == qtxn[r].draft[e].booking
        IN  (queue[e] = NoQueueRow /\ b # Nobody)
               => /\ Exists(booking[b])
                  /\ \A s \in Requests : ~(txn[s].phase = "deleted" /\ txn[s].booking = b)

RequestInv(r) ==
    /\ InStep(r) /\ Versions(r) /\ Apart(r) /\ Reordering(r) /\ FirstParked(r)
    /\ EntryRead(r) /\ BookingFollows(r) /\ InsertReferences(r)

\* A row's uncommitted versions are one request's, and what two requests have
\* written is not in conflict.
Beside(r, s) ==
    /\ \A e \in Entries : ~(Holds(r, e) /\ Holds(s, e))
    /\ \A e, x \in Entries :
          (/\ qtxn[r].phase \in Written /\ Holds(r, e)
           /\ qtxn[s].phase \in Written /\ Holds(s, x) /\ e # x)
              => ~Conflict(qtxn[r].draft[e], qtxn[s].draft[x])

CommittedApart == \A e, x \in Entries : e # x => ~Conflict(queue[e], queue[x])

EntriesInv ==
    /\ \A r \in Requests : RequestInv(r)
    /\ \A r, s \in Requests : r # s => Beside(r, s)
    /\ CommittedApart /\ LinksResolve /\ CompletedEntryIsAccounted

\* Positions are low: no more than there are used ids.
Used == { e \in Entries : queue[e].status # "NONE" }

LowRequest(r) ==
    /\ qtxn[r].phase = "placed" => qtxn[r].position <= Cardinality(Used) + 1
    /\ \A n \in qtxn[r].slots : n <= Cardinality(Used)
    /\ qtxn[r].phase \in Written =>
          \A e \in Entries :
             qtxn[r].draft[e].position
                <= Cardinality(Used) + (IF queue[e] = NoQueueRow THEN 1 ELSE 0)

PositionsAreLow ==
    /\ \A e \in Entries : queue[e].position <= Cardinality(Used)
    /\ \A r \in Requests : LowRequest(r)

-----------------------------------------------------------------------------
(* Rows, versions and steps.                                               *)

LEMMA NoRowFacts ==
    /\ NoQueueRow.status = "NONE" /\ NoQueueRow.booking = Nobody
    /\ NoQueueRow.provider = Nobody /\ NoQueueRow.position = 0 /\ ~Live(NoQueueRow)
BY DEF NoQueueRow, Blank, Live, QueueStatuses

LEMMA DeletedFacts ==
    LET deleted == Blank("DELETED")
    IN  /\ deleted.status = "DELETED" /\ deleted.booking = Nobody /\ deleted.position = 0
        /\ ~Live(deleted) /\ deleted # NoQueueRow
BY DEF NoQueueRow, Blank, Live, QueueStatuses

LEMMA LiveIsARow ==
    ASSUME NEW row, Live(row)
    PROVE  row # NoQueueRow /\ row.status # "NONE" /\ row.status # "DELETED"
BY NoRowFacts DEF Live, QueueStatuses

LEMMA ConflictBothWays == ASSUME NEW row, NEW other  PROVE Conflict(row, other) <=> Conflict(other, row)
BY DEF Conflict

\* A version that keeps provider, place and booking of a row is in conflict
\* with no more than the row is.
LEMMA ConflictKept ==
    ASSUME NEW row, NEW new, NEW other, Live(row), new.provider = row.provider,
           new.position = row.position, new.booking = row.booking, Conflict(new, other)
    PROVE  Conflict(row, other)
BY DEF Conflict

\* The reads of a request.
ListConfirmed(r) ==
    /\ qtxn[r].phase = "listed"
    /\ qtxn' = [qtxn EXCEPT ![r].phase = "parking"]
    /\ UNCHANGED <<vars, queue>>

Reads(r) == QueueCall(r) \/ ReadPosition(r) \/ ListConfirmed(r)

\* The steps of bookings that move no queue request.
StatementMoves(r) ==
    /\ UpdateBooking(r) \/ FindLedgerRow(r) \/ SplitPrice(r) \/ CreateLedgerRow(r)
    /\ ~Rollback(r)
    /\ UNCHANGED queueVars

BookingOnly ==
    \/ UNCHANGED allVars
    \/ (\E b \in Bookings : CreateBooking(b)) /\ UNCHANGED queueVars
    \/ (\E p \in Providers, rate \in Rates : SetProviderCommission(p, rate)) /\ UNCHANGED queueVars
    \/ \E r \in Requests : DirectCall(r) \/ StatementMoves(r) \/ StartDelete(r) \/ Settle(r)

\* A booking statement moves its transaction on, or rolls everything back.
LEMMA StatementCases ==
    ASSUME IInv, NEW r \in Requests, BookingStatement(r)
    PROVE  StatementMoves(r) \/ RollbackAll(r)
<1>t. txn \in [Requests -> Transactions]
  BY DEF IInv, TypeOK
<1>1. CASE Rollback(r)
  <2>1. txn'[r] = Idle  BY <1>1, <1>t DEF Rollback, End
  <2> QED  BY <1>1, <2>1 DEF BookingStatement, RollbackAll
<1>2. CASE ~Rollback(r)
  <2>1. UpdateBooking(r) \/ FindLedgerRow(r) \/ SplitPrice(r) \/ CreateLedgerRow(r)
    BY <1>2 DEF BookingStatement, UpdateFails
  <2>2. txn'[r].phase # "idle"
    <3>1. ASSUME NEW phase, phase # "idle", Advance(r, phase)  PROVE txn'[r].phase # "idle"
      BY <1>t, <3>1 DEF Advance, Transactions
    <3>2. CASE SplitPrice(r)
      BY <1>t, <3>2 DEF SplitPrice, Transactions
    <3> QED
      BY <1>2, <2>1, <3>1, <3>2 DEF UpdateBooking, FindLedgerRow, CreateLedgerRow
  <2>3. txn'[r] # Idle  BY <2>2 DEF Idle
  <2> QED  BY <1>2, <2>1, <2>3 DEF BookingStatement, StatementMoves
<1> QED  BY <1>1, <1>2

LEMMA StepShapes ==
    ASSUME IInv, [QueueNext]_allVars
    PROVE  \/ BookingOnly
           \/ \E r \in Requests :
                 \/ Reads(r) \/ (\E e \in Entries : InsertEntry(r, e)) \/ WriteEntry(r)
                 \/ ParkEntry(r) \/ PlaceEntries(r) \/ SyncBooking(r) \/ RollbackAll(r)
                 \/ CommitBoth(r) \/ CommitQueue(r) \/ CommitDeletion(r)
<1>1. ASSUME NEW r \in Requests, CheckWaiting(r)  PROVE ListConfirmed(r) \/ RollbackAll(r)
  BY <1>1 DEF CheckWaiting, ListConfirmed
<1>2. ASSUME NEW r \in Requests, QueueStep(r)
      PROVE  \/ Reads(r) \/ (\E e \in Entries : InsertEntry(r, e)) \/ WriteEntry(r)
             \/ ParkEntry(r) \/ PlaceEntries(r) \/ SyncBooking(r) \/ RollbackAll(r)
             \/ CommitBoth(r) \/ CommitQueue(r) \/ CommitDeletion(r)
             \/ StatementMoves(r) \/ StartDelete(r) \/ Settle(r)
  BY <1>1, <1>2, StatementCases
     DEF QueueStep, Reads, InsertFails, WriteEntryFails, SyncRefused, ParkFails, PlaceFails
<1>3. CASE UNCHANGED allVars
  BY <1>3 DEF BookingOnly
<1>4. CASE QueueNext
  BY <1>2, <1>4 DEF QueueNext, BookingOnly, Reads, QueueAbort
<1> QED  BY <1>3, <1>4

-----------------------------------------------------------------------------
(* Steps of bookings alone.                                                *)

\* What a request's transaction may do while the queue stands still.
TransactionFrame(s) ==
    /\ qtxn[s].phase \notin {"idle", "syncing"} => txn'[s] = Idle
    /\ qtxn[s].phase = "syncing"
       => /\ txn'[s].phase \in {"found", "updated", "unaccounted", "split", "done"}
          /\ txn'[s].booking = txn[s].booking /\ txn'[s].to = txn[s].to
    /\ txn'[s].phase = "deleted"
       => \/ txn'[s] = txn[s]
          \/ /\ qtxn[s].phase = "idle"
             /\ \A q \in Requests \ {s} : ~KeyShared(q, txn'[s].booking)

\* Existing bookings and ledger rows stay.
TablesGrow ==
    /\ \A b \in Bookings : Exists(booking[b]) => Exists(booking'[b])
    /\ \A b \in Bookings : InLedger(b) => InLedger(b)'

LEMMA SameTransaction ==
    ASSUME NEW s \in Requests, InStep(s), txn'[s] = txn[s]
    PROVE  TransactionFrame(s)
BY DEF InStep, TransactionFrame

\* The statements that move request r on, when the tables stay.
LEMMA TablesStay ==
    ASSUME UNCHANGED <<booking, ledger>>
    PROVE  TablesGrow
BY DEF TablesGrow, InLedger

LEMMA BookingOnlyFrame ==
    ASSUME QueueInv, IInv, \A s \in Requests : InStep(s), BookingOnly
    PROVE  UNCHANGED queueVars /\ TablesGrow /\ \A s \in Requests : TransactionFrame(s)
<1>t. /\ txn \in [Requests -> Transactions] /\ booking \in [Bookings -> Row]
      /\ ledger \in [Bookings -> LedgerRows]
  BY DEF IInv, TypeOK
<1>1. CASE UNCHANGED allVars
  BY <1>1, SameTransaction, TablesStay DEF allVars, vars
<1>2. ASSUME NEW b \in Bookings, CreateBooking(b), UNCHANGED queueVars
      PROVE  TablesGrow /\ \A s \in Requests : TransactionFrame(s)
  <2>1. Exists(NewRow)  BY DEF Exists, NewRow, AllStatuses, ActiveStatuses
  <2> QED  BY <1>2, <1>t, <2>1, SameTransaction DEF CreateBooking, TablesGrow, InLedger
<1>3. ASSUME NEW p \in Providers, NEW rate \in Rates, SetProviderCommission(p, rate)
      PROVE  TablesGrow /\ \A s \in Requests : TransactionFrame(s)
  BY <1>3, SameTransaction, TablesStay DEF SetProviderCommission
<1>4. ASSUME NEW r \in Requests, DirectCall(r)
      PROVE  TablesGrow /\ \A s \in Requests : TransactionFrame(s)
  <2>1. UNCHANGED <<booking, ledger>> /\ qtxn[r].phase = "idle"
    BY <1>4 DEF DirectCall, Free, Call, FindBooking, FindForDelete, FindTransaction
  <2>2. \A s \in Requests \ {r} : txn'[s] = txn[s]
    BY <1>4, <1>t DEF DirectCall, Call, FindBooking, FindForDelete, FindTransaction
  <2>3. txn'[r].phase # "deleted"
    <3>1. ASSUME NEW phase \in {"found", "withdrawing", "erasing", "settling"}, NEW b, NEW to,
                 txn' = [txn EXCEPT ![r] = Busy(phase, b, to)]
          PROVE  txn'[r].phase # "deleted"
      BY <1>t, <3>1 DEF Busy
    <3> QED
      BY <1>4, <3>1 DEF DirectCall, Call, FindBooking, FindForDelete, FindTransaction
  <2>4. TransactionFrame(r)  BY <2>1, <2>3 DEF TransactionFrame
  <2> QED  BY <2>1, <2>2, <2>4, SameTransaction, TablesStay
<1>5. ASSUME NEW r \in Requests, StatementMoves(r)
      PROVE  TablesGrow /\ \A s \in Requests : TransactionFrame(s)
  <2>1. /\ UNCHANGED <<booking, ledger>> /\ \A s \in Requests \ {r} : txn'[s] = txn[s]
        /\ txn[r].phase \in {"found", "updated", "unaccounted", "split"}
        /\ txn'[r].phase \in {"updated", "unaccounted", "split", "done"}
        /\ txn'[r].booking = txn[r].booking /\ txn'[r].to = txn[r].to
    <3>1. ASSUME NEW phase \in {"updated", "unaccounted", "split", "done"}, Advance(r, phase)
          PROVE  /\ \A s \in Requests \ {r} : txn'[s] = txn[s]
                 /\ txn'[r].phase = phase /\ txn'[r].booking = txn[r].booking /\ txn'[r].to = txn[r].to
      BY <1>t, <3>1 DEF Advance, Transactions
    <3>2. CASE UpdateBooking(r)
      BY <3>1, <3>2 DEF UpdateBooking, tables
    <3>3. CASE FindLedgerRow(r)
      BY <3>1, <3>3 DEF FindLedgerRow
    <3>4. CASE SplitPrice(r)
      BY <1>t, <3>4 DEF SplitPrice, Transactions
    <3>5. CASE CreateLedgerRow(r)
      BY <1>5, <3>1, <3>5 DEF CreateLedgerRow, StatementMoves
    <3> QED  BY <1>5, <3>2, <3>3, <3>4, <3>5 DEF StatementMoves
  <2>2. qtxn[r].phase \in {"idle", "syncing"}
    BY <2>1 DEF InStep, Idle
  <2>3. TransactionFrame(r)  BY <2>1, <2>2 DEF TransactionFrame
  <2> QED  BY <2>1, <2>3, SameTransaction, TablesStay
<1>6. ASSUME NEW r \in Requests, StartDelete(r)
      PROVE  TablesGrow /\ \A s \in Requests : TransactionFrame(s)
  <2>1. /\ UNCHANGED <<booking, ledger>> /\ \A s \in Requests \ {r} : txn'[s] = txn[s]
        /\ Deleting(r)
        /\ txn'[r].phase = "deleted" => txn'[r].booking = txn[r].booking
    <3>1. CASE DeleteBooking(r)
      BY <1>t, <3>1 DEF DeleteBooking, Advance, Transactions, tables
    <3>2. CASE DeleteFails(r)
      BY <1>t, <3>2 DEF DeleteFails, Rollback, End, Idle
    <3> QED  BY <1>6, <3>1, <3>2 DEF StartDelete
  <2>2. qtxn[r].phase = "idle"
    BY <2>1 DEF InStep, Idle, Deleting
  <2>3. TransactionFrame(r)  BY <1>6, <2>1, <2>2 DEF TransactionFrame, StartDelete
  <2> QED  BY <2>1, <2>3, SameTransaction, TablesStay
<1>7. ASSUME NEW r \in Requests, Settle(r)
      PROVE  TablesGrow /\ \A s \in Requests : TransactionFrame(s)
  <2>1. PICK admin \in Admins : SettleTransaction(r, admin)  BY <1>7 DEF Settle
  <2>2. UNCHANGED booking /\ txn[r].phase = "settling" /\ txn' = [txn EXCEPT ![r] = Idle]
    BY <2>1 DEF SettleTransaction
  <2>3. \A b \in Bookings : InLedger(b) => InLedger(b)'
    <3>1. \A b \in Bookings : ledger'[b] = ledger[b] \/ ledger'[b] = Settled(ledger[b], admin)
      BY <1>t, <2>1 DEF SettleTransaction
    <3> QED  BY <1>t, <3>1, SettledRow DEF InLedger
  <2>4. qtxn[r].phase = "idle"
    BY <2>2 DEF InStep, Idle
  <2>5. TransactionFrame(r)  BY <1>t, <2>2, <2>4 DEF TransactionFrame, Idle
  <2>6. \A s \in Requests \ {r} : txn'[s] = txn[s]  BY <1>t, <2>2
  <2> QED  BY <2>2, <2>3, <2>5, <2>6, SameTransaction DEF TablesGrow
<1>8. UNCHANGED queueVars
  BY DEF BookingOnly, allVars, DirectCall, StatementMoves, StartDelete, Settle
<1> QED  BY <1>1, <1>2, <1>3, <1>4, <1>5, <1>6, <1>7, <1>8 DEF BookingOnly

LEMMA BookingOnlyKeeps ==
    ASSUME QueueInv, IInv, EntriesInv, BookingOnly
    PROVE  EntriesInv'
<1>t. /\ queue \in [Entries -> QueueRow] /\ qtxn \in [Requests -> QueueTransactions]
      /\ txn \in [Requests -> Transactions]
  BY DEF QueueInv, QueueTypeOK, IInv, TypeOK
<1>f. /\ queue' = queue /\ qtxn' = qtxn
      /\ TablesGrow /\ \A s \in Requests : TransactionFrame(s)
  BY BookingOnlyFrame DEF EntriesInv, RequestInv, queueVars
<1>1. ASSUME NEW r \in Requests  PROVE RequestInv(r)'
  <2>0. RequestInv(r) /\ TransactionFrame(r)  BY <1>f DEF EntriesInv
  <2>1. InStep(r)'
    BY <1>f, <2>0 DEF RequestInv, InStep, TransactionFrame, Holds
  <2>2. Versions(r)' /\ Apart(r)' /\ Reordering(r)' /\ FirstParked(r)' /\ EntryRead(r)'
    BY <1>f, <2>0 DEF RequestInv, Versions, Version, Apart, Reordering, FirstParked, EntryRead, Holds, Parked
  <2>3. BookingFollows(r)'
    BY <1>f, <2>0 DEF RequestInv, BookingFollows, TransactionFrame, Holds
  <2>4. InsertReferences(r)'
    <3> SUFFICES ASSUME NEW e \in Entries, NEW b, b = qtxn[r].draft[e].booking,
                        queue[e] = NoQueueRow, b # Nobody
                 PROVE  /\ Exists(booking'[b])
                        /\ \A s \in Requests : ~(txn'[s].phase = "deleted" /\ txn'[s].booking = b)
      BY <1>f DEF InsertReferences
    <3>1. b \in Bookings /\ Exists(booking[b])
      BY <1>t, <2>0 DEF RequestInv, InsertReferences, QueueTransactions, QueueRow
    <3>2. ASSUME NEW s \in Requests, txn'[s].phase = "deleted", txn'[s].booking = b  PROVE FALSE
      <4>1. txn'[s] # txn[s]  BY <2>0, <3>2 DEF RequestInv, InsertReferences
      <4>2. /\ qtxn[s].phase = "idle"
            /\ \A q \in Requests \ {s} : ~KeyShared(q, b)
        BY <1>f, <3>2, <4>1 DEF TransactionFrame
      <4>3. r = s  BY <4>2 DEF KeyShared
      <4>4. qtxn[r].draft[e] # NoQueueRow  BY NoRowFacts
      <4> QED  BY <4>2, <4>3, <4>4 DEF EntriesInv, RequestInv, InStep, Holds
    <3> QED  BY <1>f, <3>1, <3>2 DEF TablesGrow
  <2> QED  BY <2>1, <2>2, <2>3, <2>4 DEF RequestInv
<1>2. \A r, s \in Requests : r # s => Beside(r, s)'
  BY <1>f DEF EntriesInv, Beside, Holds
<1>3. CommittedApart'
  BY <1>f DEF EntriesInv, CommittedApart
<1>4. LinksResolve'
  BY <1>f, <1>t DEF EntriesInv, LinksResolve, TablesGrow, QueueRow
<1>5. CompletedEntryIsAccounted'
  BY <1>f, <1>t DEF EntriesInv, CompletedEntryIsAccounted, TablesGrow, QueueRow
<1> QED  BY <1>1, <1>2, <1>3, <1>4, <1>5 DEF EntriesInv

-----------------------------------------------------------------------------
(* Steps of one queue request that commit nothing.                         *)

\* What such a step has to show of its own request.
OneRequest(r) ==
    /\ RequestInv(r)'
    /\ \A s \in Requests \ {r} : Beside(r, s)'

LEMMA BesideBothWays == ASSUME NEW r, NEW s  PROVE Beside(r, s) => Beside(s, r)
BY ConflictBothWays DEF Beside

LEMMA OthersStay ==
    ASSUME EntriesInv, NEW r \in Requests, OneRequest(r), UNCHANGED <<booking, ledger, queue>>,
           \A s \in Requests \ {r} : txn'[s] = txn[s],
           txn'[r].phase = "deleted" => txn'[r] = txn[r],
           qtxn \in [Requests -> QueueTransactions], qtxn' = [qtxn EXCEPT ![r] = qtxn'[r]]
    PROVE  EntriesInv'
<1>0. /\ \A s \in Requests \ {r} : qtxn'[s] = qtxn[s]
      /\ booking' = booking /\ ledger' = ledger /\ queue' = queue
      /\ \A s \in Requests : txn'[s].phase = "deleted" => txn'[s] = txn[s]
  OBVIOUS
<1>1. ASSUME NEW s \in Requests, s # r  PROVE RequestInv(s)'
  <2>1. RequestInv(s) /\ qtxn'[s] = qtxn[s] /\ txn'[s] = txn[s]
    BY <1>0, <1>1 DEF EntriesInv
  <2> QED
    BY <1>0, <2>1 DEF RequestInv, InStep, Versions, Version, Apart, Reordering, FirstParked,
                      EntryRead, BookingFollows, InsertReferences, Holds, Parked
<1>2. ASSUME NEW q \in Requests, NEW s \in Requests, q # s  PROVE Beside(q, s)'
  <2>1. CASE q = r
    BY <1>2, <2>1 DEF OneRequest
  <2>2. CASE s = r
    <3>1. Beside(s, q)'  BY <1>2, <2>2 DEF OneRequest
    <3> QED  BY <3>1, ConflictBothWays DEF Beside
  <2>3. CASE q # r /\ s # r
    BY <1>0, <1>2, <2>3 DEF EntriesInv, Beside, Holds
  <2> QED  BY <2>1, <2>2, <2>3
<1>3. CommittedApart' /\ LinksResolve' /\ CompletedEntryIsAccounted'
  BY <1>0 DEF EntriesInv, CommittedApart, LinksResolve, CompletedEntryIsAccounted, InLedger
<1> QED  BY <1>1, <1>2, <1>3 DEF EntriesInv, OneRequest

\* A request that is left holding nothing.
LEMMA NothingHeld ==
    ASSUME NEW r, \A e \in Entries : ~Holds(r, e)'
    PROVE  /\ Versions(r)' /\ Apart(r)' /\ BookingFollows(r)' /\ InsertReferences(r)'
           /\ \A s \in Requests : Beside(r, s)'
           /\ Parked(r)' = {}
BY NoRowFacts DEF Holds, Versions, Apart, BookingFollows, InsertReferences, Beside, Parked

\* What a request that has only read may know.
Read(t) ==
    /\ t.phase \in {"arrived", "placed", "found", "listed", "parking"}
    /\ \A e \in Entries : t.draft[e] = NoQueueRow
    /\ t.phase = "found" =>
          LET row == queue[t.entry]
          IN  /\ row.status # "NONE" /\ t.to # "WAITING"
              /\ (t.to = "DELETED" => row.status = "WAITING") => row.booking \in {Nobody, t.link}
    /\ t.phase \in {"listed", "parking"} =>
          /\ IsInjective(t.order) /\ Len(t.order) \in Nat \ {0}
          /\ \A e \in ToSet(t.order) :
                /\ queue[e].status # "NONE"
                /\ Live(queue[e]) => queue[e].provider = t.provider

LEMMA ReadKeeps ==
    ASSUME QueueInv, EntriesInv, NEW r \in Requests, txn[r] = Idle, UNCHANGED <<vars, queue>>,
           NEW t, Read(t), qtxn' = [qtxn EXCEPT ![r] = t]
    PROVE  EntriesInv'
<1>t. qtxn \in [Requests -> QueueTransactions]
  BY DEF QueueInv, QueueTypeOK
<1>0. qtxn'[r] = t /\ queue' = queue /\ txn' = txn
  BY <1>t DEF vars
<1>1. \A e \in Entries : ~Holds(r, e)'
  BY <1>0 DEF Holds, Read
<1>2. /\ Versions(r)' /\ Apart(r)' /\ BookingFollows(r)' /\ InsertReferences(r)'
      /\ \A s \in Requests : Beside(r, s)'
      /\ Parked(r)' = {}
  BY <1>1, NothingHeld
<1>3. InStep(r)' /\ EntryRead(r)' /\ Reordering(r)'
  BY <1>0, <1>1 DEF InStep, EntryRead, Reordering, Read
<1>4. FirstParked(r)'
  <2> SUFFICES ASSUME t.phase \in {"parking", "placing"}
               PROVE  \E n \in 0 .. Len(t.order) :
                        /\ Parked(r)' = { t.order[i] : i \in 1 .. n }
                        /\ IsFiniteSet(Parked(r)') /\ Cardinality(Parked(r)') = n
                        /\ t.phase = "parking" => n < Len(t.order)
    BY <1>0 DEF FirstParked
  <2>1. Len(t.order) \in Nat \ {0}  BY DEF Read
  <2>2. 0 \in 0 .. Len(t.order) /\ 0 < Len(t.order)  BY <2>1
  <2>3. { t.order[i] : i \in 1 .. 0 } = {}  OBVIOUS
  <2>4. IsFiniteSet(Parked(r)') /\ Cardinality(Parked(r)') = 0  BY <1>2, FS_EmptySet
  <2> QED  BY <1>2, <2>2, <2>3, <2>4
<1>5. OneRequest(r)
  BY <1>2, <1>3, <1>4 DEF OneRequest, RequestInv
<1> QED
  BY <1>0, <1>5, <1>t, OthersStay DEF vars

LEMMA ReadsKeeps ==
    ASSUME QueueInv, IInv, EntriesInv, NEW r \in Requests, Reads(r)
    PROVE  EntriesInv'
<1>t. /\ qtxn[r] \in QueueTransactions /\ queue \in [Entries -> QueueRow]
      /\ \A e \in Entries : QIdle.draft[e] = NoQueueRow
  BY DEF QueueInv, QueueTypeOK, QIdle
<1>i. (Free(r) \/ qtxn[r].phase \in {"arrived", "listed"}) => txn[r] = Idle
  BY DEF Free, EntriesInv, RequestInv, InStep, IInv, WriteInvariant, Informed
<1>1. ASSUME NEW b \in Bookings, CreateFromBooking(r, b)  PROVE EntriesInv'
  <2> DEFINE t == [QIdle EXCEPT !.phase = "arrived", !.link = b,
                                !.to = "IN_QUEUE", !.provider = Owner[b]]
  <2>1. Read(t)  BY <1>t DEF Read, QIdle
  <2> QED  BY <1>1, <1>i, <2>1, ReadKeeps DEF CreateFromBooking
<1>2. ASSUME NEW p \in Providers, CreateWalkIn(r, p)  PROVE EntriesInv'
  <2>1. PICK n \in NextPositions(p) :
          qtxn' = [qtxn EXCEPT ![r] = [QIdle EXCEPT !.phase = "placed", !.provider = p,
                                                    !.position = n]]
    BY <1>2 DEF CreateWalkIn
  <2>2. Read([QIdle EXCEPT !.phase = "placed", !.provider = p, !.position = n])
    BY <1>t DEF Read, QIdle
  <2> QED  BY <1>2, <1>i, <2>1, <2>2, ReadKeeps DEF CreateWalkIn
<1>3. ASSUME NEW e \in Entries, NEW to \in QueueStatuses, FindEntry(r, e, to)  PROVE EntriesInv'
  <2> DEFINE t == [QIdle EXCEPT !.phase = "found", !.entry = e, !.to = to,
                                !.link = queue[e].booking]
  <2>1. queue[e].status # "NONE" /\ to # "WAITING"
    BY <1>3 DEF FindEntry, QueueEdges
  <2>2. Read(t)  BY <1>t, <2>1 DEF Read, QIdle
  <2> QED  BY <1>3, <1>i, <2>2, ReadKeeps DEF FindEntry
<1>4. ASSUME NEW e \in Entries, FindEntryToRemove(r, e)  PROVE EntriesInv'
  <2> DEFINE link == IF queue[e].status = "WAITING" THEN queue[e].booking ELSE Nobody
             t == [QIdle EXCEPT !.phase = "found", !.entry = e, !.to = "DELETED", !.link = link]
  <2>1. queue[e].status # "NONE"  BY <1>4, LiveIsARow DEF FindEntryToRemove
  <2>2. Read(t)  BY <1>t, <2>1 DEF Read, QIdle
  <2> QED  BY <1>4, <1>i, <2>2, ReadKeeps DEF FindEntryToRemove
<1>5. ASSUME NEW p \in Providers, NEW n \in 1..Cardinality(Waiting(p)),
             NEW order \in [1..n -> Entries], FindEntries(r, p, order)
      PROVE  EntriesInv'
  <2> DEFINE slots == {queue[e].position : e \in ToSet(order)}
             t == [QIdle EXCEPT !.phase = "listed", !.provider = p, !.order = order,
                                !.slots = slots]
  <2>1. qtxn' = [qtxn EXCEPT ![r] = t] /\ UNCHANGED <<vars, queue>> /\ Free(r)
        /\ IsInjective(order)
    BY <1>5 DEF FindEntries
  <2>2. \A e \in ToSet(order) : queue[e].status = "WAITING" /\ queue[e].provider = p
    BY <1>5 DEF FindEntries, Waiting
  <2>3. n \in Nat \ {0} /\ order \in Seq(Entries) /\ Len(order) = n
    OBVIOUS
  <2> HIDE DEF slots
  <2>4. Read(t)
    BY <1>t, <2>1, <2>2, <2>3 DEF Read, QIdle
  <2> QED  BY <1>i, <2>1, <2>4, ReadKeeps
<1>6. CASE ReadPosition(r)
  <2>1. PICK n \in NextPositions(qtxn[r].provider) :
          qtxn' = [qtxn EXCEPT ![r] = [@ EXCEPT !.phase = "placed", !.position = n]]
    BY <1>6 DEF ReadPosition
  <2>2. \A e \in Entries : qtxn[r].draft[e] = NoQueueRow
    BY <1>6 DEF ReadPosition, EntriesInv, RequestInv, InStep, Holds
  <2>3. Read([qtxn[r] EXCEPT !.phase = "placed", !.position = n])
    BY <1>t, <2>2 DEF Read, QueueTransactions
  <2> QED  BY <1>6, <1>i, <2>1, <2>3, ReadKeeps DEF ReadPosition
<1>7. CASE ListConfirmed(r)
  <2>1. \A e \in Entries : qtxn[r].draft[e] = NoQueueRow
    BY <1>7 DEF ListConfirmed, EntriesInv, RequestInv, InStep, Holds
  <2>2. Reordering(r)  BY DEF EntriesInv, RequestInv
  <2>3. Len(qtxn[r].order) \in Nat \ {0}
    BY <1>t, <1>7, <2>2 DEF Reordering, ListConfirmed, QueueTransactions
  <2>4. Read([qtxn[r] EXCEPT !.phase = "parking"])
    BY <1>t, <1>7, <2>1, <2>2, <2>3 DEF Read, QueueTransactions, Reordering, ListConfirmed
  <2> QED  BY <1>7, <1>i, <2>4, ReadKeeps DEF ListConfirmed
<1> QED  BY <1>1, <1>2, <1>3, <1>4, <1>5, <1>6, <1>7 DEF Reads, QueueCall

\* A request that ends without committing holds nothing any more.
LEMMA RollbackKeeps ==
    ASSUME QueueInv, IInv, EntriesInv, NEW r \in Requests, RollbackAll(r)
    PROVE  EntriesInv'
<1>t. /\ qtxn \in [Requests -> QueueTransactions] /\ txn \in [Requests -> Transactions]
  BY DEF QueueInv, QueueTypeOK, IInv, TypeOK
<1>0. /\ qtxn' = [qtxn EXCEPT ![r] = QIdle] /\ txn' = [txn EXCEPT ![r] = Idle]
      /\ queue' = queue /\ booking' = booking /\ ledger' = ledger
  BY DEF RollbackAll, Rollback, End, Drop
<1>1. qtxn'[r] = QIdle /\ txn'[r] = Idle  BY <1>0, <1>t
<1>2. \A e \in Entries : ~Holds(r, e)'  BY <1>1 DEF Holds, QIdle
<1>3. RequestInv(r)'
  <2>1. InStep(r)' /\ Reordering(r)' /\ FirstParked(r)' /\ EntryRead(r)'
    BY <1>1, <1>2 DEF InStep, Reordering, FirstParked, EntryRead, QIdle
  <2> QED  BY <1>2, <2>1, NothingHeld DEF RequestInv
<1>4. OneRequest(r)
  BY <1>2, <1>3, NothingHeld DEF OneRequest
<1>5. /\ \A s \in Requests \ {r} : txn'[s] = txn[s]
      /\ txn'[r].phase # "deleted" /\ qtxn' = [qtxn EXCEPT ![r] = qtxn'[r]]
  BY <1>0, <1>1, <1>t DEF Idle
<1> QED  BY <1>0, <1>4, <1>5, <1>t, OthersStay

\* The one write of an insert, a status change or a removal.
LEMMA WriteKeeps ==
    ASSUME QueueInv, EntriesInv, NEW r \in Requests, UNCHANGED <<vars, queue>>,
           qtxn[r].phase \in {"placed", "found"},
           NEW e \in Entries, NEW row, WriteOnly(r, e, row), row # NoQueueRow,
           \/ queue[e] = NoQueueRow /\ row.status = "WAITING"
           \/ Live(queue[e]) /\ row = Blank("DELETED")
           \/ /\ Live(queue[e]) /\ Live(row) /\ row.status # "WAITING"
              /\ row.provider = queue[e].provider /\ row.booking = queue[e].booking,
           \A x \in Entries \ {e} : ~Conflict(row, queue[x]),
           \A s \in Requests \ {r} :
              /\ ~Holds(s, e)
              /\ \A x \in Entries \ {e} :
                    (qtxn[s].phase \in Written /\ Holds(s, x)) => ~Conflict(row, qtxn[s].draft[x]),
           Moves(queue[e], row) =>
              Onward(r) = "sync" /\ queue[e].booking = qtxn[r].link /\ row.status = qtxn[r].to,
           (queue[e] = NoQueueRow /\ row.booking # Nobody) =>
              /\ Exists(booking[row.booking])
              /\ \A s \in Requests : ~(txn[s].phase = "deleted" /\ txn[s].booking = row.booking)
    PROVE  EntriesInv'
<1>t. qtxn \in [Requests -> QueueTransactions]
  BY DEF QueueInv, QueueTypeOK
<1>0. queue' = queue /\ txn' = txn /\ booking' = booking
  BY DEF vars
<1>1. txn[r] = Idle /\ \A x \in Entries : qtxn[r].draft[x] = NoQueueRow
  BY DEF EntriesInv, RequestInv, InStep, Holds
<1>2. /\ qtxn' = [qtxn EXCEPT ![r] = qtxn'[r]]
      /\ qtxn'[r].phase = Onward(r) /\ qtxn'[r].to = qtxn[r].to /\ qtxn'[r].link = qtxn[r].link
      /\ qtxn'[r].draft = Draft(r, e, row)
  BY <1>t DEF WriteOnly, QIdle
<1>3. /\ qtxn'[r].draft[e] = row
      /\ \A x \in Entries \ {e} : qtxn'[r].draft[x] = NoQueueRow
  BY <1>t, <1>1, <1>2 DEF Draft, QueueTransactions
<1>4. qtxn'[r].phase \in {"sync", "ready"} /\ qtxn'[r].phase \in Written
  BY <1>2 DEF Onward, Written
<1>5. \A x \in Entries : Holds(r, x)' <=> x = e
  BY <1>3 DEF Holds
<1>6. InStep(r)' /\ Reordering(r)' /\ FirstParked(r)' /\ EntryRead(r)'
  BY <1>0, <1>1, <1>4 DEF InStep, Reordering, FirstParked, EntryRead
<1>7. Versions(r)'
  BY <1>0, <1>3, <1>4, <1>5 DEF Versions, Version
<1>8. Apart(r)'
  BY <1>0, <1>3, <1>5 DEF Apart
<1>9. BookingFollows(r)'
  BY <1>0, <1>2, <1>3, <1>5 DEF BookingFollows
<1>10. InsertReferences(r)'
  BY <1>0, <1>3, NoRowFacts DEF InsertReferences
<1>11. ASSUME NEW s \in Requests \ {r}  PROVE Beside(r, s)'
  <2>1. qtxn'[s] = qtxn[s]  BY <1>t, <1>2
  <2> QED  BY <1>3, <1>5, <2>1 DEF Beside, Holds
<1>12. OneRequest(r)
  BY <1>6, <1>7, <1>8, <1>9, <1>10, <1>11 DEF OneRequest, RequestInv
<1> QED  BY <1>2, <1>12, <1>t, OthersStay DEF vars

LEMMA InsertKeeps ==
    ASSUME QueueInv, IInv, EntriesInv, NEW r \in Requests, NEW e \in Entries, InsertEntry(r, e)
    PROVE  EntriesInv'
<1> DEFINE row == [status  |-> "WAITING",      provider |-> qtxn[r].provider,
                   booking |-> qtxn[r].link,   position |-> qtxn[r].position]
<1>0. /\ qtxn[r].phase = "placed" /\ queue[e] = NoQueueRow /\ ~HeldByOther(r, e)
      /\ WriteOnly(r, e, row) /\ UNCHANGED <<vars, queue>> /\ CanInsert(r)
      /\ \A s \in Requests \ {r} : ~InsertWaitsFor(r, s)
  BY DEF InsertEntry
<1>1. \A other : Conflict(row, other) => Clashes(other, qtxn[r])
  BY DEF Conflict, Clashes
<1>2. \A x \in Entries \ {e} : ~Conflict(row, queue[x])
  BY <1>0, <1>1 DEF CanInsert
<1>3. \A s \in Requests \ {r} : /\ ~Holds(s, e)
                                /\ \A x \in Entries : Holds(s, x) => ~Conflict(row, qtxn[s].draft[x])
  BY <1>0, <1>1 DEF HeldByOther, InsertWaitsFor
<1>4. ASSUME row.booking # Nobody
      PROVE  /\ Exists(booking[row.booking])
             /\ \A s \in Requests : ~(txn[s].phase = "deleted" /\ txn[s].booking = row.booking)
  <2>1. qtxn[r].link \in Bookings  BY <1>4 DEF QueueInv, QueueTypeOK, QueueTransactions
  <2>2. ASSUME NEW s \in Requests, txn[s].phase = "deleted", txn[s].booking = qtxn[r].link
        PROVE  FALSE
    <3>1. s # r  BY <1>0, <2>2 DEF EntriesInv, RequestInv, InStep, Idle
    <3>2. lock[qtxn[r].link] = s  BY <2>2 DEF IInv, WriteInvariant, Locked, Holding
    <3> QED  BY <1>0, <2>1, <2>2, <3>1, <3>2 DEF InsertWaitsFor
  <2> QED  BY <1>0, <1>4, <2>2 DEF CanInsert
<1>5. row # NoQueueRow /\ row.status = "WAITING" /\ ~Moves(queue[e], row)
  BY <1>0, NoRowFacts DEF Moves
<1> HIDE DEF row
<1> QED  BY <1>0, <1>2, <1>3, <1>4, <1>5, WriteKeeps

LEMMA WriteEntryKeeps ==
    ASSUME QueueInv, IInv, EntriesInv, NEW r \in Requests, WriteEntry(r)
    PROVE  EntriesInv'
<1> DEFINE e == qtxn[r].entry
           row == IF qtxn[r].to = "DELETED"
                  THEN Blank("DELETED") ELSE [queue[e] EXCEPT !.status = qtxn[r].to]
<1>0. /\ qtxn[r].phase = "found" /\ ~HeldByOther(r, e) /\ Live(queue[e])
      /\ WriteOnly(r, e, row) /\ UNCHANGED <<vars, queue>>
  BY DEF WriteEntry
<1>1. e \in Entries /\ qtxn[r].to \in QueueStatuses \cup {"DELETED"}
  BY <1>0 DEF QueueInv, QueueInformed, Knows
<1>2. queue[e] \in QueueRow  BY <1>1 DEF QueueInv, QueueTypeOK
<1>3. EntryRead(r) /\ CommittedApart /\ \A s \in Requests : Apart(s)
  BY DEF EntriesInv, RequestInv
<1>4. CASE qtxn[r].to = "DELETED"
  <2>1. /\ row = Blank("DELETED") /\ row # NoQueueRow /\ row.status = "DELETED"
        /\ row.booking = Nobody /\ ~Live(row)
    BY <1>4, DeletedFacts
  <2>2. \A other : ~Conflict(row, other)  BY <2>1 DEF Conflict
  <2>3. Moves(queue[e], row) =>
           Onward(r) = "sync" /\ queue[e].booking = qtxn[r].link /\ row.status = qtxn[r].to
    BY <1>0, <1>3, <1>4, <2>1 DEF Moves, EntryRead, Onward
  <2> HIDE DEF row
  <2> QED  BY <1>0, <1>1, <2>1, <2>2, <2>3, WriteKeeps DEF HeldByOther
<1>5. CASE qtxn[r].to # "DELETED"
  <2>1. /\ row.status = qtxn[r].to /\ row.provider = queue[e].provider
        /\ row.booking = queue[e].booking /\ row.position = queue[e].position
    BY <1>2, <1>5 DEF QueueRow
  <2>2. row.status # "WAITING" /\ Live(row) /\ row # NoQueueRow
    BY <1>0, <1>1, <1>3, <1>5, <2>1, LiveIsARow DEF EntryRead, Live
  <2>3. Moves(queue[e], row) =>
           Onward(r) = "sync" /\ queue[e].booking = qtxn[r].link /\ row.status = qtxn[r].to
    BY <1>0, <1>3, <1>5, <2>1 DEF Moves, EntryRead, Onward
  <2>4. queue[e] # NoQueueRow  BY <1>0, LiveIsARow
  <2> HIDE DEF row
  <2>5. \A other : Conflict(row, other) => Conflict(queue[e], other)
    BY <1>0, <2>1, ConflictKept
  <2>6. \A x \in Entries \ {e} : ~Conflict(row, queue[x])
    BY <1>1, <1>3, <2>5 DEF CommittedApart
  <2>7. ASSUME NEW s \in Requests \ {r}, NEW x \in Entries \ {e},
               qtxn[s].phase \in Written, Holds(s, x)
        PROVE  ~Conflict(row, qtxn[s].draft[x])
    <3>1. ~Holds(s, e)  BY <1>0 DEF HeldByOther
    <3>2. ~Conflict(qtxn[s].draft[x], queue[e])  BY <1>1, <1>3, <2>7, <3>1 DEF Apart
    <3> QED  BY <2>5, <3>2, ConflictBothWays
  <2> HIDE DEF e
  <2> QED  BY <1>0, <1>1, <2>1, <2>2, <2>3, <2>4, <2>6, <2>7, WriteKeeps DEF HeldByOther
<1> QED  BY <1>4, <1>5

\* A request that has not come to Written has only moved rows within their
\* provider.
LEMMA MovedOnly ==
    ASSUME NEW r \in Requests, Versions(r), qtxn[r].phase \notin Written, NEW e \in Entries, Holds(r, e)
    PROVE  /\ Live(queue[e]) /\ Live(qtxn[r].draft[e]) /\ queue[e] # NoQueueRow
           /\ qtxn[r].draft[e].provider = queue[e].provider
           /\ qtxn[r].draft[e].booking = queue[e].booking
           /\ qtxn[r].draft[e].status = queue[e].status
BY LiveIsARow DEF Versions, Version

\* The rows a reorder has parked are its own.
LEMMA ParkedAreOrdered ==
    ASSUME QueueInv, NEW r \in Requests, Reordering(r), FirstParked(r),
           qtxn[r].phase \in {"parking", "placing"}, NEW e \in Parked(r)
    PROVE  \E i \in 1 .. Len(qtxn[r].order) : e = qtxn[r].order[i]
<1>1. PICK n \in 0 .. Len(qtxn[r].order) : Parked(r) = { qtxn[r].order[i] : i \in 1 .. n }
  BY DEF FirstParked
<1>2. qtxn[r].order \in Seq(Entries)  BY DEF QueueInv, QueueTypeOK, QueueTransactions
<1>3. 1 .. n \subseteq 1 .. Len(qtxn[r].order)  BY <1>2
<1> QED  BY <1>1, <1>3

LEMMA ParkKeeps ==
    ASSUME QueueInv, IInv, EntriesInv, NEW r \in Requests, ParkEntry(r)
    PROVE  EntriesInv'
<1> DEFINE order == qtxn[r].order
           e == NextToPark(r)
           row == [queue[e] EXCEPT !.position = SentinelOffset + e]
           last == Cardinality(Parked(r)) + 1 = Len(order)
<1>t. /\ qtxn \in [Requests -> QueueTransactions] /\ order \in Seq(Entries)
      /\ queue \in [Entries -> QueueRow]
  BY DEF QueueInv, QueueTypeOK, QueueTransactions
<1>0. /\ qtxn[r].phase = "parking" /\ ~HeldByOther(r, e) /\ Live(queue[e])
      /\ qtxn' = [qtxn EXCEPT ![r] =
                    [@ EXCEPT !.phase = IF last THEN "placing" ELSE "parking",
                              !.draft = Draft(r, e, row)]]
      /\ UNCHANGED <<vars, queue>> /\ queue' = queue /\ txn' = txn
  BY DEF ParkEntry, vars
<1>i. /\ InStep(r) /\ Versions(r) /\ Reordering(r) /\ FirstParked(r)
      /\ \A s \in Requests \ {r} : Beside(r, s)
  BY DEF EntriesInv, RequestInv
<1>1. PICK n \in 0 .. Len(order) :
        /\ Parked(r) = { order[i] : i \in 1 .. n }
        /\ IsFiniteSet(Parked(r)) /\ Cardinality(Parked(r)) = n /\ n < Len(order)
  BY <1>0, <1>i DEF FirstParked
<1>2. /\ n \in Nat /\ n + 1 \in 1 .. Len(order) /\ e = order[n + 1] /\ e \in Entries
      /\ 1 .. (n + 1) = (1 .. n) \cup {n + 1}
  <2>1. n \in Nat /\ Len(order) \in Nat  BY <1>t
  <2>2. n + 1 \in 1 .. Len(order)  BY <1>1, <2>1
  <2>3. e = order[n + 1]  BY <1>1 DEF NextToPark
  <2>4. order[n + 1] \in Entries  BY <1>t, <2>2
  <2>5. 1 .. (n + 1) = (1 .. n) \cup {n + 1}  BY <2>1
  <2> QED  BY <2>1, <2>2, <2>3, <2>4, <2>5
<1>3. e \notin Parked(r)
  <2> SUFFICES ASSUME NEW i \in 1 .. n, order[i] = order[n + 1]  PROVE FALSE
    BY <1>1, <1>2
  <2>1. IsInjective(order)  BY <1>0, <1>i DEF Reordering
  <2>2. i \in DOMAIN order /\ n + 1 \in DOMAIN order /\ i # n + 1  BY <1>t, <1>2
  <2> QED  BY <2>1, <2>2 DEF IsInjective
<1>4. /\ row.status = queue[e].status /\ row.provider = queue[e].provider
      /\ row.booking = queue[e].booking /\ Live(row) /\ row # NoQueueRow
  <2>1. /\ row.status = queue[e].status /\ row.provider = queue[e].provider
        /\ row.booking = queue[e].booking
    BY <1>t, <1>2 DEF QueueRow
  <2>2. Live(row)  BY <1>0, <2>1 DEF Live
  <2> QED  BY <2>1, <2>2, LiveIsARow
<1> HIDE DEF e, row, last
<1>5. /\ qtxn'[r].phase \in {"parking", "placing"} /\ (qtxn'[r].phase = "parking" <=> ~last)
      /\ qtxn'[r].order = order /\ qtxn'[r].provider = qtxn[r].provider
      /\ qtxn'[r].draft = Draft(r, e, row)
  BY <1>0, <1>t DEF QueueTransactions
<1>6. /\ qtxn'[r].draft[e] = row
      /\ \A x \in Entries \ {e} : qtxn'[r].draft[x] = qtxn[r].draft[x]
  BY <1>t, <1>2, <1>5 DEF Draft, QueueTransactions
<1>7. \A x \in Entries : Holds(r, x)' <=> (x = e \/ Holds(r, x))
  BY <1>4, <1>6 DEF Holds
<1>8. Versions(r)'
  <2> SUFFICES ASSUME NEW x \in Entries, Holds(r, x)'
               PROVE  Version(r, queue[x], qtxn[r].draft[x])'
    BY DEF Versions
  <2>1. CASE x = e
    BY <1>0, <1>4, <1>6, <2>1 DEF Version
  <2>2. CASE x # e
    <3>1. Holds(r, x) /\ qtxn'[r].draft[x] = qtxn[r].draft[x]  BY <1>6, <1>7, <2>2
    <3>2. qtxn[r].phase \notin Written  BY <1>0 DEF Written
    <3> QED  BY <1>0, <1>i, <3>1, <3>2, MovedOnly DEF Version
  <2> QED  BY <2>1, <2>2
<1>9. qtxn'[r].phase \notin Written /\ qtxn'[r].phase \notin {"idle", "syncing", "found"}
  BY <1>5 DEF Written
<1>10. InStep(r)' /\ Apart(r)' /\ EntryRead(r)'
  BY <1>0, <1>5, <1>9, <1>i DEF InStep, Apart, EntryRead
<1>11. Reordering(r)'
  BY <1>0, <1>5, <1>i DEF Reordering
<1>12. FirstParked(r)'
  <2>1. Parked(r)' = Parked(r) \cup {e}  BY <1>2, <1>7 DEF Parked
  <2>2. IsFiniteSet(Parked(r)') /\ Cardinality(Parked(r)') = n + 1
    <3>1. IsFiniteSet(Parked(r)) /\ Cardinality(Parked(r)) = n  BY <1>1
    <3>2. /\ IsFiniteSet(Parked(r) \cup {e})
          /\ Cardinality(Parked(r) \cup {e}) = Cardinality(Parked(r)) + 1
      BY <1>3, <3>1, FS_AddElement
    <3> QED  BY <2>1, <3>1, <3>2
  <2>3. Parked(r)' = { order[i] : i \in 1 .. (n + 1) }
    BY <1>1, <1>2, <2>1
  <2>4. qtxn'[r].phase = "parking" => n + 1 < Len(order)
    BY <1>1, <1>2, <1>5, <1>t DEF last
  <2>5. n + 1 \in 0 .. Len(order)  BY <1>2
  <2> QED  BY <1>5, <2>2, <2>3, <2>4, <2>5 DEF FirstParked
<1>13. BookingFollows(r)' /\ InsertReferences(r)'
  <2>1. \A x \in Entries : Holds(r, x)' =>
           /\ queue'[x] # NoQueueRow /\ qtxn'[r].draft[x].status = queue'[x].status
    <3> SUFFICES ASSUME NEW x \in Entries, Holds(r, x)'
                 PROVE  queue'[x] # NoQueueRow /\ qtxn'[r].draft[x].status = queue'[x].status
      OBVIOUS
    <3>1. CASE x = e
      BY <1>0, <1>4, <1>6, <3>1, LiveIsARow
    <3>2. CASE x # e
      BY <1>0, <1>i, <1>6, <1>7, <3>2, MovedOnly DEF Written
    <3> QED  BY <3>1, <3>2
  <2> QED  BY <2>1, NoRowFacts DEF BookingFollows, InsertReferences, Moves, Holds
<1>14. ASSUME NEW s \in Requests \ {r}  PROVE Beside(r, s)'
  <2>1. qtxn'[s] = qtxn[s]  BY <1>0, <1>t
  <2>2. \A x \in Entries : ~(Holds(r, x)' /\ Holds(s, x)')
    BY <1>0, <1>7, <1>i, <2>1 DEF HeldByOther, Beside, Holds
  <2> QED  BY <1>9, <2>2 DEF Beside
<1>15. OneRequest(r)
  BY <1>8, <1>10, <1>11, <1>12, <1>13, <1>14 DEF OneRequest, RequestInv
<1>16. qtxn' = [qtxn EXCEPT ![r] = qtxn'[r]]  BY <1>0, <1>t
<1> QED  BY <1>0, <1>15, <1>16, <1>t, OthersStay DEF vars

\* The second phase of a reorder: distinct places for the parked rows, none
\* of them taken by a row that is not.
LEMMA PlaceKeeps ==
    ASSUME QueueInv, IInv, EntriesInv, NEW r \in Requests, PlaceEntries(r)
    PROVE  EntriesInv'
<1> DEFINE order == qtxn[r].order
<1>t. /\ qtxn \in [Requests -> QueueTransactions] /\ order \in Seq(Entries)
      /\ queue \in [Entries -> QueueRow] /\ qtxn[r].slots \subseteq Nat
      /\ qtxn[r].draft \in [Entries -> QueueRow]
  BY DEF QueueInv, QueueTypeOK, QueueTransactions
<1>1. PICK place \in [Parked(r) -> qtxn[r].slots] :
        /\ InOrder(place, order)
        /\ qtxn' = [qtxn EXCEPT ![r] =
                      [QIdle EXCEPT !.phase = "ready",
                                    !.draft = [e \in Entries |->
                                        IF e \in Parked(r)
                                        THEN [qtxn[r].draft[e] EXCEPT !.position = place[e]]
                                        ELSE NoQueueRow]]]
  BY DEF PlaceEntries
<1>0. /\ qtxn[r].phase = "placing" /\ SlotsFree(r)
      /\ \A s \in Requests \ {r} : ~PlacingWaitsFor(r, s)
      /\ UNCHANGED <<vars, queue>> /\ queue' = queue /\ txn' = txn
  BY DEF PlaceEntries, vars
<1>i. /\ InStep(r) /\ Versions(r) /\ Reordering(r) /\ FirstParked(r) /\ CommittedApart
      /\ \A s \in Requests : Apart(s)
      /\ \A s \in Requests \ {r} : Beside(r, s)
  BY DEF EntriesInv, RequestInv
<1>2. qtxn'[r].phase = "ready" /\ qtxn' = [qtxn EXCEPT ![r] = qtxn'[r]]
  BY <1>1, <1>t DEF QIdle
<1>3. \A e \in Entries :
        qtxn'[r].draft[e] = IF e \in Parked(r)
                            THEN [qtxn[r].draft[e] EXCEPT !.position = place[e]]
                            ELSE NoQueueRow
  BY <1>1, <1>t DEF QIdle
\* The rows held before and after.
<1>4. ASSUME NEW e \in Entries, e \in Parked(r)
      PROVE  /\ Holds(r, e) /\ Holds(r, e)'
             /\ Live(queue[e]) /\ Live(qtxn'[r].draft[e]) /\ queue[e] # NoQueueRow
             /\ queue[e].provider = qtxn[r].provider
             /\ qtxn'[r].draft[e].provider = qtxn[r].provider
             /\ qtxn'[r].draft[e].booking = queue[e].booking
             /\ qtxn'[r].draft[e].status = queue[e].status
             /\ qtxn'[r].draft[e].position = place[e] /\ place[e] \in qtxn[r].slots
  <2>1. Holds(r, e)  BY <1>4 DEF Parked
  <2>2. /\ Live(queue[e]) /\ Live(qtxn[r].draft[e]) /\ queue[e] # NoQueueRow
        /\ qtxn[r].draft[e].provider = queue[e].provider
        /\ qtxn[r].draft[e].booking = queue[e].booking
        /\ qtxn[r].draft[e].status = queue[e].status
    BY <1>0, <1>i, <2>1, MovedOnly DEF Written
  <2>3. PICK i \in 1 .. Len(order) : e = order[i]
    BY <1>0, <1>4, <1>i, ParkedAreOrdered
  <2>4. e \in ToSet(order)  BY <1>t, <2>3 DEF ToSet
  <2>5. queue[e].provider = qtxn[r].provider
    BY <1>0, <1>i, <2>2, <2>4 DEF Reordering
  <2>6. /\ qtxn'[r].draft[e].provider = qtxn[r].draft[e].provider
        /\ qtxn'[r].draft[e].booking = qtxn[r].draft[e].booking
        /\ qtxn'[r].draft[e].status = qtxn[r].draft[e].status
        /\ qtxn'[r].draft[e].position = place[e]
    BY <1>3, <1>4, <1>t DEF QueueRow
  <2>7. Live(qtxn'[r].draft[e])  BY <2>2, <2>6 DEF Live
  <2>8. Holds(r, e)'  BY <2>7, LiveIsARow DEF Holds
  <2>9. place[e] \in qtxn[r].slots  BY <1>4
  <2> QED  BY <2>1, <2>2, <2>5, <2>6, <2>7, <2>8, <2>9
<1>5. \A e \in Entries : Holds(r, e)' <=> e \in Parked(r)
  BY <1>3, <1>4 DEF Holds
<1>6. InStep(r)' /\ Reordering(r)' /\ FirstParked(r)' /\ EntryRead(r)'
  BY <1>0, <1>2, <1>i DEF InStep, Reordering, FirstParked, EntryRead
<1>7. Versions(r)' /\ BookingFollows(r)' /\ InsertReferences(r)'
  <2>1. \A e \in Entries : Holds(r, e)' => Version(r, queue[e], qtxn[r].draft[e])'
    BY <1>0, <1>4, <1>5 DEF Version
  <2>2. \A e \in Entries : Holds(r, e)' => ~Moves(queue'[e], qtxn'[r].draft[e]) /\ queue'[e] # NoQueueRow
    BY <1>0, <1>4, <1>5 DEF Moves
  <2> QED
    BY <2>1, <2>2, NoRowFacts DEF Versions, BookingFollows, InsertReferences, Holds
\* A conflict with a placed row is one about the place.
<1>8. ASSUME NEW e \in Entries, e \in Parked(r), NEW other, Conflict(qtxn'[r].draft[e], other)
      PROVE  \/ Conflict(queue[e], other)
             \/ Live(other) /\ other.provider = qtxn[r].provider /\ other.position = place[e]
  BY <1>4, <1>8 DEF Conflict
<1>9. Apart(r)'
  <2> SUFFICES ASSUME NEW e \in Entries, NEW x \in Entries, e \in Parked(r), e # x,
                      Conflict(qtxn'[r].draft[e], IF x \in Parked(r) THEN qtxn'[r].draft[x] ELSE queue[x])
               PROVE  FALSE
    BY <1>0, <1>5 DEF Apart
  <2>1. CASE x \in Parked(r)
    <3>1. PICK i \in 1 .. Len(order) : e = order[i]  BY <1>0, <1>i, ParkedAreOrdered
    <3>2. PICK j \in 1 .. Len(order) : x = order[j]  BY <1>0, <1>i, <2>1, ParkedAreOrdered
    <3>3. i < j \/ j < i  BY <3>1, <3>2
    <3>4. i \in DOMAIN order /\ j \in DOMAIN order  BY <1>t
    <3>5. place[e] < place[x] \/ place[x] < place[e]
      BY <1>1, <3>1, <3>2, <3>3, <3>4 DEF InOrder
    <3>6. place[e] \in Nat /\ place[x] \in Nat  BY <1>4, <1>t, <2>1
    <3>7. place[e] # place[x]  BY <3>5, <3>6
    <3>8. qtxn'[r].draft[x].position = place[x]  BY <1>4, <2>1
    <3>9. Conflict(queue[e], qtxn'[r].draft[x])  BY <1>8, <2>1, <3>7, <3>8
    <3>10. queue[e].booking # Nobody /\ queue[e].booking = queue[x].booking
      BY <1>4, <2>1, <3>7, <3>8 DEF Conflict
    <3> QED  BY <1>4, <1>i, <2>1, <3>10 DEF Conflict, CommittedApart
  <2>2. CASE x \notin Parked(r)
    <3>1. ~Conflict(queue[e], queue[x])  BY <1>i DEF CommittedApart
    <3>2. Live(queue[x]) /\ queue[x].provider = qtxn[r].provider /\ queue[x].position = place[e]
      BY <1>8, <2>2, <3>1
    <3>3. Occupies(queue[x], qtxn[r])  BY <1>4, <3>2 DEF Occupies
    <3> QED  BY <1>0, <2>2, <3>3 DEF SlotsFree, Parked
  <2> QED  BY <2>1, <2>2
<1>10. ASSUME NEW s \in Requests \ {r}  PROVE Beside(r, s)'
  <2>1. qtxn'[s] = qtxn[s]  BY <1>2, <1>t
  <2>2. \A e \in Entries : e \in Parked(r) => ~Holds(s, e)
    BY <1>i DEF Beside, Parked
  <2>3. ASSUME NEW e \in Entries, NEW x \in Entries, e \in Parked(r), qtxn[s].phase \in Written,
               Holds(s, x), e # x, Conflict(qtxn'[r].draft[e], qtxn[s].draft[x])
        PROVE  FALSE
    <3>1. ~Conflict(qtxn[s].draft[x], queue[e])  BY <1>i, <2>2, <2>3 DEF Apart
    <3>2. Occupies(qtxn[s].draft[x], qtxn[r])
      BY <1>4, <1>8, <2>3, <3>1, ConflictBothWays DEF Occupies
    <3> QED  BY <1>0, <2>3, <3>2 DEF PlacingWaitsFor
  <2> QED  BY <1>5, <2>1, <2>2, <2>3 DEF Beside, Holds
<1>11. OneRequest(r)
  BY <1>6, <1>7, <1>9, <1>10 DEF OneRequest, RequestInv
<1> QED  BY <1>0, <1>2, <1>11, <1>t, OthersStay DEF vars

\* The entry's booking is read for its update: the statement takes over what
\* the request knew.
LEMMA SyncKeeps ==
    ASSUME QueueInv, IInv, EntriesInv, NEW r \in Requests, SyncBooking(r)
    PROVE  EntriesInv'
<1>t. /\ qtxn \in [Requests -> QueueTransactions] /\ txn \in [Requests -> Transactions]
  BY DEF QueueInv, QueueTypeOK, IInv, TypeOK
<1>0. /\ qtxn[r].phase = "sync"
      /\ txn' = [txn EXCEPT ![r] = Busy("found", qtxn[r].link, SyncStatus(qtxn[r].to))]
      /\ qtxn' = [qtxn EXCEPT ![r] = [QIdle EXCEPT !.phase = "syncing", !.draft = qtxn[r].draft]]
      /\ UNCHANGED <<booking, ledger, queue>>
  BY DEF SyncBooking, FindBooking
<1>i. RequestInv(r) /\ \A s \in Requests \ {r} : Beside(r, s)
  BY DEF EntriesInv
<1>1. /\ qtxn'[r].phase = "syncing" /\ qtxn'[r].draft = qtxn[r].draft
      /\ txn'[r].phase = "found" /\ txn'[r].booking = qtxn[r].link
      /\ txn'[r].to = SyncStatus(qtxn[r].to)
      /\ qtxn' = [qtxn EXCEPT ![r] = qtxn'[r]]
      /\ \A s \in Requests \ {r} : txn'[s] = txn[s] /\ qtxn'[s] = qtxn[s]
  BY <1>0, <1>t DEF QIdle, Busy
<1>2. \A e \in Entries : Holds(r, e)' <=> Holds(r, e)
  BY <1>1 DEF Holds
<1>3. InStep(r)' /\ Reordering(r)' /\ FirstParked(r)' /\ EntryRead(r)'
  BY <1>1 DEF InStep, Reordering, FirstParked, EntryRead
<1>4. Versions(r)' /\ Apart(r)'
  BY <1>0, <1>1, <1>2, <1>i DEF RequestInv, Versions, Version, Apart, Written
<1>5. BookingFollows(r)'
  BY <1>0, <1>1, <1>2, <1>i DEF RequestInv, BookingFollows
<1>6. InsertReferences(r)'
  BY <1>0, <1>1, <1>i DEF RequestInv, InsertReferences
<1>7. \A s \in Requests \ {r} : Beside(r, s)'
  BY <1>0, <1>1, <1>2, <1>i DEF Beside, Holds, Written
<1>8. OneRequest(r)
  BY <1>3, <1>4, <1>5, <1>6, <1>7 DEF OneRequest, RequestInv
<1> QED  BY <1>0, <1>1, <1>8, <1>t, OthersStay

-----------------------------------------------------------------------------
(* Commits.                                                                *)

LEMMA IdleRequest ==
    ASSUME NEW r, qtxn'[r] = QIdle, txn'[r] = Idle
    PROVE  OneRequest(r)
<1>1. \A e \in Entries : ~Holds(r, e)'  BY DEF Holds, QIdle
<1>2. InStep(r)' /\ Reordering(r)' /\ FirstParked(r)' /\ EntryRead(r)'
  BY <1>1 DEF InStep, Reordering, FirstParked, EntryRead, QIdle
<1> QED  BY <1>1, <1>2, NothingHeld DEF OneRequest, RequestInv

\* What is committed is as far apart as what was written; the other requests'
\* versions are of other rows; and a completed entry comes with its charge.
LEMMA ApplyKeeps ==
    ASSUME QueueInv, IInv, EntriesInv, NEW r \in Requests, Apply(r), TablesGrow,
           qtxn[r].phase \in Written \cup {"idle"},
           txn'[r] = Idle, \A s \in Requests \ {r} : txn'[s] = txn[s],
           \A e \in Entries, b \in Bookings :
              (/\ Holds(r, e) /\ Moves(queue[e], qtxn[r].draft[e])
               /\ queue[e].booking = b /\ qtxn[r].draft[e].status = "COMPLETED") => InLedger(b)'
    PROVE  EntriesInv'
<1>t. /\ queue \in [Entries -> QueueRow] /\ qtxn \in [Requests -> QueueTransactions]
  BY DEF QueueInv, QueueTypeOK
<1>0. /\ \A e \in Entries : queue'[e] = IF Holds(r, e) THEN qtxn[r].draft[e] ELSE queue[e]
      /\ qtxn'[r] = QIdle /\ \A s \in Requests \ {r} : qtxn'[s] = qtxn[s]
  BY <1>t DEF Apply
<1>r. \A e \in Entries : queue'[e] \in QueueRow
  BY <1>0, <1>t DEF QueueTransactions
<1>i. /\ RequestInv(r) /\ CommittedApart /\ LinksResolve /\ CompletedEntryIsAccounted
      /\ \A s \in Requests \ {r} : RequestInv(s) /\ Beside(r, s) /\ Beside(s, r)
  BY DEF EntriesInv
<1>1. \A e \in Entries : Holds(r, e) => qtxn[r].phase \in Written /\ Version(r, queue[e], qtxn[r].draft[e])
  BY <1>i DEF RequestInv, InStep, Versions
<1>2. OneRequest(r)
  BY <1>0, IdleRequest
<1>3. ASSUME NEW s \in Requests, s # r  PROVE RequestInv(s)'
  <2>1. RequestInv(s) /\ qtxn'[s] = qtxn[s] /\ txn'[s] = txn[s]
    BY <1>0, <1>3, <1>i
  <2>2. \A e \in Entries : Holds(s, e) => ~Holds(r, e) /\ queue'[e] = queue[e]
    BY <1>0, <1>3, <1>i DEF Beside
  <2>3. \A e \in Entries : Holds(s, e)' <=> Holds(s, e)
    BY <2>1 DEF Holds
  \* What another's commit may have done to a row that was read.
  <2>4. ASSUME NEW e \in Entries, queue[e].status # "NONE"
        PROVE  /\ queue'[e].status # "NONE"
               /\ Live(queue'[e]) => Live(queue[e]) /\ queue'[e].provider = queue[e].provider
               /\ queue'[e].booking \in {Nobody, queue[e].booking}
               /\ queue'[e].status = "WAITING" => queue[e].status = "WAITING"
    <3>1. CASE ~Holds(r, e)
      BY <1>0, <2>4, <3>1
    <3>2. CASE Holds(r, e)
      <4>1. queue'[e] = qtxn[r].draft[e] /\ queue[e] # NoQueueRow
        BY <1>0, <2>4, <3>2, NoRowFacts
      <4>2. \/ queue'[e] = Blank("DELETED")
            \/ /\ Live(queue[e]) /\ Live(queue'[e])
               /\ queue'[e].provider = queue[e].provider /\ queue'[e].booking = queue[e].booking
               /\ queue'[e].status = queue[e].status \/ queue'[e].status # "WAITING"
        BY <1>1, <3>2, <4>1 DEF Version
      <4>3. CASE queue'[e] = Blank("DELETED")
        BY <4>3, DeletedFacts DEF Live
      <4>4. CASE queue'[e] # Blank("DELETED")
        BY <4>2, <4>4, LiveIsARow DEF Live
      <4> QED  BY <4>3, <4>4
    <3> QED  BY <3>1, <3>2
  <2>5. InStep(s)' /\ FirstParked(s)'
    <3>1. Parked(s)' = Parked(s)  BY <2>3 DEF Parked
    <3>2. InStep(s)'  BY <2>1, <2>3 DEF RequestInv, InStep
    <3> QED  BY <2>1, <3>1, <3>2 DEF RequestInv, FirstParked
  <2>6. Versions(s)' /\ BookingFollows(s)'
    BY <2>1, <2>2, <2>3 DEF RequestInv, Versions, Version, BookingFollows
  <2>7. Apart(s)'
    <3> SUFFICES ASSUME NEW e \in Entries, NEW x \in Entries, qtxn[s].phase \in Written,
                        Holds(s, e), e # x, ~Holds(s, x), Conflict(qtxn[s].draft[e], queue'[x])
                 PROVE  FALSE
      BY <2>1, <2>3 DEF RequestInv, Apart
    <3>1. CASE Holds(r, x)
      BY <1>0, <1>1, <1>3, <1>i, <3>1 DEF Beside
    <3>2. CASE ~Holds(r, x)
      BY <1>0, <2>1, <3>2 DEF RequestInv, Apart
    <3> QED  BY <3>1, <3>2
  <2>8. Reordering(s)'
    <3>1. qtxn[s].order \in Seq(Entries)  BY <1>t DEF QueueTransactions
    <3>2. ToSet(qtxn[s].order) \subseteq Entries  BY <3>1 DEF ToSet
    <3> QED  BY <2>1, <2>4, <3>2 DEF RequestInv, Reordering
  <2>9. EntryRead(s)'
    <3>1. qtxn[s].phase = "found" => qtxn[s].entry \in Entries
      BY DEF QueueInv, QueueInformed, Knows
    <3> QED  BY <2>1, <2>4, <3>1 DEF RequestInv, EntryRead
  <2>10. InsertReferences(s)'
    <3>1. \A q \in Requests : txn'[q].phase = "deleted" => txn'[q] = txn[q]
      BY DEF Idle
    <3> SUFFICES ASSUME NEW e \in Entries, NEW b, b = qtxn[s].draft[e].booking,
                        queue'[e] = NoQueueRow, b # Nobody
                 PROVE  /\ Exists(booking'[b])
                        /\ \A q \in Requests : ~(txn'[q].phase = "deleted" /\ txn'[q].booking = b)
      BY <2>1 DEF InsertReferences
    <3>2. queue[e] = NoQueueRow  BY <1>0 DEF Holds
    <3>3. b \in Bookings  BY <1>t DEF QueueTransactions, QueueRow
    <3> QED  BY <2>1, <3>1, <3>2, <3>3 DEF RequestInv, InsertReferences, TablesGrow
  <2> QED  BY <2>5, <2>6, <2>7, <2>8, <2>9, <2>10 DEF RequestInv
<1>4. ASSUME NEW q \in Requests, NEW s \in Requests, q # s  PROVE Beside(q, s)'
  <2>1. CASE q = r
    BY <1>2, <1>4, <2>1 DEF OneRequest
  <2>2. CASE s = r
    <3>1. Beside(s, q)'  BY <1>2, <1>4, <2>2 DEF OneRequest
    <3> QED  BY <3>1, ConflictBothWays DEF Beside
  <2>3. CASE q # r /\ s # r
    BY <1>0, <1>4, <2>3 DEF EntriesInv, Beside, Holds
  <2> QED  BY <2>1, <2>2, <2>3
<1>5. CommittedApart'
  <2> SUFFICES ASSUME NEW e \in Entries, NEW x \in Entries, e # x
               PROVE  ~Conflict(queue'[e], queue'[x])
    BY DEF CommittedApart
  <2>1. CASE Holds(r, e)
    BY <1>0, <1>1, <1>i, <2>1 DEF RequestInv, Apart
  <2>2. CASE Holds(r, x)
    BY <1>0, <1>1, <1>i, <2>2, ConflictBothWays DEF RequestInv, Apart
  <2>3. CASE ~Holds(r, e) /\ ~Holds(r, x)
    BY <1>0, <1>i, <2>3 DEF CommittedApart
  <2> QED  BY <2>1, <2>2, <2>3
<1>6. LinksResolve'
  <2> SUFFICES ASSUME NEW e \in Entries, NEW b, b = queue'[e].booking, b # Nobody
               PROVE  Exists(booking'[b])
    BY DEF LinksResolve
  <2>1. b \in Bookings
    BY <1>r DEF QueueRow
  <2>2. CASE ~Holds(r, e) \/ queue[e].booking = b
    BY <1>0, <1>i, <2>1, <2>2 DEF LinksResolve, TablesGrow
  <2>3. CASE Holds(r, e) /\ queue[e].booking # b
    <3>1. queue[e] = NoQueueRow
      BY <1>0, <1>1, <2>3, DeletedFacts DEF Version
    <3> QED  BY <1>0, <1>i, <2>1, <2>3, <3>1 DEF RequestInv, InsertReferences, TablesGrow
  <2> QED  BY <2>2, <2>3
<1>7. CompletedEntryIsAccounted'
  <2> SUFFICES ASSUME NEW e \in Entries, queue'[e].status = "COMPLETED",
                      NEW b, b = queue'[e].booking, b # Nobody
               PROVE  InLedger(b)'
    BY DEF CompletedEntryIsAccounted
  <2>1. b \in Bookings
    BY <1>r DEF QueueRow
  <2>2. CASE queue[e].status = "COMPLETED" /\ queue[e].booking = b
    BY <1>i, <2>1, <2>2 DEF CompletedEntryIsAccounted, TablesGrow
  <2>3. CASE ~(queue[e].status = "COMPLETED" /\ queue[e].booking = b)
    <3>1. Holds(r, e) /\ queue'[e] = qtxn[r].draft[e]  BY <1>0, <2>3
    <3>2. queue[e].booking = b
      BY <1>1, <3>1, DeletedFacts DEF Version
    <3>3. Moves(queue[e], qtxn[r].draft[e])
      BY <2>3, <3>1, <3>2 DEF Moves
    <3> QED  BY <2>1, <3>1, <3>2, <3>3
  <2> QED  BY <2>2, <2>3
<1> QED  BY <1>2, <1>3, <1>4, <1>5, <1>6, <1>7 DEF EntriesInv, OneRequest

LEMMA CommitQueueKeeps ==
    ASSUME QueueInv, IInv, EntriesInv, NEW r \in Requests, CommitQueue(r)
    PROVE  EntriesInv'
<1>0. qtxn[r].phase = "ready" /\ Apply(r) /\ UNCHANGED <<booking, ledger, txn>>
  BY DEF CommitQueue, vars
<1>1. InStep(r) /\ BookingFollows(r)
  BY DEF EntriesInv, RequestInv
<1>2. txn'[r] = Idle /\ \A s \in Requests \ {r} : txn'[s] = txn[s]
  BY <1>0, <1>1 DEF InStep
<1>3. \A e \in Entries : ~(Holds(r, e) /\ Moves(queue[e], qtxn[r].draft[e]))
  BY <1>0, <1>1 DEF BookingFollows
<1>4. qtxn[r].phase \in Written  BY <1>0 DEF Written
<1> QED  BY <1>0, <1>2, <1>3, <1>4, TablesStay, ApplyKeeps

\* The ledger row of a completed booking is there when its update commits.
LEMMA CommitAccounts ==
    ASSUME IInv, NEW r \in Requests, CommitUpdate(r)
    PROVE  /\ TablesGrow
           /\ \E b \in Bookings :
                 /\ b = txn[r].booking /\ booking'[b].status = txn[r].to
                 /\ txn[r].to = "COMPLETED" => InLedger(b)'
<1>t. booking \in [Bookings -> Row] /\ ledger \in [Bookings -> LedgerRows]
  BY DEF IInv, TypeOK
<1>0. txn[r].phase = "done"
  BY DEF CommitUpdate
<1>1. PICK b \in Bookings :
        /\ b = txn[r].booking /\ txn[r].to \in AllStatuses
        /\ \/ txn[r].entry = NoEntry /\ (txn[r].to = "COMPLETED" => InLedger(b))
           \/ Fresh(b, txn[r].entry)
  BY <1>0 DEF IInv, WriteInvariant, Informed
<1>2. /\ booking' = [booking EXCEPT ![b] = Updated(booking[b], txn[r].to)]
      /\ ledger' = IF txn[r].entry = NoEntry THEN ledger ELSE [ledger EXCEPT ![b] = txn[r].entry]
  BY <1>1 DEF CommitUpdate
<1>3. Fresh(b, txn[r].entry) => txn[r].entry.settlement = "PENDING" /\ txn[r].entry # NoEntry
  BY DEF Fresh, NewEntry, NoEntry
<1>4. (\A x \in Bookings : InLedger(x) => InLedger(x)') /\ (txn[r].to = "COMPLETED" => InLedger(b)')
  <2>1. CASE txn[r].entry = NoEntry
    <3>1. ledger' = ledger /\ (txn[r].to = "COMPLETED" => InLedger(b))
      BY <1>1, <1>2, <1>3, <2>1
    <3> QED  BY <3>1 DEF InLedger
  <2>2. CASE txn[r].entry # NoEntry
    <3>1. ledger' = [ledger EXCEPT ![b] = txn[r].entry] /\ txn[r].entry.settlement = "PENDING"
      BY <1>1, <1>2, <1>3, <2>2
    <3> QED  BY <1>t, <3>1 DEF InLedger
  <2> QED  BY <2>1, <2>2
<1>5. booking'[b].status = txn[r].to
  BY <1>t, <1>2 DEF Updated
<1>6. \A x \in Bookings : Exists(booking[x]) => Exists(booking'[x])
  <2> SUFFICES ASSUME NEW x \in Bookings, Exists(booking[x])  PROVE Exists(booking'[x])
    OBVIOUS
  <2>1. CASE x = b
    BY <1>1, <1>5, <2>1 DEF Exists
  <2>2. CASE x # b
    BY <1>t, <1>2, <2>2
  <2> QED  BY <2>1, <2>2
<1> QED  BY <1>1, <1>4, <1>5, <1>6 DEF TablesGrow

LEMMA CommitBothKeeps ==
    ASSUME QueueInv, IInv, EntriesInv, NEW r \in Requests, CommitBoth(r)
    PROVE  EntriesInv'
<1>t. txn \in [Requests -> Transactions]
  BY DEF IInv, TypeOK
<1>0. CommitUpdate(r) /\ Apply(r) /\ txn[r].phase = "done" /\ txn' = [txn EXCEPT ![r] = Idle]
  BY DEF CommitBoth, CommitUpdate, End
<1>1. InStep(r) /\ BookingFollows(r)
  BY DEF EntriesInv, RequestInv
<1>2. qtxn[r].phase \in {"idle", "syncing"}
  BY <1>0, <1>1 DEF InStep, Idle
<1>3. ASSUME NEW e \in Entries, NEW b \in Bookings, Holds(r, e), queue[e].booking = b,
             Moves(queue[e], qtxn[r].draft[e]), qtxn[r].draft[e].status = "COMPLETED"
      PROVE  InLedger(b)'
  <2>1. b = txn[r].booking /\ txn[r].to = "COMPLETED"
    BY <1>1, <1>2, <1>3 DEF BookingFollows, SyncStatus
  <2> QED  BY <1>0, <2>1, CommitAccounts
<1>4. qtxn[r].phase \in Written \cup {"idle"}  BY <1>2 DEF Written
<1> QED  BY <1>0, <1>3, <1>4, <1>t, CommitAccounts, ApplyKeeps

\* ON DELETE SET NULL: nobody holds an entry that loses its link.
LEMMA CommitDeletionKeeps ==
    ASSUME QueueInv, IInv, EntriesInv, NEW r \in Requests, CommitDeletion(r)
    PROVE  EntriesInv'
<1>t. /\ queue \in [Entries -> QueueRow] /\ qtxn \in [Requests -> QueueTransactions]
      /\ txn \in [Requests -> Transactions] /\ booking \in [Bookings -> Row]
  BY DEF QueueInv, QueueTypeOK, IInv, TypeOK
<1>1. PICK d \in Bookings : d = txn[r].booking
  BY DEF CommitDeletion, CommitDelete, IInv, WriteInvariant, Informed
<1>0. /\ txn[r].phase = "deleted" /\ txn' = [txn EXCEPT ![r] = Idle] /\ qtxn' = qtxn
      /\ booking' = [booking EXCEPT ![d] = DeletedRow] /\ ledger' = ledger
      /\ \A e \in LinkedTo(d) : ~HeldByOther(r, e)
      /\ \A e \in Entries : queue'[e] = IF e \in LinkedTo(d)
                                       THEN [queue[e] EXCEPT !.booking = Nobody] ELSE queue[e]
  BY <1>1 DEF CommitDeletion, CommitDelete, End
<1>i. CommittedApart /\ LinksResolve /\ CompletedEntryIsAccounted /\ \A s \in Requests : RequestInv(s)
  BY DEF EntriesInv
<1>2. qtxn[r].phase = "idle"
  BY <1>0, <1>i DEF RequestInv, InStep, Idle
<1>3. \A s \in Requests, e \in Entries : Holds(s, e) => e \notin LinkedTo(d)
  BY <1>0, <1>2, <1>i DEF RequestInv, InStep, HeldByOther
<1>4. \A e \in Entries :
         /\ queue'[e].status = queue[e].status /\ queue'[e].provider = queue[e].provider
         /\ queue'[e].position = queue[e].position
         /\ queue'[e].booking = IF queue[e].booking = d THEN Nobody ELSE queue[e].booking
         /\ Live(queue'[e]) <=> Live(queue[e])
  BY <1>0, <1>t DEF QueueRow, LinkedTo, Live
<1>5. \A row, e : e \in Entries /\ Conflict(row, queue'[e]) => Conflict(row, queue[e])
  BY <1>4 DEF Conflict
<1>6. ASSUME NEW s \in Requests  PROVE RequestInv(s)'
  <2>1. RequestInv(s) /\ qtxn'[s] = qtxn[s]  BY <1>0, <1>i
  <2>2. \A e \in Entries : Holds(s, e) => queue'[e] = queue[e]  BY <1>0, <1>3
  <2>3. \A e \in Entries : Holds(s, e)' <=> Holds(s, e)  BY <2>1 DEF Holds
  <2>4. InStep(s)'
    BY <1>0, <1>2, <1>t, <2>1, <2>3 DEF RequestInv, InStep
  <2>5. Versions(s)' /\ FirstParked(s)'
    BY <2>1, <2>2, <2>3 DEF RequestInv, Versions, Version, FirstParked, Parked
  <2>6. BookingFollows(s)'
    BY <1>0, <1>2, <1>t, <2>1, <2>2, <2>3 DEF RequestInv, BookingFollows
  <2>7. Apart(s)'
    BY <1>5, <2>1, <2>3 DEF RequestInv, Apart
  <2>8. Reordering(s)'
    <3>1. qtxn[s].order \in Seq(Entries)  BY <1>t DEF QueueTransactions
    <3>2. ToSet(qtxn[s].order) \subseteq Entries  BY <3>1 DEF ToSet
    <3> QED  BY <1>4, <2>1, <3>2 DEF RequestInv, Reordering
  <2>9. EntryRead(s)'
    <3>1. qtxn[s].phase = "found" => qtxn[s].entry \in Entries
      BY DEF QueueInv, QueueInformed, Knows
    <3> QED  BY <1>4, <2>1, <3>1 DEF RequestInv, EntryRead
  <2>10. InsertReferences(s)'
    <3> SUFFICES ASSUME NEW e \in Entries, NEW b, b = qtxn[s].draft[e].booking,
                        queue'[e] = NoQueueRow, b # Nobody
                 PROVE  /\ Exists(booking'[b])
                        /\ \A q \in Requests : ~(txn'[q].phase = "deleted" /\ txn'[q].booking = b)
      BY <2>1 DEF InsertReferences
    <3>1. Holds(s, e)  BY NoRowFacts DEF Holds
    <3>2. queue[e] = NoQueueRow  BY <2>2, <3>1
    <3>3. Exists(booking[b]) /\ b # d
      BY <1>0, <1>1, <2>1, <3>2 DEF RequestInv, InsertReferences
    <3>4. \A q \in Requests : txn'[q].phase = "deleted" => txn'[q] = txn[q]
      BY <1>0, <1>t DEF Idle
    <3> QED  BY <1>0, <1>t, <2>1, <3>2, <3>3, <3>4 DEF RequestInv, InsertReferences
  <2> QED  BY <2>4, <2>5, <2>6, <2>7, <2>8, <2>9, <2>10 DEF RequestInv
<1>7. \A q, s \in Requests : q # s => Beside(q, s)'
  BY <1>0 DEF EntriesInv, Beside, Holds
<1>8. CommittedApart'
  BY <1>4, <1>i DEF CommittedApart, Conflict
<1>9. LinksResolve'
  BY <1>0, <1>4, <1>i, <1>t DEF LinksResolve, QueueRow
<1>10. CompletedEntryIsAccounted'
  BY <1>0, <1>4, <1>i DEF CompletedEntryIsAccounted, InLedger
<1> QED  BY <1>6, <1>7, <1>8, <1>9, <1>10 DEF EntriesInv

-----------------------------------------------------------------------------
(* The theorems.                                                           *)

LEMMA EntriesInit == QueueInit => EntriesInv
<1> SUFFICES ASSUME QueueInit  PROVE EntriesInv
  OBVIOUS
<1>1. /\ \A e \in Entries : queue[e] = NoQueueRow
      /\ \A r \in Requests : qtxn[r] = QIdle /\ txn[r] = Idle
  BY DEF QueueInit, Init
<1>2. \A r \in Requests, e \in Entries : ~Holds(r, e)
  BY <1>1 DEF Holds, QIdle
<1>3. ASSUME NEW r \in Requests  PROVE RequestInv(r)
  <2>1. Versions(r) /\ Apart(r) /\ BookingFollows(r) /\ InsertReferences(r)
    BY <1>2, <1>3, NoRowFacts DEF Holds, Versions, Apart, BookingFollows, InsertReferences
  <2>2. InStep(r) /\ Reordering(r) /\ FirstParked(r) /\ EntryRead(r)
    BY <1>1, <1>2 DEF InStep, Reordering, FirstParked, EntryRead, QIdle
  <2> QED  BY <2>1, <2>2 DEF RequestInv
<1>4. \A r, s \in Requests : Beside(r, s)
  BY <1>2 DEF Beside
<1>5. CommittedApart /\ LinksResolve /\ CompletedEntryIsAccounted
  BY <1>1, NoRowFacts DEF CommittedApart, Conflict, LinksResolve, CompletedEntryIsAccounted
<1> QED  BY <1>3, <1>4, <1>5 DEF EntriesInv

LEMMA EntriesStep == QueueInv /\ IInv /\ EntriesInv /\ [QueueNext]_allVars => EntriesInv'
<1> SUFFICES ASSUME QueueInv, IInv, EntriesInv, [QueueNext]_allVars  PROVE EntriesInv'
  OBVIOUS
<1>1. CASE BookingOnly
  BY <1>1, BookingOnlyKeeps
<1>2. ASSUME NEW r \in Requests,
             \/ Reads(r) \/ (\E e \in Entries : InsertEntry(r, e)) \/ WriteEntry(r)
             \/ ParkEntry(r) \/ PlaceEntries(r) \/ SyncBooking(r) \/ RollbackAll(r)
             \/ CommitBoth(r) \/ CommitQueue(r) \/ CommitDeletion(r)
      PROVE  EntriesInv'
  BY <1>2, ReadsKeeps, InsertKeeps, WriteEntryKeeps, ParkKeeps, PlaceKeeps, SyncKeeps, RollbackKeeps,
     CommitBothKeeps, CommitQueueKeeps, CommitDeletionKeeps
<1> QED  BY <1>1, <1>2, StepShapes

LEMMA EntriesInvariant == QueueSpec => [](QueueInv /\ IInv /\ EntriesInv)
<1>1. QueueInit => EntriesInv  BY EntriesInit
<1>2. QueueInv /\ IInv /\ EntriesInv /\ [QueueNext]_allVars => EntriesInv'  BY EntriesStep
<1> QED  BY <1>1, <1>2, CompositionInvariant, PTL DEF QueueSpec

\* A provider's entries stand in distinct places and a booking has one entry,
\* however inserts, removals and reorders of any number of requests cross: the
\* unique constraints of the table, which nextPosition and reorderQueue read
\* around, are never broken by what is committed.
THEOREM PlacesStayUnique == QueueSpec => []PlacesAreUnique
<1>1. EntriesInv => PlacesAreUnique
  BY DEF EntriesInv, CommittedApart, Conflict, PlacesAreUnique
<1> QED  BY <1>1, EntriesInvariant, PTL

\* An entry's booking exists, however deletions of bookings cross with the
\* creation, the moves and the removal of their entries.
THEOREM LinksAlwaysResolve == QueueSpec => []LinksResolve
<1>1. EntriesInv => LinksResolve  BY DEF EntriesInv
<1> QED  BY <1>1, EntriesInvariant, PTL

\* Completing a booking's queue entry charges for it.
THEOREM CompletedEntriesAreCharged == QueueSpec => []CompletedEntryIsAccounted
<1>1. EntriesInv => CompletedEntryIsAccounted  BY DEF EntriesInv
<1> QED  BY <1>1, EntriesInvariant, PTL

LEMMA QueueStandsStill ==
    ASSUME NEW r \in Requests,
           \/ Reads(r) \/ (\E e \in Entries : InsertEntry(r, e)) \/ WriteEntry(r)
           \/ ParkEntry(r) \/ PlaceEntries(r) \/ SyncBooking(r) \/ RollbackAll(r)
    PROVE  UNCHANGED queue
<1>1. QueueCall(r) => UNCHANGED queue
  BY DEF QueueCall, CreateFromBooking, CreateWalkIn, FindEntry, FindEntryToRemove, FindEntries
<1>2. Reads(r) => UNCHANGED queue
  BY <1>1 DEF Reads, ReadPosition, ListConfirmed
<1>3. (\E e \in Entries : InsertEntry(r, e)) \/ WriteEntry(r) => UNCHANGED queue
  BY DEF InsertEntry, WriteEntry
<1>4. ParkEntry(r) \/ PlaceEntries(r) => UNCHANGED queue
  BY DEF ParkEntry, PlaceEntries
<1>5. SyncBooking(r) \/ RollbackAll(r) => UNCHANGED queue
  BY DEF SyncBooking, RollbackAll, Drop
<1> QED  BY <1>2, <1>3, <1>4, <1>5

\* The step that commits a linked entry's new status, or removes it while it
\* waits, commits the status that goes with it to the booking.
THEOREM EntriesMoveTogether == QueueSpec => QueueMovesWithBooking
<1>1. QueueInv /\ IInv /\ EntriesInv /\ [QueueNext]_allVars => EntriesMoveWithBookings
  <2> SUFFICES ASSUME QueueInv, IInv, EntriesInv, [QueueNext]_allVars,
                      NEW e \in Entries, Moves(queue[e], queue'[e])
               PROVE  booking'[queue[e].booking].status = SyncStatus(queue'[e].status)
    BY DEF EntriesMoveWithBookings, Moves
  <2>m. queue'[e].status # queue[e].status  BY DEF Moves
  <2>1. CASE BookingOnly
    <3>1. \A s \in Requests : InStep(s)  BY DEF EntriesInv, RequestInv
    <3> QED  BY <2>1, <2>m, <3>1, BookingOnlyFrame DEF queueVars
  <2>2. ASSUME NEW r \in Requests, CommitBoth(r)
        PROVE  booking'[queue[e].booking].status = SyncStatus(queue'[e].status)
    <3>1. CommitUpdate(r) /\ txn[r].phase = "done" /\ InStep(r) /\ BookingFollows(r)
      BY <2>2 DEF CommitBoth, CommitUpdate, EntriesInv, RequestInv
    <3>2. Holds(r, e) /\ queue'[e] = qtxn[r].draft[e]
      BY <2>2, <2>m DEF CommitBoth, Apply
    <3>3. qtxn[r].phase \in {"idle", "syncing"}  BY <3>1 DEF InStep, Idle
    <3>4. queue[e].booking = txn[r].booking /\ SyncStatus(queue'[e].status) = txn[r].to
      BY <3>1, <3>2, <3>3 DEF BookingFollows
    <3> QED  BY <3>1, <3>4, CommitAccounts
  <2>3. ASSUME NEW r \in Requests, CommitQueue(r)  PROVE FALSE
    <3>1. qtxn[r].phase = "ready" /\ BookingFollows(r)
      BY <2>3 DEF CommitQueue, EntriesInv, RequestInv
    <3>2. Holds(r, e) /\ queue'[e] = qtxn[r].draft[e]
      BY <2>3, <2>m DEF CommitQueue, Apply
    <3> QED  BY <3>1, <3>2 DEF BookingFollows
  <2>4. ASSUME NEW r \in Requests, CommitDeletion(r)  PROVE FALSE
    BY <2>4, <2>m DEF CommitDeletion, QueueInv, QueueTypeOK, QueueRow
  <2> QED  BY <2>1, <2>2, <2>3, <2>4, <2>m, StepShapes, QueueStandsStill
<1> QED  BY <1>1, EntriesInvariant, PTL DEF QueueSpec, QueueMovesWithBooking

-----------------------------------------------------------------------------
(* Positions: nextPosition is one above a place in use, so that places stay *)
(* as low as the number of ids used.                                        *)

LEMMA UsedIsCounted ==
    ASSUME IsFiniteSet(Entries)
    PROVE  IsFiniteSet(Used) /\ Cardinality(Used) \in Nat /\ Cardinality(Used) <= Cardinality(Entries)
<1>1. Used \subseteq Entries  BY DEF Used
<1> QED  BY <1>1, FS_Subset, FS_CardinalityType

LEMMA LowStays ==
    ASSUME PositionsAreLow, NEW r \in Requests, UNCHANGED queue, LowRequest(r)',
           \A s \in Requests \ {r} : qtxn'[s] = qtxn[s]
    PROVE  PositionsAreLow'
<1>1. Used' = Used  BY DEF Used
<1>2. \A s \in Requests \ {r} : LowRequest(s)'
  BY <1>1 DEF PositionsAreLow, LowRequest
<1> QED  BY <1>1, <1>2 DEF PositionsAreLow

LEMMA NextPositionIsLow ==
    ASSUME QueueInv, IsFiniteSet(Entries), PositionsAreLow, NEW p, NEW n \in NextPositions(p)
    PROVE  n <= Cardinality(Used) + 1
<1>1. \A m \in Places(p) \cup {0} : m \in Nat /\ m <= Cardinality(Used)
  BY UsedIsCounted DEF Places, PositionsAreLow, QueueInv, QueueTypeOK, QueueRow
<1>2. PICK m \in Places(p) \cup {0} : n = m + 1
  BY DEF NextPositions
<1> QED  BY <1>1, <1>2, UsedIsCounted

\* A request that moves on without a commit.
LEMMA LowMoves ==
    ASSUME QueueInv, IInv, EntriesInv, IsFiniteSet(Entries), PositionsAreLow, NEW r \in Requests,
           \/ Reads(r) \/ (\E e \in Entries : InsertEntry(r, e)) \/ WriteEntry(r)
           \/ ParkEntry(r) \/ PlaceEntries(r) \/ SyncBooking(r) \/ RollbackAll(r)
    PROVE  PositionsAreLow'
<1>t. /\ queue \in [Entries -> QueueRow] /\ qtxn \in [Requests -> QueueTransactions]
      /\ qtxn[r] \in QueueTransactions /\ qtxn[r].draft \in [Entries -> QueueRow]
  BY DEF QueueInv, QueueTypeOK, QueueTransactions
<1>u. Cardinality(Used) \in Nat  BY UsedIsCounted
<1>q. queue' = queue /\ Used' = Used
  BY QueueStandsStill DEF Used
<1>l. LowRequest(r) /\ \A e \in Entries : queue[e].position <= Cardinality(Used)
  BY DEF PositionsAreLow
\* It is enough to look at the record it moves on to.
<1>1. ASSUME NEW t, qtxn' = [qtxn EXCEPT ![r] = t],
             t.phase = "placed" => t.position <= Cardinality(Used) + 1,
             \A n \in t.slots : n <= Cardinality(Used),
             t.phase \in Written =>
                \A e \in Entries :
                   t.draft[e].position <= Cardinality(Used) + (IF queue[e] = NoQueueRow THEN 1 ELSE 0)
      PROVE  PositionsAreLow'
  <2>1. qtxn'[r] = t /\ \A s \in Requests \ {r} : qtxn'[s] = qtxn[s]  BY <1>1, <1>t
  <2>2. LowRequest(r)'  BY <1>1, <1>q, <2>1 DEF LowRequest
  <2> QED  BY <1>q, <2>1, <2>2, LowStays
<1>2. CASE QueueCall(r)
  <2>1. ASSUME NEW b \in Bookings, CreateFromBooking(r, b)  PROVE PositionsAreLow'
    <3> DEFINE t == [QIdle EXCEPT !.phase = "arrived", !.link = b,
                                  !.to = "IN_QUEUE", !.provider = Owner[b]]
    <3>1. t.phase = "arrived" /\ t.slots = {}  BY DEF QIdle
    <3>2. qtxn' = [qtxn EXCEPT ![r] = t]  BY <2>1 DEF CreateFromBooking
    <3> HIDE DEF t
    <3> QED  BY <1>1, <3>1, <3>2 DEF Written
  <2>2. ASSUME NEW p \in Providers, CreateWalkIn(r, p)  PROVE PositionsAreLow'
    <3>1. PICK n \in NextPositions(p) :
            qtxn' = [qtxn EXCEPT ![r] = [QIdle EXCEPT !.phase = "placed", !.provider = p,
                                                      !.position = n]]
      BY <2>2 DEF CreateWalkIn
    <3> DEFINE t == [QIdle EXCEPT !.phase = "placed", !.provider = p, !.position = n]
    <3>2. t.phase = "placed" /\ t.slots = {} /\ t.position = n  BY DEF QIdle
    <3>3. n <= Cardinality(Used) + 1  BY NextPositionIsLow
    <3>4. qtxn' = [qtxn EXCEPT ![r] = t]  BY <3>1
    <3> HIDE DEF t
    <3> QED  BY <1>1, <3>2, <3>3, <3>4 DEF Written
  <2>3. ASSUME NEW e \in Entries, NEW to \in QueueStatuses, FindEntry(r, e, to)  PROVE PositionsAreLow'
    <3> DEFINE t == [QIdle EXCEPT !.phase = "found", !.entry = e, !.to = to,
                                  !.link = queue[e].booking]
    <3>1. t.phase = "found" /\ t.slots = {}  BY DEF QIdle
    <3>2. qtxn' = [qtxn EXCEPT ![r] = t]  BY <2>3 DEF FindEntry
    <3> HIDE DEF t
    <3> QED  BY <1>1, <3>1, <3>2 DEF Written
  <2>4. ASSUME NEW e \in Entries, FindEntryToRemove(r, e)  PROVE PositionsAreLow'
    <3> DEFINE t == [QIdle EXCEPT !.phase = "found", !.entry = e, !.to = "DELETED",
                                  !.link = IF queue[e].status = "WAITING"
                                           THEN queue[e].booking ELSE Nobody]
    <3>1. t.phase = "found" /\ t.slots = {}  BY DEF QIdle
    <3>2. qtxn' = [qtxn EXCEPT ![r] = t]  BY <2>4 DEF FindEntryToRemove
    <3> HIDE DEF t
    <3> QED  BY <1>1, <3>1, <3>2 DEF Written
  <2>5. ASSUME NEW p \in Providers, NEW order, FindEntries(r, p, order)  PROVE PositionsAreLow'
    <3> DEFINE t == [QIdle EXCEPT !.phase = "listed", !.provider = p, !.order = order,
                                  !.slots = {queue[e].position : e \in ToSet(order)}]
    <3>1. t.phase = "listed" /\ t.slots = {queue[e].position : e \in ToSet(order)}  BY DEF QIdle
    <3>2. qtxn' = [qtxn EXCEPT ![r] = t] /\ ToSet(order) \subseteq Entries
      BY <2>5 DEF FindEntries, Waiting
    <3>3. \A n \in t.slots : n <= Cardinality(Used)  BY <1>l, <3>1, <3>2
    <3> HIDE DEF t
    <3> QED  BY <1>1, <3>1, <3>2, <3>3 DEF Written
  <2> QED  BY <1>2, <2>1, <2>2, <2>3, <2>4, <2>5 DEF QueueCall
<1>3. CASE ReadPosition(r)
  <2>1. PICK n \in NextPositions(qtxn[r].provider) :
          qtxn' = [qtxn EXCEPT ![r] = [@ EXCEPT !.phase = "placed", !.position = n]]
    BY <1>3 DEF ReadPosition
  <2> DEFINE t == [qtxn[r] EXCEPT !.phase = "placed", !.position = n]
  <2>2. t.phase = "placed" /\ t.slots = qtxn[r].slots /\ t.position = n
    BY <1>t DEF QueueTransactions
  <2>3. n <= Cardinality(Used) + 1  BY NextPositionIsLow
  <2>4. qtxn' = [qtxn EXCEPT ![r] = t]  BY <2>1
  <2> HIDE DEF t
  <2> QED  BY <1>1, <1>l, <2>2, <2>3, <2>4 DEF Written, LowRequest
<1>4. CASE ListConfirmed(r)
  <2> DEFINE t == [qtxn[r] EXCEPT !.phase = "parking"]
  <2>1. t.phase = "parking" /\ t.slots = qtxn[r].slots  BY <1>t DEF QueueTransactions
  <2>2. qtxn' = [qtxn EXCEPT ![r] = t]  BY <1>4 DEF ListConfirmed
  <2> HIDE DEF t
  <2> QED  BY <1>1, <1>l, <2>1, <2>2 DEF Written, LowRequest
\* The one write of a request.
<1>5. ASSUME NEW e \in Entries, NEW row, WriteOnly(r, e, row), qtxn[r].phase \in {"placed", "found"},
             row.position <= Cardinality(Used) + (IF queue[e] = NoQueueRow THEN 1 ELSE 0)
      PROVE  PositionsAreLow'
  <2> DEFINE t == [QIdle EXCEPT !.phase = Onward(r), !.to = qtxn[r].to,
                                !.link = qtxn[r].link, !.draft = Draft(r, e, row)]
  <2>1. t.phase \in {"ready", "sync"} /\ t.slots = {} /\ t.draft = Draft(r, e, row)
    BY DEF QIdle, Onward
  <2>2. \A x \in Entries : qtxn[r].draft[x] = NoQueueRow
    BY <1>5 DEF EntriesInv, RequestInv, InStep, Holds
  <2>3. \A x \in Entries : t.draft[x] = IF x = e THEN row ELSE NoQueueRow
    BY <1>t, <2>1, <2>2 DEF Draft
  <2>4. qtxn' = [qtxn EXCEPT ![r] = t]  BY <1>5 DEF WriteOnly
  <2> HIDE DEF t
  <2>5. \A x \in Entries :
          t.draft[x].position <= Cardinality(Used) + (IF queue[x] = NoQueueRow THEN 1 ELSE 0)
    BY <1>5, <1>u, <2>3, NoRowFacts
  <2> QED  BY <1>1, <2>1, <2>4, <2>5
<1>6. ASSUME NEW e \in Entries, InsertEntry(r, e)  PROVE PositionsAreLow'
  <2> DEFINE row == [status  |-> "WAITING",      provider |-> qtxn[r].provider,
                     booking |-> qtxn[r].link,   position |-> qtxn[r].position]
  <2>1. row.position <= Cardinality(Used) + 1 /\ queue[e] = NoQueueRow
        /\ WriteOnly(r, e, row) /\ qtxn[r].phase = "placed"
    BY <1>6, <1>l DEF InsertEntry, LowRequest
  <2> HIDE DEF row
  <2> QED  BY <1>5, <2>1
<1>7. CASE WriteEntry(r)
  <2> DEFINE e == qtxn[r].entry
             row == IF qtxn[r].to = "DELETED"
                    THEN Blank("DELETED") ELSE [queue[e] EXCEPT !.status = qtxn[r].to]
  <2>1. qtxn[r].phase = "found" /\ WriteOnly(r, e, row)  BY <1>7 DEF WriteEntry
  <2>2. e \in Entries  BY <2>1 DEF QueueInv, QueueInformed, Knows
  <2>3. row.position \in {0, queue[e].position}
    BY <1>t, <2>2, DeletedFacts DEF QueueRow
  <2>4. queue[e].position \in Nat  BY <1>t, <2>2 DEF QueueRow
  <2> HIDE DEF e, row
  <2>5. row.position <= Cardinality(Used) + (IF queue[e] = NoQueueRow THEN 1 ELSE 0)
    BY <1>l, <1>u, <2>2, <2>3, <2>4
  <2> QED  BY <1>5, <2>1, <2>2, <2>5
<1>8. CASE ParkEntry(r)
  <2>1. PICK phase \in {"placing", "parking"} : \E draft :
          qtxn' = [qtxn EXCEPT ![r] = [@ EXCEPT !.phase = phase, !.draft = draft]]
    BY <1>8 DEF ParkEntry
  <2>2. PICK draft : qtxn' = [qtxn EXCEPT ![r] = [@ EXCEPT !.phase = phase, !.draft = draft]]
    BY <2>1
  <2> DEFINE t == [qtxn[r] EXCEPT !.phase = phase, !.draft = draft]
  <2>3. t.phase = phase /\ t.slots = qtxn[r].slots  BY <1>t DEF QueueTransactions
  <2>4. qtxn' = [qtxn EXCEPT ![r] = t]  BY <2>2
  <2> HIDE DEF t
  <2> QED  BY <1>1, <1>l, <2>3, <2>4 DEF Written, LowRequest
<1>9. CASE PlaceEntries(r)
  <2>1. PICK place \in [Parked(r) -> qtxn[r].slots] :
          qtxn' = [qtxn EXCEPT ![r] =
                      [QIdle EXCEPT !.phase = "ready",
                                    !.draft = [e \in Entries |->
                                        IF e \in Parked(r)
                                        THEN [qtxn[r].draft[e] EXCEPT !.position = place[e]]
                                        ELSE NoQueueRow]]]
    BY <1>9 DEF PlaceEntries
  <2> DEFINE draft == [e \in Entries |-> IF e \in Parked(r)
                                         THEN [qtxn[r].draft[e] EXCEPT !.position = place[e]]
                                         ELSE NoQueueRow]
             t == [QIdle EXCEPT !.phase = "ready", !.draft = draft]
  <2>2. t.phase = "ready" /\ t.slots = {} /\ t.draft = draft  BY DEF QIdle
  <2>3. \A e \in Entries : draft[e].position \in {0} \cup qtxn[r].slots
    BY <1>t, NoRowFacts DEF QueueRow
  <2>4. \A e \in Entries : draft[e].position \in Nat /\ draft[e].position <= Cardinality(Used)
    BY <1>l, <1>t, <1>u, <2>3 DEF LowRequest, QueueTransactions
  <2>5. qtxn' = [qtxn EXCEPT ![r] = t]  BY <2>1
  <2> HIDE DEF t, draft
  <2>6. \A e \in Entries :
          t.draft[e].position <= Cardinality(Used) + (IF queue[e] = NoQueueRow THEN 1 ELSE 0)
    BY <1>u, <2>2, <2>4
  <2> QED  BY <1>1, <2>2, <2>5, <2>6
<1>10. CASE SyncBooking(r)
  <2> DEFINE t == [QIdle EXCEPT !.phase = "syncing", !.draft = qtxn[r].draft]
  <2>1. t.phase = "syncing" /\ t.slots = {} /\ t.draft = qtxn[r].draft  BY DEF QIdle
  <2>2. qtxn' = [qtxn EXCEPT ![r] = t] /\ qtxn[r].phase = "sync"  BY <1>10 DEF SyncBooking
  <2> HIDE DEF t
  <2> QED  BY <1>1, <1>l, <2>1, <2>2 DEF Written, LowRequest
<1>11. CASE RollbackAll(r)
  <2>1. QIdle.phase = "idle" /\ QIdle.slots = {}  BY DEF QIdle
  <2>2. qtxn' = [qtxn EXCEPT ![r] = QIdle]  BY <1>11 DEF RollbackAll, Drop
  <2> QED  BY <1>1, <2>1, <2>2 DEF Written
<1> QED
  BY <1>2, <1>3, <1>4, <1>6, <1>7, <1>8, <1>9, <1>10, <1>11 DEF Reads

\* A commit may use one more id for a row that stands one place higher.
LEMMA LowCommits ==
    ASSUME QueueInv, IInv, EntriesInv, IsFiniteSet(Entries), PositionsAreLow, NEW r \in Requests,
           CommitBoth(r) \/ CommitQueue(r)
    PROVE  PositionsAreLow'
<1>t. /\ queue \in [Entries -> QueueRow] /\ qtxn \in [Requests -> QueueTransactions]
  BY DEF QueueInv, QueueTypeOK
<1>0. /\ \A e \in Entries : queue'[e] = IF Holds(r, e) THEN qtxn[r].draft[e] ELSE queue[e]
      /\ qtxn'[r] = QIdle /\ \A s \in Requests \ {r} : qtxn'[s] = qtxn[s]
  BY <1>t DEF CommitBoth, CommitQueue, Apply
<1>1. qtxn[r].phase \in Written \/ \A e \in Entries : ~Holds(r, e)
  <2>1. InStep(r)  BY DEF EntriesInv, RequestInv
  <2>2. txn[r].phase = "done" \/ qtxn[r].phase = "ready"
    BY DEF CommitBoth, CommitQueue, CommitUpdate
  <2> QED  BY <2>1, <2>2 DEF InStep, Idle, Written
<1>2. \A e \in Entries : Holds(r, e) => Version(r, queue[e], qtxn[r].draft[e])
  BY DEF EntriesInv, RequestInv, Versions
<1>3. \A e \in Entries : Holds(r, e) => qtxn[r].draft[e].status # "NONE"
  BY <1>2, DeletedFacts, LiveIsARow DEF Version
<1>4. Used \subseteq Used' /\ Used' \subseteq Entries
  BY <1>0, <1>3 DEF Used
<1>5. IsFiniteSet(Used') /\ Cardinality(Used') \in Nat /\ Cardinality(Used) \in Nat
  BY <1>4, FS_Subset, FS_CardinalityType, UsedIsCounted
<1>6. Cardinality(Used) <= Cardinality(Used')
  BY <1>4, <1>5, FS_Subset
<1>7. ASSUME NEW e \in Entries, Holds(r, e), queue[e] = NoQueueRow
      PROVE  Cardinality(Used) + 1 <= Cardinality(Used')
  <2>1. e \notin Used /\ e \in Used'
    BY <1>0, <1>3, <1>7, NoRowFacts DEF Used
  <2>2. IsFiniteSet(Used) /\ Cardinality(Used \cup {e}) = Cardinality(Used) + 1
    BY <2>1, UsedIsCounted, FS_AddElement
  <2>3. Used \cup {e} \subseteq Used'  BY <1>4, <2>1
  <2> QED  BY <1>5, <2>2, <2>3, FS_Subset
<1>8. ASSUME NEW e \in Entries  PROVE queue'[e].position <= Cardinality(Used')
  <2>1. CASE Holds(r, e)
    <3>1. /\ qtxn[r].draft[e].position <= Cardinality(Used) + (IF queue[e] = NoQueueRow THEN 1 ELSE 0)
          /\ qtxn[r].draft[e].position \in Nat
      BY <1>1, <1>t, <2>1 DEF PositionsAreLow, LowRequest, QueueTransactions, QueueRow
    <3> QED  BY <1>0, <1>5, <1>6, <1>7, <2>1, <3>1
  <2>2. CASE ~Holds(r, e)
    <3>1. queue[e].position \in Nat /\ queue[e].position <= Cardinality(Used)
      BY <1>t DEF PositionsAreLow, QueueRow
    <3> QED  BY <1>0, <1>5, <1>6, <2>2, <3>1
  <2> QED  BY <2>1, <2>2
<1>9. ASSUME NEW s \in Requests  PROVE LowRequest(s)'
  <2>1. CASE s = r
    BY <1>0, <2>1 DEF LowRequest, QIdle, Written
  <2>2. CASE s # r
    <3>1. qtxn'[s] = qtxn[s] /\ LowRequest(s) /\ qtxn[s] \in QueueTransactions
      BY <1>0, <1>t, <2>2 DEF PositionsAreLow
    <3>2. /\ qtxn[s].phase = "placed" => qtxn[s].position <= Cardinality(Used') + 1
          /\ \A n \in qtxn[s].slots : n <= Cardinality(Used')
      <4>1. qtxn[s].position \in Nat /\ qtxn[s].slots \subseteq Nat  BY <3>1 DEF QueueTransactions
      <4> QED  BY <1>5, <1>6, <3>1, <4>1 DEF LowRequest
    <3>3. ASSUME NEW e \in Entries, qtxn[s].phase \in Written
          PROVE  qtxn[s].draft[e].position
                   <= Cardinality(Used') + (IF queue'[e] = NoQueueRow THEN 1 ELSE 0)
      <4>1. /\ qtxn[s].draft[e].position \in Nat
            /\ qtxn[s].draft[e].position <= Cardinality(Used) + (IF queue[e] = NoQueueRow THEN 1 ELSE 0)
        BY <3>1, <3>3 DEF LowRequest, QueueTransactions, QueueRow
      <4>2. CASE Holds(r, e)
        <5>1. qtxn[s].draft[e] = NoQueueRow
          BY <2>2, <4>2 DEF EntriesInv, Beside, Holds
        <5> QED  BY <1>5, <5>1, NoRowFacts
      <4>3. CASE ~Holds(r, e)
        BY <1>0, <1>5, <1>6, <4>1, <4>3
      <4> QED  BY <4>2, <4>3
    <3> QED  BY <3>1, <3>2, <3>3 DEF LowRequest
  <2> QED  BY <2>1, <2>2
<1> QED  BY <1>8, <1>9 DEF PositionsAreLow

LEMMA LowStep ==
    ASSUME QueueInv, IInv, EntriesInv, IsFiniteSet(Entries), PositionsAreLow, [QueueNext]_allVars
    PROVE  PositionsAreLow'
<1>1. CASE BookingOnly
  <2>1. \A s \in Requests : InStep(s)  BY DEF EntriesInv, RequestInv
  <2>2. queue' = queue /\ qtxn' = qtxn  BY <1>1, <2>1, BookingOnlyFrame DEF queueVars
  <2> QED  BY <2>2 DEF PositionsAreLow, LowRequest, Used
<1>2. ASSUME NEW r \in Requests, CommitDeletion(r)  PROVE PositionsAreLow'
  <2>1. /\ queue \in [Entries -> QueueRow] /\ qtxn \in [Requests -> QueueTransactions]
    BY DEF QueueInv, QueueTypeOK
  <2>2. /\ qtxn' = qtxn
        /\ \A e \in Entries : /\ queue'[e].status = queue[e].status
                              /\ queue'[e].position = queue[e].position
                              /\ queue[e] = NoQueueRow => queue'[e] = NoQueueRow
    <3>1. PICK d \in Bookings : d = txn[r].booking
      BY <1>2 DEF CommitDeletion, CommitDelete, IInv, WriteInvariant, Informed
    <3>2. \A e \in Entries : queue[e] = NoQueueRow => e \notin LinkedTo(d)
      BY NoRowFacts, NobodyAssumption DEF LinkedTo
    <3> QED  BY <1>2, <2>1, <3>1, <3>2 DEF CommitDeletion, QueueRow
  <2>3. Used' = Used  BY <2>2 DEF Used
  <2>4. Cardinality(Used) \in Nat  BY UsedIsCounted
  <2>5. ASSUME NEW s \in Requests  PROVE LowRequest(s)'
    <3>1. \A e \in Entries : qtxn[s].draft[e].position \in Nat
      BY <2>1 DEF QueueTransactions, QueueRow
    <3> QED  BY <2>2, <2>3, <2>4, <3>1 DEF PositionsAreLow, LowRequest
  <2> QED  BY <2>2, <2>3, <2>5 DEF PositionsAreLow
<1> QED  BY <1>1, <1>2, LowMoves, LowCommits, StepShapes

\* With fewer entries, ever, than parked positions are away, nobody is left at
\* a parked position: reorderQueue's two phases are committed together or not
\* at all, and no insert comes near the sentinel by itself.
THEOREM NobodyStaysParked ==
    ASSUME IsFiniteSet(Entries), Cardinality(Entries) < SentinelOffset
    PROVE  QueueSpec => []NobodyIsParked
<1>1. QueueInit => PositionsAreLow
  <2> SUFFICES ASSUME QueueInit  PROVE PositionsAreLow
    OBVIOUS
  <2>1. /\ \A e \in Entries : queue[e] = NoQueueRow
        /\ \A r \in Requests : qtxn[r] = QIdle
    BY DEF QueueInit
  <2> QED  BY <2>1, NoRowFacts, UsedIsCounted DEF PositionsAreLow, LowRequest, QIdle, Written
<1>2. QueueInv /\ IInv /\ EntriesInv /\ PositionsAreLow /\ [QueueNext]_allVars => PositionsAreLow'
  BY LowStep
<1>3. QueueInv /\ PositionsAreLow => NobodyIsParked
  <2> SUFFICES ASSUME QueueInv, PositionsAreLow, NEW e \in Entries
               PROVE  queue[e].position < SentinelOffset
    BY DEF NobodyIsParked
  <2>1. queue[e].position \in Nat /\ queue[e].position <= Cardinality(Used)
    BY DEF QueueInv, QueueTypeOK, QueueRow, PositionsAreLow
  <2>2. Cardinality(Entries) \in Nat /\ SentinelOffset \in Nat
    BY FS_CardinalityType DEF SentinelOffset
  <2> QED  BY <2>1, <2>2, UsedIsCounted
<1> QED  BY <1>1, <1>2, <1>3, EntriesInvariant, PTL DEF QueueSpec

=============================================================================
