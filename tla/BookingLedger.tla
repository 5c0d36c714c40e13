---------------------------- MODULE BookingLedger ----------------------------
(***************************************************************************)
(* Bookings and the accounting ledger, at the granularity of the SQL       *)
(* statements the handlers issue.                                          *)
(*                                                                         *)
(* A request is one call of updateBookingStatus, deleteBooking or          *)
(* setSettlementStatus.  Prisma runs interactive transactions at           *)
(* PostgreSQL's default level, READ COMMITTED: a SELECT takes no lock and  *)
(* sees what is committed at that moment; an UPDATE or DELETE waits for    *)
(* the row's lock, keeps it to the end of the transaction, and applies to  *)
(* the row as it then is, however old the SELECT was that led to it.       *)
(* Only the holder of the lock can have an uncommitted version of a row,   *)
(* so that version is not stored: Commit computes it.                      *)
(***************************************************************************)
EXTENDS BookingTransitions, CommissionSplit

CONSTANTS Requests,   \* the calls that may be in flight at a time
          Bookings,   \* booking ids; the database never reuses one
          Providers,
          Owner,      \* the provider of each booking's service
          Price,      \* priceAtBooking of each booking, in cents
          Rates,      \* the commission rates an admin may set
          Admins,
          Nobody      \* no request, booking, admin or provider

ASSUME OwnerAssumption == Owner \in [Bookings -> Providers]
ASSUME PriceAssumption == Price \in [Bookings -> Nat]
ASSUME RatesAssumption == Rates \subseteq CommissionRates
ASSUME NobodyAssumption ==
    Nobody \notin Requests \cup Bookings \cup Admins \cup Providers

VARIABLES booking,         \* the Booking table, committed
          ledger,          \* the FinancialTransaction table, by bookingId
          commissionRate,  \* Provider.commissionRate
          txn,             \* how far each request has come
          lock             \* the request holding each Booking row's lock

vars == <<booking, ledger, commissionRate, txn, lock>>

-----------------------------------------------------------------------------
(* Rows.                                                                   *)

\* stamps: which of completedAt and cancelledAt are set.
Row == [status : AllStatuses \cup {"NONE", "DELETED"}, stamps : SUBSET DateColumns]

NoRow      == [status |-> "NONE",    stamps |-> {}]
DeletedRow == [status |-> "DELETED", stamps |-> {}]
NewRow     == [status |-> "PENDING", stamps |-> {}]

Exists(row) == row.status \in AllStatuses

\* What UPDATE ... SET status = to, and the edge's date column, makes of a row.
Updated(row, to) == [status |-> to, stamps |-> row.stamps \cup Sets(to)]

\* Mutant of TerminalDatesCheck: the constraint is missing.
NoTerminalDatesCheck(row) == TRUE

\* CHECK NOT (completedAt IS NOT NULL AND cancelledAt IS NOT NULL)
TerminalDatesCheck(row) == row.stamps # DateColumns

Settlements == {"NONE", "PENDING", "SETTLED"}

LedgerRows ==
    [ settlement : Settlements, settledBy : Admins \cup {Nobody},
      gross : Nat, rate : CommissionRates, commission : Nat, net : Nat ]

NoEntry ==
    [ settlement |-> "NONE", settledBy |-> Nobody,
      gross |-> 0, rate |-> 0, commission |-> 0, net |-> 0 ]

\* The row createTransactionForCompletedBooking inserts.
NewEntry(b, rate) ==
    [ settlement |-> "PENDING", settledBy |-> Nobody,
      gross      |-> Price[b],
      rate       |-> rate,
      commission |-> Commission(Price[b], rate),
      net        |-> ProviderNet(Price[b], rate) ]

\* Mutant of Settled: settling again takes the settlement back.
SettledOrReopened(entry, admin) ==
    IF entry.settlement = "SETTLED"
    THEN [entry EXCEPT !.settlement = "PENDING", !.settledBy = Nobody]
    ELSE [entry EXCEPT !.settlement = "SETTLED", !.settledBy = admin]

Settled(entry, admin) == [entry EXCEPT !.settlement = "SETTLED", !.settledBy = admin]

InLedger(b) == ledger[b].settlement # "NONE"

-----------------------------------------------------------------------------
(* Requests.  A phase names the last statement the request has run.        *)

Phases ==
    { "idle",
      "found",         \* read the booking and validated the edge
      "updated",       \* UPDATE "Booking" ran, the target is COMPLETED
      "unaccounted",   \* found no ledger row for the booking
      "split",         \* read the commission rate and split the price
      "done",          \* every statement ran; COMMIT remains
      "withdrawing",   \* a customer's delete has read the booking
      "erasing",       \* an admin's delete has read the booking
      "deleted",       \* DELETE FROM "Booking" ran; its commit remains
      "settling" }     \* read the ledger row, not yet settled

Holding == {"updated", "unaccounted", "split", "done", "deleted"}

\* entry: the ledger row the transaction has computed, or inserted when "done".
Transactions ==
    [ phase : Phases, booking : Bookings \cup {Nobody},
      to : AllStatuses \cup {"NONE"}, entry : LedgerRows ]

Idle == [phase |-> "idle", booking |-> Nobody, to |-> "NONE", entry |-> NoEntry]

Busy(phase, b, to) == [phase |-> phase, booking |-> b, to |-> to, entry |-> NoEntry]

TypeOK ==
    /\ booking \in [Bookings -> Row]
    /\ ledger \in [Bookings -> LedgerRows]
    /\ commissionRate \in [Providers -> Rates]
    /\ txn \in [Requests -> Transactions]
    /\ lock \in [Bookings -> Requests \cup {Nobody}]

Init ==
    /\ booking = [b \in Bookings |-> NoRow]
    /\ ledger = [b \in Bookings |-> NoEntry]
    /\ commissionRate \in [Providers -> Rates]
    /\ txn = [r \in Requests |-> Idle]
    /\ lock = [b \in Bookings |-> Nobody]

Advance(r, phase) == txn' = [txn EXCEPT ![r].phase = phase]

\* The end of a transaction, committed or rolled back: its locks go.
End(r) ==
    /\ txn' = [txn EXCEPT ![r] = Idle]
    /\ lock' = [b \in Bookings |-> IF lock[b] = r THEN Nobody ELSE lock[b]]

Rollback(r) == End(r) /\ UNCHANGED <<booking, ledger, commissionRate>>

\* The tables, and the rate, that a statement which only reads or only
\* moves the transaction on leaves alone.
tables == <<booking, ledger, commissionRate>>

-----------------------------------------------------------------------------
(* createBooking and setProviderCommission: what the other requests see of *)
(* them is one committed row.                                              *)

CreateBooking(b) ==
    /\ booking[b] = NoRow
    /\ booking' = [booking EXCEPT ![b] = NewRow]
    /\ UNCHANGED <<ledger, commissionRate, txn, lock>>

\* Mutant of SetProviderCommission: stores 50% as 50.
SetCommissionAsPercent(p, rate) ==
    /\ commissionRate' = [commissionRate EXCEPT ![p] = rate \div 100]
    /\ UNCHANGED <<booking, ledger, txn, lock>>

SetProviderCommission(p, rate) ==
    /\ commissionRate' = [commissionRate EXCEPT ![p] = rate]
    /\ UNCHANGED <<booking, ledger, txn, lock>>

-----------------------------------------------------------------------------
(* updateBookingStatus.                                                    *)

\* findUnique, then every check.  A refused call (404, 400, 403) changes
\* nothing and is no step.
FindBooking(r, b, to, role) ==
    /\ txn[r] = Idle
    /\ Exists(booking[b])
    /\ MayDrive(role, booking[b].status, to)
    /\ txn' = [txn EXCEPT ![r] = Busy("found", b, to)]
    /\ UNCHANGED <<booking, ledger, commissionRate, lock>>

\* booking.update({ where: { id } }): no predicate on the status just read.
CanUpdate(r) ==
    LET row == booking[txn[r].booking]
    IN  Exists(row) /\ TerminalDatesCheck(Updated(row, txn[r].to))

\* Mutant of UpdateBooking: does not wait for the row's lock.
UpdateWithoutWaiting(r) ==
    /\ txn[r].phase = "found"
    /\ CanUpdate(r)
    /\ lock' = [lock EXCEPT ![txn[r].booking] = r]
    /\ Advance(r, IF txn[r].to = "COMPLETED" THEN "updated" ELSE "done")
    /\ UNCHANGED tables

\* Mutant of UpdateBooking: completes a booking without accounting for it.
UpdateOnly(r) ==
    /\ txn[r].phase = "found"
    /\ lock[txn[r].booking] = Nobody
    /\ CanUpdate(r)
    /\ lock' = [lock EXCEPT ![txn[r].booking] = r]
    /\ Advance(r, "done")
    /\ UNCHANGED tables

UpdateBooking(r) ==
    /\ txn[r].phase = "found"
    /\ lock[txn[r].booking] = Nobody
    /\ CanUpdate(r)
    /\ lock' = [lock EXCEPT ![txn[r].booking] = r]
    /\ Advance(r, IF txn[r].to = "COMPLETED" THEN "updated" ELSE "done")
    /\ UNCHANGED tables

\* The row is gone (P2025) or the CHECK refuses its new version.
UpdateFails(r) ==
    /\ txn[r].phase = "found"
    /\ lock[txn[r].booking] = Nobody
    /\ ~CanUpdate(r)
    /\ Rollback(r)

\* createTransactionForCompletedBooking: an existing row is left as it is.
FindLedgerRow(r) ==
    /\ txn[r].phase = "updated"
    /\ Advance(r, IF InLedger(txn[r].booking) THEN "done" ELSE "unaccounted")
    /\ UNCHANGED <<booking, ledger, commissionRate, lock>>

SplitPrice(r) ==
    /\ txn[r].phase = "unaccounted"
    /\ LET b == txn[r].booking
       IN  txn' = [txn EXCEPT ![r] =
                     [@ EXCEPT !.phase = "split",
                               !.entry = NewEntry(b, commissionRate[Owner[b]])]]
    /\ UNCHANGED <<booking, ledger, commissionRate, lock>>

\* The INSERT.  A duplicate bookingId fails it, and with it the PostgreSQL
\* transaction, in which the handler's fallback findUnique fails too.
CreateLedgerRow(r) ==
    /\ txn[r].phase = "split"
    /\ IF InLedger(txn[r].booking)
       THEN Rollback(r)
       ELSE Advance(r, "done") /\ UNCHANGED <<booking, ledger, commissionRate, lock>>

\* COMMIT: the new version of the row, and the ledger row if one was made,
\* become visible together.
CommitUpdate(r) ==
    /\ txn[r].phase = "done"
    /\ LET b == txn[r].booking
       IN  /\ booking' = [booking EXCEPT ![b] = Updated(booking[b], txn[r].to)]
           /\ ledger' = IF txn[r].entry = NoEntry
                        THEN ledger
                        ELSE [ledger EXCEPT ![b] = txn[r].entry]
    /\ End(r)
    /\ UNCHANGED commissionRate

-----------------------------------------------------------------------------
(* deleteBooking: a read and a DELETE, in no common transaction.           *)

FindForDelete(r, b, role) ==
    /\ txn[r] = Idle
    /\ \/ role = "ADMIN" /\ Exists(booking[b])
       \/ role = "CUSTOMER" /\ booking[b].status = "PENDING"
    /\ txn' = [txn EXCEPT ![r] =
                 Busy(IF role = "ADMIN" THEN "erasing" ELSE "withdrawing", b, "NONE")]
    /\ UNCHANGED <<booking, ledger, commissionRate, lock>>

Deleting(r) == txn[r].phase \in {"withdrawing", "erasing"}

\* FinancialTransaction.bookingId is ON DELETE RESTRICT.
CanDelete(r) == Exists(booking[txn[r].booking]) /\ ~InLedger(txn[r].booking)

DeleteBooking(r) ==
    /\ Deleting(r)
    /\ lock[txn[r].booking] = Nobody
    /\ CanDelete(r)
    /\ lock' = [lock EXCEPT ![txn[r].booking] = r]
    /\ Advance(r, "deleted")
    /\ UNCHANGED tables

\* Already gone (P2025) or restricted by a ledger row (P2003).
DeleteFails(r) ==
    /\ Deleting(r)
    /\ lock[txn[r].booking] = Nobody
    /\ ~CanDelete(r)
    /\ Rollback(r)

CommitDelete(r) ==
    /\ txn[r].phase = "deleted"
    /\ booking' = [booking EXCEPT ![txn[r].booking] = DeletedRow]
    /\ End(r)
    /\ UNCHANGED <<ledger, commissionRate>>

-----------------------------------------------------------------------------
(* setSettlementStatus: a read and an UPDATE, in no common transaction.    *)

FindTransaction(r, b) ==
    /\ txn[r] = Idle
    /\ ledger[b].settlement = "PENDING"
    /\ txn' = [txn EXCEPT ![r] = Busy("settling", b, "NONE")]
    /\ UNCHANGED <<booking, ledger, commissionRate, lock>>

SettleTransaction(r, admin) ==
    /\ txn[r].phase = "settling"
    /\ ledger' = [ledger EXCEPT ![txn[r].booking] = Settled(@, admin)]
    /\ txn' = [txn EXCEPT ![r] = Idle]
    /\ UNCHANGED <<booking, commissionRate, lock>>

-----------------------------------------------------------------------------
(* A transaction may end at any moment without committing: Prisma's        *)
(* transaction timeout, a deadlock victim, a lost connection, or the       *)
(* server going down (which does this to every request in flight).         *)

Abort(r) == txn[r] # Idle /\ Rollback(r)

Step(r) ==
    \/ UpdateBooking(r)
    \/ UpdateFails(r)
    \/ FindLedgerRow(r)
    \/ SplitPrice(r)
    \/ CreateLedgerRow(r)
    \/ CommitUpdate(r)
    \/ DeleteBooking(r)
    \/ DeleteFails(r)
    \/ CommitDelete(r)
    \/ \E admin \in Admins : SettleTransaction(r, admin)

Call(r) ==
    \E b \in Bookings :
        \/ \E to \in AllStatuses, role \in Roles : FindBooking(r, b, to, role)
        \/ \E role \in {"CUSTOMER", "ADMIN"} : FindForDelete(r, b, role)
        \/ FindTransaction(r, b)

Next ==
    \/ \E b \in Bookings : CreateBooking(b)
    \/ \E p \in Providers, rate \in Rates : SetProviderCommission(p, rate)
    \/ \E r \in Requests : Call(r) \/ Step(r) \/ Abort(r)

Spec == Init /\ [][Next]_vars

-----------------------------------------------------------------------------
(* Properties.                                                             *)

\* A booking whose committed status is COMPLETED has its ledger row: the
\* status and the row are committed together or not at all, whatever other
\* requests do to the booking between the statements.
CompletedIsAccounted ==
    \A b \in Bookings : booking[b].status = "COMPLETED" => InLedger(b)

\* The booking behind a ledger row is never withdrawn nor cancelled: it still
\* exists, is dated as completed and is neither CANCELLED nor dated as
\* cancelled, even when a request that read it before its completion deletes
\* it or writes to it afterwards.  Such a write may still make it REJECTED, or
\* put it back to an active status, with its charge: see NoEdgeOutOfCompleted.
ChargedIsNotCalledOff ==
    \A b \in Bookings : InLedger(b) =>
        /\ Exists(booking[b])
        /\ booking[b].status # "CANCELLED"
        /\ booking[b].stamps = {"completedAt"}

\* createTransactionForCompletedBooking's check holds until its insert: no
\* transaction about to insert a ledger row finds one there, so the P2002
\* branch is never taken however many requests complete one booking.
LedgerInsertNeverConflicts ==
    \A r \in Requests :
        txn[r].phase \in {"unaccounted", "split"} => ~InLedger(txn[r].booking)

\* A ledger row balances to the cent: platform commission and provider net
\* add up to the booking's own price, and neither exceeds it.
LedgerBalances ==
    \A b \in Bookings : InLedger(b) =>
        /\ ledger[b].gross = Price[b]
        /\ ledger[b].commission + ledger[b].net = ledger[b].gross
        /\ ledger[b].commission \in 0..ledger[b].gross

\* A CANCELLED booking is dated as cancelled and not as completed, and a
\* COMPLETED one the other way round, in every order the writes may land in.
TerminalDates ==
    \A b \in Bookings :
        /\ booking[b].status = "CANCELLED" => booking[b].stamps = {"cancelledAt"}
        /\ booking[b].status = "COMPLETED" => booking[b].stamps = {"completedAt"}

\* What the proofs rest on: what a transaction in each phase knows, because
\* it holds the row's lock, and what it is about to insert.
Fresh(b, entry) == \E rate \in Rates : entry = NewEntry(b, rate)

Locked(r) == txn[r].phase \in Holding => lock[txn[r].booking] = r

Informed(r) ==
    LET t == txn[r]
    IN  /\ t.phase = "idle" <=> t = Idle
        /\ t.phase # "idle" => t.booking \in Bookings
        /\ t.phase \in {"found", "done"} => t.to \in AllStatuses
        /\ t.phase \in {"updated", "unaccounted", "split"} => t.to = "COMPLETED"
        /\ t.phase \in Holding \ {"deleted"} => CanUpdate(r)
        /\ t.phase = "deleted" => CanDelete(r)
        /\ t.phase \in {"unaccounted", "split"} => ~InLedger(t.booking)
        /\ t.phase = "settling" => InLedger(t.booking)
        /\ t.phase \notin {"split", "done"} => t.entry = NoEntry
        /\ t.phase = "split" => Fresh(t.booking, t.entry)
        /\ t.phase = "done" =>
              \/ t.entry = NoEntry /\ (t.to = "COMPLETED" => InLedger(t.booking))
              \/ /\ t.to = "COMPLETED"
                 /\ ~InLedger(t.booking)
                 /\ Fresh(t.booking, t.entry)

\* The rows a transaction has written stay as it found them until it ends,
\* and no lock outlives its transaction.
WriteInvariant ==
    /\ \A r \in Requests : Locked(r) /\ Informed(r)
    /\ \A b \in Bookings :
          lock[b] # Nobody => /\ txn[lock[b]].phase \in Holding
                             /\ txn[lock[b]].booking = b

\* The accounting seen from outside: LedgerContract, with a booking counted
\* as completed while its committed status reads COMPLETED.
Completed == { b \in Bookings : booking[b].status = "COMPLETED" }

AccountOf(b) ==
    [ settlement |-> ledger[b].settlement,
      gross      |-> ledger[b].gross,
      rate       |-> ledger[b].rate,
      commission |-> ledger[b].commission,
      net        |-> ledger[b].net ]

Accounts == [b \in Bookings |-> AccountOf(b)]

Contract == INSTANCE LedgerContract
                WITH completed <- Completed, account <- Accounts

\* Every step of the handlers is a step of the contract or changes nothing
\* the contract speaks of.
ImplementsContract == Contract!ContractSpec

-----------------------------------------------------------------------------
(* What the documentation and the error messages say and the code does not *)
(* keep: its reads are older than the writes they lead to.                 *)

\* "Booking has no COMPLETED -> anything edge": once its committed status is
\* COMPLETED, a booking's status never changes again, and its charge with it
\* "never needs to be reversed".
NoEdgeOutOfCompleted ==
    [][ \A b \in Bookings :
           booking[b].status = "COMPLETED" => booking'[b].status = "COMPLETED" ]_vars

\* "Only a still-pending booking can be withdrawn": a customer's delete
\* removes a booking that is PENDING when its DELETE runs.
WithdrawOnlyPending ==
    [][ \A r \in Requests :
           (txn[r].phase = "withdrawing" /\ txn'[r].phase = "deleted")
               => booking[txn[r].booking].status = "PENDING" ]_vars

\* "This transaction has already been settled": a settlement that is recorded
\* is never recorded again by another admin.
SettledOnce ==
    [][ \A b \in Bookings :
           ledger[b].settledBy # Nobody => ledger'[b].settledBy = ledger[b].settledBy ]_vars

=============================================================================
