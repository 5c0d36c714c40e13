------------------------- MODULE BookingLedgerProofs -------------------------
(***************************************************************************)
(* Theorems about BookingLedger, for any number of requests, bookings and  *)
(* providers, any prices and any rates the database admits.                *)
(***************************************************************************)
EXTENDS BookingLedger, TLAPS

-----------------------------------------------------------------------------
(* The split of a price never creates, loses or inverts money.             *)

\* Rounding half-up to the cent never lifts a share of the price above it.
LEMMA RoundingBounds ==
    ASSUME NEW x \in Nat, NEW gross \in Nat, x <= gross * 10000
    PROVE  (x + 5000) \div 10000 \in 0..gross
<1>1. (x + 5000) \div 10000 \in Nat
  OBVIOUS
<1>2. 10000 * ((x + 5000) \div 10000) <= x + 5000
  OBVIOUS
<1>3. (x + 5000) \div 10000 <= gross
  BY <1>1, <1>2
<1>4. QED
  BY <1>1, <1>3

\* computeSplit: the commission lies between nothing and the whole price, so
\* does the provider's net, and together they are the price to the cent.
THEOREM SplitIsExact ==
    ASSUME NEW gross \in Nat, NEW rate \in CommissionRates
    PROVE  /\ Commission(gross, rate) \in 0..gross
           /\ ProviderNet(gross, rate) \in 0..gross
           /\ Commission(gross, rate) + ProviderNet(gross, rate) = gross
<1>1. rate \in Int /\ 0 <= rate /\ rate <= 10000
  BY DEF CommissionRates, RateUnit
<1>2. gross * rate \in Nat /\ gross * rate <= gross * 10000
  BY <1>1
<1>3. Commission(gross, rate) = (gross * rate + 5000) \div 10000
  BY DEF Commission, RateUnit
<1>4. Commission(gross, rate) \in 0..gross
  BY <1>2, <1>3, RoundingBounds
<1>5. QED
  BY <1>4 DEF ProviderNet

-----------------------------------------------------------------------------
(* The rows.                                                               *)

\* The row a completion inserts is a well-formed ledger row that balances.
LEMMA NewEntryFacts ==
    ASSUME NEW b \in Bookings, NEW rate \in Rates
    PROVE  LET e == NewEntry(b, rate)
           IN  /\ e \in LedgerRows
               /\ e # NoEntry
               /\ e.settlement = "PENDING"
               /\ e.gross = Price[b]
               /\ e.commission + e.net = e.gross
               /\ e.commission \in 0..e.gross
<1>1. Price[b] \in Nat /\ rate \in CommissionRates
  BY PriceAssumption, RatesAssumption
<1>2. /\ Commission(Price[b], rate) \in 0..Price[b]
      /\ ProviderNet(Price[b], rate) \in 0..Price[b]
      /\ Commission(Price[b], rate) + ProviderNet(Price[b], rate) = Price[b]
  BY <1>1, SplitIsExact
<1>3. QED
  BY <1>1, <1>2 DEF NewEntry, NoEntry, LedgerRows, Settlements

LEMMA NoEntryIsRow == NoEntry \in LedgerRows
  BY DEF NoEntry, LedgerRows, Settlements, CommissionRates, RateUnit

\* Settling a row changes who settled it and nothing of its figures.
LEMMA SettledRow ==
    ASSUME NEW row \in LedgerRows, NEW admin \in Admins
    PROVE  /\ Settled(row, admin) \in LedgerRows
           /\ Settled(row, admin).settlement = "SETTLED"
           /\ Settled(row, admin).gross = row.gross
           /\ Settled(row, admin).rate = row.rate
           /\ Settled(row, admin).commission = row.commission
           /\ Settled(row, admin).net = row.net
  BY DEF Settled, LedgerRows, Settlements

LEMMA IdleIsTransaction == Idle \in Transactions
  BY NoEntryIsRow DEF Idle, Transactions, Phases

\* An update gives an existing row; the CHECK keeps its dates to those of
\* the status it ends in.
LEMMA UpdatedRow ==
    ASSUME NEW row \in Row, NEW to \in AllStatuses,
           TerminalDatesCheck(Updated(row, to))
    PROVE  /\ Updated(row, to) \in Row
           /\ Exists(Updated(row, to))
           /\ Updated(row, to).status = to
           /\ row.stamps \subseteq Updated(row, to).stamps
           /\ to = "CANCELLED" => Updated(row, to).stamps = {"cancelledAt"}
           /\ to = "COMPLETED" => Updated(row, to).stamps = {"completedAt"}
           /\ to \notin {"CANCELLED", "COMPLETED"} => Updated(row, to).stamps = row.stamps
  BY DEF Row, Updated, Exists, Sets, TerminalDatesCheck, DateColumns,
         AllStatuses, ActiveStatuses, TerminalStatuses

-----------------------------------------------------------------------------
(* The inductive invariant.  The four properties of the tables are not     *)
(* inductive: that a commit keeps them depends on what the transaction     *)
(* still knows when it commits, which is WriteInvariant.                   *)

TableInvariant ==
    /\ CompletedIsAccounted
    /\ ChargedIsNotCalledOff
    /\ LedgerBalances
    /\ TerminalDates

IInv == TypeOK /\ TableInvariant /\ WriteInvariant

LEMMA InitInv == Init => IInv
<1> SUFFICES ASSUME Init PROVE IInv
  OBVIOUS
<1>1. TypeOK
  BY NoEntryIsRow, IdleIsTransaction
  DEF Init, TypeOK, Row, NoRow, AllStatuses, DateColumns
<1>2. TableInvariant
  BY DEF Init, TableInvariant, CompletedIsAccounted, ChargedIsNotCalledOff, LedgerBalances,
         TerminalDates, InLedger, NoRow, NoEntry
<1>3. WriteInvariant
  <2>1. \A r \in Requests : Locked(r) /\ Informed(r)
    BY DEF Init, Locked, Informed, Idle, Holding
  <2>2. QED
    BY <2>1 DEF Init, WriteInvariant
<1>4. QED
  BY <1>1, <1>2, <1>3 DEF IInv

-----------------------------------------------------------------------------
(* Type correctness of each step.                                          *)

LEMMA BusyIsTransaction ==
    ASSUME NEW phase \in Phases, NEW b \in Bookings, NEW to \in AllStatuses \cup {"NONE"}
    PROVE  Busy(phase, b, to) \in Transactions
  BY NoEntryIsRow DEF Busy, Transactions

LEMMA EndType ==
    ASSUME TypeOK, NEW r \in Requests, End(r)
    PROVE  /\ txn' \in [Requests -> Transactions]
           /\ lock' \in [Bookings -> Requests \cup {Nobody}]
  BY IdleIsTransaction DEF TypeOK, End

LEMMA AdvanceType ==
    ASSUME TypeOK, NEW r \in Requests, NEW phase \in Phases, Advance(r, phase)
    PROVE  txn' \in [Requests -> Transactions]
  BY DEF TypeOK, Advance, Transactions

LEMMA AdvanceFacts ==
    ASSUME TypeOK, NEW r \in Requests, NEW phase, Advance(r, phase)
    PROVE  /\ txn'[r].phase = phase
           /\ txn'[r].booking = txn[r].booking
           /\ txn'[r].to = txn[r].to
           /\ txn'[r].entry = txn[r].entry
           /\ \A s \in Requests \ {r} : txn'[s] = txn[s]
  BY DEF TypeOK, Advance, Transactions

LEMMA TypeStep == IInv /\ [Next]_vars => TypeOK'
<1> SUFFICES ASSUME IInv, [Next]_vars PROVE TypeOK'
  OBVIOUS
<1> USE DEF IInv
<1>1. CASE UNCHANGED vars
  BY <1>1 DEF vars, TypeOK
<1>2. ASSUME NEW b \in Bookings, CreateBooking(b) PROVE TypeOK'
  BY <1>2 DEF CreateBooking, TypeOK, NewRow, Row, AllStatuses, ActiveStatuses
<1>3. ASSUME NEW p \in Providers, NEW rate \in Rates, SetProviderCommission(p, rate)
      PROVE  TypeOK'
  BY <1>3 DEF SetProviderCommission, TypeOK
<1>4. ASSUME NEW r \in Requests, NEW b \in Bookings, NEW to \in AllStatuses,
             NEW role \in Roles, FindBooking(r, b, to, role)
      PROVE  TypeOK'
  BY <1>4, BusyIsTransaction DEF FindBooking, TypeOK, Phases
<1>5. ASSUME NEW r \in Requests, NEW b \in Bookings, NEW role, FindForDelete(r, b, role)
      PROVE  TypeOK'
  BY <1>5, BusyIsTransaction DEF FindForDelete, TypeOK, Phases
<1>6. ASSUME NEW r \in Requests, NEW b \in Bookings, FindTransaction(r, b)
      PROVE  TypeOK'
  BY <1>6, BusyIsTransaction DEF FindTransaction, TypeOK, Phases
<1>7. ASSUME NEW r \in Requests, Rollback(r) PROVE TypeOK'
  BY <1>7, EndType DEF Rollback, TypeOK
<1>8. ASSUME NEW r \in Requests, UpdateBooking(r) PROVE TypeOK'
  BY <1>8, AdvanceType DEF UpdateBooking, TypeOK, tables, Phases
<1>9. ASSUME NEW r \in Requests, FindLedgerRow(r) PROVE TypeOK'
  BY <1>9, AdvanceType DEF FindLedgerRow, TypeOK, Phases
<1>10. ASSUME NEW r \in Requests, SplitPrice(r) PROVE TypeOK'
  <2>1. txn[r].booking \in Bookings
    BY <1>10 DEF SplitPrice, WriteInvariant, Informed
  <2>2. NewEntry(txn[r].booking, commissionRate[Owner[txn[r].booking]]) \in LedgerRows
    BY <2>1, OwnerAssumption, NewEntryFacts DEF TypeOK
  <2>3. [txn[r] EXCEPT !.phase = "split",
                       !.entry = NewEntry(txn[r].booking,
                                          commissionRate[Owner[txn[r].booking]])]
          \in Transactions
    BY <2>2 DEF TypeOK, Transactions, Phases
  <2>4. QED
    BY <1>10, <2>3 DEF SplitPrice, TypeOK
<1>11. ASSUME NEW r \in Requests, txn[r].phase = "split", Advance(r, "done"),
              UNCHANGED <<booking, ledger, commissionRate, lock>>
       PROVE  TypeOK'
  BY <1>11, AdvanceType DEF TypeOK, Phases
<1>12. ASSUME NEW r \in Requests, CommitUpdate(r) PROVE TypeOK'
  <2>1. /\ txn[r].booking \in Bookings
        /\ txn[r].to \in AllStatuses
        /\ TerminalDatesCheck(Updated(booking[txn[r].booking], txn[r].to))
    BY <1>12 DEF CommitUpdate, WriteInvariant, Informed, Holding, CanUpdate
  <2>2. booking[txn[r].booking] \in Row /\ txn[r].entry \in LedgerRows
    BY <2>1 DEF TypeOK, Transactions
  <2>3. Updated(booking[txn[r].booking], txn[r].to) \in Row
    BY <2>1, <2>2, UpdatedRow
  <2>4. booking' \in [Bookings -> Row] /\ ledger' \in [Bookings -> LedgerRows]
    BY <1>12, <2>1, <2>2, <2>3 DEF CommitUpdate, TypeOK
  <2>5. QED
    BY <1>12, <2>4, EndType DEF CommitUpdate, TypeOK
<1>13. ASSUME NEW r \in Requests, DeleteBooking(r) PROVE TypeOK'
  BY <1>13, AdvanceType DEF DeleteBooking, TypeOK, tables, Phases
<1>14. ASSUME NEW r \in Requests, CommitDelete(r) PROVE TypeOK'
  <2>1. DeletedRow \in Row
    BY DEF DeletedRow, Row
  <2>2. QED
    BY <1>14, <2>1, EndType DEF CommitDelete, TypeOK
<1>15. ASSUME NEW r \in Requests, NEW admin \in Admins, SettleTransaction(r, admin)
       PROVE  TypeOK'
  <2>1. txn' \in [Requests -> Transactions]
    BY <1>15, IdleIsTransaction DEF SettleTransaction, TypeOK
  <2>2. ledger' \in [Bookings -> LedgerRows]
    BY <1>15, SettledRow DEF SettleTransaction, TypeOK
  <2>3. QED
    BY <1>15, <2>1, <2>2 DEF SettleTransaction, TypeOK
<1>16. QED
  BY <1>1, <1>2, <1>3, <1>4, <1>5, <1>6, <1>7, <1>8, <1>9, <1>10, <1>11, <1>12, <1>13,
     <1>14, <1>15
  DEF Next, Call, Step, Abort, UpdateFails, DeleteFails, CreateLedgerRow

-----------------------------------------------------------------------------
(* What the transactions know survives each step.                          *)

\* A request that does not move keeps what it knows if its row's entry in the
\* ledger stays and, where it holds the row, the row itself stays.
LEMMA InformedFrame ==
    ASSUME NEW s \in Requests, Informed(s), txn'[s] = txn[s],
           NEW b, b = txn[s].booking,
           InLedger(b) => InLedger(b)',
           txn[s].phase \in Holding =>
               booking'[b] = booking[b] /\ (InLedger(b)' => InLedger(b))
    PROVE  Informed(s)'
<1>1. txn[s].phase \in Holding => (CanUpdate(s)' <=> CanUpdate(s))
  BY DEF CanUpdate, Exists, TerminalDatesCheck, Updated
<1>2. txn[s].phase \in Holding => (CanDelete(s) => CanDelete(s)')
  BY DEF CanDelete, Exists
<1>3. QED
  BY <1>1, <1>2 DEF Informed, Holding

\* The requests that do not move keep what they know if the ledger keeps its
\* rows and only rows held by r, or by nobody, change.
LEMMA OthersInformed ==
    ASSUME TypeOK, WriteInvariant, NEW r \in Requests,
           \A s \in Requests \ {r} : txn'[s] = txn[s],
           \A b \in Bookings : InLedger(b) => InLedger(b)',
           \A b \in Bookings :
               lock[b] \notin {r, Nobody} =>
                   booking'[b] = booking[b] /\ (InLedger(b)' => InLedger(b))
    PROVE  \A s \in Requests \ {r} : Informed(s)'
<1> SUFFICES ASSUME NEW s \in Requests \ {r} PROVE Informed(s)'
  OBVIOUS
<1>1. Informed(s) /\ Locked(s)
  BY DEF WriteInvariant
<1>2. CASE txn[s].phase = "idle"
  <2>1. txn[s] = Idle
    BY <1>1, <1>2 DEF Informed
  <2>2. QED
    BY <2>1 DEF Informed, Idle, Holding
<1>3. CASE txn[s].phase # "idle"
  <2>1. txn[s].booking \in Bookings
    BY <1>1, <1>3 DEF Informed
  <2>2. txn[s].phase \in Holding => lock[txn[s].booking] \notin {r, Nobody}
    BY <1>1, NobodyAssumption DEF Locked
  <2>3. QED
    BY <1>1, <2>1, <2>2, InformedFrame
<1>4. QED
  BY <1>2, <1>3

\* A transaction that ends leaves the locks of the others in order.
LEMMA EndKeepsLocks ==
    ASSUME TypeOK, WriteInvariant, NEW r \in Requests, End(r)
    PROVE  /\ \A s \in Requests : Locked(s)'
           /\ \A b \in Bookings : lock'[b] # Nobody =>
                  /\ txn'[lock'[b]].phase \in Holding
                  /\ txn'[lock'[b]].booking = b
<1>1. \A s \in Requests : Locked(s)'
  <2> SUFFICES ASSUME NEW s \in Requests, txn'[s].phase \in Holding
               PROVE  lock'[txn'[s].booking] = s
    BY DEF Locked
  <2>1. s # r /\ txn'[s] = txn[s]
    BY DEF End, TypeOK, Idle, Holding
  <2>2. lock[txn[s].booking] = s /\ txn[s].booking \in Bookings
    BY <2>1 DEF WriteInvariant, Locked, Informed, Holding
  <2>3. QED
    BY <2>1, <2>2 DEF End
<1>2. ASSUME NEW b \in Bookings, lock'[b] # Nobody
      PROVE  txn'[lock'[b]].phase \in Holding /\ txn'[lock'[b]].booking = b
  <2>1. lock[b] # r /\ lock'[b] = lock[b]
    BY <1>2 DEF End
  <2>2. lock[b] \in Requests
    BY <1>2, <2>1 DEF TypeOK
  <2>3. QED
    BY <1>2, <2>1, <2>2 DEF End, TypeOK, WriteInvariant
<1>3. QED
  BY <1>1, <1>2

\* So does one that moves on while holding what it holds, or holding nothing.
LEMMA MoveKeepsLocks ==
    ASSUME TypeOK, WriteInvariant, NEW r \in Requests, UNCHANGED lock,
           \A s \in Requests \ {r} : txn'[s] = txn[s],
           txn'[r].phase \in Holding <=> txn[r].phase \in Holding,
           txn[r].phase \in Holding => txn'[r].booking = txn[r].booking
    PROVE  /\ \A s \in Requests : Locked(s)'
           /\ \A b \in Bookings : lock'[b] # Nobody =>
                  /\ txn'[lock'[b]].phase \in Holding
                  /\ txn'[lock'[b]].booking = b
<1>1. \A s \in Requests : Locked(s)'
  BY DEF WriteInvariant, Locked
<1>2. ASSUME NEW b \in Bookings, lock'[b] # Nobody
      PROVE  txn'[lock'[b]].phase \in Holding /\ txn'[lock'[b]].booking = b
  <2>1. lock[b] \in Requests /\ lock'[b] = lock[b]
    BY <1>2 DEF TypeOK
  <2>2. QED
    BY <1>2, <2>1 DEF WriteInvariant
<1>3. QED
  BY <1>1, <1>2

\* And one that takes a free lock with the statement it runs.
LEMMA LockKeepsLocks ==
    ASSUME TypeOK, WriteInvariant, NEW r \in Requests,
           txn[r].phase \notin Holding,
           txn[r].booking \in Bookings,
           lock[txn[r].booking] = Nobody,
           lock' = [lock EXCEPT ![txn[r].booking] = r],
           \A s \in Requests \ {r} : txn'[s] = txn[s],
           txn'[r].phase \in Holding,
           txn'[r].booking = txn[r].booking
    PROVE  /\ \A s \in Requests : Locked(s)'
           /\ \A b \in Bookings : lock'[b] # Nobody =>
                  /\ txn'[lock'[b]].phase \in Holding
                  /\ txn'[lock'[b]].booking = b
<1>1. \A s \in Requests : Locked(s)'
  <2> SUFFICES ASSUME NEW s \in Requests, txn'[s].phase \in Holding
               PROVE  lock'[txn'[s].booking] = s
    BY DEF Locked
  <2>1. CASE s = r
    BY <2>1 DEF TypeOK
  <2>2. CASE s # r
    <3>1. txn[s].phase \in Holding /\ lock[txn[s].booking] = s
      BY <2>2 DEF WriteInvariant, Locked
    <3>2. txn[s].booking # txn[r].booking
      BY <3>1, NobodyAssumption
    <3>3. txn[s].booking \in Bookings
      BY <3>1 DEF WriteInvariant, Informed, Holding
    <3>4. QED
      BY <2>2, <3>1, <3>2, <3>3 DEF TypeOK
  <2>3. QED
    BY <2>1, <2>2
<1>2. ASSUME NEW b \in Bookings, lock'[b] # Nobody
      PROVE  txn'[lock'[b]].phase \in Holding /\ txn'[lock'[b]].booking = b
  <2>1. CASE b = txn[r].booking
    BY <2>1 DEF TypeOK
  <2>2. CASE b # txn[r].booking
    <3>1. lock'[b] = lock[b] /\ lock[b] \in Requests
      BY <1>2, <2>2 DEF TypeOK
    <3>2. txn[lock[b]].phase \in Holding /\ txn[lock[b]].booking = b
      BY <1>2, <3>1 DEF WriteInvariant
    <3>3. QED
      BY <3>1, <3>2
  <2>3. QED
    BY <2>1, <2>2
<1>3. QED
  BY <1>1, <1>2

\* A step that rolls r back, or that only reads, needs no more than this.
LEMMA WriteInvariantFromParts ==
    ASSUME NEW r \in Requests,
           Informed(r)',
           \A s \in Requests \ {r} : Informed(s)',
           \A s \in Requests : Locked(s)',
           \A b \in Bookings : lock'[b] # Nobody =>
               txn'[lock'[b]].phase \in Holding /\ txn'[lock'[b]].booking = b
    PROVE  WriteInvariant'
  BY DEF WriteInvariant

LEMMA IdleInformed ==
    ASSUME NEW r \in Requests, txn'[r] = Idle
    PROVE  Informed(r)'
  BY DEF Informed, Idle, Holding

LEMMA RollbackWrites ==
    ASSUME TypeOK, WriteInvariant, NEW r \in Requests, Rollback(r)
    PROVE  WriteInvariant'
<1>1. txn'[r] = Idle /\ \A s \in Requests \ {r} : txn'[s] = txn[s]
  BY DEF Rollback, End, TypeOK
<1>2. \A s \in Requests \ {r} : Informed(s)'
  BY <1>1, OthersInformed DEF Rollback, InLedger
<1>3. QED
  BY <1>1, <1>2, IdleInformed, EndKeepsLocks, WriteInvariantFromParts DEF Rollback

\* The two statements that take a row's lock.
LEMMA LockingWrites ==
    ASSUME TypeOK, WriteInvariant, NEW r \in Requests,
           UpdateBooking(r) \/ DeleteBooking(r)
    PROVE  WriteInvariant'
<1>1. /\ txn[r].phase \in {"found", "withdrawing", "erasing"}
      /\ txn[r].booking \in Bookings
      /\ lock[txn[r].booking] = Nobody
      /\ lock' = [lock EXCEPT ![txn[r].booking] = r]
      /\ UNCHANGED <<booking, ledger>>
      /\ Informed(r)
      /\ txn[r] \in Transactions
  BY DEF UpdateBooking, DeleteBooking, Deleting, tables, WriteInvariant, Informed, TypeOK
<1>2. /\ \A s \in Requests \ {r} : txn'[s] = txn[s]
      /\ txn'[r].phase \in {"updated", "done", "deleted"}
      /\ txn'[r].booking = txn[r].booking
      /\ txn'[r].to = txn[r].to
      /\ txn'[r].entry = txn[r].entry
  BY <1>1 DEF UpdateBooking, DeleteBooking, Advance, TypeOK, Transactions
<1>3. Informed(r)'
  <2>1. txn[r].entry = NoEntry
    BY <1>1 DEF Informed
  <2>2. CASE UpdateBooking(r)
    <3>1. CanUpdate(r)'
      BY <1>1, <1>2, <2>2 DEF UpdateBooking, CanUpdate, Exists, TerminalDatesCheck, Updated
    <3>2. /\ txn'[r].phase = IF txn[r].to = "COMPLETED" THEN "updated" ELSE "done"
          /\ txn[r].to \in AllStatuses
      BY <1>1, <2>2, AdvanceFacts DEF UpdateBooking, Informed
    <3>3. QED
      BY <1>1, <1>2, <2>1, <3>1, <3>2 DEF Informed, Idle, Holding, AllStatuses, TerminalStatuses
  <2>3. CASE DeleteBooking(r)
    <3>1. CanDelete(r)' /\ txn'[r].phase = "deleted"
      BY <1>1, <1>2, <2>3 DEF DeleteBooking, CanDelete, Exists, InLedger, Advance, TypeOK
    <3>2. QED
      BY <1>1, <1>2, <2>1, <3>1 DEF Informed, Idle, Holding
  <2>4. QED
    BY <2>2, <2>3
<1>4. \A s \in Requests \ {r} : Informed(s)'
  BY <1>1, <1>2, OthersInformed DEF InLedger
<1>5. /\ \A s \in Requests : Locked(s)'
      /\ \A b \in Bookings : lock'[b] # Nobody =>
             txn'[lock'[b]].phase \in Holding /\ txn'[lock'[b]].booking = b
  BY <1>1, <1>2, LockKeepsLocks DEF Holding
<1>6. QED
  BY <1>3, <1>4, <1>5, WriteInvariantFromParts

\* The statements that only read, and settling, which only moves a ledger
\* row from PENDING to SETTLED.
LEMMA MovingWrites ==
    ASSUME TypeOK, WriteInvariant, NEW r \in Requests,
           UNCHANGED <<booking, lock>>,
           \A b \in Bookings : InLedger(b)' <=> InLedger(b),
           \A s \in Requests \ {r} : txn'[s] = txn[s],
           txn'[r].phase \in Holding <=> txn[r].phase \in Holding,
           txn[r].phase \in Holding => txn'[r].booking = txn[r].booking,
           Informed(r)'
    PROVE  WriteInvariant'
<1>1. \A s \in Requests \ {r} : Informed(s)'
  BY OthersInformed
<1>2. QED
  BY <1>1, MoveKeepsLocks, WriteInvariantFromParts

LEMMA WriteStep == IInv /\ [Next]_vars => WriteInvariant'
<1> SUFFICES ASSUME IInv, [Next]_vars PROVE WriteInvariant'
  OBVIOUS
<1> USE DEF IInv
<1>1. CASE UNCHANGED vars
  BY <1>1 DEF vars, WriteInvariant, Locked, Informed, CanUpdate, CanDelete, InLedger
<1>2. ASSUME NEW b \in Bookings, CreateBooking(b) PROVE WriteInvariant'
  <2>1. /\ UNCHANGED <<ledger, txn, lock>>
        /\ \A c \in Bookings \ {b} : booking'[c] = booking[c]
        /\ ~Exists(booking[b])
    BY <1>2 DEF CreateBooking, TypeOK, NoRow, Exists, AllStatuses, ActiveStatuses,
                TerminalStatuses
  <2>2. ASSUME NEW s \in Requests PROVE Informed(s)' /\ Locked(s)'
    <3>1. Informed(s) /\ Locked(s)
      BY DEF WriteInvariant
    <3>2. txn[s].phase \in Holding => txn[s].booking \in Bookings \ {b}
      BY <2>1, <3>1 DEF Informed, CanUpdate, CanDelete, Holding
    <3>3. Informed(s)'
      BY <2>1, <3>1, <3>2, InformedFrame DEF InLedger
    <3>4. QED
      BY <2>1, <3>1, <3>3 DEF Locked
  <2>3. QED
    BY <2>1, <2>2 DEF WriteInvariant
<1>3. ASSUME NEW p \in Providers, NEW rate \in Rates, SetProviderCommission(p, rate)
      PROVE  WriteInvariant'
  <2>1. UNCHANGED <<booking, ledger, txn, lock>>
    BY <1>3 DEF SetProviderCommission
  <2>2. QED
    BY <2>1 DEF WriteInvariant, Locked, Informed, CanUpdate, CanDelete, InLedger
<1>4. ASSUME NEW r \in Requests, NEW b \in Bookings, NEW to \in AllStatuses \cup {"NONE"},
             NEW phase \in {"found", "withdrawing", "erasing", "settling"},
             txn[r] = Idle,
             txn' = [txn EXCEPT ![r] = Busy(phase, b, to)],
             phase = "found" => to \in AllStatuses,
             phase = "settling" => InLedger(b),
             UNCHANGED <<booking, ledger, commissionRate, lock>>
      PROVE  WriteInvariant'
  <2>1. /\ txn'[r] = Busy(phase, b, to)
        /\ \A s \in Requests \ {r} : txn'[s] = txn[s]
    BY <1>4 DEF TypeOK
  <2>2. Informed(r)'
    BY <1>4, <2>1 DEF Informed, Busy, Idle, Holding, InLedger
  <2>3. QED
    BY <1>4, <2>1, <2>2, MovingWrites DEF Busy, Idle, Holding, InLedger
<1>5. ASSUME NEW r \in Requests, Rollback(r) PROVE WriteInvariant'
  BY <1>5, RollbackWrites
<1>6. ASSUME NEW r \in Requests, UpdateBooking(r) \/ DeleteBooking(r)
      PROVE  WriteInvariant'
  BY <1>6, LockingWrites
<1>7. ASSUME NEW r \in Requests, FindLedgerRow(r) PROVE WriteInvariant'
  <2>1. /\ txn'[r].phase = IF InLedger(txn[r].booking) THEN "done" ELSE "unaccounted"
        /\ txn'[r].booking = txn[r].booking
        /\ txn'[r].to = txn[r].to
        /\ txn'[r].entry = txn[r].entry
        /\ \A s \in Requests \ {r} : txn'[s] = txn[s]
    BY <1>7, AdvanceFacts DEF FindLedgerRow
  <2>2. /\ txn[r].phase = "updated"
        /\ txn[r].booking \in Bookings
        /\ txn[r].to = "COMPLETED"
        /\ txn[r].entry = NoEntry
        /\ CanUpdate(r)
        /\ UNCHANGED <<booking, ledger, lock>>
    BY <1>7 DEF FindLedgerRow, WriteInvariant, Informed, Holding
  <2>3. CanUpdate(r)'
    BY <2>1, <2>2 DEF CanUpdate, Exists, TerminalDatesCheck, Updated
  <2>4. Informed(r)'
    BY <2>1, <2>2, <2>3 DEF Informed, Idle, Holding, InLedger, AllStatuses, TerminalStatuses
  <2>5. QED
    BY <2>1, <2>2, <2>4, MovingWrites DEF Holding, InLedger
<1>8. ASSUME NEW r \in Requests, SplitPrice(r) PROVE WriteInvariant'
  <2> DEFINE e == NewEntry(txn[r].booking, commissionRate[Owner[txn[r].booking]])
  <2>1. /\ txn[r].phase = "unaccounted"
        /\ txn[r].booking \in Bookings
        /\ txn[r].to = "COMPLETED"
        /\ ~InLedger(txn[r].booking)
        /\ CanUpdate(r)
        /\ UNCHANGED <<booking, ledger, lock>>
    BY <1>8 DEF SplitPrice, WriteInvariant, Informed, Holding
  <2>2. /\ txn'[r].phase = "split"
        /\ txn'[r].booking = txn[r].booking
        /\ txn'[r].to = txn[r].to
        /\ txn'[r].entry = e
        /\ \A s \in Requests \ {r} : txn'[s] = txn[s]
    <3>1. txn'[r] = [txn[r] EXCEPT !.phase = "split", !.entry = e]
      BY <1>8 DEF SplitPrice, TypeOK
    <3>2. txn[r] \in Transactions
      BY DEF TypeOK
    <3>3. QED
      BY <1>8, <3>1, <3>2 DEF SplitPrice, TypeOK, Transactions
  <2>3. commissionRate[Owner[txn[r].booking]] \in Rates
    BY <2>1, OwnerAssumption DEF TypeOK
  <2>4. Fresh(txn[r].booking, e)
    BY <2>3 DEF Fresh
  <2>5. CanUpdate(r)'
    BY <2>1, <2>2 DEF CanUpdate, Exists, TerminalDatesCheck, Updated
  <2>6. Informed(r)'
    BY <2>1, <2>2, <2>4, <2>5 DEF Informed, Idle, Holding, InLedger, Fresh
  <2>7. QED
    BY <2>1, <2>2, <2>6, MovingWrites DEF Holding, InLedger
<1>9. ASSUME NEW r \in Requests, txn[r].phase = "split", Advance(r, "done"),
             UNCHANGED <<booking, ledger, commissionRate, lock>>
      PROVE  WriteInvariant'
  <2>1. /\ txn'[r].phase = "done"
        /\ txn'[r].booking = txn[r].booking
        /\ txn'[r].to = txn[r].to
        /\ txn'[r].entry = txn[r].entry
        /\ \A s \in Requests \ {r} : txn'[s] = txn[s]
    BY <1>9, AdvanceFacts
  <2>2. /\ txn[r].booking \in Bookings
        /\ txn[r].to = "COMPLETED"
        /\ ~InLedger(txn[r].booking)
        /\ Fresh(txn[r].booking, txn[r].entry)
        /\ CanUpdate(r)
    BY <1>9 DEF WriteInvariant, Informed, Holding
  <2>3. CanUpdate(r)'
    BY <1>9, <2>1, <2>2 DEF CanUpdate, Exists, TerminalDatesCheck, Updated
  <2>4. Informed(r)'
    BY <1>9, <2>1, <2>2, <2>3
    DEF Informed, Idle, Holding, InLedger, AllStatuses, TerminalStatuses, Fresh
  <2>5. QED
    BY <1>9, <2>1, <2>4, MovingWrites DEF Holding, InLedger
<1>10. ASSUME NEW r \in Requests, CommitUpdate(r) \/ CommitDelete(r) PROVE WriteInvariant'
  <2>1. /\ txn[r].phase \in Holding
        /\ txn[r].booking \in Bookings
        /\ lock[txn[r].booking] = r
        /\ End(r)
    BY <1>10 DEF CommitUpdate, CommitDelete, WriteInvariant, Informed, Locked, Holding
  <2>2. txn'[r] = Idle /\ \A s \in Requests \ {r} : txn'[s] = txn[s]
    BY <2>1 DEF End, TypeOK
  <2>3. PICK bk \in Bookings : bk = txn[r].booking
    BY <2>1
  <2>4. \A b \in Bookings : b # bk => booking'[b] = booking[b] /\ ledger'[b] = ledger[b]
    BY <1>10, <2>3 DEF CommitUpdate, CommitDelete, TypeOK
  <2>5. InLedger(bk) => InLedger(bk)'
    <3>1. CASE CommitDelete(r)
      BY <3>1 DEF CommitDelete, InLedger
    <3>2. CASE CommitUpdate(r) /\ txn[r].entry = NoEntry
      BY <3>2 DEF CommitUpdate, InLedger
    <3>3. CASE CommitUpdate(r) /\ txn[r].entry # NoEntry
      <4>1. ~InLedger(bk)
        BY <2>3, <3>3 DEF CommitUpdate, WriteInvariant, Informed
      <4>2. QED
        BY <4>1
    <3>4. QED
      BY <1>10, <3>1, <3>2, <3>3
  <2>6. \A b \in Bookings : lock[b] \notin {r, Nobody} =>
            booking'[b] = booking[b] /\ (InLedger(b)' => InLedger(b))
    BY <2>1, <2>3, <2>4 DEF InLedger
  <2>7. \A s \in Requests \ {r} : Informed(s)'
    BY <2>2, <2>4, <2>5, <2>6, OthersInformed DEF InLedger
  <2>8. QED
    BY <2>1, <2>2, <2>7, IdleInformed, EndKeepsLocks, WriteInvariantFromParts
<1>11. ASSUME NEW r \in Requests, NEW admin \in Admins, SettleTransaction(r, admin)
       PROVE  WriteInvariant'
  <2>1. /\ txn[r].phase = "settling"
        /\ txn[r].booking \in Bookings
        /\ InLedger(txn[r].booking)
        /\ UNCHANGED <<booking, lock>>
        /\ txn'[r] = Idle
        /\ \A s \in Requests \ {r} : txn'[s] = txn[s]
    BY <1>11 DEF SettleTransaction, WriteInvariant, Informed, TypeOK
  <2>2. ledger[txn[r].booking] \in LedgerRows
    BY <2>1 DEF TypeOK
  <2>3. \A b \in Bookings : InLedger(b)' <=> InLedger(b)
    BY <1>11, <2>1, <2>2, SettledRow DEF SettleTransaction, InLedger, TypeOK
  <2>4. QED
    BY <2>1, <2>3, IdleInformed, MovingWrites DEF Idle, Holding
<1>12. ASSUME NEW r \in Requests, Call(r) PROVE WriteInvariant'
  BY <1>4, <1>12 DEF Call, FindBooking, FindForDelete, FindTransaction, InLedger
<1>13. QED
  BY <1>1, <1>2, <1>3, <1>5, <1>6, <1>7, <1>8, <1>9, <1>10, <1>11, <1>12
  DEF Next, Step, Abort, UpdateFails, DeleteFails, CreateLedgerRow

-----------------------------------------------------------------------------
(* The tables.                                                             *)

\* What the four properties say of one booking.
RowInvariant(b) ==
    /\ booking[b].status = "COMPLETED" => InLedger(b)
    /\ InLedger(b) =>
          /\ Exists(booking[b])
          /\ booking[b].status # "CANCELLED"
          /\ booking[b].stamps = {"completedAt"}
          /\ ledger[b].gross = Price[b]
          /\ ledger[b].commission + ledger[b].net = ledger[b].gross
          /\ ledger[b].commission \in 0..ledger[b].gross
    /\ booking[b].status = "CANCELLED" => booking[b].stamps = {"cancelledAt"}
    /\ booking[b].status = "COMPLETED" => booking[b].stamps = {"completedAt"}

LEMMA TableInvariantByRow == TableInvariant <=> \A b \in Bookings : RowInvariant(b)
  BY DEF TableInvariant, RowInvariant, CompletedIsAccounted, ChargedIsNotCalledOff,
         LedgerBalances, TerminalDates

\* A commit of an update, seen at the row it writes.
LEMMA CommitKeepsRow ==
    ASSUME IInv, NEW r \in Requests, CommitUpdate(r),
           NEW b \in Bookings, b = txn[r].booking
    PROVE  RowInvariant(b)'
<1> DEFINE to == txn[r].to
           new == Updated(booking[b], to)
<1>1. /\ RowInvariant(b)
      /\ booking[b] \in Row
      /\ to \in AllStatuses
      /\ TerminalDatesCheck(new)
      /\ \/ txn[r].entry = NoEntry /\ (to = "COMPLETED" => InLedger(b))
         \/ to = "COMPLETED" /\ Fresh(b, txn[r].entry)
  BY TableInvariantByRow
  DEF IInv, TypeOK, CommitUpdate, WriteInvariant, Informed, Holding, CanUpdate
<1>2. /\ Exists(new)
      /\ new.status = to
      /\ booking[b].stamps \subseteq new.stamps
      /\ to = "CANCELLED" => new.stamps = {"cancelledAt"}
      /\ to = "COMPLETED" => new.stamps = {"completedAt"}
      /\ to \notin {"CANCELLED", "COMPLETED"} => new.stamps = booking[b].stamps
  BY <1>1, UpdatedRow
<1>3. booking'[b] = new
  BY DEF CommitUpdate, IInv, TypeOK
<1>4. CASE txn[r].entry = NoEntry
  <2>1. ledger'[b] = ledger[b]
    BY <1>4 DEF CommitUpdate
  <2>2. to = "COMPLETED" => InLedger(b)
    BY <1>1, <1>4, NewEntryFacts DEF Fresh
  <2>3. InLedger(b) => to # "CANCELLED" /\ new.stamps = {"completedAt"}
    BY <1>1, <1>2 DEF RowInvariant
  <2>4. QED
    BY <1>1, <1>2, <1>3, <2>1, <2>2, <2>3 DEF RowInvariant, InLedger, Exists
<1>5. CASE txn[r].entry # NoEntry
  <2>1. PICK rate \in Rates : txn[r].entry = NewEntry(b, rate)
    BY <1>1, <1>5 DEF Fresh
  <2>2. ledger'[b] = NewEntry(b, rate)
    BY <1>5, <2>1 DEF CommitUpdate, IInv, TypeOK
  <2>3. to = "COMPLETED"
    BY <1>1, <1>5
  <2>4. QED
    BY <1>2, <1>3, <2>2, <2>3, NewEntryFacts DEF RowInvariant, InLedger, Exists
<1>6. QED
  BY <1>4, <1>5

LEMMA TableStep == IInv /\ [Next]_vars => TableInvariant'
<1> SUFFICES ASSUME IInv, [Next]_vars, NEW b \in Bookings PROVE RowInvariant(b)'
  BY TableInvariantByRow DEF TableInvariant, RowInvariant, CompletedIsAccounted,
     ChargedIsNotCalledOff, LedgerBalances, TerminalDates, InLedger
<1>0. RowInvariant(b)
  BY TableInvariantByRow DEF IInv
<1>1. CASE UNCHANGED <<booking, ledger>>
  BY <1>0, <1>1 DEF RowInvariant, InLedger
<1>2. ASSUME NEW c \in Bookings, CreateBooking(c) PROVE RowInvariant(b)'
  <2>1. CASE b # c
    BY <1>0, <1>2, <2>1 DEF CreateBooking, RowInvariant, InLedger, IInv, TypeOK
  <2>2. CASE b = c
    <3>1. booking'[b] = NewRow /\ ledger'[b] = ledger[b]
      BY <1>2, <2>2 DEF CreateBooking, IInv, TypeOK
    <3>2. ~InLedger(b)
      BY <1>0, <1>2, <2>2 DEF CreateBooking, RowInvariant, NoRow, Exists, AllStatuses,
                              ActiveStatuses, TerminalStatuses
    <3>3. QED
      BY <3>1, <3>2 DEF RowInvariant, InLedger, NewRow
  <2>3. QED
    BY <2>1, <2>2
<1>3. ASSUME NEW r \in Requests, CommitUpdate(r) PROVE RowInvariant(b)'
  <2>1. CASE b = txn[r].booking
    BY <1>3, <2>1, CommitKeepsRow
  <2>2. CASE b # txn[r].booking
    <3>1. booking'[b] = booking[b] /\ ledger'[b] = ledger[b]
      BY <1>3, <2>2 DEF CommitUpdate, IInv, TypeOK
    <3>2. QED
      BY <1>0, <3>1 DEF RowInvariant, InLedger
  <2>3. QED
    BY <2>1, <2>2
<1>4. ASSUME NEW r \in Requests, CommitDelete(r) PROVE RowInvariant(b)'
  <2>1. CASE b # txn[r].booking
    BY <1>0, <1>4, <2>1 DEF CommitDelete, RowInvariant, InLedger, IInv, TypeOK
  <2>2. CASE b = txn[r].booking
    <3>1. booking'[b] = DeletedRow /\ ledger'[b] = ledger[b]
      BY <1>4, <2>2 DEF CommitDelete, IInv, TypeOK
    <3>2. ~InLedger(b)
      BY <1>4, <2>2 DEF CommitDelete, IInv, WriteInvariant, Informed, CanDelete
    <3>3. QED
      BY <3>1, <3>2 DEF RowInvariant, InLedger, DeletedRow
  <2>3. QED
    BY <2>1, <2>2
<1>5. ASSUME NEW r \in Requests, NEW admin \in Admins, SettleTransaction(r, admin)
      PROVE  RowInvariant(b)'
  <2>1. CASE b # txn[r].booking
    BY <1>0, <1>5, <2>1 DEF SettleTransaction, RowInvariant, InLedger, IInv, TypeOK
  <2>2. CASE b = txn[r].booking
    <3>1. /\ booking'[b] = booking[b]
          /\ ledger'[b] = Settled(ledger[b], admin)
          /\ ledger[b] \in LedgerRows
      BY <1>5, <2>2 DEF SettleTransaction, IInv, TypeOK
    <3>2. InLedger(b)
      BY <1>5, <2>2 DEF SettleTransaction, IInv, WriteInvariant, Informed
    <3>3. QED
      BY <1>0, <3>1, <3>2, SettledRow DEF RowInvariant, InLedger
  <2>3. QED
    BY <2>1, <2>2
<1>6. QED
  BY <1>1, <1>2, <1>3, <1>4, <1>5
  DEF Next, Call, Step, Abort, Rollback, UpdateFails, DeleteFails, CreateLedgerRow, vars,
      tables, SetProviderCommission, FindBooking, FindForDelete, FindTransaction,
      UpdateBooking, FindLedgerRow, SplitPrice, DeleteBooking

-----------------------------------------------------------------------------
(* The theorems.                                                           *)

\* The invariant holds in every reachable state.
THEOREM Invariance == Spec => []IInv
<1>1. IInv /\ [Next]_vars => IInv'
  BY TypeStep, WriteStep, TableStep DEF IInv
<1>2. QED
  BY <1>1, InitInv, PTL DEF Spec

\* Every variable keeps its type: rows, ledger rows and transactions are only
\* ever what the schema and the handlers allow.
THEOREM TypeCorrect == Spec => []TypeOK
  BY Invariance, PTL DEF IInv

\* However requests interleave, a COMPLETED booking has its ledger row.
THEOREM CompletionIsAtomic == Spec => []CompletedIsAccounted
  BY Invariance, PTL DEF IInv, TableInvariant

\* However requests interleave, the booking behind a ledger row exists, is
\* dated as completed and was never cancelled.  (It need not be COMPLETED: a
\* stale write of another status is let through.)
THEOREM NoChargeCalledOff == Spec => []ChargedIsNotCalledOff
  BY Invariance, PTL DEF IInv, TableInvariant

\* Every ledger row balances to the cent with the booking's own price.
THEOREM LedgerIsBalanced == Spec => []LedgerBalances
  BY Invariance, PTL DEF IInv, TableInvariant

\* A booking's dates agree with the terminal status it is in.
THEOREM DatesAreConsistent == Spec => []TerminalDates
  BY Invariance, PTL DEF IInv, TableInvariant

\* No transaction about to insert a booking's ledger row finds one there.
THEOREM InsertIsUnique == Spec => []LedgerInsertNeverConflicts
<1>1. IInv => LedgerInsertNeverConflicts
  BY DEF IInv, WriteInvariant, Informed, LedgerInsertNeverConflicts
<1>2. QED
  BY <1>1, Invariance, PTL

-----------------------------------------------------------------------------
(* Refinement: the handlers implement LedgerContract.                      *)

\* The account of an inserted row is the contract's account at its rate.
LEMMA AccountOfNewEntry ==
    ASSUME NEW b \in Bookings, NEW rate \in Rates, ledger'[b] = NewEntry(b, rate)
    PROVE  AccountOf(b)' = Contract!Account(Price[b], rate)
  BY DEF AccountOf, NewEntry, Contract!Account, Contract!Commission, Contract!ProviderNet,
         Commission, ProviderNet, Contract!RateUnit, RateUnit

LEMMA ContractInitially == Init => Contract!ContractInit
  BY DEF Init, Contract!ContractInit, Completed, Accounts, AccountOf, NoRow, NoEntry,
         Contract!NoAccount

LEMMA ContractStep == IInv /\ [Next]_vars => [Contract!ContractNext]_(Contract!contractVars)
<1> SUFFICES ASSUME IInv, [Next]_vars
             PROVE  Contract!ContractNext \/ UNCHANGED <<Completed, Accounts>>
  BY DEF Contract!contractVars
<1> USE DEF IInv
<1>1. CASE UNCHANGED <<booking, ledger>>
  BY <1>1 DEF Completed, Accounts, AccountOf
<1>2. ASSUME NEW b \in Bookings, CreateBooking(b)
      PROVE  UNCHANGED <<Completed, Accounts>>
  <2>1. booking[b].status = "NONE" /\ booking'[b].status = "PENDING"
    BY <1>2 DEF CreateBooking, TypeOK, NoRow, NewRow
  <2>2. \A c \in Bookings \ {b} : booking'[c] = booking[c]
    BY <1>2 DEF CreateBooking, TypeOK
  <2>3. UNCHANGED ledger
    BY <1>2 DEF CreateBooking
  <2>4. QED
    BY <2>1, <2>2, <2>3 DEF Completed, Accounts, AccountOf
<1>3. ASSUME NEW r \in Requests, CommitDelete(r)
      PROVE  UNCHANGED <<Completed, Accounts>>
  <2>1. PICK b \in Bookings : b = txn[r].booking
    BY <1>3 DEF CommitDelete, WriteInvariant, Informed
  <2>2. booking[b].status # "COMPLETED"
    BY <1>3, <2>1 DEF CommitDelete, WriteInvariant, Informed, CanDelete, TableInvariant,
                      CompletedIsAccounted
  <2>3. booking' = [booking EXCEPT ![b] = DeletedRow] /\ UNCHANGED ledger
    BY <1>3, <2>1 DEF CommitDelete
  <2>4. booking'[b].status = "DELETED" /\ \A c \in Bookings \ {b} : booking'[c] = booking[c]
    BY <2>3 DEF TypeOK, DeletedRow
  <2>5. QED
    BY <2>2, <2>3, <2>4 DEF Completed, Accounts, AccountOf
<1>4. ASSUME NEW r \in Requests, NEW admin \in Admins, SettleTransaction(r, admin)
      PROVE  Contract!ContractNext \/ UNCHANGED <<Completed, Accounts>>
  <2>1. PICK b \in Bookings : b = txn[r].booking
    BY <1>4 DEF SettleTransaction, WriteInvariant, Informed
  <2>2. InLedger(b) /\ ledger[b] \in LedgerRows
    BY <1>4, <2>1 DEF SettleTransaction, WriteInvariant, Informed, TypeOK
  <2>3. ledger' = [ledger EXCEPT ![b] = Settled(ledger[b], admin)] /\ UNCHANGED booking
    BY <1>4, <2>1 DEF SettleTransaction
  <2>4. AccountOf(b)' = [AccountOf(b) EXCEPT !.settlement = "SETTLED"]
    <3>1. ledger'[b] = Settled(ledger[b], admin)
      BY <2>3 DEF TypeOK
    <3>2. QED
      BY <2>2, <3>1, SettledRow DEF AccountOf
  <2>5. \A c \in Bookings \ {b} : AccountOf(c)' = AccountOf(c)
    BY <2>3 DEF AccountOf, TypeOK
  <2>6. Accounts' = [Accounts EXCEPT ![b].settlement = "SETTLED"]
    BY <2>4, <2>5 DEF Accounts
  <2>7. CASE ledger[b].settlement = "PENDING"
    <3>1. Contract!Settle(b)
      BY <2>3, <2>6, <2>7 DEF Contract!Settle, Completed, Accounts, AccountOf
    <3>2. QED
      BY <3>1 DEF Contract!ContractNext
  <2>8. CASE ledger[b].settlement = "SETTLED"
    <3>1. AccountOf(b)' = AccountOf(b)
      BY <2>4, <2>8 DEF AccountOf
    <3>2. QED
      BY <2>3, <2>5, <3>1 DEF Completed, Accounts
  <2>9. QED
    BY <2>2, <2>7, <2>8 DEF InLedger, LedgerRows, Settlements
<1>5. ASSUME NEW r \in Requests, CommitUpdate(r)
      PROVE  Contract!ContractNext \/ UNCHANGED <<Completed, Accounts>>
  <2>1. PICK b \in Bookings : b = txn[r].booking
    BY <1>5 DEF CommitUpdate, WriteInvariant, Informed
  <2>2. PICK to \in AllStatuses : to = txn[r].to
    BY <1>5 DEF CommitUpdate, WriteInvariant, Informed
  <2>3. booking'[b].status = to /\ \A c \in Bookings \ {b} : booking'[c] = booking[c]
    BY <1>5, <2>1, <2>2 DEF CommitUpdate, Updated, TypeOK
  <2>4. CASE txn[r].entry # NoEntry
    <3>1. to = "COMPLETED" /\ ~InLedger(b) /\ Fresh(b, txn[r].entry)
      BY <1>5, <2>1, <2>2, <2>4 DEF CommitUpdate, WriteInvariant, Informed
    <3>2. PICK rate \in Rates : txn[r].entry = NewEntry(b, rate)
      BY <3>1 DEF Fresh
    <3>3. ledger' = [ledger EXCEPT ![b] = NewEntry(b, rate)]
      BY <1>5, <2>1, <2>4, <3>2 DEF CommitUpdate
    <3>4. AccountOf(b)' = Contract!Account(Price[b], rate)
      BY <3>3, AccountOfNewEntry DEF TypeOK
    <3>5. \A c \in Bookings \ {b} : AccountOf(c)' = AccountOf(c)
      BY <3>3 DEF AccountOf, TypeOK
    <3>6. Accounts' = [Accounts EXCEPT ![b] = Contract!Account(Price[b], rate)]
      BY <3>4, <3>5 DEF Accounts
    <3>7. Completed' = Completed \cup {b}
      BY <2>3, <3>1 DEF Completed
    <3>8. ~Contract!HasAccount(b)
      BY <3>1 DEF Contract!HasAccount, Accounts, AccountOf, InLedger
    <3>9. QED
      BY <3>6, <3>7, <3>8 DEF Contract!ContractNext, Contract!FirstCompletion
  <2>5. CASE txn[r].entry = NoEntry
    <3>1. UNCHANGED ledger
      BY <1>5, <2>5 DEF CommitUpdate
    <3>2. UNCHANGED Accounts
      BY <3>1 DEF Accounts, AccountOf
    <3>3. Contract!HasAccount(b) <=> InLedger(b)
      BY DEF Contract!HasAccount, Accounts, AccountOf, InLedger
    <3>4. CASE to = "COMPLETED"
      <4>1. InLedger(b)
        BY <1>5, <2>1, <2>2, <2>5, <3>4, NewEntryFacts
        DEF CommitUpdate, WriteInvariant, Informed, Fresh
      <4>2. Completed' = Completed \cup {b}
        BY <2>3, <3>4 DEF Completed
      <4>3. QED
        BY <3>2, <3>3, <4>1, <4>2 DEF Contract!ContractNext, Contract!RepeatedCompletion
    <3>5. CASE to # "COMPLETED" /\ b \in Completed
      <4>1. InLedger(b)
        BY <3>5 DEF Completed, TableInvariant, CompletedIsAccounted
      <4>2. Completed' = Completed \ {b}
        BY <2>3, <3>5 DEF Completed
      <4>3. QED
        BY <3>2, <3>3, <3>5, <4>1, <4>2 DEF Contract!ContractNext, Contract!Overwritten
    <3>6. CASE to # "COMPLETED" /\ b \notin Completed
      BY <2>3, <3>2, <3>6 DEF Completed
    <3>7. QED
      BY <3>4, <3>5, <3>6
  <2>6. QED
    BY <2>4, <2>5
<1>6. QED
  BY <1>1, <1>2, <1>3, <1>4, <1>5
  DEF Next, Call, Step, Abort, Rollback, UpdateFails, DeleteFails, CreateLedgerRow, vars,
      tables, SetProviderCommission, FindBooking, FindForDelete, FindTransaction,
      UpdateBooking, FindLedgerRow, SplitPrice, DeleteBooking

\* The handlers implement the ledger's contract: seen from outside, a status
\* of COMPLETED and its account appear in one step, once, and the account's
\* figures never change or disappear afterwards.
THEOREM Refinement == Spec => ImplementsContract
<1>1. Spec => [][Contract!ContractNext]_(Contract!contractVars)
  BY Invariance, ContractStep, PTL DEF Spec
<1>2. Spec => Contract!ContractInit
  BY ContractInitially DEF Spec
<1>3. QED
  BY <1>1, <1>2 DEF ImplementsContract, Contract!ContractSpec

=============================================================================
