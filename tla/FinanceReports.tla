---------------------------- MODULE FinanceReports ----------------------------
(***************************************************************************)
(* The summaries of the ledger: getAdminSummary for all of it, and         *)
(* getOwnSummary and getAdminProviderFinance for one provider.  Their      *)
(* queries run side by side, each on a connection and a snapshot of its    *)
(* own, while bookings complete and transactions are settled.  A figure is *)
(* represented by the transactions it adds up or counts.                   *)
(***************************************************************************)
EXTENDS Integers

CONSTANTS Transactions, Businesses, NoBusiness,
          RangeDays,     \* the days of the range that is asked for
          LastDay        \* days are explored up to this one

ASSUME RangeAssumption == RangeDays \in Nat \ {0} /\ NoBusiness \notin Businesses

VARIABLES repRow,        \* FinancialTransaction: whose, of which day, settled or not
          repToday,      \* the UTC day
          repReport      \* the report being put together: {} or {report}

repVars == <<repRow, repToday, repReport>>

NoTransaction == [provider |-> NoBusiness, day |-> 0, settled |-> FALSE]

\* The number and the list of transactions have the totals' filter and are
\* left out.
Figures == {"totals", "pending", "settled", "trend"}

\* What a figure's query has found: not run, or transactions.  The trend's
\* are in its daily buckets.
Unknown == [ran |-> FALSE, of |-> {}]

Found(transactions) == [ran |-> TRUE, of |-> transactions]

-----------------------------------------------------------------------------

\* A transaction that is written while a report is put together.
Touch(e) == repReport' = {[r EXCEPT !.touched = @ \cup {e}] : r \in repReport}

CompleteBooking(e, provider) ==
    /\ repRow[e] = NoTransaction
    /\ repRow' = [repRow EXCEPT ![e] = [provider |-> provider, day |-> repToday, settled |-> FALSE]]
    /\ Touch(e)
    /\ UNCHANGED repToday

SettleOne(e) ==
    /\ repRow[e] # NoTransaction /\ ~repRow[e].settled
    /\ repRow' = [repRow EXCEPT ![e].settled = TRUE]
    /\ Touch(e)
    /\ UNCHANGED repToday

Midnight ==
    /\ repToday < LastDay /\ repToday' = repToday + 1
    /\ UNCHANGED <<repRow, repReport>>

-----------------------------------------------------------------------------
(* A report, of one provider or of all (NoBusiness).                       *)

\* sinceForRange: the range ends with today.
Since == repToday - (RangeDays - 1)

\* Mutant of Buckets: the range starts a day early, as local midnight does
\* east of Greenwich, and is as long as before.
BucketsFromYesterday(r) == r.since - 1 .. r.since + RangeDays - 2

\* buildDailyTrend's days.
Buckets(r) == r.since .. r.since + RangeDays - 1

AskReport(provider) ==
    /\ repReport = {}
    /\ repReport' = {[provider |-> provider, since |-> Since, touched |-> {},
                      figure |-> [f \in Figures |-> Unknown]]}
    /\ UNCHANGED <<repRow, repToday>>

\* The filter of a figure's query.
Wanted(f, r, row) ==
    /\ row # NoTransaction /\ r.provider \in {NoBusiness, row.provider}
    /\ CASE f = "pending" -> ~row.settled
         [] f = "settled" -> row.settled
         [] f = "trend"   -> row.day >= r.since /\ row.day \in Buckets(r)
         [] OTHER         -> TRUE

RunQuery(f) ==
    /\ \E r \in repReport :
         /\ ~r.figure[f].ran
         /\ repReport' = {[r EXCEPT !.figure[f] = Found({e \in Transactions : Wanted(f, r, repRow[e])})]}
    /\ UNCHANGED <<repRow, repToday>>

Complete(r) == \A f \in Figures : r.figure[f].ran

ReportIsSent ==
    /\ \E r \in repReport : Complete(r)
    /\ repReport' = {}
    /\ UNCHANGED <<repRow, repToday>>

-----------------------------------------------------------------------------

ReportsInit ==
    /\ repRow = [e \in Transactions |-> NoTransaction]
    /\ repToday = RangeDays - 1
    /\ repReport = {}

ReportsNext ==
    \/ \E e \in Transactions : SettleOne(e) \/ \E p \in Businesses : CompleteBooking(e, p)
    \/ Midnight
    \/ \E p \in Businesses \cup {NoBusiness} : AskReport(p)
    \/ \E f \in Figures : RunQuery(f)
    \/ ReportIsSent

ReportsSpec == ReportsInit /\ [][ReportsNext]_repVars

-----------------------------------------------------------------------------
(* Properties.                                                             *)

\* In a report that is complete, a transaction that was not written meanwhile
\* is in the totals exactly if it is either pending or settled, and in the
\* trend if moreover it is of one of the range's days, of which the last is the
\* day the report was asked for.  Only transactions of that very time can keep
\* a report from adding up.
ReportsAddUp ==
    \A r \in repReport : Complete(r) =>
        LET of(f) == r.figure[f].of \ r.touched
        IN  /\ of("totals") = of("pending") \cup of("settled") /\ of("pending") \cap of("settled") = {}
            /\ of("trend") = {e \in of("totals") : repRow[e].day >= r.since}

=============================================================================
