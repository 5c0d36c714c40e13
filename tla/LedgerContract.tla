--------------------------- MODULE LedgerContract ---------------------------
(***************************************************************************)
(* What the accounting ledger promises, with no requests, locks or         *)
(* transactions in sight: a booking is seen COMPLETED only together with   *)
(* its account; an account is opened at most once, for the booking's own   *)
(* price, at a rate the platform allows; its figures never change again    *)
(* and it is never closed; its settlement only goes from PENDING to        *)
(* SETTLED.                                                                *)
(***************************************************************************)
EXTENDS CommissionSplit

CONSTANTS Bookings,   \* the bookings
          Price,      \* priceAtBooking of each, in cents
          Rates       \* the commission rates the platform sets

VARIABLES completed,  \* the bookings whose status reads COMPLETED
          account     \* the account of each booking, or NoAccount

contractVars == <<completed, account>>

NoAccount ==
    [settlement |-> "NONE", gross |-> 0, rate |-> 0, commission |-> 0, net |-> 0]

Account(gross, rate) ==
    [ settlement |-> "PENDING",
      gross      |-> gross,
      rate       |-> rate,
      commission |-> Commission(gross, rate),
      net        |-> ProviderNet(gross, rate) ]

HasAccount(b) == account[b].settlement # "NONE"

ContractInit ==
    /\ completed = {}
    /\ account = [b \in Bookings |-> NoAccount]

\* The first completion of a booking opens its account in the same step.
FirstCompletion(b) ==
    /\ ~HasAccount(b)
    /\ completed' = completed \cup {b}
    /\ \E rate \in Rates :
          account' = [account EXCEPT ![b] = Account(Price[b], rate)]

\* A later one finds the account and leaves it as it is.
RepeatedCompletion(b) ==
    /\ HasAccount(b)
    /\ completed' = completed \cup {b}
    /\ UNCHANGED account

\* A request that read the booking before it was completed overwrites the
\* status.  The account stays.
Overwritten(b) ==
    /\ b \in completed
    /\ HasAccount(b)
    /\ completed' = completed \ {b}
    /\ UNCHANGED account

Settle(b) ==
    /\ account[b].settlement = "PENDING"
    /\ account' = [account EXCEPT ![b].settlement = "SETTLED"]
    /\ UNCHANGED completed

ContractNext ==
    \E b \in Bookings :
        \/ FirstCompletion(b)
        \/ RepeatedCompletion(b)
        \/ Overwritten(b)
        \/ Settle(b)

ContractSpec == ContractInit /\ [][ContractNext]_contractVars

=============================================================================
