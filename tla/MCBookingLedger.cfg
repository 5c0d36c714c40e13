\* Three requests contending for one booking.
SPECIFICATION Spec
CONSTANTS
    Requests = {r1, r2, r3}
    Bookings = {b1}
    Providers = {p1}
    Admins = {a1}
    Nobody = nobody
    Owner <- MCOwner
    Price <- MCPrice
    Rates <- MCRates
SYMMETRY RequestSymmetry
INVARIANTS
    TypeOK
    CompletedIsAccounted
    ChargedIsNotCalledOff
    LedgerInsertNeverConflicts
    LedgerBalances
    TerminalDates
PROPERTIES
    ImplementsContract
