\* Every request ends, under fairness, deadlocks included.
SPECIFICATION QueueFairSpec
CONSTANTS
    Requests = {r1, r2}
    Bookings = {b1}
    Providers = {p1}
    Admins = {a1}
    Nobody = nobody
    Entries = {1}
    Owner <- MCOwner
    Price <- MCPrice
    Rates <- MCRates
PROPERTIES
    EveryCallEnds
    ImplementsBookingLedger
