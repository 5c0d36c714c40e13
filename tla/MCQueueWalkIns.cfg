\* Walk-ins only: reorders, inserts and removals contend for the same entries.
SPECIFICATION QueueFairSpec
CONSTANTS
    Requests = {r1, r2}
    Bookings = {}
    Providers = {p1}
    Admins = {}
    Nobody = nobody
    Entries = {1, 2}
    Owner <- MCOwner
    Price <- MCPrice
    Rates <- MCRates
PROPERTIES
    EveryCallEnds
