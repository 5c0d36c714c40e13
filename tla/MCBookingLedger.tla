--------------------------- MODULE MCBookingLedger ---------------------------
(* Small instances of BookingLedger for TLC.                               *)
EXTENDS BookingLedger, TLC

\* One provider owns every booking.
MCOwner == [b \in Bookings |-> CHOOSE p \in Providers : TRUE]

\* One cent: half of it is the case the rounding has to get right.
MCPrice == [b \in Bookings |-> 1]

\* 0%, and 50%.
MCRates == {0, 5000}

RequestSymmetry == Permutations(Requests)

=============================================================================
