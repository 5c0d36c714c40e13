--------------------------- MODULE MCQueueBooking ----------------------------
(* Small instances of QueueBooking for TLC.                                *)
EXTENDS QueueBooking

\* One provider owns every booking.
MCOwner == [b \in Bookings |-> CHOOSE p \in Providers : TRUE]

MCPrice == [b \in Bookings |-> 1]

MCRates == {5000}

MCSymmetry == Permutations(Requests) \cup Permutations(Bookings)

=============================================================================
