---------------------------- MODULE MCSlotBooking ----------------------------
(* A small calendar for TLC: two weekdays of five minutes, a grid of two,   *)
(* and two time units to the minute.                                        *)
EXTENDS SlotBooking, TLC

Lenient == [minAdvance |-> 2, maxDays |-> 1, sameDay |-> TRUE]
Strict  == [minAdvance |-> 3, maxDays |-> 1, sameDay |-> FALSE]

MCPolicies == {Lenient, Strict}

Open  == [state |-> "open", open |-> 0, close |-> 4]
Short == [state |-> "open", open |-> 0, close |-> 3]

MCHours == {Open, Short}

\* Open on both days under a lenient policy, or not set up for the only day
\* that a strict one allows.
MCBeginnings ==
    LET offered == [s \in Services |-> [state |-> "offered", length |-> 2, price |-> 1]]
    IN  { [policy |-> Lenient, hours |-> (0 :> Open @@ 1 :> Open), service |-> offered],
          [policy |-> Strict, hours |-> (0 :> ClosedDay @@ 1 :> NotConfigured),
            service |-> [s \in Services |-> [offered[s] EXCEPT !.state = "none"]]] }

MCMoves == { <<"PENDING", "CONFIRMED">>, <<"PENDING", "CANCELLED">> }

MCSymmetry == Permutations(Calls) \cup Permutations(Bookings) \cup Permutations(Services)

=============================================================================
