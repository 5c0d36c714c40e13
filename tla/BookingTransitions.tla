------------------------- MODULE BookingTransitions -------------------------
(***************************************************************************)
(* The booking and queue state machines every mutation of the backend is   *)
(* validated against: who may drive which edge, and which date column an   *)
(* edge fills in.  Constant-level: no state of its own.                    *)
(***************************************************************************)

ActiveStatuses   == {"PENDING", "CONFIRMED", "ARRIVED", "IN_QUEUE", "IN_SERVICE"}
TerminalStatuses == {"COMPLETED", "CANCELLED", "REJECTED"}
AllStatuses      == ActiveStatuses \cup TerminalStatuses

Staff == {"PROVIDER", "ADMIN"}
Roles == Staff \cup {"CUSTOMER"}

\* The edges of TRANSITIONS.  There is none out of a terminal status.
Edges ==
    { <<"PENDING",    "CONFIRMED">>,  <<"PENDING",   "REJECTED">>,
      <<"PENDING",    "CANCELLED">>,
      <<"CONFIRMED",  "ARRIVED">>,    <<"CONFIRMED", "CANCELLED">>,
      <<"ARRIVED",    "IN_QUEUE">>,   <<"ARRIVED",   "CANCELLED">>,
      <<"IN_QUEUE",   "IN_SERVICE">>, <<"IN_QUEUE",  "CANCELLED">>,
      <<"IN_SERVICE", "COMPLETED">> }

\* A customer may only call a booking off, and only before arriving.
CustomerEdges == { <<"PENDING", "CANCELLED">>, <<"CONFIRMED", "CANCELLED">> }

MayDrive(role, from, to) ==
    /\ <<from, to>> \in Edges
    /\ role \in Staff \/ <<from, to>> \in CustomerEdges

\* The date column the edges into a status fill in (the "sets" of an edge).
DateColumns == {"completedAt", "cancelledAt"}

\* Mutant of Sets: the edges into CANCELLED forget their date.
SetsCompletionOnly(to) == IF to = "COMPLETED" THEN {"completedAt"} ELSE {}

Sets(to) == CASE to = "CANCELLED" -> {"cancelledAt"}
              [] to = "COMPLETED" -> {"completedAt"}
              [] OTHER            -> {}

=============================================================================
