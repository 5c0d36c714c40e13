----------------------------- MODULE FuelInventory ----------------------------
(***************************************************************************)
(* One fuel of one provider: its inventory row and the history of it that  *)
(* the charts are drawn from (fuelInventory.service.js).  An update is a   *)
(* transaction at READ COMMITTED that reads the row, upserts it, which     *)
(* waits for whoever else has written it, and inserts a history row.       *)
(***************************************************************************)
EXTENDS Integers, Sequences

CONSTANTS Levels,        \* what an admin may enter: liters, capacity and price
          Updates,       \* requests the server may be working on
          MaxHistory     \* updates are explored up to this many

VARIABLES fuelRow,       \* the inventory row: a level, or nothing yet
          fuelHistory,   \* the history rows, in the order of their ids
          fuelUpdate     \* how far each transaction has come

fuelVars == <<fuelRow, fuelHistory, fuelUpdate>>

-----------------------------------------------------------------------------

\* overtaken: another update has committed since this one read the row.
NoUpdate == [stage |-> "idle", from |-> {}, to |-> {}, overtaken |-> FALSE]

HistoryRow(u) == [from |-> fuelUpdate[u].from, to |-> fuelUpdate[u].to,
                  overtaken |-> fuelUpdate[u].overtaken]

RowIsFree == \A v \in Updates : fuelUpdate[v].stage # "written"

ReadExisting(u, level) ==
    /\ fuelUpdate[u].stage = "idle"
    /\ fuelUpdate' = [fuelUpdate EXCEPT ![u] = [stage |-> "read", from |-> fuelRow, to |-> {level},
                                                  overtaken |-> FALSE]]
    /\ UNCHANGED <<fuelRow, fuelHistory>>

\* Mutant of Upsert: the row is read once it has been written.
UpsertAndRead(u) ==
    /\ fuelUpdate[u].stage = "read" /\ RowIsFree
    /\ fuelUpdate' = [fuelUpdate EXCEPT ![u].stage = "written", ![u].from = fuelUpdate[u].to]
    /\ UNCHANGED <<fuelRow, fuelHistory>>

\* Nobody else sees it before the transaction commits.
Upsert(u) ==
    /\ fuelUpdate[u].stage = "read" /\ RowIsFree
    /\ fuelUpdate' = [fuelUpdate EXCEPT ![u].stage = "written"]
    /\ UNCHANGED <<fuelRow, fuelHistory>>

\* The history row is inserted, and both become visible.
CommitUpdate(u) ==
    /\ fuelUpdate[u].stage = "written" /\ Len(fuelHistory) < MaxHistory
    /\ fuelRow' = fuelUpdate[u].to
    /\ fuelHistory' = Append(fuelHistory, HistoryRow(u))
    /\ fuelUpdate' = [v \in Updates |-> IF v = u THEN NoUpdate
                                        ELSE IF fuelUpdate[v].stage = "read" THEN [fuelUpdate[v] EXCEPT !.overtaken = TRUE]
                                        ELSE fuelUpdate[v]]

\* A query fails, or the transaction runs out of time.
Rollback(u) ==
    /\ fuelUpdate[u].stage # "idle"
    /\ fuelUpdate' = [fuelUpdate EXCEPT ![u] = NoUpdate]
    /\ UNCHANGED <<fuelRow, fuelHistory>>

-----------------------------------------------------------------------------

FuelInit == fuelRow = {} /\ fuelHistory = <<>> /\ fuelUpdate = [u \in Updates |-> NoUpdate]

FuelNext == \E u \in Updates : \/ \E level \in Levels : ReadExisting(u, level)
                               \/ Upsert(u) \/ CommitUpdate(u) \/ Rollback(u)

FuelSpec == FuelInit /\ [][FuelNext]_fuelVars

-----------------------------------------------------------------------------
(* Properties.                                                             *)

\* What the history says there was before its row n.
LevelBefore(n) == IF n = 1 THEN {} ELSE fuelHistory[n - 1].to

\* The history is one chain from nothing to the level on show: each row starts
\* where the one before it ended, unless its update had read the inventory
\* before another one committed.
HistoryIsAChain ==
    /\ \A n \in DOMAIN fuelHistory : ~fuelHistory[n].overtaken => fuelHistory[n].from = LevelBefore(n)
    /\ fuelRow = LevelBefore(Len(fuelHistory) + 1)

=============================================================================
