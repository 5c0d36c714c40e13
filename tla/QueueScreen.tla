----------------------------- MODULE QueueScreen -----------------------------
(***************************************************************************)
(* One provider's queue and one open web screen that shows it: the         *)
(* provider's own Queue page, or the page of a customer who is in line.    *)
(*                                                                         *)
(* A queue request commits (QueueBooking has its statements), answers, and *)
(* only then reads a snapshot of the queue and pushes it.  The screen      *)
(* refetches when it connects and when its own request is answered, and    *)
(* shows whatever is pushed.  Nothing orders the pushes of two requests,   *)
(* or a push and an answer; versions count the commits so that what is     *)
(* older can be told.                                                      *)
(***************************************************************************)
EXTENDS Integers, SequencesExt, QueryCache

CONSTANTS Entries,       \* the queue entries of the provider
          Mine,          \* those linked to the customer whose screen it may be
          Handlers,      \* requests the server may be working on
          FirstLines,    \* who may be waiting at first
          MaxVersion     \* commits are explored up to this many

ASSUME MineAssumption == Mine \subseteq Entries

VARIABLES scrViewer,     \* whose screen it is
          scrQueue,      \* the QueueEntry rows
          scrVersion,    \* commits so far
          scrCall,       \* how far each request has come
          scrSocket,     \* the screen's socket and the room it should be in
          scrChannel,    \* messages on their way to it
          scrAcks,       \* answers on their way to the screen's own requests
          scrCache,      \* its ['queue'] query
          scrEmitted,    \* the newest version pushed to its room
          scrHeard,      \* the newest version a message brought it
          scrCauses      \* the races it has been through

scrVars == <<scrViewer, scrQueue, scrVersion, scrCall, scrSocket, scrChannel,
             scrAcks, scrCache, scrEmitted, scrHeard, scrCauses>>

-----------------------------------------------------------------------------
(* The queue, and what a row of it shows.                                  *)

LiveStatuses == {"WAITING", "IN_SERVICE"}

\* A queue has a status for each entry, and a line: the waiting ones by position.
Lines == UNION {[1 .. n -> Entries] : n \in 0 .. Cardinality(Entries)}

IdsWith(q, statuses) == {e \in Entries : q.status[e] \in statuses}

\* attachWaitEstimates: everyone in service, and those earlier in line.
CustomersAhead(q, e) ==
    IF q.status[e] # "WAITING" THEN 0
    ELSE Cardinality(IdsWith(q, {"IN_SERVICE"}))
         + (CHOOSE i \in DOMAIN q.line : q.line[i] = e) - 1

RowOf(q, e) == [status |-> q.status[e], ahead |-> CustomersAhead(q, e)]

RowsOf(q, entries) == [e \in entries |-> RowOf(q, e)]

\* What is pushed of a row that is gone.
RemovedRow == [status |-> "REMOVED", ahead |-> 0]

AllRows(q)  == RowsOf(q, Entries \ IdsWith(q, {"ABSENT"}))
Snapshot(q) == RowsOf(q, IdsWith(q, LiveStatuses))

Visible == IF scrViewer = "PROVIDER" THEN Entries ELSE Mine

Onto(rows, entries) == [e \in DOMAIN rows \cap entries |-> rows[e]]

OneRow(entry, row) == [e \in {entry} |-> row]

\* Where there is a newer row of an entry, it counts.
Over(new, old) == [e \in DOMAIN new \cup DOMAIN old |-> IF e \in DOMAIN new THEN new[e] ELSE old[e]]

\* direct: what is pushed of the entry the request itself changed.
NoCall == [phase |-> "idle", version |-> 0, direct |-> <<>>, seen |-> <<>>]

-----------------------------------------------------------------------------
(* The requests: commit and answer ...                                     *)

\* own: the request came from the screen, which will be told of its success.
Commits(h, queue, direct, own) ==
    /\ scrCall[h].phase = "idle" /\ scrVersion < MaxVersion
    /\ own => scrViewer = "PROVIDER"
    /\ scrQueue' = queue
    /\ scrVersion' = scrVersion + 1
    /\ scrCall' = [scrCall EXCEPT ![h] = [NoCall EXCEPT !.phase = "committed", !.direct = direct,
                                                        !.version = scrVersion + 1]]
    /\ scrAcks' = IF own THEN scrAcks + 1 ELSE scrAcks
    /\ UNCHANGED <<scrViewer, scrSocket, scrChannel, scrCache, scrEmitted, scrHeard, scrCauses>>

CreateEntry(h, e, own) ==
    /\ scrQueue.status[e] = "ABSENT"
    /\ Commits(h, [status |-> [scrQueue.status EXCEPT ![e] = "WAITING"],
                   line |-> Append(scrQueue.line, e)], <<>>, own)

QueueMoves == {<<"WAITING", "IN_SERVICE">>, <<"WAITING", "CANCELLED">>, <<"IN_SERVICE", "COMPLETED">>}

\* The queue with an entry that waits no longer.
Moved(e, status) == [status |-> [scrQueue.status EXCEPT ![e] = status],
                     line |-> SelectSeq(scrQueue.line, LAMBDA x : x # e)]

UpdateEntry(h, e, to, own) ==
    /\ <<scrQueue.status[e], to>> \in QueueMoves
    /\ Commits(h, Moved(e, to), OneRow(e, [status |-> to, ahead |-> 0]), own)

\* An entry in service that has a booking cannot be removed, a walk-in can.
RemoveEntry(h, e, own) ==
    /\ scrQueue.status[e] # "ABSENT"
    /\ e \in Mine => scrQueue.status[e] # "IN_SERVICE"
    /\ Commits(h, Moved(e, "ABSENT"), OneRow(e, RemovedRow), own)

ReorderEntries(h, line, own) ==
    /\ line # <<>>
    /\ ToSet(line) = ToSet(scrQueue.line) /\ Len(line) = Len(scrQueue.line)
    /\ Commits(h, [scrQueue EXCEPT !.line = line], <<>>, own)

\* ... then read the entries; a summary, which the screen does not use, is
\* read by a second query ...
ReadSnapshot(h) ==
    /\ scrCall[h].phase = "committed"
    /\ scrCall' = [scrCall EXCEPT ![h] = [phase |-> "listed", direct |-> @.direct, seen |-> Snapshot(scrQueue),
                     version |-> IF scrViewer = "CUSTOMER" /\ DOMAIN @.direct \cap Mine # {}
                                 THEN @.version ELSE scrVersion]]
    /\ UNCHANGED <<scrViewer, scrQueue, scrVersion, scrSocket, scrChannel, scrAcks, scrCache,
                   scrEmitted, scrHeard, scrCauses>>

\* Mutant of PushedRows: the entry itself is not pushed to its customer.
PushedRowsOfSnapshot(h) == Onto(scrCall[h].seen, Visible)

\* The provider's room gets the snapshot, a customer their rows of it and then
\* the row the request itself changed.
PushedRows(h) ==
    IF scrViewer = "PROVIDER" THEN scrCall[h].seen
    ELSE Over(Onto(scrCall[h].direct, Mine), Onto(scrCall[h].seen, Mine))

\* ... and push.  Socket.IO keeps the order of what it emits.
Push(h) ==
    LET message == [version |-> scrCall[h].version, rows |-> PushedRows(h)]
        silent  == scrViewer = "CUSTOMER" /\ DOMAIN message.rows = {}
    IN  /\ scrCall[h].phase = "listed"
        /\ scrCall' = [scrCall EXCEPT ![h] = NoCall]
        /\ scrChannel' = IF scrSocket = "joined" /\ ~silent THEN Append(scrChannel, message)
                                                             ELSE scrChannel
        /\ scrEmitted' = IF silent THEN scrEmitted ELSE Max({scrEmitted, message.version})
        /\ scrCauses' = IF scrSocket = "connected" THEN Blamed(scrCauses, "unjoined")
                        ELSE IF ~silent /\ message.version < scrEmitted THEN Blamed(scrCauses, "crossed")
                        ELSE scrCauses
        /\ UNCHANGED <<scrViewer, scrQueue, scrVersion, scrSocket, scrAcks, scrCache, scrHeard>>

\* A query fails: nothing is pushed, and the requester never hears of it.
PushFails(h) ==
    /\ scrCall[h].phase \in {"committed", "listed"}
    /\ scrCall' = [scrCall EXCEPT ![h] = NoCall]
    /\ scrCauses' = Blamed(scrCauses, "failed")
    /\ UNCHANGED <<scrViewer, scrQueue, scrVersion, scrSocket, scrChannel, scrAcks, scrCache,
                   scrEmitted, scrHeard>>

-----------------------------------------------------------------------------
(* GET /queue                                                              *)

\* A customer's list takes two queries: which entries are theirs, and then
\* everyone's, for the numbers.
ReadOwnEntries ==
    /\ scrViewer = "CUSTOMER" /\ scrCache.fetch = "sent"
    /\ scrCache' = Answering(scrCache, [version |-> scrVersion, rows |-> Onto(AllRows(scrQueue), Mine)])
    /\ UNCHANGED <<scrViewer, scrQueue, scrVersion, scrCall, scrSocket, scrChannel, scrAcks,
                   scrEmitted, scrHeard, scrCauses>>

AnswerOwnEntries ==
    /\ scrCache.fetch = "reading"
    /\ \E own \in scrCache.result :
         LET now  == Onto(AllRows(scrQueue), DOMAIN own.rows)
             gone == [e \in DOMAIN own.rows |-> [own.rows[e] EXCEPT !.ahead = 0]]
         IN  scrCache' = Answered(scrCache, [own EXCEPT !.rows = Over(now, gone)])
    /\ UNCHANGED <<scrViewer, scrQueue, scrVersion, scrCall, scrSocket, scrChannel, scrAcks,
                   scrEmitted, scrHeard, scrCauses>>

AnswerQueue ==
    /\ scrViewer = "PROVIDER" /\ scrCache.fetch = "sent"
    /\ scrCache' = Answered(scrCache, [version |-> scrVersion, rows |-> AllRows(scrQueue)])
    /\ UNCHANGED <<scrViewer, scrQueue, scrVersion, scrCall, scrSocket, scrChannel, scrAcks,
                   scrEmitted, scrHeard, scrCauses>>

-----------------------------------------------------------------------------
(* The screen                                                              *)

AtRest == /\ \A h \in Handlers : scrCall[h].phase = "idle"
          /\ scrChannel = <<>> /\ scrAcks = 0

\* An answer read from the queue as it is, with nothing else on its way,
\* makes good whatever happened before.
Deliver ==
    /\ scrCache.fetch = "answered"
    /\ scrCache' = Delivered(scrCache)
    /\ \E answer \in scrCache.result :
         scrCauses' = IF AtRest /\ answer.version = scrVersion THEN {}
                      ELSE IF answer.version < scrHeard THEN Blamed(scrCauses, "overtaken")
                      ELSE scrCauses
    /\ UNCHANGED <<scrViewer, scrQueue, scrVersion, scrCall, scrSocket, scrChannel, scrAcks,
                   scrEmitted, scrHeard>>

FetchFails ==
    /\ Fetching(scrCache)
    /\ scrCache' = GaveUp(scrCache)
    /\ scrCauses' = Blamed(scrCauses, "failed")
    /\ UNCHANGED <<scrViewer, scrQueue, scrVersion, scrCall, scrSocket, scrChannel, scrAcks,
                   scrEmitted, scrHeard>>

\* onMyUpdate: each row replaces, joins or leaves those already on show.
Merged(rows, pushed) ==
    LET all == Over(pushed, rows)
    IN  [e \in {x \in DOMAIN all : all[x] # RemovedRow} |-> all[e]]

\* onProviderUpdated replaces everything; onMyUpdate needs a list to change.
Receive ==
    /\ scrChannel # <<>>
    /\ LET message == Head(scrChannel)
       IN  /\ scrCache' = IF scrViewer = "PROVIDER" THEN WithData(scrCache, message)
                          ELSE [scrCache EXCEPT !.data =
                                  {[message EXCEPT !.rows = Merged(old.rows, @)] : old \in scrCache.data}]
           /\ scrHeard' = Max({scrHeard, message.version})
    /\ scrChannel' = Tail(scrChannel)
    /\ UNCHANGED <<scrViewer, scrQueue, scrVersion, scrCall, scrSocket, scrAcks, scrEmitted, scrCauses>>

Refetch ==
    /\ scrCache' = Invalidated(scrCache)
    /\ scrCauses' = IF JoinsOlder(scrCache) THEN Blamed(scrCauses, "joined") ELSE scrCauses

\* The screen's own request has succeeded.
Acknowledge ==
    /\ scrAcks > 0 /\ scrAcks' = scrAcks - 1
    /\ Refetch
    /\ UNCHANGED <<scrViewer, scrQueue, scrVersion, scrCall, scrSocket, scrChannel, scrEmitted, scrHeard>>

\* A customer is in their room at once; a provider's is looked up first.
Connect ==
    /\ scrSocket = "off"
    /\ scrSocket' = IF scrViewer = "PROVIDER" THEN "connected" ELSE "joined"
    /\ Refetch
    /\ UNCHANGED <<scrViewer, scrQueue, scrVersion, scrCall, scrChannel, scrAcks, scrEmitted, scrHeard>>

JoinRoom ==
    /\ scrSocket = "connected" /\ scrSocket' = "joined"
    /\ UNCHANGED <<scrViewer, scrQueue, scrVersion, scrCall, scrChannel, scrAcks, scrCache,
                   scrEmitted, scrHeard, scrCauses>>

\* What was on its way is lost; Socket.IO does not send it again.
Disconnect ==
    /\ scrSocket # "off" /\ scrSocket' = "off"
    /\ scrChannel' = <<>>
    /\ UNCHANGED <<scrViewer, scrQueue, scrVersion, scrCall, scrAcks, scrCache,
                   scrEmitted, scrHeard, scrCauses>>

\* The server restarts: its requests end unpushed and every socket closes.
PushesLost ==
    /\ scrCall' = [h \in Handlers |-> NoCall]
    /\ scrSocket' = "off" /\ scrChannel' = <<>>
    /\ UNCHANGED <<scrViewer, scrQueue, scrVersion, scrAcks, scrCache, scrEmitted, scrHeard, scrCauses>>

-----------------------------------------------------------------------------

ScreenStart(viewer) ==
    /\ scrViewer = viewer
    /\ \E line \in FirstLines :
         scrQueue = [status |-> [e \in Entries |-> IF e \in ToSet(line) THEN "WAITING" ELSE "ABSENT"],
                     line |-> line]
    /\ scrVersion = 0 /\ scrCall = [h \in Handlers |-> NoCall]
    /\ scrSocket = "off" /\ scrChannel = <<>> /\ scrAcks = 0
    /\ scrCache = Mounted
    /\ scrEmitted = 0 /\ scrHeard = 0 /\ scrCauses = {}

QueueRequest(h, own) ==
    \/ \E e \in Entries : CreateEntry(h, e, own) \/ RemoveEntry(h, e, own)
                          \/ \E to \in {"IN_SERVICE", "COMPLETED", "CANCELLED"} : UpdateEntry(h, e, to, own)
    \/ \E line \in Lines : ReorderEntries(h, line, own)

ScreenNext ==
    \/ \E h \in Handlers : \/ \E own \in BOOLEAN : QueueRequest(h, own)
                           \/ ReadSnapshot(h) \/ Push(h) \/ PushFails(h)
    \/ ReadOwnEntries \/ AnswerOwnEntries \/ AnswerQueue
    \/ Deliver \/ FetchFails \/ Receive \/ Acknowledge
    \/ Connect \/ JoinRoom \/ Disconnect \/ PushesLost

ScreenSpec == (\E viewer \in {"PROVIDER", "CUSTOMER"} : ScreenStart(viewer)) /\ [][ScreenNext]_scrVars

-----------------------------------------------------------------------------
(* Properties.                                                             *)

OnShow(data) ==
    IF scrViewer = "CUSTOMER" THEN data.rows
    ELSE [e \in {x \in DOMAIN data.rows : data.rows[x].status \in LiveStatuses} |-> data.rows[e]]

Truth == IF scrViewer = "CUSTOMER" THEN Onto(AllRows(scrQueue), Mine) ELSE Snapshot(scrQueue)

Settled == AtRest /\ scrSocket = "joined" /\ ~Fetching(scrCache)

\* Once nothing is on its way, a connected screen shows the queue as it is,
\* its own rows and everyone's place in line, unless since its last refetch
\* at rest two pushes left in the other order than they were read in, an
\* answer arrived after a push that was newer, a push found the provider's
\* socket not yet in its room, an invalidation joined a request that had
\* already been read, or a query failed.
ScreenIsCurrent ==
    Settled /\ scrCauses = {} => \A data \in scrCache.data : OnShow(data) = Truth

=============================================================================
