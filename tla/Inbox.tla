-------------------------------- MODULE Inbox --------------------------------
(***************************************************************************)
(* One user's notifications, the requests that create them, and what an    *)
(* open web page shows of them: the list, or the badge that counts the     *)
(* unread ones.                                                            *)
(*                                                                         *)
(* createNotification reads the user's preference, inserts the row and     *)
(* emits it, three steps; notifyAlmostTurnIfNeeded first looks whether the *)
(* queue entry has had its message.  A pushed row is put in front of the   *)
(* list and adds one to the badge, whatever they hold.                     *)
(***************************************************************************)
EXTENDS Integers, SequencesExt, QueryCache

CONSTANTS Writers,       \* requests that may be creating or changing at a time
          MaxRows,       \* notifications are created up to this many
          MaxInboxVersion \* changes of the table are explored up to this many

VARIABLES inbView,       \* what the page shows: "list" or "badge"
          inbRows,       \* the user's Notification rows, oldest first
          inbEntry,      \* is the user's queue entry still there?
          inbVersion,    \* changes of the rows so far
          inbWriter,     \* how far each request has come
          inbOnline, inbChannel,   \* the page's socket, rows on their way to it
          inbAcks,       \* answers on their way to the page's own requests
          inbCache,      \* its query
          inbEmitted,    \* the newest row emitted to a list
          inbHeard,      \* the newest version heard
          inbOverlap,    \* have two almost-your-turn checks overlapped?
          inbCauses      \* why the page may be wrong

inbVars == <<inbView, inbRows, inbEntry, inbVersion, inbWriter, inbOnline, inbChannel,
             inbAcks, inbCache, inbEmitted, inbHeard, inbOverlap, inbCauses>>

inbPage == <<inbView, inbOnline, inbAcks, inbCache, inbHeard>>

-----------------------------------------------------------------------------

\* state: "unread", "read" or "deleted"; almost: is it the almost-your-turn
\* message of the entry?
NotificationRow(almost) == [state |-> "unread", almost |-> almost]

Unread == {id \in DOMAIN inbRows : inbRows[id].state = "unread"}

\* Newest first, each with whether it has been read: at n, the list of the
\* first n rows.
ListUpTo(rows) ==
    LET list[n \in 0 .. Len(rows)] ==
          IF n = 0 THEN <<>>
          ELSE IF rows[n].state = "deleted" THEN list[n - 1]
          ELSE <<[id |-> n, unread |-> rows[n].state = "unread"]>> \o list[n - 1]
    IN  list

ListOf(rows) == ListUpTo(rows)[Len(rows)]

Stored == [version |-> inbVersion, list |-> IF inbView = "list" THEN ListOf(inbRows) ELSE <<>>,
           count |-> IF inbView = "badge" THEN Cardinality(Unread) ELSE 0]

NoWriter == [phase |-> "idle", almost |-> FALSE, id |-> 0, version |-> 0]

-----------------------------------------------------------------------------
(* notifyAlmostTurnIfNeeded and createNotification.                        *)

\* Another request found no message for the entry and has yet to insert one.
AlmostUnderWay == \E q \in Writers : inbWriter[q].phase \in {"wanted", "enabled"} /\ inbWriter[q].almost

\* Mutant of AlreadyNotified: only unread messages are looked for.
AlreadyNotifiedUnread == \E id \in DOMAIN inbRows : inbRows[id].almost /\ inbRows[id].state = "unread"

AlreadyNotified == \E id \in DOMAIN inbRows : inbRows[id].almost /\ inbRows[id].state # "deleted"

\* The entry is at the head of the line in the snapshot just pushed.
CheckAlmostTurn(r) ==
    /\ inbWriter[r].phase = "idle" /\ Len(inbRows) < MaxRows
    /\ inbEntry /\ ~AlreadyNotified
    /\ inbWriter' = [inbWriter EXCEPT ![r] = [NoWriter EXCEPT !.phase = "wanted", !.almost = TRUE]]
    /\ inbOverlap' = (inbOverlap \/ AlmostUnderWay)
    /\ UNCHANGED <<inbRows, inbEntry, inbVersion, inbChannel, inbPage, inbEmitted, inbCauses>>

\* Any other message for the user.
WantNotification(r) ==
    /\ inbWriter[r].phase = "idle" /\ Len(inbRows) < MaxRows
    /\ inbWriter' = [inbWriter EXCEPT ![r] = [NoWriter EXCEPT !.phase = "wanted"]]
    /\ UNCHANGED <<inbRows, inbEntry, inbVersion, inbChannel, inbPage, inbEmitted,
                   inbOverlap, inbCauses>>

\* The user may turn the category off and on at any time.
ReadPreference(r, enabled) ==
    /\ inbWriter[r].phase = "wanted"
    /\ inbWriter' = [inbWriter EXCEPT ![r] = IF enabled THEN [@ EXCEPT !.phase = "enabled"] ELSE NoWriter]
    /\ UNCHANGED <<inbRows, inbEntry, inbVersion, inbChannel, inbPage, inbEmitted,
                   inbOverlap, inbCauses>>

\* The foreign key refuses a message about an entry that has been removed.
InsertNotification(r) ==
    /\ inbWriter[r].phase = "enabled" /\ Len(inbRows) < MaxRows
    /\ inbWriter[r].almost => inbEntry
    /\ inbRows' = Append(inbRows, NotificationRow(inbWriter[r].almost))
    /\ inbVersion' = inbVersion + 1
    /\ inbWriter' = [inbWriter EXCEPT ![r] = [phase |-> "inserted", almost |-> FALSE, id |-> Len(inbRows'),
                                               version |-> inbVersion']]
    /\ UNCHANGED <<inbEntry, inbChannel, inbPage, inbEmitted, inbOverlap, inbCauses>>

InsertNotificationFails(r) ==
    /\ inbWriter[r].phase = "enabled"
    /\ inbWriter' = [inbWriter EXCEPT ![r] = NoWriter]
    /\ UNCHANGED <<inbRows, inbEntry, inbVersion, inbChannel, inbPage, inbEmitted,
                   inbOverlap, inbCauses>>

\* The message carries the row as it was inserted.
EmitNotification(r) ==
    LET w == inbWriter[r]
    IN  /\ w.phase = "inserted"
        /\ inbChannel' = IF inbOnline THEN Append(inbChannel, [id |-> w.id, version |-> w.version])
                                      ELSE inbChannel
        /\ inbEmitted' = IF inbView = "list" THEN Max({inbEmitted, w.version}) ELSE inbEmitted
        /\ inbCauses' = IF w.version < inbEmitted THEN Blamed(inbCauses, "crossed") ELSE inbCauses
        /\ inbWriter' = [inbWriter EXCEPT ![r] = NoWriter]
        /\ UNCHANGED <<inbRows, inbEntry, inbVersion, inbPage, inbOverlap>>

-----------------------------------------------------------------------------
(* The user's own requests, from this page or from another session.        *)

\* Nobody is told of a change but the page that asked for it.
ChangeRows(rows, own) ==
    /\ rows # inbRows /\ inbVersion < MaxInboxVersion
    /\ inbRows' = rows
    /\ inbVersion' = inbVersion + 1
    /\ inbAcks' = IF own THEN inbAcks + 1 ELSE inbAcks
    /\ inbCauses' = IF own THEN inbCauses ELSE Blamed(inbCauses, "elsewhere")
    /\ UNCHANGED <<inbView, inbEntry, inbWriter, inbOnline, inbChannel, inbCache,
                   inbEmitted, inbHeard, inbOverlap>>

MarkAsRead(id, own) ==
    /\ inbRows[id].state # "deleted"
    /\ ChangeRows([inbRows EXCEPT ![id].state = "read"], own)

MarkAllAsRead(own) ==
    ChangeRows([id \in DOMAIN inbRows |-> IF id \in Unread THEN [inbRows[id] EXCEPT !.state = "read"]
                                                            ELSE inbRows[id]], own)

\* The page itself has no button for it.
DeleteNotification(id) == ChangeRows([inbRows EXCEPT ![id].state = "deleted"], FALSE)

\* The entry is removed: its messages stay and lose the link to it.
QueueEntryRemoved ==
    /\ inbEntry /\ inbEntry' = FALSE
    /\ inbRows' = [id \in DOMAIN inbRows |-> [inbRows[id] EXCEPT !.almost = FALSE]]
    /\ UNCHANGED <<inbVersion, inbWriter, inbChannel, inbPage, inbEmitted, inbOverlap, inbCauses>>

-----------------------------------------------------------------------------
(* The page.                                                               *)

AnswerInbox ==
    /\ inbCache.fetch = "sent"
    /\ inbCache' = Answered(inbCache, Stored)
    /\ UNCHANGED <<inbView, inbRows, inbEntry, inbVersion, inbWriter, inbOnline, inbChannel,
                   inbAcks, inbEmitted, inbHeard, inbOverlap, inbCauses>>

InboxAtRest == inbChannel = <<>> /\ inbAcks = 0 /\ \A r \in Writers : inbWriter[r].phase = "idle"

DeliverInbox ==
    /\ inbCache.fetch = "answered"
    /\ inbCache' = Delivered(inbCache)
    /\ \E answer \in inbCache.result :
         inbCauses' = IF InboxAtRest /\ answer.version = inbVersion THEN {}
                      ELSE IF answer.version < inbHeard THEN Blamed(inbCauses, "overtaken")
                      ELSE inbCauses
    /\ UNCHANGED <<inbView, inbRows, inbEntry, inbVersion, inbWriter, inbOnline, inbChannel,
                   inbAcks, inbEmitted, inbHeard, inbOverlap>>

InboxFetchFails ==
    /\ Fetching(inbCache)
    /\ inbCache' = GaveUp(inbCache)
    /\ inbCauses' = Blamed(inbCauses, "failed")
    /\ UNCHANGED <<inbView, inbRows, inbEntry, inbVersion, inbWriter, inbOnline, inbChannel,
                   inbAcks, inbEmitted, inbHeard, inbOverlap>>

\* Without data the row makes a list of its own, and a badge of one.
OnNotificationNew ==
    /\ inbChannel # <<>>
    /\ LET message == Head(inbChannel)
           empty   == [version |-> 0, list |-> <<>>, count |-> 0]
           old     == IF inbCache.data = {} THEN empty ELSE CHOOSE d \in inbCache.data : TRUE
           row     == [id |-> message.id, unread |-> TRUE]
       IN  /\ inbCache' = WithData(inbCache,
                            [version |-> old.version,
                             list    |-> IF inbView = "list" THEN <<row>> \o old.list ELSE <<>>,
                             count   |-> IF inbView = "badge" THEN old.count + 1 ELSE 0])
           /\ inbHeard' = Max({inbHeard, message.version})
           /\ inbCauses' = IF message.version <= old.version THEN Blamed(inbCauses, "counted twice")
                                                             ELSE inbCauses
    /\ inbChannel' = Tail(inbChannel)
    /\ UNCHANGED <<inbView, inbRows, inbEntry, inbVersion, inbWriter, inbOnline, inbAcks,
                   inbEmitted, inbOverlap>>

RefetchInbox ==
    /\ inbCache' = Invalidated(inbCache)
    /\ inbCauses' = IF JoinsOlder(inbCache) THEN Blamed(inbCauses, "joined") ELSE inbCauses

\* Mutant of AcknowledgeMark: the mark refreshes the other view only.
AcknowledgeMarkElsewhere ==
    /\ inbAcks > 0 /\ inbAcks' = inbAcks - 1
    /\ UNCHANGED <<inbView, inbRows, inbEntry, inbVersion, inbWriter, inbOnline, inbChannel,
                   inbCache, inbEmitted, inbHeard, inbOverlap, inbCauses>>

AcknowledgeMark ==
    /\ inbAcks > 0 /\ inbAcks' = inbAcks - 1
    /\ RefetchInbox
    /\ UNCHANGED <<inbView, inbRows, inbEntry, inbVersion, inbWriter, inbOnline, inbChannel,
                   inbEmitted, inbHeard, inbOverlap>>

InboxConnects ==
    /\ ~inbOnline /\ inbOnline' = TRUE
    /\ RefetchInbox
    /\ UNCHANGED <<inbView, inbRows, inbEntry, inbVersion, inbWriter, inbChannel, inbAcks,
                   inbEmitted, inbHeard, inbOverlap>>

InboxDisconnects ==
    /\ inbOnline /\ inbOnline' = FALSE
    /\ inbChannel' = <<>>
    /\ UNCHANGED <<inbView, inbRows, inbEntry, inbVersion, inbWriter, inbAcks, inbCache,
                   inbEmitted, inbHeard, inbOverlap, inbCauses>>

-----------------------------------------------------------------------------

InboxStart(view) ==
    /\ inbView = view /\ inbRows = <<>> /\ inbEntry = TRUE /\ inbVersion = 0
    /\ inbWriter = [r \in Writers |-> NoWriter]
    /\ inbOnline = FALSE /\ inbChannel = <<>> /\ inbAcks = 0 /\ inbCache = Mounted
    /\ inbEmitted = 0 /\ inbHeard = 0 /\ inbOverlap = FALSE /\ inbCauses = {}

InboxNext ==
    \/ \E r \in Writers : \/ CheckAlmostTurn(r) \/ WantNotification(r)
                          \/ \E enabled \in BOOLEAN : ReadPreference(r, enabled)
                          \/ InsertNotification(r) \/ InsertNotificationFails(r) \/ EmitNotification(r)
    \/ \E own \in BOOLEAN : MarkAllAsRead(own) \/ \E id \in DOMAIN inbRows : MarkAsRead(id, own)
    \/ \E id \in DOMAIN inbRows : DeleteNotification(id)
    \/ QueueEntryRemoved
    \/ AnswerInbox \/ DeliverInbox \/ InboxFetchFails \/ OnNotificationNew \/ AcknowledgeMark
    \/ InboxConnects \/ InboxDisconnects

InboxSpec == (\E view \in {"list", "badge"} : InboxStart(view)) /\ [][InboxNext]_inbVars

-----------------------------------------------------------------------------
(* Properties.                                                             *)

\* A queue entry has one almost-your-turn message, unless two requests looked
\* for it before either had inserted it.  (One that the user has deleted is
\* sent again.)
OneAlmostTurn ==
    ~inbOverlap =>
      Cardinality({id \in DOMAIN inbRows : inbRows[id].almost /\ inbRows[id].state # "deleted"}) <= 1

\* Once nothing is on its way, a connected page shows the user's messages in
\* their order and as read as they are, or their number, unless a push was of
\* a row the page had already fetched, two pushes left in the other order
\* than their rows were inserted in, an answer was older than a push, an
\* invalidation joined such an answer, the change was another session's, or a
\* request failed.
InboxIsCurrent ==
    InboxAtRest /\ inbOnline /\ ~Fetching(inbCache) /\ inbCauses = {}
    => \A data \in inbCache.data : data.list = Stored.list /\ data.count = Stored.count

=============================================================================
