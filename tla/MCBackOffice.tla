------------------------------ MODULE MCBackOffice -----------------------------
(***************************************************************************)
(* Small instances of the services and caches that share no rows: a        *)
(* behaviour is about one of them, and the others stay as they start.      *)
(***************************************************************************)
EXTENDS Inbox, Accounts, FuelInventory, Records, MobileCache, MobileSession, WebSession,
        FinanceReports, AiChat, WebClient

CONSTANTS r1, r2, a1, a2, l1, l2, v1, v2, nobody

VARIABLE part

Parts == {"list", "badge", "accounts", "fuel", "records", "mobile", "session", "tabs", "reports", "mobileChat", "webChat",
          "pages"}

MCInit == /\ part \in Parts
          /\ InboxStart(IF part = "badge" THEN "badge" ELSE "list")
          /\ AccountsInit /\ FuelInit /\ RecordsInit /\ MobileInit
          /\ MobileSessionInit /\ WebInit /\ ReportsInit
          /\ ChatStart(IF part = "webChat" THEN "web" ELSE "mobile")
          /\ WebClientInit
          /\ part # "pages" => user = "nobody" /\ place = "Home"

\* The variables of the parts other than this one.
Others(this) ==
    /\ UNCHANGED part
    /\ this # "inbox"    => UNCHANGED inbVars
    /\ this # "accounts" => UNCHANGED accVars
    /\ this # "fuel"     => UNCHANGED fuelVars
    /\ this # "records"  => UNCHANGED recVars
    /\ this # "mobile"   => UNCHANGED mobVars
    /\ this # "session"  => UNCHANGED mosVars
    /\ this # "tabs"     => UNCHANGED webVars
    /\ this # "reports"  => UNCHANGED repVars
    /\ this # "chat"     => UNCHANGED chaVars
    /\ this # "pages"    => UNCHANGED webcVars

MCNext == \/ part \in {"list", "badge"} /\ InboxNext /\ Others("inbox")
          \/ part = "accounts" /\ AccountsNext /\ Others("accounts")
          \/ part = "fuel" /\ FuelNext /\ Others("fuel")
          \/ part = "records" /\ RecordsNext /\ Others("records")
          \/ part = "mobile" /\ MobileNext /\ Others("mobile")
          \/ part = "session" /\ MobileSessionNext /\ Others("session")
          \/ part = "tabs" /\ WebNext /\ Others("tabs")
          \/ part = "reports" /\ ReportsNext /\ Others("reports")
          \/ part \in {"mobileChat", "webChat"} /\ ChatNext /\ Others("chat")
          \/ part = "pages" /\ WebClientNext /\ Others("pages")

MCVars == <<part, inbVars, accVars, fuelVars, recVars, mobVars, mosVars, webVars, repVars, chaVars, webcVars>>

MCSpec == MCInit /\ [][MCNext]_MCVars

\* Requests are alike, and so are rows, levels and businesses.
MCSymmetry == {p @@ q : p \in Permutations({r1, r2}), q \in Permutations({v1, v2})}

\* States that differ in nothing a behaviour or a property asks of them are
\* one.  Asked of the causes is whether there are any; of what was emitted, by
\* a row that waits to be emitted, as later rows are newer; of what was heard,
\* by an answer that has been read, as later answers are no older.
InboxView == <<inbView, inbRows, inbEntry, inbVersion, inbWriter, inbOnline, inbChannel, inbAcks, inbCache,
               inbOverlap, inbCauses = {},
               IF \E r \in Writers : inbWriter[r].phase = "inserted" THEN inbEmitted ELSE 0,
               IF inbCache.fetch = "answered" THEN inbHeard ELSE 0>>

\* Of an entry's request it is asked whether there is one; of the causes, which
\* property they excuse.  What was heard is asked, again, by an answer that has
\* been read, and only until a cause is noted; and what is on show, or would be
\* after a failure, only until both properties are excused: before the causes
\* are forgotten, no other request is left, and what was on show is replaced.
MobileView == <<mobRows, sessionVars, mobOnline, mobChannel, mobCauses = {}, MayInherit,
                {[e EXCEPT !.pending = e.pending # {}, !.value = IF MayInherit THEN {} ELSE @] : e \in mobEntry},
                [f \in Fetches |-> [mobFetch[f] EXCEPT !.previous = IF MayInherit THEN {} ELSE @]],
                IF mobCauses = {} /\ \E f \in Fetches : mobFetch[f].stage = "answered" THEN mobHeard ELSE 0>>

MCView == <<part, InboxView, accVars, fuelVars, recVars, MobileView, mosVars, webVars, repVars, chaVars, webcVars>>

===============================================================================
