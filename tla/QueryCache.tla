----------------------------- MODULE QueryCache ------------------------------
(***************************************************************************)
(* One query of the web client's QueryClient, as TanStack Query 5 keeps it *)
(* for a mounted screen: the value on show, and at most one request.       *)
(* Optional values are sets of at most one element.  Constant-level.       *)
(***************************************************************************)

\* data, what the cache holds: {} or {it}.  fetch: "none", "sent", "reading" when
\* the server has begun to answer from what is in result, "answered" when the
\* answer, result, is on its way back.

\* A screen that has just mounted asks for its data.
Mounted == [data |-> {}, fetch |-> "sent", result |-> {}]

Fetching(c) == c.fetch # "none"

Refetched(c) == [c EXCEPT !.fetch = "sent", !.result = {}]

\* invalidateQueries starts a new request and cancels one in flight, except
\* that without data there is nothing to cancel for: it joins the request.
Invalidated(c) == IF c.data = {} /\ Fetching(c) THEN c ELSE Refetched(c)

\* The answer an invalidation has joined was read before it.
JoinsOlder(c) == c.data = {} /\ c.fetch \in {"reading", "answered"}

Answering(c, value) == [c EXCEPT !.fetch = "reading", !.result = {value}]

Answered(c, value) == [c EXCEPT !.fetch = "answered", !.result = {value}]

Delivered(c) == [data |-> c.result, fetch |-> "none", result |-> {}]

\* After its one retry the request gives up; what is on show stays.
GaveUp(c) == [c EXCEPT !.fetch = "none", !.result = {}]

\* setQueryData leaves a request in flight alone.
WithData(c, value) == [c EXCEPT !.data = {value}]

\* Why a screen may be out of date: of several causes the first is kept.
Blamed(causes, cause) == IF causes = {} THEN {cause} ELSE causes

=============================================================================
