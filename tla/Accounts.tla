------------------------------- MODULE Accounts -------------------------------
(***************************************************************************)
(* Registration and password reset (auth.service.js).  Both look first,    *)
(* spend a while hashing a password, and write later: the check and the    *)
(* write are two steps.  Passwords and sessions themselves are left out.   *)
(***************************************************************************)
EXTENDS Integers, FiniteSets

CONSTANTS Addresses,     \* e-mail addresses, however they are typed
          Calls,         \* requests the server may be working on
          Links          \* reset links that may be sent

VARIABLES accUsers,      \* e-mail as stored -> state of the account
          accLinks,      \* the PasswordResetToken rows
          accCalls,      \* how far each request has come
          accResets,     \* how often each link has reset the password
          accTogether,   \* links that two calls have checked before either was used
          accRetired     \* links that another link's reset has made stale

accVars == <<accUsers, accLinks, accCalls, accResets, accTogether, accRetired>>

-----------------------------------------------------------------------------

\* mixed: typed with capitals, or with spaces around it.
Spellings == [address : Addresses, mixed : BOOLEAN]

\* Mutant of normalizeEmail: taken as it is typed.
emailAsTyped(typed) == typed

normalizeEmail(typed) == [address |-> typed.address, mixed |-> FALSE]

Roles == {"CUSTOMER", "PROVIDER"}

\* "created": its admins have yet to be told; "unnoticed": they never were.
UserStates == {"none", "created", "registered", "unnoticed"}

LinkStates == {"unsent", "live", "expired", "used", "deleted"}

NoEmail == [address |-> "none", mixed |-> FALSE]

LinkRecords == [state : LinkStates, email : Spellings \cup {NoEmail}]

NoLink == [state |-> "unsent", email |-> NoEmail]

CallRecords == [stage : {"idle", "registering", "notifying", "resetting"},
                email : Spellings \cup {NoEmail}, role : Roles, links : SUBSET Links]

\* email: what is being registered, or whose password is being reset by which
\* link.
Call(stage, email, role, links) == [stage |-> stage, email |-> email, role |-> role, links |-> links]

IdleCall == Call("idle", NoEmail, "CUSTOMER", {})

Exists(email) == accUsers[email] # "none"

Resetting(l) == {c \in Calls : accCalls[c].links = {l}}

-----------------------------------------------------------------------------
(* register                                                                *)

\* Somebody else may have the address: the request is refused, nothing changes.
CheckRegistration(c, typed, role) ==
    /\ accCalls[c].stage = "idle"
    /\ ~Exists(normalizeEmail(typed))
    /\ accCalls' = [accCalls EXCEPT ![c] = Call("registering", normalizeEmail(typed), role, {})]
    /\ UNCHANGED <<accUsers, accLinks, accResets, accTogether, accRetired>>

\* The account and its provider are one insert; the e-mail column is unique.
CreateUser(c) ==
    LET email  == accCalls[c].email
        notify == accCalls[c].role = "PROVIDER"
    IN  /\ accCalls[c].stage = "registering" /\ ~Exists(email)
        /\ accUsers' = [accUsers EXCEPT ![email] = IF notify THEN "created" ELSE "registered"]
        /\ accCalls' = [accCalls EXCEPT ![c] = IF notify THEN Call("notifying", email, "PROVIDER", {})
                                                               ELSE IdleCall]
        /\ UNCHANGED <<accLinks, accResets, accTogether, accRetired>>

\* The requester of a provider account that could not be announced to the
\* admins is told of an error: the account stays.
NotifyAdmins(c, result) ==
    /\ accCalls[c].stage = "notifying"
    /\ accUsers' = [accUsers EXCEPT ![accCalls[c].email] = result]
    /\ accCalls' = [accCalls EXCEPT ![c] = IdleCall]
    /\ UNCHANGED <<accLinks, accResets, accTogether, accRetired>>

-----------------------------------------------------------------------------
(* requestPasswordReset and resetPassword                                  *)

\* The row is there whether or not the mail can be sent.
RequestReset(l, typed) ==
    /\ accLinks[l].state = "unsent" /\ Exists(normalizeEmail(typed))
    /\ accLinks' = [accLinks EXCEPT ![l] = [state |-> "live", email |-> normalizeEmail(typed)]]
    /\ UNCHANGED <<accUsers, accCalls, accResets, accTogether, accRetired>>

InState(l, state) == [state |-> state, email |-> accLinks[l].email]

LinkExpires(l) ==
    /\ accLinks[l].state = "live"
    /\ accLinks' = [accLinks EXCEPT ![l] = InState(l, "expired")]
    /\ UNCHANGED <<accUsers, accCalls, accResets, accTogether, accRetired>>

\* Mutant of ResetIsOpen: usedAt is not looked at.
ResetIsOpenAgain(l) == accLinks[l].state \in {"live", "used"}

ResetIsOpen(l) == accLinks[l].state = "live"

CheckLink(c, l) ==
    /\ accCalls[c].stage = "idle"
    /\ ResetIsOpen(l)
    /\ accCalls' = [accCalls EXCEPT ![c] = Call("resetting", accLinks[l].email, "CUSTOMER", {l})]
    /\ accTogether' = IF Resetting(l) # {} THEN accTogether \cup {l} ELSE accTogether
    /\ UNCHANGED <<accUsers, accLinks, accResets, accRetired>>

\* Mutant of AfterReset: the other links are left as they are.
AfterResetOnly(l, k) == IF k = l THEN InState(k, "used") ELSE accLinks[k]

\* deleteMany: every other link of the account that was not used.
AfterReset(l, k) ==
    IF k = l THEN InState(k, "used")
    ELSE IF accLinks[k].email = accLinks[l].email /\ accLinks[k].state \in {"live", "expired"}
         THEN InState(k, "deleted")
    ELSE accLinks[k]

\* One transaction: it fails when the link's row is gone.
CommitReset(c, l) ==
    /\ accCalls[c].stage = "resetting" /\ accCalls[c].links = {l}
    /\ accLinks[l].state # "deleted"
    /\ accLinks' = [k \in Links |-> AfterReset(l, k)]
    /\ accResets' = [accResets EXCEPT ![l] = @ + 1]
    /\ accRetired' = accRetired \cup {k \in Links \ {l} : accLinks[k].state # "unsent"
                                                          /\ accLinks[k].email = accLinks[l].email}
    /\ accCalls' = [accCalls EXCEPT ![c] = IdleCall]
    /\ UNCHANGED <<accUsers, accTogether>>

\* An insert or a transaction is refused, or the database fails.
CallFails(c) ==
    /\ accCalls[c].stage \in {"registering", "resetting"}
    /\ accCalls' = [accCalls EXCEPT ![c] = IdleCall]
    /\ UNCHANGED <<accUsers, accLinks, accResets, accTogether, accRetired>>

-----------------------------------------------------------------------------

AccountsInit ==
    /\ accUsers = [e \in Spellings |-> "none"]
    /\ accLinks = [l \in Links |-> NoLink]
    /\ accCalls = [c \in Calls |-> IdleCall]
    /\ accResets = [l \in Links |-> 0]
    /\ accTogether = {} /\ accRetired = {}

AccountsNext ==
    \/ \E c \in Calls :
          \/ \E typed \in Spellings, role \in Roles : CheckRegistration(c, typed, role)
          \/ CreateUser(c) \/ CallFails(c)
          \/ \E result \in {"registered", "unnoticed"} : NotifyAdmins(c, result)
          \/ \E l \in Links : CheckLink(c, l) \/ CommitReset(c, l)
    \/ \E l \in Links : LinkExpires(l) \/ \E typed \in Spellings : RequestReset(l, typed)

AccountsSpec == AccountsInit /\ [][AccountsNext]_accVars

-----------------------------------------------------------------------------
(* Properties.                                                             *)

\* And a link is used when it has reset the password, not before.
AccountsTypeOK ==
    /\ accUsers \in [Spellings -> UserStates]
    /\ accLinks \in [Links -> LinkRecords]
    /\ accCalls \in [Calls -> CallRecords]
    /\ accResets \in [Links -> Nat]
    /\ \A l \in Links : accLinks[l].state = "used" <=> accResets[l] > 0
    /\ accTogether \subseteq Links /\ accRetired \subseteq Links

\* An address has one account, however it is typed and however many requests
\* register it at a time.
OneAccountPerAddress ==
    \A d, e \in Spellings : Exists(d) /\ Exists(e) /\ d.address = e.address => d = e

\* A link resets the password once, unless two calls had both checked it
\* before either of them was done.
LinkResetsOnce == \A l \in Links : accResets[l] > 1 => l \in accTogether

\* Once a link has reset the password, no link sent before it does so any
\* more, not even one already checked, unless two calls had checked it.
RetiredLinksStayRetired ==
    [][\A l \in accRetired \ accTogether : accResets'[l] = accResets[l]]_accVars

=============================================================================
