---------------------------- MODULE ServiceProofs ----------------------------
(***************************************************************************)
(* The services that share no rows with bookings: accounts, fuel stock,    *)
(* reviews and favorites, and the figures of finance, for any number of    *)
(* requests at a time.                                                     *)
(***************************************************************************)
EXTENDS Accounts, FuelInventory, Records, FinanceReports, FiniteSetTheorems, TLAPS

-----------------------------------------------------------------------------
(* Accounts.  Nothing e-mail-like is stored but in its normal form, which  *)
(* makes the unique column do what it is there for; and a link that was    *)
(* used has no other call behind it that had found it good, unless two     *)
(* calls had found it good together.                                       *)

\* An e-mail that is being registered, or has been, is in its normal form.
EmailsAreNormal ==
    /\ \A c \in Calls : accCalls[c].stage \in {"registering", "notifying"} =>
                          accCalls[c].email \in Spellings /\ ~accCalls[c].email.mixed
    /\ \A e \in Spellings : Exists(e) => ~e.mixed

\* Of a link that no two calls have checked together, one call at most is at
\* work on it, and none once it has reset the password.
LinksAreSingle ==
    \A l \in Links \ accTogether :
        /\ \A c, d \in Calls : accCalls[c].links = {l} /\ accCalls[d].links = {l} => c = d
        /\ accResets[l] <= 1
        /\ accResets[l] > 0 => \A c \in Calls : accCalls[c].links # {l}

\* A link that is stale has been deleted, or used.
RetiredAreDone == \A l \in accRetired : accLinks[l].state \in {"deleted", "used"}

AccountsInv == AccountsTypeOK /\ EmailsAreNormal /\ LinksAreSingle /\ RetiredAreDone

LEMMA CallFields ==
    ASSUME NEW stage \in {"idle", "registering", "notifying", "resetting"},
           NEW email \in Spellings \cup {NoEmail}, NEW role \in Roles, NEW links \in SUBSET Links
    PROVE  /\ Call(stage, email, role, links) \in CallRecords
           /\ Call(stage, email, role, links).stage = stage
           /\ Call(stage, email, role, links).email = email
           /\ Call(stage, email, role, links).links = links
  BY DEF Call, CallRecords

LEMMA StateFields ==
    ASSUME NEW k, NEW state PROVE InState(k, state).state = state
  BY DEF InState

LEMMA IdleFields == IdleCall \in CallRecords /\ IdleCall.stage = "idle" /\ IdleCall.links = {}
  BY DEF IdleCall, Call, CallRecords, Roles

\* A request that goes on to something else than a reset works on no link.
LEMMA LettingGo ==
    ASSUME AccountsInv, NEW c \in Calls, NEW call, call.links = {},
           accCalls' = [accCalls EXCEPT ![c] = call], accResets' = accResets, accTogether' = accTogether
    PROVE  LinksAreSingle'
  <1>1. ASSUME NEW d \in Calls, NEW k \in Links, accCalls'[d].links = {k}
        PROVE  accCalls[d].links = {k}
    <2>1. CASE d = c
      <3>1. accCalls'[d] = call
        BY <2>1 DEF AccountsInv, AccountsTypeOK
      <3>2. {k} # {}
        OBVIOUS
      <3> QED BY <1>1, <3>1, <3>2, Zenon
    <2>2. CASE d # c
      <3>1. accCalls'[d] = accCalls[d]
        BY <2>2 DEF AccountsInv, AccountsTypeOK
      <3> QED BY <1>1, <3>1, Zenon
    <2> QED BY <2>1, <2>2
  <1> QED BY <1>1, Zenon DEF AccountsInv, LinksAreSingle

LEMMA AccountsInitially == AccountsInit => AccountsInv
  <1> SUFFICES ASSUME AccountsInit PROVE AccountsInv
    OBVIOUS
  <1>1. NoLink \in LinkRecords /\ NoLink.state = "unsent"
    BY DEF NoLink, LinkRecords, LinkStates
  <1>2. AccountsTypeOK
    BY <1>1, IdleFields, SMT DEF AccountsInit, AccountsTypeOK, UserStates
  <1>3. EmailsAreNormal
    BY IdleFields DEF AccountsInit, EmailsAreNormal, Exists
  <1>4. LinksAreSingle /\ RetiredAreDone
    BY IdleFields, SMT DEF AccountsInit, LinksAreSingle, RetiredAreDone
  <1> QED BY <1>2, <1>3, <1>4 DEF AccountsInv

LEMMA NormalForm ==
    ASSUME NEW typed \in Spellings
    PROVE  normalizeEmail(typed) \in Spellings /\ ~normalizeEmail(typed).mixed
  BY DEF Spellings, normalizeEmail

\* An e-mail in normal form is its address.
LEMMA NormalFormsAgree ==
    ASSUME NEW d \in Spellings, NEW e \in Spellings, ~d.mixed, ~e.mixed, d.address = e.address
    PROVE  d = e
  BY DEF Spellings

LEMMA CheckRegistrationKeeps ==
    ASSUME AccountsInv, NEW c \in Calls, NEW typed \in Spellings, NEW role \in Roles,
           CheckRegistration(c, typed, role)
    PROVE  AccountsInv'
  <1> DEFINE call == Call("registering", normalizeEmail(typed), role, {})
  <1>0. normalizeEmail(typed) \in Spellings /\ ~normalizeEmail(typed).mixed
    BY NormalForm
  <1>1. /\ call \in CallRecords /\ call.email \in Spellings /\ ~call.email.mixed
        /\ call.links = {}
    BY <1>0, CallFields
  <1> HIDE DEF call
  <1>c. accCalls' = [accCalls EXCEPT ![c] = call]
    BY DEF CheckRegistration, call
  <1>2. AccountsTypeOK'
    BY <1>1, <1>c DEF AccountsInv, AccountsTypeOK, CheckRegistration
  <1>3. EmailsAreNormal'
    BY <1>1, <1>c DEF AccountsInv, AccountsTypeOK, EmailsAreNormal, CheckRegistration, Exists
  <1>4. LinksAreSingle'
    BY <1>1, <1>c, LettingGo DEF CheckRegistration
  <1>5. RetiredAreDone'
    BY DEF AccountsInv, RetiredAreDone, CheckRegistration
  <1> QED BY <1>2, <1>3, <1>4, <1>5 DEF AccountsInv

LEMMA CreateUserKeeps ==
    ASSUME AccountsInv, NEW c \in Calls, CreateUser(c)
    PROVE  AccountsInv'
  <1>1. accCalls[c].email \in Spellings /\ ~accCalls[c].email.mixed
    BY DEF AccountsInv, EmailsAreNormal, CreateUser
  <1>c. PICK call \in CallRecords :
            /\ accCalls' = [accCalls EXCEPT ![c] = call]
            /\ call.links = {} /\ call.email \in Spellings \cup {NoEmail}
            /\ call.stage # "idle" => call.email = accCalls[c].email
    <2>1. CASE accCalls[c].role = "PROVIDER"
      <3>1. "PROVIDER" \in Roles
        BY DEF Roles
      <3> DEFINE r == Call("notifying", accCalls[c].email, "PROVIDER", {})
      <3>2. r \in CallRecords /\ r.links = {} /\ r.email = accCalls[c].email
        BY <1>1, <3>1, CallFields
      <3>3. accCalls' = [accCalls EXCEPT ![c] = r]
        BY <2>1 DEF CreateUser
      <3> HIDE DEF r
      <3> QED BY <1>1, <3>2, <3>3
    <2>2. CASE accCalls[c].role # "PROVIDER"
      <3>1. accCalls' = [accCalls EXCEPT ![c] = IdleCall]
        BY <2>2 DEF CreateUser
      <3>2. IdleCall.email \in Spellings \cup {NoEmail}
        BY IdleFields DEF CallRecords
      <3> QED BY <3>1, <3>2, IdleFields
    <2> QED BY <2>1, <2>2
  <1>u. accUsers' = [accUsers EXCEPT ![accCalls[c].email] = "created"]
        \/ accUsers' = [accUsers EXCEPT ![accCalls[c].email] = "registered"]
    BY DEF CreateUser
  <1>2. AccountsTypeOK'
    BY <1>1, <1>c, <1>u DEF AccountsInv, AccountsTypeOK, CreateUser, UserStates
  <1>3. EmailsAreNormal'
    BY <1>1, <1>c, <1>u, SMT DEF AccountsInv, AccountsTypeOK, EmailsAreNormal, Exists
  <1>4. LinksAreSingle'
    BY <1>c, LettingGo DEF CreateUser
  <1>5. RetiredAreDone'
    BY DEF AccountsInv, RetiredAreDone, CreateUser
  <1> QED BY <1>2, <1>3, <1>4, <1>5 DEF AccountsInv

LEMMA NotifyAdminsKeeps ==
    ASSUME AccountsInv, NEW c \in Calls, NEW result \in {"registered", "unnoticed"}, NotifyAdmins(c, result)
    PROVE  AccountsInv'
  <1>1. accCalls[c].email \in Spellings /\ ~accCalls[c].email.mixed
    BY DEF AccountsInv, EmailsAreNormal, NotifyAdmins
  <1>2. AccountsTypeOK'
    BY <1>1, IdleFields DEF AccountsInv, AccountsTypeOK, NotifyAdmins, UserStates
  <1>3. EmailsAreNormal'
    BY <1>1, IdleFields, SMT DEF AccountsInv, AccountsTypeOK, EmailsAreNormal, NotifyAdmins, Exists
  <1>4. LinksAreSingle'
    BY IdleFields, LettingGo DEF NotifyAdmins
  <1>5. RetiredAreDone'
    BY DEF AccountsInv, RetiredAreDone, NotifyAdmins
  <1> QED BY <1>2, <1>3, <1>4, <1>5 DEF AccountsInv

LEMMA CallFailsKeeps ==
    ASSUME AccountsInv, NEW c \in Calls, CallFails(c)
    PROVE  AccountsInv'
  <1>1. AccountsTypeOK'
    BY IdleFields DEF AccountsInv, AccountsTypeOK, CallFails
  <1>2. EmailsAreNormal'
    BY IdleFields, SMT DEF AccountsInv, AccountsTypeOK, EmailsAreNormal, CallFails, Exists
  <1>3. LinksAreSingle'
    BY IdleFields, LettingGo DEF CallFails
  <1>4. RetiredAreDone'
    BY DEF AccountsInv, RetiredAreDone, CallFails
  <1> QED BY <1>1, <1>2, <1>3, <1>4 DEF AccountsInv

LEMMA RequestResetKeeps ==
    ASSUME AccountsInv, NEW l \in Links, NEW typed \in Spellings, RequestReset(l, typed)
    PROVE  AccountsInv'
  <1>1. normalizeEmail(typed) \in Spellings
    BY NormalForm
  <1>2. AccountsTypeOK'
    BY <1>1, SMT DEF AccountsInv, AccountsTypeOK, RequestReset, LinkStates, LinkRecords
  <1>3. EmailsAreNormal' /\ LinksAreSingle'
    BY DEF AccountsInv, EmailsAreNormal, LinksAreSingle, RequestReset, Exists
  <1>4. RetiredAreDone'
    BY SMT DEF AccountsInv, AccountsTypeOK, RetiredAreDone, RequestReset
  <1> QED BY <1>2, <1>3, <1>4 DEF AccountsInv

LEMMA LinkExpiresKeeps ==
    ASSUME AccountsInv, NEW l \in Links, LinkExpires(l)
    PROVE  AccountsInv'
  <1>1. AccountsTypeOK'
    BY SMT DEF AccountsInv, AccountsTypeOK, LinkExpires, LinkStates, InState, LinkRecords
  <1>2. EmailsAreNormal' /\ LinksAreSingle'
    BY DEF AccountsInv, EmailsAreNormal, LinksAreSingle, LinkExpires, Exists
  <1>3. RetiredAreDone'
    BY SMT DEF AccountsInv, AccountsTypeOK, RetiredAreDone, LinkExpires, InState
  <1> QED BY <1>1, <1>2, <1>3 DEF AccountsInv

\* A link found good has not been used, so a first call finds nobody at work
\* on it and a second one is noted.
LEMMA CheckLinkKeeps ==
    ASSUME AccountsInv, NEW c \in Calls, NEW l \in Links, CheckLink(c, l)
    PROVE  AccountsInv'
  <1> DEFINE call == Call("resetting", accLinks[l].email, "CUSTOMER", {l})
  <1>0. accLinks[l].email \in Spellings \cup {NoEmail} /\ "CUSTOMER" \in Roles
    BY DEF AccountsInv, AccountsTypeOK, LinkRecords, Roles
  <1>c. call \in CallRecords /\ call.stage = "resetting" /\ call.links = {l}
    BY <1>0, CallFields
  <1> HIDE DEF call
  <1>d. accCalls' = [accCalls EXCEPT ![c] = call]
    BY DEF CheckLink, call
  <1>1. AccountsTypeOK'
    BY <1>c, <1>d DEF AccountsInv, AccountsTypeOK, CheckLink
  <1>2. EmailsAreNormal'
    BY <1>c, <1>d, SMT DEF AccountsInv, AccountsTypeOK, EmailsAreNormal, CheckLink, Exists
  <1>3. accResets[l] = 0
    BY SMT DEF AccountsInv, AccountsTypeOK, CheckLink, ResetIsOpen
  <1>4. l \notin accTogether' => \A d \in Calls : accCalls[d].links # {l}
    BY SMT DEF CheckLink, Resetting
  <1>5. LinksAreSingle'
    <2> SUFFICES ASSUME NEW k \in Links, k \notin accTogether'
                 PROVE  /\ \A b, d \in Calls : accCalls'[b].links = {k} /\ accCalls'[d].links = {k} => b = d
                        /\ accResets[k] <= 1
                        /\ accResets[k] > 0 => \A d \in Calls : accCalls'[d].links # {k}
      BY Zenon DEF LinksAreSingle, CheckLink
    <2>o. accCalls'[c] = call /\ \A d \in Calls : d # c => accCalls'[d] = accCalls[d]
      BY <1>d DEF AccountsInv, AccountsTypeOK
    <2>1. k \notin accTogether
      BY DEF CheckLink
    <2>2. CASE k = l
      <3>1. \A d \in Calls : accCalls'[d].links = {k} => d = c
        BY <1>4, <1>d, <2>1, <2>2, <2>o, Zenon
      <3> QED BY <3>1, <2>2, <1>3
    <2>3. CASE k # l
      <3>1. {k} # {l}
        BY <2>3
      <3>2. \A d \in Calls : accCalls'[d].links = {k} => accCalls[d].links = {k}
        BY <3>1, <2>o, <1>c, Zenon
      <3> QED BY <3>2, <2>1, Zenon DEF AccountsInv, LinksAreSingle
    <2> QED BY <2>2, <2>3
  <1>6. RetiredAreDone'
    BY DEF AccountsInv, RetiredAreDone, CheckLink
  <1> QED BY <1>1, <1>2, <1>5, <1>6 DEF AccountsInv

LEMMA CommitResetKeeps ==
    ASSUME AccountsInv, NEW c \in Calls, NEW l \in Links, CommitReset(c, l)
    PROVE  AccountsInv'
  <1>1. \A k \in Links : accLinks'[k] = AfterReset(l, k)
    BY DEF CommitReset
  <1>2. accLinks' \in [Links -> LinkRecords]
    BY DEF AccountsInv, AccountsTypeOK, CommitReset, AfterReset, InState, LinkStates, LinkRecords
  <1>3. /\ accResets' \in [Links -> Nat]
        /\ accResets'[l] = accResets[l] + 1
        /\ \A k \in Links \ {l} : accResets'[k] = accResets[k]
    BY SMT DEF AccountsInv, AccountsTypeOK, CommitReset
  <1>4. \A k \in Links : accLinks'[k].state = "used" <=> accResets'[k] > 0
    <2> TAKE k \in Links
    <2>1. CASE k = l
      <3>1. accLinks'[k].state = "used"
        BY <1>1, <2>1, StateFields DEF AfterReset
      <3> QED BY <3>1, <2>1, <1>3 DEF AccountsInv, AccountsTypeOK
    <2>2. CASE k # l
      <3>1. accLinks'[k].state = "used" <=> accLinks[k].state = "used"
        BY <1>1, <2>2, StateFields DEF AfterReset
      <3> QED BY <3>1, <2>2, <1>3 DEF AccountsInv, AccountsTypeOK
    <2> QED BY <2>1, <2>2
  <1>5. AccountsTypeOK'
    BY <1>2, <1>3, <1>4, IdleFields DEF AccountsInv, AccountsTypeOK, CommitReset
  <1>6. EmailsAreNormal'
    BY IdleFields, SMT DEF AccountsInv, AccountsTypeOK, EmailsAreNormal, CommitReset, Exists
  <1>7. LinksAreSingle'
    <2> SUFFICES ASSUME NEW k \in Links, k \notin accTogether
                 PROVE  /\ \A b, d \in Calls : accCalls'[b].links = {k} /\ accCalls'[d].links = {k} => b = d
                        /\ accResets'[k] <= 1
                        /\ accResets'[k] > 0 => \A d \in Calls : accCalls'[d].links # {k}
      BY Zenon DEF LinksAreSingle, CommitReset
    <2>1. \A d \in Calls : accCalls'[d].links = {k} => d # c /\ accCalls[d].links = {k}
      <3> SUFFICES ASSUME NEW d \in Calls, accCalls'[d].links = {k}
                   PROVE  d # c /\ accCalls[d].links = {k}
        OBVIOUS
      <3>1. accCalls'[c] = IdleCall /\ (d # c => accCalls'[d] = accCalls[d])
        BY DEF AccountsInv, AccountsTypeOK, CommitReset
      <3>2. {k} # {}
        OBVIOUS
      <3> QED BY <3>1, <3>2, IdleFields, Zenon
    <2>2. CASE k = l
      <3>1. accResets[l] = 0
        BY <2>2, SMT DEF AccountsInv, AccountsTypeOK, LinksAreSingle, CommitReset
      <3>2. \A d \in Calls : accCalls'[d].links # {k}
        BY <2>1, <2>2, SMT DEF AccountsInv, LinksAreSingle, CommitReset
      <3> QED BY <2>2, <3>1, <3>2, <1>3, SMT
    <2>3. CASE k # l
      BY <2>1, <2>3, <1>3, SMT DEF AccountsInv, LinksAreSingle
    <2> QED BY <2>2, <2>3
  <1>8. RetiredAreDone'
    <2> SUFFICES ASSUME NEW k \in accRetired'
                 PROVE  accLinks'[k].state \in {"deleted", "used"}
      BY DEF RetiredAreDone
    <2>1. k \in Links
      BY DEF AccountsInv, AccountsTypeOK, CommitReset
    <2>2. CASE k = l
      BY <1>1, <2>1, <2>2, StateFields DEF AfterReset
    <2>3. CASE k # l /\ k \in accRetired
      BY <1>1, <2>1, <2>3, StateFields DEF AccountsInv, RetiredAreDone, AfterReset
    <2>4. CASE k # l /\ accLinks[k].state # "unsent" /\ accLinks[k].email = accLinks[l].email
      <3>1. accLinks[k].state \in {"live", "expired", "used", "deleted"}
        BY <2>1, <2>4 DEF AccountsInv, AccountsTypeOK, LinkRecords, LinkStates
      <3> QED BY <1>1, <2>1, <2>4, <3>1, StateFields DEF AfterReset
    <2> QED BY <2>2, <2>3, <2>4 DEF CommitReset
  <1> QED BY <1>5, <1>6, <1>7, <1>8 DEF AccountsInv

LEMMA AccountsStep == AccountsInv /\ [AccountsNext]_accVars => AccountsInv'
  <1> SUFFICES ASSUME AccountsInv, [AccountsNext]_accVars PROVE AccountsInv'
    OBVIOUS
  <1>1. CASE UNCHANGED accVars
    BY <1>1 DEF accVars, AccountsInv, AccountsTypeOK, EmailsAreNormal, LinksAreSingle, RetiredAreDone, Exists
  <1>2. CASE AccountsNext
    BY <1>2, CheckRegistrationKeeps, CreateUserKeeps, NotifyAdminsKeeps, CallFailsKeeps, RequestResetKeeps,
       LinkExpiresKeeps, CheckLinkKeeps, CommitResetKeeps DEF AccountsNext
  <1> QED BY <1>1, <1>2

LEMMA AccountsAlways == AccountsSpec => []AccountsInv
  BY AccountsInitially, AccountsStep, PTL DEF AccountsSpec

-----------------------------------------------------------------------------

\* The variables are of their types, and a link is used when it has reset the
\* password.
THEOREM AccountsTypeCorrect == AccountsSpec => []AccountsTypeOK
  BY AccountsAlways, PTL DEF AccountsInv

\* An address has one account, in whatever order its registrations look,
\* hash and insert.
THEOREM OneAccountEach == AccountsSpec => []OneAccountPerAddress
  <1>1. AccountsInv => OneAccountPerAddress
    BY NormalFormsAgree DEF AccountsInv, EmailsAreNormal, OneAccountPerAddress
  <1> QED BY <1>1, AccountsAlways, PTL

\* A link resets the password once, unless two calls had found it good before
\* either was done.
THEOREM LinksResetOnce == AccountsSpec => []LinkResetsOnce
  <1>1. AccountsInv => LinkResetsOnce
    BY SMT DEF AccountsInv, AccountsTypeOK, LinksAreSingle, LinkResetsOnce
  <1> QED BY <1>1, AccountsAlways, PTL

\* No link that was sent before a reset by another one resets the password
\* afterwards, not even by a call that had already found it good, unless two
\* calls had.
THEOREM RetiredLinksAreDone == AccountsSpec => RetiredLinksStayRetired
  <1>1. AccountsInv /\ [AccountsNext]_accVars
        => [\A l \in accRetired \ accTogether : accResets'[l] = accResets[l]]_accVars
    <2> SUFFICES ASSUME AccountsInv, AccountsNext, NEW l \in accRetired \ accTogether
                 PROVE  accResets'[l] = accResets[l]
      BY DEF accVars
    <2>1. ASSUME NEW c \in Calls, NEW k \in Links, CommitReset(c, k)
          PROVE  accResets'[l] = accResets[l]
      <3>1. l \in Links
        BY DEF AccountsInv, AccountsTypeOK
      <3>2. CASE k = l
        <4>1. accLinks[l].state = "used"
          BY <2>1, <3>2 DEF AccountsInv, RetiredAreDone, CommitReset
        <4>2. accCalls[c].links # {l}
          BY <3>1, <4>1, SMT DEF AccountsInv, AccountsTypeOK, LinksAreSingle
        <4> QED BY <2>1, <3>2, <4>2 DEF CommitReset
      <3>3. CASE k # l
        BY <2>1, <3>1, <3>3, SMT DEF AccountsInv, AccountsTypeOK, CommitReset
      <3> QED BY <3>2, <3>3
    <2> QED BY <2>1 DEF AccountsNext, CheckRegistration, CreateUser, NotifyAdmins, CallFails, RequestReset,
                        LinkExpires, CheckLink
  <1> QED BY <1>1, AccountsAlways, PTL DEF AccountsSpec, RetiredLinksStayRetired

-----------------------------------------------------------------------------
(* Fuel.  The argument is the row lock: of the transactions that have      *)
(* written the row at most one is open, so what a transaction has read is  *)
(* still there unless another one committed, which marks it.               *)

FuelTypeOK ==
    /\ fuelRow \in SUBSET Levels
    /\ fuelHistory \in Seq([from : SUBSET Levels, to : SUBSET Levels, overtaken : BOOLEAN])
    /\ fuelUpdate \in [Updates -> [stage : {"idle", "read", "written"}, from : SUBSET Levels,
                                   to : SUBSET Levels, overtaken : BOOLEAN]]

OneWriter == \A u, v \in Updates : fuelUpdate[u].stage = "written" /\ fuelUpdate[v].stage = "written" => u = v

ReadsAreCurrent ==
    \A u \in Updates : fuelUpdate[u].stage # "idle" /\ ~fuelUpdate[u].overtaken => fuelUpdate[u].from = fuelRow

FuelInv == FuelTypeOK /\ OneWriter /\ ReadsAreCurrent /\ HistoryIsAChain

LEMMA FuelInitially == FuelInit => FuelInv
  BY SMT DEF FuelInit, FuelInv, FuelTypeOK, OneWriter, ReadsAreCurrent, HistoryIsAChain, LevelBefore, NoUpdate

LEMMA OvertakenUpdate ==
    ASSUME NEW r \in [stage : {"idle", "read", "written"}, from : SUBSET Levels, to : SUBSET Levels,
                      overtaken : BOOLEAN]
    PROVE  [r EXCEPT !.overtaken = TRUE] \in [stage : {"idle", "read", "written"}, from : SUBSET Levels,
                                              to : SUBSET Levels, overtaken : BOOLEAN]
  OBVIOUS

\* Steps that leave the row and its history alone.
LEMMA HistoryStays ==
    HistoryIsAChain /\ UNCHANGED <<fuelRow, fuelHistory>> => HistoryIsAChain'
  BY DEF HistoryIsAChain, LevelBefore

LEMMA FuelReadKeeps ==
    ASSUME FuelInv, NEW u \in Updates, NEW level \in Levels, ReadExisting(u, level)
    PROVE  FuelInv'
  <1>1. FuelTypeOK' /\ OneWriter' /\ ReadsAreCurrent'
    BY SMT DEF FuelInv, FuelTypeOK, OneWriter, ReadsAreCurrent, ReadExisting
  <1>2. HistoryIsAChain'
    BY HistoryStays DEF FuelInv, ReadExisting
  <1> QED BY <1>1, <1>2 DEF FuelInv

LEMMA FuelUpsertKeeps ==
    ASSUME FuelInv, NEW u \in Updates, Upsert(u)
    PROVE  FuelInv'
  <1>1. FuelTypeOK' /\ OneWriter' /\ ReadsAreCurrent'
    BY SMT DEF FuelInv, FuelTypeOK, OneWriter, ReadsAreCurrent, Upsert, RowIsFree
  <1>2. HistoryIsAChain'
    BY HistoryStays DEF FuelInv, Upsert
  <1> QED BY <1>1, <1>2 DEF FuelInv

LEMMA FuelRollbackKeeps ==
    ASSUME FuelInv, NEW u \in Updates, Rollback(u)
    PROVE  FuelInv'
  <1>1. FuelTypeOK' /\ OneWriter' /\ ReadsAreCurrent'
    BY SMT DEF FuelInv, FuelTypeOK, OneWriter, ReadsAreCurrent, Rollback, NoUpdate
  <1>2. HistoryIsAChain'
    BY HistoryStays DEF FuelInv, Rollback
  <1> QED BY <1>1, <1>2 DEF FuelInv

\* The one step that writes: the row it appends starts where the last ended,
\* because what the transaction read is still the row.
LEMMA FuelCommitKeeps ==
    ASSUME FuelInv, NEW u \in Updates, CommitUpdate(u)
    PROVE  FuelInv'
  <1> USE DEF FuelInv, CommitUpdate
  <1>1. HistoryRow(u) \in [from : SUBSET Levels, to : SUBSET Levels, overtaken : BOOLEAN]
    BY DEF FuelTypeOK, HistoryRow
  <1>2. fuelHistory' \in Seq([from : SUBSET Levels, to : SUBSET Levels, overtaken : BOOLEAN])
    BY <1>1 DEF FuelTypeOK
  <1>3. fuelUpdate' \in [Updates -> [stage : {"idle", "read", "written"}, from : SUBSET Levels,
                                     to : SUBSET Levels, overtaken : BOOLEAN]]
    <2> SUFFICES ASSUME NEW v \in Updates
                 PROVE  fuelUpdate'[v] \in [stage : {"idle", "read", "written"}, from : SUBSET Levels,
                                            to : SUBSET Levels, overtaken : BOOLEAN]
      BY DEF FuelTypeOK
    <2>1. CASE v = u
      BY <2>1, SMT DEF NoUpdate
    <2>2. CASE v # u /\ fuelUpdate[v].stage = "read"
      <3>1. fuelUpdate'[v] = [fuelUpdate[v] EXCEPT !.overtaken = TRUE]
        BY <2>2
      <3>2. fuelUpdate[v] \in [stage : {"idle", "read", "written"}, from : SUBSET Levels, to : SUBSET Levels,
                               overtaken : BOOLEAN]
        BY DEF FuelTypeOK
      <3> HIDE DEF CommitUpdate, FuelInv
      <3> QED BY <3>1, <3>2, OvertakenUpdate
    <2>3. CASE v # u /\ fuelUpdate[v].stage # "read"
      BY <2>3 DEF FuelTypeOK
    <2> QED BY <2>1, <2>2, <2>3
  <1>4. FuelTypeOK'
    BY <1>2, <1>3 DEF FuelTypeOK
  <1>5. \A v \in Updates : fuelUpdate[v].stage = "written" => v = u
    BY DEF OneWriter
  <1>6. \A v \in Updates : v # u => fuelUpdate'[v].stage # "written"
    BY <1>5, SMT DEF FuelTypeOK
  <1>7. \A v \in Updates : fuelUpdate'[v].stage # "idle" => v # u /\ fuelUpdate'[v].overtaken
    <2> SUFFICES ASSUME NEW v \in Updates, fuelUpdate'[v].stage # "idle"
                 PROVE  v # u /\ fuelUpdate'[v].overtaken
      OBVIOUS
    <2>1. v # u
      BY SMT DEF NoUpdate
    <2>2. fuelUpdate[v].stage = "read"
      BY <2>1, <1>5, SMT DEF FuelTypeOK
    <2>3. fuelUpdate'[v] = [fuelUpdate[v] EXCEPT !.overtaken = TRUE]
      BY <2>1, <2>2
    <2> QED BY <2>1, <2>3, SMT DEF FuelTypeOK
  <1>8. OneWriter' /\ ReadsAreCurrent'
    BY <1>6, <1>7, SMT DEF OneWriter, ReadsAreCurrent
  <1>9. HistoryIsAChain'
    <2> DEFINE n == Len(fuelHistory) + 1
    <2>1. /\ DOMAIN fuelHistory' = 1 .. n /\ n \in Nat \ {0}
          /\ \A i \in 1 .. n - 1 : fuelHistory'[i] = fuelHistory[i]
          /\ fuelHistory'[n] = HistoryRow(u)
      BY <1>1, SMT DEF FuelTypeOK
    <2>2. LevelBefore(n) = fuelRow
      BY DEF HistoryIsAChain
    <2>3. ~fuelUpdate[u].overtaken => fuelUpdate[u].from = fuelRow
      BY SMT DEF ReadsAreCurrent
    <2>4. \A i \in 1 .. n : LevelBefore(i)' = LevelBefore(i)
      BY <2>1, SMT DEF LevelBefore
    <2>5. \A i \in DOMAIN fuelHistory' : ~fuelHistory'[i].overtaken => fuelHistory'[i].from = LevelBefore(i)'
      <3> SUFFICES ASSUME NEW i \in 1 .. n, ~fuelHistory'[i].overtaken
                   PROVE  fuelHistory'[i].from = LevelBefore(i)
        BY <2>1, <2>4
      <3>1. CASE i = n
        BY <3>1, <2>1, <2>2, <2>3 DEF HistoryRow
      <3>2. CASE i # n
        BY <3>2, <2>1, SMT DEF HistoryIsAChain, FuelTypeOK
      <3> QED BY <3>1, <3>2
    <2>6. Len(fuelHistory') = n
      BY <1>1, SMT DEF FuelTypeOK
    <2>7. fuelRow' = fuelHistory'[n].to
      BY <2>1 DEF HistoryRow
    <2>8. n + 1 # 1 /\ (n + 1) - 1 = n
      BY <2>1, SMT
    <2>9. (fuelRow = LevelBefore(Len(fuelHistory) + 1))'
      BY <2>6, <2>7, <2>8 DEF LevelBefore
    <2> QED BY <2>5, <2>9 DEF HistoryIsAChain
  <1> QED BY <1>4, <1>8, <1>9

\* The history of a fuel's inventory is one chain from nothing to the level on
\* show, broken only at updates that had read it before another committed.
THEOREM HistoryAlwaysAChain == FuelSpec => []HistoryIsAChain
  <1>1. FuelInv /\ [FuelNext]_fuelVars => FuelInv'
    <2> SUFFICES ASSUME FuelInv, [FuelNext]_fuelVars PROVE FuelInv'
      OBVIOUS
    <2>1. CASE UNCHANGED fuelVars
      BY <2>1 DEF fuelVars, FuelInv, FuelTypeOK, OneWriter, ReadsAreCurrent, HistoryIsAChain, LevelBefore
    <2>2. CASE FuelNext
      BY <2>2, FuelReadKeeps, FuelUpsertKeeps, FuelCommitKeeps, FuelRollbackKeeps DEF FuelNext
    <2> QED BY <2>1, <2>2
  <1> QED BY FuelInitially, <1>1, PTL DEF FuelSpec, FuelInv

-----------------------------------------------------------------------------
(* Favorites, reviews and categories.  What a request has checked holds    *)
(* until it writes, unless it is marked as raced, or what its write needs  *)
(* besides was missing from the start; every write that undoes a check     *)
(* marks it.                                                               *)

Operations == {"addFavorite", "createReview", "deleteReview", "deleteCategory", "createService"}

ReviewIds == {{}} \cup { {id} : id \in Nat }

RecordCalls ==
    [ op : Operations \cup {"none"}, stage : {"idle", "checked", "notifying", "answered"},
      review : ReviewIds, passed : BOOLEAN, raced : BOOLEAN, unchecked : BOOLEAN, unnotified : BOOLEAN,
      answer : {"none", "ok", "notFound", "invalid", "conflict", "error"} ]

TablesOK ==
    /\ recFavorite \in BOOLEAN /\ recCategory \in BOOLEAN /\ recService \in BOOLEAN
    /\ recLapsed \in BOOLEAN /\ recReviews \in Nat /\ recReview \in ReviewIds

\* What the write of an operation needs.
Allowed(op, review) ==
    CASE op = "addFavorite"    -> ~recFavorite
      [] op = "createReview"   -> recBooking = "COMPLETED" /\ recReview = {}
      [] op = "deleteReview"   -> recReview = review /\ review # {}
      [] op = "deleteCategory" -> recCategory /\ ~recService
      [] op = "createService"  -> recCategory /\ ~recService

\* One request: its check holds or it is marked, and its error is accounted for.
RequestHolds(c) ==
    /\ recCall[c] \in RecordCalls
    /\ recCall[c].stage # "idle" => recCall[c].op \in Operations
    /\ recCall[c].unchecked => recCall[c].op \in {"createService", "deleteCategory"}
    /\ recCall[c].stage = "checked" /\ ~recCall[c].raced /\ ~recCall[c].unchecked
          => Allowed(recCall[c].op, recCall[c].review)
    /\ recCall[c].passed /\ recCall[c].answer \in {"error", "conflict"}
          => recCall[c].raced \/ recCall[c].unnotified \/ recCall[c].unchecked

ReviewStands == recReview # {} /\ ~recLapsed => recBooking = "COMPLETED"

RecordsInv ==
    /\ TablesOK /\ ReviewStands
    /\ DOMAIN recCall = Clients /\ \A c \in Clients : RequestHolds(c)

\* Looking for what is allowed, and going on to write, or being answered.
LEMMA CheckedKeeps ==
    ASSUME RecordsInv, NEW c \in Clients, NEW request \in RecordCalls, Checked(c, request),
           request.op \in Operations,
           request.unchecked => request.op \in {"createService", "deleteCategory"},
           request.stage = "checked" /\ ~request.raced /\ ~request.unchecked
              => Allowed(request.op, request.review),
           request.passed => request.answer = "none"
    PROVE  RecordsInv'
<1>1. TablesOK' /\ ReviewStands' /\ DOMAIN recCall' = Clients
  BY DEF RecordsInv, TablesOK, ReviewStands, Checked
<1>2. ASSUME NEW d \in Clients  PROVE RequestHolds(d)'
  <2>0. UNCHANGED <<recFavorite, recBooking, recReview, recCategory, recService>>
    BY DEF Checked
  <2>1. CASE d = c
    <3>1. recCall'[d] = request  BY <2>1 DEF Checked, RecordsInv
    <3> QED  BY <2>0, <3>1 DEF RequestHolds, Allowed
  <2>2. CASE d # c
    <3>1. recCall'[d] = recCall[d] /\ RequestHolds(d)  BY <2>2 DEF Checked, RecordsInv
    <3> QED  BY <2>0, <3>1 DEF RequestHolds, Allowed
  <2> QED  BY <2>1, <2>2
<1> QED  BY <1>1, <1>2 DEF RecordsInv

LEMMA PassesKeeps ==
    ASSUME RecordsInv, NEW c \in Clients, NEW op \in Operations, Allowed(op, recReview) \/ Unchecked(op),
           Passes(c, op)
    PROVE  RecordsInv'
<1>1. PICK request : request = [NoRequest EXCEPT !.op = op, !.stage = "checked", !.review = recReview,
                                                 !.passed = TRUE, !.unchecked = Unchecked(op)]
  OBVIOUS
<1>2. Unchecked(op) \in BOOLEAN /\ recReview \in ReviewIds
  BY DEF Unchecked, RecordsInv, TablesOK
<1>3. /\ request.op = op /\ request.stage = "checked" /\ request.review = recReview
      /\ request.unchecked = Unchecked(op) /\ request.answer = "none"
  BY <1>1 DEF NoRequest
<1>4. request \in RecordCalls
  BY <1>1, <1>2 DEF RecordCalls, NoRequest
<1>5. request.unchecked => request.op \in {"createService", "deleteCategory"}
  BY <1>3 DEF Unchecked
<1>6. request.unchecked \/ Allowed(request.op, request.review)
  BY <1>3
<1>7. Checked(c, request)
  BY <1>1 DEF Passes
<1> QED  BY <1>3, <1>4, <1>5, <1>6, <1>7, CheckedKeeps

LEMMA AnsweredKeeps ==
    ASSUME RecordsInv, NEW c \in Clients, NEW op \in Operations,
           NEW answer \in {"ok", "notFound", "invalid", "conflict"}, IsAnswered(c, op, answer)
    PROVE  RecordsInv'
<1>1. PICK request : request = [NoRequest EXCEPT !.op = op, !.stage = "answered", !.answer = answer]
  OBVIOUS
<1>2. request.op = op /\ request.stage = "answered" /\ ~request.passed /\ ~request.unchecked
  BY <1>1 DEF NoRequest
<1>3. request \in RecordCalls
  BY <1>1 DEF RecordCalls, NoRequest, ReviewIds
<1>4. Checked(c, request)
  BY <1>1 DEF IsAnswered
<1> QED  BY <1>2, <1>3, <1>4, CheckedKeeps

\* A refused write had not found what it needs.
LEMMA RefusedKeeps ==
    ASSUME RecordsInv, NEW c \in Clients, NEW op \in Operations, NEW answer \in {"conflict", "error"},
           Writing(c, op), IsRefused(c, answer),
           ~Allowed(op, recCall[c].review)
    PROVE  RecordsInv'
<1>1. TablesOK' /\ ReviewStands' /\ DOMAIN recCall' = Clients
  BY DEF RecordsInv, TablesOK, ReviewStands, IsRefused
<1>2. ASSUME NEW d \in Clients  PROVE RequestHolds(d)'
  <2>0. UNCHANGED <<recFavorite, recBooking, recReview, recCategory, recService>>
    BY DEF IsRefused
  <2>r. RequestHolds(d)  BY DEF RecordsInv
  <2>1. CASE d = c
    <3>1. recCall'[d] = [recCall[d] EXCEPT !.stage = "answered", !.answer = answer]
      BY <2>1 DEF IsRefused, RecordsInv, AnsweredBy
    <3> QED  BY <2>1, <2>r, <3>1 DEF RequestHolds, RecordCalls, Writing
  <2>2. CASE d # c
    <3>1. recCall'[d] = recCall[d]  BY <2>2 DEF IsRefused, RecordsInv
    <3> QED  BY <2>0, <2>r, <3>1 DEF RequestHolds, Allowed
  <2> QED  BY <2>1, <2>2
<1> QED  BY <1>1, <1>2 DEF RecordsInv

\* A write marks every other request whose check it undoes.
LEMMA OthersMarked ==
    ASSUME RecordsInv, NEW ops, NEW d \in Clients, recCall'[d] = Spoiled(ops)[d],
           \A op \in Operations \ ops : \A review \in ReviewIds :
               Allowed(op, review) => Allowed(op, review)'
    PROVE  RequestHolds(d)'
<1>1. RequestHolds(d)  BY DEF RecordsInv
<1>2. CASE recCall[d].stage = "checked" /\ recCall[d].op \in ops
  <2>1. recCall'[d] = [recCall[d] EXCEPT !.raced = TRUE]  BY <1>2 DEF Spoiled
  <2> QED  BY <1>1, <2>1 DEF RequestHolds, RecordCalls
<1>3. CASE ~(recCall[d].stage = "checked" /\ recCall[d].op \in ops)
  <2>1. recCall'[d] = recCall[d]  BY <1>3 DEF Spoiled
  <2>2. ASSUME recCall[d].stage = "checked", ~recCall[d].raced, ~recCall[d].unchecked
        PROVE  Allowed(recCall[d].op, recCall[d].review)'
    <3>1. PICK op \in Operations \ ops : op = recCall[d].op
      BY <1>1, <1>3, <2>2 DEF RequestHolds
    <3>2. PICK review \in ReviewIds : review = recCall[d].review
      BY <1>1 DEF RequestHolds, RecordCalls
    <3>3. Allowed(op, review)  BY <1>1, <2>2, <3>1, <3>2 DEF RequestHolds
    <3>4. Allowed(op, review)'  BY <3>3
    <3>5. recCall'[d].op = op /\ recCall'[d].review = review  BY <2>1, <3>1, <3>2
    <3> QED  BY <3>4, <3>5 DEF Allowed
  <2> QED  BY <1>1, <2>1, <2>2 DEF RequestHolds
<1> QED  BY <1>2, <1>3

LEMMA SucceedsKeeps ==
    ASSUME RecordsInv, NEW c \in Clients, NEW op \in Operations, NEW ops, Writing(c, op), Succeeds(c, ops),
           TablesOK', ReviewStands',
           \A o \in Operations \ ops : \A review \in ReviewIds :
               Allowed(o, review) => Allowed(o, review)'
    PROVE  RecordsInv'
<1>1. DOMAIN recCall' = Clients  BY DEF RecordsInv, Succeeds, Spoiled
<1>2. ASSUME NEW d \in Clients  PROVE RequestHolds(d)'
  <2>1. CASE d = c
    <3>1. recCall'[d] = [recCall[d] EXCEPT !.stage = "answered", !.answer = "ok"]
      BY <2>1 DEF Succeeds, Spoiled, AnsweredBy
    <3> QED  BY <2>1, <3>1 DEF RequestHolds, RecordCalls, RecordsInv, Writing
  <2>2. CASE d # c
    <3>1. recCall'[d] = Spoiled(ops)[d]  BY <2>2 DEF Succeeds, Spoiled
    <3> QED  BY <3>1, OthersMarked
  <2> QED  BY <2>1, <2>2
<1> QED  BY <1>1, <1>2 DEF RecordsInv

LEMMA FavoriteKeeps ==
    ASSUME RecordsInv, NEW c \in Clients,
           CheckFavorite(c) \/ AddFavorite(c) \/ AddFavoriteAgain(c)
    PROVE  RecordsInv'
<1>o. "addFavorite" \in Operations  BY DEF Operations
<1>1. CASE CheckFavorite(c)
  BY <1>1, <1>o, PassesKeeps, AnsweredKeeps DEF CheckFavorite, Allowed
<1>2. CASE AddFavoriteAgain(c)
  BY <1>2, <1>o, RefusedKeeps DEF AddFavoriteAgain, Allowed
<1>3. CASE AddFavorite(c)
  <2>1. TablesOK' /\ ReviewStands'
    BY <1>3 DEF AddFavorite, RecordsInv, TablesOK, ReviewStands
  <2>2. \A op \in Operations \ {"addFavorite"} : \A review \in ReviewIds :
           Allowed(op, review) => Allowed(op, review)'
    BY <1>3 DEF AddFavorite, Allowed, Operations
  <2> QED  BY <1>3, <1>o, <2>1, <2>2, SucceedsKeeps DEF AddFavorite
<1> QED  BY <1>1, <1>2, <1>3

LEMMA CheckReviewsKeeps ==
    ASSUME RecordsInv, NEW c \in Clients,
           \/ CheckReview(c) \/ CreateReviewAgain(c) \/ CreateReviewForNothing(c)
           \/ CheckOwnReview(c) \/ DeleteReviewAgain(c)
    PROVE  RecordsInv'
<1>o. {"createReview", "deleteReview"} \subseteq Operations  BY DEF Operations
<1>1. CASE CheckReview(c)
  BY <1>1, <1>o, PassesKeeps, AnsweredKeeps DEF CheckReview, Allowed
<1>2. CASE CheckOwnReview(c)
  BY <1>2, <1>o, PassesKeeps, AnsweredKeeps DEF CheckOwnReview, Allowed
<1>3. CASE CreateReviewAgain(c)
  BY <1>3, <1>o, RefusedKeeps DEF CreateReviewAgain, Allowed
<1>4. CASE CreateReviewForNothing(c)
  BY <1>4, <1>o, RefusedKeeps DEF CreateReviewForNothing, Allowed
<1>5. CASE DeleteReviewAgain(c)
  BY <1>5, <1>o, RefusedKeeps DEF DeleteReviewAgain, Allowed
<1> QED  BY <1>1, <1>2, <1>3, <1>4, <1>5

\* The insert: if the check still stood, the booking is COMPLETED.
LEMMA CreateReviewKeeps ==
    ASSUME RecordsInv, NEW c \in Clients, CreateReview(c)
    PROVE  RecordsInv'
<1>0. RequestHolds(c) /\ TablesOK  BY DEF RecordsInv
<1>1. TablesOK'
  <2>1. recLapsed' \in BOOLEAN  BY <1>0 DEF CreateReview, RequestHolds, RecordCalls
  <2>2. recReviews' \in Nat /\ recReview' \in ReviewIds
    BY <1>0 DEF CreateReview, TablesOK, ReviewIds
  <2> QED  BY <1>0, <2>1, <2>2 DEF CreateReview, TablesOK
<1>2. ReviewStands'
  <2>1. ~recCall[c].unchecked /\ (~recCall[c].raced => recBooking = "COMPLETED")
    BY <1>0 DEF CreateReview, Writing, RequestHolds, Allowed
  <2> QED  BY <2>1 DEF CreateReview, ReviewStands
<1>3. DOMAIN recCall' = Clients  BY DEF CreateReview, Spoiled
<1>4. \A op \in Operations \ {"createReview"} : \A review \in ReviewIds :
         Allowed(op, review) => Allowed(op, review)'
  BY DEF CreateReview, Allowed, Operations
<1>5. ASSUME NEW d \in Clients  PROVE RequestHolds(d)'
  <2>1. CASE d = c
    <3>1. recCall'[d] = [recCall[d] EXCEPT !.stage = "notifying"]
      BY <2>1 DEF CreateReview, Spoiled, Writing
    <3>2. recCall[d].stage = "checked"  BY <2>1 DEF CreateReview, Writing
    <3>3. RequestHolds(d) /\ recCall[d].op \in Operations
      BY <1>0, <2>1, <3>2 DEF RequestHolds
    <3>4. recCall[d] \in RecordCalls  BY <3>3 DEF RequestHolds
    <3>5. /\ recCall'[d] \in RecordCalls
          /\ recCall'[d].stage = "notifying" /\ recCall'[d].op = recCall[d].op
          /\ recCall'[d].passed = recCall[d].passed /\ recCall'[d].raced = recCall[d].raced
          /\ recCall'[d].unchecked = recCall[d].unchecked
          /\ recCall'[d].unnotified = recCall[d].unnotified /\ recCall'[d].answer = recCall[d].answer
      BY <3>1, <3>4 DEF RecordCalls
    <3> QED  BY <3>3, <3>5 DEF RequestHolds
  <2>2. CASE d # c
    <3>1. recCall'[d] = Spoiled({"createReview"})[d]  BY <2>2 DEF CreateReview, Spoiled
    <3> QED  BY <1>4, <3>1, OthersMarked
  <2> QED  BY <2>1, <2>2
<1> QED  BY <1>1, <1>2, <1>3, <1>5 DEF RecordsInv

LEMMA NotifyProviderKeeps ==
    ASSUME RecordsInv, NEW c \in Clients, NEW written \in BOOLEAN, NotifyProvider(c, written)
    PROVE  RecordsInv'
<1>1. TablesOK' /\ ReviewStands' /\ DOMAIN recCall' = Clients
  BY DEF RecordsInv, TablesOK, ReviewStands, NotifyProvider
<1>2. ASSUME NEW d \in Clients  PROVE RequestHolds(d)'
  <2>r. RequestHolds(d) /\ UNCHANGED <<recFavorite, recBooking, recReview, recCategory, recService>>
    BY DEF RecordsInv, NotifyProvider
  <2>1. CASE d = c
    <3>1. recCall'[d] = [recCall[d] EXCEPT !.stage = "answered",
                                           !.answer = IF written THEN "ok" ELSE "error",
                                           !.unnotified = ~written]
      BY <2>1 DEF NotifyProvider, RecordsInv, AnsweredBy
    <3>2. recCall[d].stage = "notifying"  BY <2>1 DEF NotifyProvider
    <3>3. recCall[d] \in RecordCalls /\ recCall[d].op \in Operations
      BY <2>r, <3>2 DEF RequestHolds
    <3>4. /\ recCall'[d] \in RecordCalls
          /\ recCall'[d].stage = "answered" /\ recCall'[d].op = recCall[d].op
          /\ recCall'[d].unnotified = ~written /\ recCall'[d].unchecked = recCall[d].unchecked
          /\ recCall'[d].answer = IF written THEN "ok" ELSE "error"
      BY <3>1, <3>3 DEF RecordCalls
    <3>5. recCall'[d].unchecked => recCall'[d].op \in {"createService", "deleteCategory"}
      BY <2>r, <3>4 DEF RequestHolds
    <3>6. recCall'[d].answer \in {"error", "conflict"} => recCall'[d].unnotified
      BY <3>4
    <3> QED  BY <3>3, <3>4, <3>5, <3>6 DEF RequestHolds
  <2>2. CASE d # c
    <3>1. recCall'[d] = recCall[d]  BY <2>2 DEF NotifyProvider, RecordsInv
    <3> QED  BY <2>r, <3>1 DEF RequestHolds, Allowed
  <2> QED  BY <2>1, <2>2
<1> QED  BY <1>1, <1>2 DEF RecordsInv

LEMMA DeleteReviewKeeps ==
    ASSUME RecordsInv, NEW c \in Clients, DeleteReview(c)
    PROVE  RecordsInv'
<1>1. TablesOK' /\ ReviewStands'
  BY DEF DeleteReview, RecordsInv, TablesOK, ReviewStands, ReviewIds
<1>2. \A op \in Operations \ {"deleteReview"} : \A review \in ReviewIds :
         Allowed(op, review) => Allowed(op, review)'
  BY DEF DeleteReview, Allowed, Operations
<1>3. "deleteReview" \in Operations  BY DEF Operations
<1> QED  BY <1>1, <1>2, <1>3, SucceedsKeeps DEF DeleteReview

LEMMA BookingChangesKeeps ==
    ASSUME RecordsInv, NEW status, BookingChanges(status)
    PROVE  RecordsInv'
<1>1. TablesOK'  BY DEF BookingChanges, RecordsInv, TablesOK
<1>2. ReviewStands'  BY DEF BookingChanges, RecordsInv, ReviewStands
<1>3. DOMAIN recCall' = Clients  BY DEF BookingChanges, RecordsInv, Spoiled
<1>4. ASSUME NEW d \in Clients  PROVE RequestHolds(d)'
  <2>1. CASE status = "COMPLETED"
    <3>1. recCall'[d] = recCall[d] /\ RequestHolds(d) /\ recBooking # "COMPLETED"
      BY <2>1 DEF BookingChanges, RecordsInv
    <3>2. UNCHANGED <<recFavorite, recReview, recCategory, recService>>
      BY DEF BookingChanges
    <3>3. \A op \in Operations : \A review \in ReviewIds :
             Allowed(op, review) => Allowed(op, review)'
      BY <3>1, <3>2 DEF Allowed, Operations
    <3>4. recCall'[d] = Spoiled({})[d]  BY <3>1 DEF Spoiled
    <3> QED  BY <3>3, <3>4, OthersMarked
  <2>2. CASE status # "COMPLETED"
    <3>1. recCall'[d] = Spoiled({"createReview"})[d]  BY <2>2 DEF BookingChanges
    <3>2. \A op \in Operations \ {"createReview"} : \A review \in ReviewIds :
             Allowed(op, review) => Allowed(op, review)'
      BY DEF BookingChanges, Allowed, Operations
    <3> QED  BY <3>1, <3>2, OthersMarked
  <2> QED  BY <2>1, <2>2
<1> QED  BY <1>1, <1>2, <1>3, <1>4 DEF RecordsInv

LEMMA CategoryKeeps ==
    ASSUME RecordsInv, NEW c \in Clients,
           \/ CheckUnused(c) \/ DeleteCategory(c) \/ DeleteCategoryFails(c) \/ CheckCategory(c)
           \/ CreateService(c) \/ CreateServiceAgain(c) \/ CreateServiceNowhere(c)
    PROVE  RecordsInv'
<1>o. {"deleteCategory", "createService"} \subseteq Operations  BY DEF Operations
<1>1. CASE CheckUnused(c)
  BY <1>1, <1>o, PassesKeeps, AnsweredKeeps DEF CheckUnused, Allowed, Unchecked
<1>2. CASE CheckCategory(c)
  BY <1>2, <1>o, PassesKeeps, AnsweredKeeps DEF CheckCategory, Allowed, Unchecked
<1>3. CASE DeleteCategoryFails(c)
  BY <1>3, <1>o, RefusedKeeps DEF DeleteCategoryFails, Allowed
<1>4. CASE CreateServiceAgain(c)
  BY <1>4, <1>o, RefusedKeeps DEF CreateServiceAgain, Allowed
<1>5. CASE CreateServiceNowhere(c)
  BY <1>5, <1>o, RefusedKeeps DEF CreateServiceNowhere, Allowed
<1>6. CASE DeleteCategory(c)
  <2>1. TablesOK' /\ ReviewStands'
    BY <1>6 DEF DeleteCategory, RecordsInv, TablesOK, ReviewStands
  <2>2. \A op \in Operations \ {"deleteCategory", "createService"} : \A review \in ReviewIds :
           Allowed(op, review) => Allowed(op, review)'
    BY <1>6 DEF DeleteCategory, Allowed, Operations
  <2> QED  BY <1>6, <1>o, <2>1, <2>2, SucceedsKeeps DEF DeleteCategory
<1>7. CASE CreateService(c)
  <2>1. TablesOK' /\ ReviewStands'
    BY <1>7 DEF CreateService, RecordsInv, TablesOK, ReviewStands
  <2>2. \A op \in Operations \ {"deleteCategory", "createService"} : \A review \in ReviewIds :
           Allowed(op, review) => Allowed(op, review)'
    BY <1>7 DEF CreateService, Allowed, Operations
  <2> QED  BY <1>7, <1>o, <2>1, <2>2, SucceedsKeeps DEF CreateService
<1> QED  BY <1>1, <1>2, <1>3, <1>4, <1>5, <1>6, <1>7

\* What makes a check easier to pass again undoes none.
LEMMA RemovalKeeps ==
    ASSUME RecordsInv, RemoveFavorite \/ DeleteService \/ UNCHANGED recVars
    PROVE  RecordsInv'
<1>1. TablesOK' /\ ReviewStands' /\ recCall' = recCall
  BY DEF RemoveFavorite, DeleteService, recVars, RecordsInv, TablesOK, ReviewStands
<1>2. ASSUME NEW d \in Clients  PROVE RequestHolds(d)'
  <2>1. RequestHolds(d)  BY DEF RecordsInv
  <2>2. \A op \in Operations : \A review \in ReviewIds : Allowed(op, review) => Allowed(op, review)'
    <3>1. RemoveFavorite => UNCHANGED <<recBooking, recReview, recCategory, recService>> /\ ~recFavorite'
      BY DEF RemoveFavorite
    <3>2. DeleteService => UNCHANGED <<recFavorite, recBooking, recReview, recCategory>> /\ ~recService'
      BY DEF DeleteService
    <3>3. UNCHANGED recVars => UNCHANGED <<recFavorite, recBooking, recReview, recCategory, recService>>
      BY DEF recVars
    <3>4. CASE UNCHANGED <<recBooking, recReview, recCategory, recService>> /\ ~recFavorite'
      BY <3>4 DEF Allowed, Operations
    <3>5. CASE UNCHANGED <<recFavorite, recBooking, recReview, recCategory>> /\ ~recService'
      BY <3>5 DEF Allowed, Operations
    <3>6. CASE UNCHANGED <<recFavorite, recBooking, recReview, recCategory, recService>>
      BY <3>6 DEF Allowed
    <3> QED  BY <3>1, <3>2, <3>3, <3>4, <3>5, <3>6
  <2>3. recCall'[d] = Spoiled({})[d]  BY <1>1 DEF Spoiled
  <2> QED  BY <2>2, <2>3, OthersMarked
<1> QED  BY <1>1, <1>2 DEF RecordsInv

LEMMA RecordsAlways == RecordsSpec => []RecordsInv
<1>1. RecordsInit => RecordsInv
  <2> SUFFICES ASSUME RecordsInit  PROVE RecordsInv  OBVIOUS
  <2>1. TablesOK /\ ReviewStands /\ DOMAIN recCall = Clients
    BY DEF RecordsInit, TablesOK, ReviewStands, ReviewIds
  <2>2. ASSUME NEW d \in Clients  PROVE RequestHolds(d)
    <3>1. recCall[d] = NoRequest  BY DEF RecordsInit
    <3>2. NoRequest \in RecordCalls  BY DEF NoRequest, RecordCalls, ReviewIds
    <3> QED  BY <3>1, <3>2 DEF RequestHolds, NoRequest
  <2> QED  BY <2>1, <2>2 DEF RecordsInv
<1>2. RecordsInv /\ [RecordsNext]_recVars => RecordsInv'
  BY FavoriteKeeps, CheckReviewsKeeps, CreateReviewKeeps, NotifyProviderKeeps, DeleteReviewKeeps,
     BookingChangesKeeps, CategoryKeeps, RemovalKeeps DEF RecordsNext
<1> QED  BY <1>1, <1>2, PTL DEF RecordsSpec

\* A booking has one review at most, and was COMPLETED if it has, unless it
\* changed between createReview's check and its insert, or since.
THEOREM ReviewsOfCompleted == RecordsSpec => []ReviewsAreOfCompletedBookings
<1>1. RecordsInv => ReviewsAreOfCompletedBookings
  <2> SUFFICES ASSUME RecordsInv  PROVE Cardinality(recReview) <= 1
    BY DEF RecordsInv, ReviewStands, ReviewsAreOfCompletedBookings
  <2>1. recReview = {} \/ \E id \in Nat : recReview = {id}
    BY DEF RecordsInv, TablesOK, ReviewIds
  <2> QED  BY <2>1, FS_EmptySet, FS_Singleton
<1> QED  BY <1>1, RecordsAlways, PTL

\* Of the requests whose check has passed (addFavorite, createReview,
\* deleteReview, deleteCategory, createService), those answered by a 409 or an
\* unforeseen error have been raced by another, have had their notification
\* fail, or were to fail for what the check does not ask; what the check itself
\* refuses is not what this is about.
THEOREM ErrorsOnlyOfRaces == RecordsSpec => []ErrorsComeOfRaces
<1>1. RecordsInv => ErrorsComeOfRaces
  BY DEF RecordsInv, RequestHolds, ErrorsComeOfRaces
<1> QED  BY <1>1, RecordsAlways, PTL


-----------------------------------------------------------------------------
(* Reports.  A figure whose query has run holds what its filter asks for   *)
(* of every transaction that was not written since the report was asked    *)
(* for, whatever the order of the queries: such a transaction looks the    *)
(* same to each.                                                           *)

ReportRows == [provider : Businesses \cup {NoBusiness}, day : Int, settled : BOOLEAN]

ReportRecords ==
    [ provider : Businesses \cup {NoBusiness}, since : Int, touched : SUBSET Transactions,
      figure : [Figures -> [ran : BOOLEAN, of : SUBSET Transactions]] ]

\* Nothing is dated later than today.
RowsArePast ==
    /\ repRow \in [Transactions -> ReportRows] /\ repToday \in Int
    /\ \A e \in Transactions : repRow[e] # NoTransaction => repRow[e].day <= repToday

\* What a report's filters find in the row of a transaction is settled.
FigureHolds(r, f) ==
    r.figure[f].ran =>
        \A e \in Transactions \ r.touched : e \in r.figure[f].of <=> Wanted(f, r, repRow[e])

\* The range ends with the day the report was asked for: later rows are touched.
RangeHolds(r) ==
    \A e \in Transactions \ r.touched :
        repRow[e] # NoTransaction => repRow[e].day <= r.since + RangeDays - 1

ReportHolds(r) ==
    /\ r \in ReportRecords /\ RangeHolds(r)
    /\ \A f \in Figures : FigureHolds(r, f)

ReportsInv == RowsArePast /\ \A r \in repReport : ReportHolds(r)

\* A transaction that is written is touched in every report under way; the
\* rows of the others are as they were.
LEMMA TouchedApart ==
    ASSUME ReportsInv, NEW e \in Transactions, NEW row,
           repRow' = [repRow EXCEPT ![e] = row], Touch(e)
    PROVE  \A q \in repReport' : ReportHolds(q)'
<1> SUFFICES ASSUME NEW q \in repReport'  PROVE ReportHolds(q)'
  OBVIOUS
<1>1. PICK r \in repReport : q = [r EXCEPT !.touched = @ \cup {e}]
  BY DEF Touch
<1>2. ReportHolds(r)  BY DEF ReportsInv
<1>3. r \in ReportRecords  BY <1>2 DEF ReportHolds
<1>4. /\ q.provider = r.provider /\ q.since = r.since /\ q.figure = r.figure
      /\ q.touched = r.touched \cup {e}
  BY <1>1, <1>3 DEF ReportRecords
<1>5. q \in ReportRecords  BY <1>1, <1>3 DEF ReportRecords
<1>6. ASSUME NEW d \in Transactions \ q.touched
      PROVE  d \in Transactions \ r.touched /\ repRow'[d] = repRow[d]
  BY <1>4, <1>6 DEF ReportsInv, RowsArePast
<1>7. RangeHolds(q)'  BY <1>2, <1>4, <1>6 DEF ReportHolds, RangeHolds
<1>8. ASSUME NEW f \in Figures  PROVE FigureHolds(q, f)'
  <2> SUFFICES ASSUME q.figure[f].ran, NEW d \in Transactions \ q.touched
               PROVE  d \in q.figure[f].of <=> Wanted(f, q, repRow'[d])
    BY DEF FigureHolds
  <2>1. d \in r.figure[f].of <=> Wanted(f, r, repRow[d])
    BY <1>2, <1>4, <1>6 DEF ReportHolds, FigureHolds
  <2>2. Wanted(f, r, repRow[d]) <=> Wanted(f, q, repRow[d])
    BY <1>4 DEF Wanted, Buckets
  <2> QED  BY <1>4, <1>6, <2>1, <2>2
<1> QED  BY <1>5, <1>7, <1>8 DEF ReportHolds

LEMMA CompleteBookingKeeps ==
    ASSUME ReportsInv, NEW e \in Transactions, NEW provider \in Businesses, CompleteBooking(e, provider)
    PROVE  ReportsInv'
<1> DEFINE row == [provider |-> provider, day |-> repToday, settled |-> FALSE]
<1>1. row \in ReportRows /\ row.day <= repToday
  BY DEF ReportRows, ReportsInv, RowsArePast
<1>2. repRow' = [repRow EXCEPT ![e] = row] /\ Touch(e) /\ repToday' = repToday
  BY DEF CompleteBooking
<1> HIDE DEF row
<1>3. RowsArePast'
  BY <1>1, <1>2 DEF ReportsInv, RowsArePast
<1>4. \A q \in repReport' : ReportHolds(q)'  BY <1>2, TouchedApart
<1> QED  BY <1>3, <1>4 DEF ReportsInv

LEMMA SettleOneKeeps ==
    ASSUME ReportsInv, NEW e \in Transactions, SettleOne(e)
    PROVE  ReportsInv'
<1> DEFINE row == [repRow[e] EXCEPT !.settled = TRUE]
<1>1. row \in ReportRows /\ row.day <= repToday
  BY DEF ReportRows, ReportsInv, RowsArePast, SettleOne
<1>2. repRow' = [repRow EXCEPT ![e] = row] /\ Touch(e) /\ repToday' = repToday
  BY DEF SettleOne
<1> HIDE DEF row
<1>3. RowsArePast'
  BY <1>1, <1>2 DEF ReportsInv, RowsArePast
<1>4. \A q \in repReport' : ReportHolds(q)'  BY <1>2, TouchedApart
<1> QED  BY <1>3, <1>4 DEF ReportsInv

\* A report that is begun ends its range with today.
LEMMA AskReportKeeps ==
    ASSUME ReportsInv, NEW provider \in Businesses \cup {NoBusiness}, AskReport(provider)
    PROVE  ReportsInv'
<1> DEFINE report == [provider |-> provider, since |-> Since, touched |-> {},
                      figure |-> [f \in Figures |-> Unknown]]
<1>1. repReport' = {report} /\ UNCHANGED <<repRow, repToday>>  BY DEF AskReport
<1>2. /\ report.since = repToday - (RangeDays - 1) /\ report.touched = {}
      /\ \A f \in Figures : ~report.figure[f].ran
  BY DEF Since, Unknown
<1>3. report \in ReportRecords
  BY RangeAssumption DEF ReportRecords, Since, Unknown, ReportsInv, RowsArePast
<1> HIDE DEF report
<1>r. PICK r : r = report  OBVIOUS
<1>4. RowsArePast'  BY <1>1 DEF ReportsInv, RowsArePast
<1>5. RangeHolds(r)'
  <2> SUFFICES ASSUME NEW e \in Transactions, repRow[e] # NoTransaction
               PROVE  repRow[e].day <= r.since + RangeDays - 1
    BY <1>1 DEF RangeHolds
  <2>1. repRow[e].day <= repToday /\ repRow[e].day \in Int /\ repToday \in Int
    BY DEF ReportsInv, RowsArePast, ReportRows
  <2>2. r.since = repToday - (RangeDays - 1)  BY <1>2, <1>r
  <2> QED  BY <2>1, <2>2, RangeAssumption
<1>6. \A f \in Figures : FigureHolds(r, f)'  BY <1>2, <1>r DEF FigureHolds
<1> QED  BY <1>1, <1>3, <1>4, <1>5, <1>6, <1>r DEF ReportsInv, ReportHolds

LEMMA RunQueryKeeps ==
    ASSUME ReportsInv, NEW f \in Figures, RunQuery(f)
    PROVE  ReportsInv'
<1>1. UNCHANGED <<repRow, repToday>>  BY DEF RunQuery
<1>2. PICK r \in repReport :
         repReport' = {[r EXCEPT !.figure[f] = Found({e \in Transactions : Wanted(f, r, repRow[e])})]}
  BY DEF RunQuery
<1>3. PICK q : repReport' = {q} /\ q = [r EXCEPT !.figure[f] = Found({e \in Transactions : Wanted(f, r, repRow[e])})]
  BY <1>2
<1>4. ReportHolds(r) /\ r \in ReportRecords  BY DEF ReportsInv, ReportHolds
<1>5. /\ q.provider = r.provider /\ q.since = r.since /\ q.touched = r.touched
      /\ q.figure = [r.figure EXCEPT ![f] = Found({e \in Transactions : Wanted(f, r, repRow[e])})]
  BY <1>3, <1>4 DEF ReportRecords
<1>6. q.figure \in [Figures -> [ran : BOOLEAN, of : SUBSET Transactions]]
  BY <1>4, <1>5 DEF ReportRecords, Found
<1>7. q \in ReportRecords  BY <1>3, <1>4, <1>6 DEF ReportRecords, Found
<1>8. RangeHolds(q)'  BY <1>1, <1>4, <1>5 DEF ReportHolds, RangeHolds
<1>9. ASSUME NEW g \in Figures  PROVE FigureHolds(q, g)'
  <2>1. \A e \in Transactions : Wanted(g, r, repRow[e]) <=> Wanted(g, q, repRow[e])
    BY <1>5 DEF Wanted, Buckets
  <2>2. CASE g = f
    <3>1. q.figure[g].of = {e \in Transactions : Wanted(g, r, repRow[e])}
      BY <1>4, <1>5, <2>2 DEF ReportRecords, Found
    <3> QED  BY <1>1, <2>1, <3>1 DEF FigureHolds
  <2>3. CASE g # f
    <3>1. q.figure[g] = r.figure[g]  BY <1>4, <1>5, <2>3 DEF ReportRecords
    <3>2. FigureHolds(r, g)  BY <1>4 DEF ReportHolds
    <3> QED  BY <1>1, <1>5, <2>1, <3>1, <3>2 DEF FigureHolds
  <2> QED  BY <2>2, <2>3
<1>10. RowsArePast'  BY <1>1 DEF ReportsInv, RowsArePast
<1> QED  BY <1>3, <1>7, <1>8, <1>9, <1>10 DEF ReportsInv, ReportHolds

LEMMA OtherReportStepsKeep ==
    ASSUME ReportsInv, Midnight \/ ReportIsSent \/ UNCHANGED repVars
    PROVE  ReportsInv'
<1>1. repRow' = repRow /\ repReport' \subseteq repReport /\ (repToday' = repToday \/ repToday' = repToday + 1)
  BY DEF Midnight, ReportIsSent, repVars
<1>2. RowsArePast'  BY <1>1 DEF ReportsInv, RowsArePast, ReportRows
<1>3. ASSUME NEW r \in repReport'  PROVE ReportHolds(r)'
  <2>1. ReportHolds(r)  BY <1>1 DEF ReportsInv
  <2> QED  BY <1>1, <2>1 DEF ReportHolds, RangeHolds, FigureHolds
<1> QED  BY <1>2, <1>3 DEF ReportsInv

LEMMA ReportsAlways == ReportsSpec => []ReportsInv
<1>1. ReportsInit => ReportsInv
  BY RangeAssumption DEF ReportsInit, ReportsInv, RowsArePast, ReportRows, NoTransaction
<1>2. ReportsInv /\ [ReportsNext]_repVars => ReportsInv'
  BY CompleteBookingKeeps, SettleOneKeeps, AskReportKeeps, RunQueryKeeps, OtherReportStepsKeep
     DEF ReportsNext
<1> QED  BY <1>1, <1>2, PTL DEF ReportsSpec

\* A complete report adds up, transaction by transaction, wherever its queries
\* ran in between: getAdminSummary's and getOwnSummary's totals are the pending
\* and the settled, and the trend's days are those of the totals in the range.
THEOREM ReportsAlwaysAddUp == ReportsSpec => []ReportsAddUp
<1>1. ReportsInv => ReportsAddUp
  <2> SUFFICES ASSUME ReportsInv, NEW r \in repReport, Complete(r)
               PROVE  LET of(f) == r.figure[f].of \ r.touched
                      IN  /\ of("totals") = of("pending") \cup of("settled") /\ of("pending") \cap of("settled") = {}
                          /\ of("trend") = {e \in of("totals") : repRow[e].day >= r.since}
    BY DEF ReportsAddUp
  <2> DEFINE of(f) == r.figure[f].of \ r.touched
  <2>1. ReportHolds(r) /\ r \in ReportRecords  BY DEF ReportsInv, ReportHolds
  <2>2. ASSUME NEW f \in Figures
        PROVE  of(f) = {e \in Transactions \ r.touched : Wanted(f, r, repRow[e])}
    <3>1. r.figure[f].ran /\ FigureHolds(r, f)  BY <2>1 DEF Complete, ReportHolds
    <3>2. r.figure[f].of \subseteq Transactions  BY <2>1 DEF ReportRecords
    <3> QED  BY <3>1, <3>2 DEF FigureHolds
  <2>3. {"totals", "pending", "settled", "trend"} \subseteq Figures  BY DEF Figures
  <2>4. \A e \in Transactions :
           Wanted("totals", r, repRow[e]) <=> Wanted("pending", r, repRow[e]) \/ Wanted("settled", r, repRow[e])
    BY DEF Wanted
  <2>5. \A e \in Transactions : ~(Wanted("pending", r, repRow[e]) /\ Wanted("settled", r, repRow[e]))
    BY DEF Wanted
  <2>6. \A e \in Transactions \ r.touched :
           Wanted("trend", r, repRow[e]) <=> Wanted("totals", r, repRow[e]) /\ repRow[e].day >= r.since
    <3> SUFFICES ASSUME NEW e \in Transactions \ r.touched, repRow[e] # NoTransaction, repRow[e].day >= r.since
                 PROVE  repRow[e].day \in Buckets(r)
      BY DEF Wanted
    <3>1. repRow[e].day <= r.since + RangeDays - 1  BY <2>1 DEF ReportHolds, RangeHolds
    <3>2. repRow[e].day \in Int /\ r.since \in Int
      BY <2>1 DEF ReportRecords, ReportsInv, RowsArePast, ReportRows
    <3> QED  BY <3>1, <3>2, RangeAssumption DEF Buckets
  <2> HIDE DEF of
  <2>7. /\ of("totals") = of("pending") \cup of("settled") /\ of("pending") \cap of("settled") = {}
        /\ of("trend") = {e \in of("totals") : repRow[e].day >= r.since}
    <3>1. /\ of("totals") = {e \in Transactions \ r.touched : Wanted("totals", r, repRow[e])}
          /\ of("pending") = {e \in Transactions \ r.touched : Wanted("pending", r, repRow[e])}
          /\ of("settled") = {e \in Transactions \ r.touched : Wanted("settled", r, repRow[e])}
          /\ of("trend") = {e \in Transactions \ r.touched : Wanted("trend", r, repRow[e])}
      BY <2>2, <2>3
    <3> QED  BY <2>4, <2>5, <2>6, <3>1
  <2> QED  BY <2>7 DEF of
<1> QED  BY <1>1, ReportsAlways, PTL

=============================================================================
