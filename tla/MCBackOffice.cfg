SPECIFICATION MCSpec
CONSTANTS
  r1 = r1
  r2 = r2
  a1 = a1
  a2 = a2
  l1 = l1
  l2 = l2
  v1 = v1
  v2 = v2
  nobody = nobody
  Writers = {r1, r2}
  MaxRows = 2
  MaxInboxVersion = 2
  Addresses = {a1, a2}
  Calls = {r1, r2}
  Links = {l1, l2}
  Levels = {v1, v2}
  Updates = {r1, r2}
  MaxHistory = 3
  Clients = {r1, r2}
  MaxReviews = 2
  Rows = {v1, v2}
  Fetches = {r1, r2}
  MaxChanges = 1
  MaxSessions = 2
  Requests = {r1, r2}
  MaxLogins = 3
  Tabs = {r1, r2}
  MaxIssued = 3
  Transactions = {r1, r2}
  Businesses = {v1, v2}
  NoBusiness = nobody
  RangeDays = 2
  LastDay = 3
  MaxSends = 3
  MaxHistoryEntries = 2
  MaxConversation = 2
  MaxLeft = 2
INVARIANT OneAlmostTurn
INVARIANT InboxIsCurrent
INVARIANT OneAccountPerAddress
INVARIANT LinkResetsOnce
INVARIANT HistoryIsAChain
INVARIANT ErrorsComeOfRaces
INVARIANT ReviewsAreOfCompletedBookings
INVARIANT NothingIsInherited
INVARIANT FreshEntryIsCurrent
INVARIANT SessionIsWhole
INVARIANT UserOwnsToken
INVARIANT ReportsAddUp
INVARIANT AnswersFollowQuestions
INVARIANT RefusedForLength
INVARIANT ScreenShowsOwnWork
PROPERTY LinksStayWithinRole
PROPERTY RetiredLinksStayRetired
SYMMETRY MCSymmetry
VIEW MCView
CHECK_DEADLOCK FALSE
