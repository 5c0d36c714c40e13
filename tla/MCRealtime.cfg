SPECIFICATION MCSpec
CONSTANTS
  e1 = e1
  e2 = e2
  r1 = r1
  r2 = r2
  d1 = d1
  d2 = d2
  Desks = {d1, d2}
  Entries = {e1, e2}
  Mine = {e1}
  Handlers = {r1, r2}
  FirstLines <- MCFirstLines
  MaxVersion = 2
  Requests = {r1, r2}
  MaxChanges = 2
INVARIANT ScreenIsCurrent
INVARIANT AnnouncedScreenIsCurrent
INVARIANT OwedAuditsAreWritten
INVARIANT OfferedIsAdmitted
SYMMETRY MCSymmetry
VIEW MCView
