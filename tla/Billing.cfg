SPECIFICATION MCSpec
CONSTANTS
  x1 = x1
  x2 = x2
  y1 = y1
  y2 = y2
  Run <- Rows
  Ask <- Requests
  MaxDay = 2
  EndDay = 2
  LastFailure = 2
  FirstYear = 2027
  LastYear = 2028
  Schedules <- MCSchedules
  Key <- Rows
  Caller <- Requests
  PlanEdit = {a1, a2}
  MaxPrice = 2
  MaxChange = 2
  Request <- Rows
  Decider <- Requests
  Total = 2
  Editor = {e1, e2}
  MaxTerms = 3
  Review <- Rows
  Author <- Requests
  Gift = {g1, g2}
  Provider = {p1, p2}
  Item <- Rows
  Buyer <- Requests
  Entry <- Rows
  TicksPerDay = 2
  DaysPerWeek = 3
  DaysPerMonth = 2
  Windows = {1, 3}
  Labels = {2, 3}
  TrendMonths = 2
  MostRows = 1
  Horizon = 8
  MaxListed = 3
  Full = 2
  MaxPageLimit = 2
INVARIANTS ChargedOnce NextIsFirst CachedPriceIsCurrent EndedIsNotPremium RefundsAreCovered LiveOfferIsReviewed OrderedOnce OneReview PeriodsMeet SeriesAddUp RatesAgree PagesCoverTheList CancelledStays
SYMMETRY Symmetry
CHECK_DEADLOCK FALSE
