SPECIFICATION Spec
CONSTANTS
  Blank = Blank
  Junk = Junk
  NoColumn = NoColumn
  Missing = Missing
  Null = Null
  Weekdays <- MCWeekdays
  Feeds <- MCFeeds
  ColumnMax = 99
  SmallMax = 9
INVARIANT TypeOK
INVARIANT FailuresExplained
INVARIANT TimetableSound
INVARIANT PatternsMatch
INVARIANT RouteViewsAgree
PROPERTY StoreRefined
CHECK_DEADLOCK FALSE
