SPECIFICATION WorkspaceSpec
CONSTANTS
  User = {u1, u2}
  Handler = {h1, h2}
  MaxRequests = 6
  None = None
  Focus = {"Polls", "Meetings", "Timeclock", "Accounts", "Presence", "Typing", "Planner", "Notes", "Broadcast", "Device", "Profile", "ChannelPanel"}
  Poll = {p1}
  Option = {r1, r2}
  Meeting = {r1, r2}
  MaxBatch = 2
  DayLength = 2
  MaxTime = 4
  Invite = {r1, r2}
  ResetLink = {l1, l2}
  Connection = {r1, r2}
  HistoryDays = 2
  Task = {t1}
  Event = {e1}
  Target = {c1, c2}
  Channel = {c1, c2}
  Default = c1
  MaxEvents = 2
  MaxTabs = 1
SYMMETRY Symmetry
INVARIANTS
  WorkspaceTypeOK
  SingleChoice
  PollShown
  RemindedOnce
  BannerShowsUpcoming
  ClockSequence
  TotalsAddUp
  GatewayShowsRight
  OneOwner
  LinksUsedOnce
  WidgetOffersLegalActions
  CollabRight
  BadgesRight
  ActiveListed
  ProfileRight
  PanelRight
CHECK_DEADLOCK FALSE
