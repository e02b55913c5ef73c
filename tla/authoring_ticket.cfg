SPECIFICATION FairSpec
CONSTANTS
  plan = plan ctr = ctr note = note reply = reply ann = ann bob = bob
  Line = {plan, note}  Note = {note}  Strict = {}
  Derived <- PlanNote  Scaffolds <- PlanScaffolds
  Related <- NothingAdded
  Author = {ann, bob}  Sessions <- EditedRace
  MaxVersion = 2  MaxTicket <- Tickets  MaxEdit = 1
  Gone = Gone  Torn = Torn  NoUnit = NoUnit
INVARIANT TicketIsSingleUse
PROPERTY RemovedIsArchived
CHECK_DEADLOCK FALSE
