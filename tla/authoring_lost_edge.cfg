SPECIFICATION FairSpec
CONSTANTS
  plan = plan ctr = ctr note = note reply = reply ann = ann bob = bob
  Line = {plan, ctr, note}  Note = {}  Strict = {}
  Derived <- NoNotes  Scaffolds <- PlanScaffolds
  Related <- TwoEdges
  Author = {ann, bob}  Sessions <- BothRelate
  MaxVersion = 2  MaxTicket <- Tickets  MaxEdit = 0
  Gone = Gone  Torn = Torn  NoUnit = NoUnit
PROPERTIES PublishedStays
CHECK_DEADLOCK FALSE
