SPECIFICATION FairSpec
CONSTANTS
  plan = plan ctr = ctr note = note reply = reply ann = ann bob = bob
  Line = {plan, note}  Note = {note}  Strict = {}
  Derived <- PlanNote  Scaffolds <- PlanScaffolds
  Related <- NothingAdded
  Author = {ann, bob}  Sessions <- NotesAlone
  MaxVersion = 3  MaxTicket <- Thrice  MaxEdit = 0
  Gone = Gone  Torn = Torn  NoUnit = NoUnit
PROPERTIES ResolvedOnce
CHECK_DEADLOCK FALSE
