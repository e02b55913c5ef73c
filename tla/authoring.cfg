SPECIFICATION FairSpec
CONSTANTS
  plan = plan ctr = ctr note = note reply = reply ann = ann bob = bob
  Line = {plan, ctr, note, reply}  Note = {note, reply}  Strict = {plan, ctr}
  Derived <- WithReply  Scaffolds <- PairScaffolds
  Related <- PlanOverCtr
  Author = {ann, bob}  Sessions <- AloneOrRacing
  MaxVersion = 2  MaxTicket <- Tickets  MaxEdit = 1
  Gone = Gone  Torn = Torn  NoUnit = NoUnit
INVARIANTS BatchIsCoherent RefusedLeavesNothing ResolutionCoversLine
PROPERTIES PublishedStays CommandsEnd
CHECK_DEADLOCK FALSE
