\* Eleven units that both gates may accept, seven that the publication gate must
\* refuse and one it must refuse until the plan is published; the plan and an
\* epic may be drafted before.
SPECIFICATION PublicationSpec
CONSTANTS
  Malformed = Malformed  Nobody = Nobody
  Candidate <- GateUnits  DraftLine <- GateDrafts
INVARIANTS DanglingIsPromised GatesAgree ChainRuleExact
\* Everything is published.
CHECK_DEADLOCK FALSE
