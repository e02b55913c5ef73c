\* A container that supersedes a decision.
SPECIFICATION PublicationSpec
CONSTANTS
  Malformed = Malformed  Nobody = Nobody
  Candidate <- UpUnits  DraftLine = {}
INVARIANT NothingSupersedesUpward
\* Everything is published.
CHECK_DEADLOCK FALSE
