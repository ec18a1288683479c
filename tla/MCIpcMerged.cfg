SPECIFICATION FairSpec
CONSTANTS
  c1 = c1
  c2 = c2
  c3 = c3
  e1 = e1
  e2 = e2
  NoEvent = NoEvent
  CPUs = {c1, c2, c3}
  Events = {e1, e2}
  Calls <- Overlapping
PROPERTY QueuedEventRuns
\* All calls have returned, or a merged interrupt has left a sender waiting.
CHECK_DEADLOCK FALSE
