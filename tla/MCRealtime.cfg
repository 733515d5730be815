\* A diner's page and a host's panel follow two requests and one change
\* that time makes; the queues hold three events.
CONSTANTS
  Diners = {d1}
  Hosts = {h1}
  Requests = {r1, r2}
  QueueSize = 3
  RefreshEvery = 2
  MaxSilent = 1
SPECIFICATION FairSpec
INVARIANTS TypeOK NothingAnnouncedIsMissed FeedIsBackedByTheList
PROPERTIES ShownGoesForward EveryChangeIsShown
