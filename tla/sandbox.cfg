SPECIFICATION Spec
CONSTANTS
  Tab = {t1}
  MaxVersion = 2
  MaxTransfers = 3
  MaxEvents = 2
  MaxTimers = 2
INVARIANTS TypeOK FilesKnowTheirShell QuietTabsShowTheirFiles
PROPERTY EveryRequestAnswered
