SPECIFICATION FairSpec
CONSTANTS
  FirstVersion <- MCFirstVersion
  SetVersions <- MCSetVersions
  MaxCommits = 2
  MaxStops = 1
  MaxDispatches = 1
INVARIANTS
  TagsAreOnMain
  VersionsCover
  PublishedIsTagged
PROPERTY
  EverythingIsReleased
CHECK_DEADLOCK FALSE
