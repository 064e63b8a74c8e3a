CONSTANTS
  Nothing = Nothing
  Taken <- SmallTaken
  Wrapped <- SmallWrapped
  LineEnded <- SmallLineEnded
  Files <- Small
  Versions <- SmallVersions
  Ranges <- SmallRanges
  Streamed <- SmallStreamed
  MaxGenerations = 3
SPECIFICATION Spec
INVARIANTS
  RereadAsWritten
  CanonicalSettles
  LoweredOnce
  DeclarationsHonoured
