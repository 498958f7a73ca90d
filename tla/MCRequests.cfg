SPECIFICATION Parts
CONSTANTS
  Volumes = {v1, v2}
  Places = {p1, p2}
  KnownPlaces = {p1}
  NoPlace = NoPlace
  Absent = Absent
  MaxTaken = 2
INVARIANTS ProcessedMeansTaken PlacedAsAsked
PROPERTIES SnapshotsEnd RequestFits SuccessMeansFinished
