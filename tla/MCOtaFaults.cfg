SPECIFICATION FairSpec
INVARIANTS
  TypeOK
  RecoverableIfReadable
  StartsWhole
PROPERTIES
  UpdateConsumed
  TornRepaired
CONSTANTS
  a = a
  b = b
  bad = bad
  cut = cut
  Image = {a, b, bad, cut}
  NoImage = NoImage
  NoFile = NoFile
  Blank = Blank
  ImageLen <- MCImageLen
  FileLen <- MCFileLen
  Valid <- MCValid
  Linked <- MCLinked
  PartSize = 6
  HeaderLen = 2
  WriteBlock = 2
  ChunkSize = 4
  MaxFaults = 2
  Fault = {"power", "area", "stat", "open", "header", "erase", "seek", "read", "partial", "write", "unlink", "partition", "load", "close", "rename"}
