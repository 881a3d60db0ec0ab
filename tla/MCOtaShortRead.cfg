SPECIFICATION Spec
INVARIANTS
  Recoverable
CONSTANTS
  a = a
  b = b
  bad = bad
  cut = cut
  Image = {a, b, bad, cut}
  NoImage = NoImage
  NoFile = NoFile
  Blank = Blank
  ImageLen <- MCImageLen
  FileLen <- MCFileLen
  Valid <- MCValid
  Linked <- MCLinked
  PartSize = 6
  HeaderLen = 2
  WriteBlock = 2
  ChunkSize = 4
  MaxFaults = 1
  Fault = {"read"}
