SPECIFICATION TransferSpec
CONSTANTS
  u1 = u1
  d1 = d1
  Uploads <- MCUploads
  Downloads <- MCDownloads
  Chunks = 2
  Capacity = 1
  MaxConcurrent = 1
  MaxPuts = 2
  MaxFaults = 2
INVARIANTS
  TransferTypeOK
  WholeOrError
CHECK_DEADLOCK FALSE
PROPERTY SlotsReturn
