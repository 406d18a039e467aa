CONSTANTS
  Block = 2
  MaxUp = 3
  MaxDown = 2
  Window = 2
SPECIFICATION RelayFairSpec
INVARIANT RelayTypeOK
PROPERTIES UploadStream DownloadStream UploadArrives DownloadArrives RelayEnds
CHECK_DEADLOCK FALSE
