CONSTANTS
  Kinds = {"none", "SDSC", "SDHC"}
  OCR_BUSY = 1
  SECTOR = 512
  KERNEL_SIZE_SECTORS = 2
  Scanned <- MCScanned
  Oddities <- AllOddities
  Media <- AllMedia
  ACMD41_TRIES = 3
  LostResponses = {"CMD8", "CMD55", "ACMD41", "CMD2", "CMD3", "CMD9", "CMD7", "CMD16"}
  MAX_FAULTS = 1
  MAX_CALLS = 2
  Sectors = {2, 3}
SPECIFICATION Spec
INVARIANTS NoBootAbort HandOversSound TransfersSound DisplayAgrees
PROPERTY BootEnds
CHECK_DEADLOCK FALSE
