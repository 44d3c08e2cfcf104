\* Every reader and OS whose acknowledged writes are not lost and resumed after.
SPECIFICATION FairSpec
CONSTANTS
  SectorSize    = 2
  ChunkSectors  = 2
  ImageSizes    <- MCImageSizes
  DeviceSizes   <- MCDeviceSizes
  MaxDeviceSize = 8
  WriteRetries  = 2
  MaxPolls      = 1
  HasPower      = TRUE
  Rigs          <- MCDurableRigs
  SwitchTakes   = TRUE
INVARIANTS TypeOK CardWhole NoHole AlignedSeek WithinDevice
PROPERTIES RawWriteUnmounted PromiseKept NoStepInVain Returns
\* The call returns and the world may then stand still.
CHECK_DEADLOCK FALSE
