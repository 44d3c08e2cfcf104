\* Resuming a write whose acknowledged chunks were only in the OS's cache.
SPECIFICATION Spec
CONSTANTS
  SectorSize    = 2
  ChunkSectors  = 2
  ImageSizes    <- MCImageSizes
  DeviceSizes   <- MCDeviceSizes
  MaxDeviceSize = 8
  WriteRetries  = 1
  MaxPolls      = 1
  HasPower      = TRUE
  Rigs          <- MCCachedRigs
  SwitchTakes   = TRUE
INVARIANT CardWhole
\* The call returns and the world may then stand still.
CHECK_DEADLOCK FALSE
