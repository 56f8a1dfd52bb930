SPECIFICATION SpecEither
CONSTANTS
  RootEntries = 2
  BlockCounts = {0, 3}
  PerBlock = 2
  PageBlocks = 2
  PageBits = 16
  BitmapBits = 8
  ByteBits = 2
  MaxRoom = 2
  Faults = TRUE
INVARIANTS
  EveryEntryOnce
  
  LookupRight
PROPERTY
  ListingTerminates
