SPECIFICATION Spec
CONSTANTS
  Host = Host
  Chip = Chip
  MaxFrags = 3
  SeqMod = 16
  RetryMod = 4
  RetryLimit = 3
  FifoCap = 2
  HostSends = 2
  ChipSends = 0
  MaxDamage = 2
  MaxTimeout = 1
  MaxRestart = 1
INVARIANTS
  ReassemblyFits
  FragmentIsItsPiece
PROPERTY ChannelSpec
CHECK_DEADLOCK FALSE
