SPECIFICATION FairSpec
CONSTANTS
  Host = Host
  Chip = Chip
  MaxFrags = 2
  SeqMod = 8
  RetryMod = 4
  RetryLimit = 3
  FifoCap = 2
  HostSends = 2
  ChipSends = 1
  MaxDamage = 1
  MaxTimeout = 0
  MaxRestart = 0
INVARIANTS
  ExactlyOnceWithoutFaults
  SentIsReceivedWithoutFaults
PROPERTY SendingEnds
CHECK_DEADLOCK FALSE
