SPECIFICATION FairSpec
CONSTANTS
  Packets <- MCPackets
  Cuts <- MCCuts
  Excess <- MCExcess
INVARIANTS TypeOK Contained  Reported NothingForbidden
PROPERTY Ends
