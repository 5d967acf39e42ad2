SPECIFICATION FairSpec
CONSTANTS
  Packets <- MCPackets
  Cuts <- MCCuts
  Excess <- MCExcess
PROPERTY Returns
