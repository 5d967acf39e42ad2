SPECIFICATION Spec
CONSTANTS
  Packets <- MCPackets
  Cuts <- MCCuts
  Excess <- MCExcess
INVARIANT UnknownIgnored
