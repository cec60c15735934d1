SPECIFICATION EdcFairSpec
CONSTANTS
  MaxPackets = 3
  MaxBehind = 4
INVARIANTS PopsArePaid NeverBackwards
PROPERTIES AllDelivered ImplementsPttDelivery
