CONSTANTS
  ann = ann
  bob = bob
  Users = {ann, bob}
  Nobody = Nobody
  MaxMessages = 2
  MaxOpens = 2
SPECIFICATION FairSpec
CHECK_DEADLOCK FALSE
PROPERTY MessageShown
