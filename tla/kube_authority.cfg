SPECIFICATION KubernetesSpec
CONSTANTS
  Resources = {"service", "ingress"}
  Objects = {w1, w2}
  MaxObjects = 1
  ChannelRoom = 1
  LastChange = 3
  Freezes = 1
INVARIANTS
  AuthorityComplete
CHECK_DEADLOCK FALSE
