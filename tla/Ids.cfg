SPECIFICATION Spec
CONSTANTS
  p1 = p1
  c1 = c1
  c2 = c2
  n1 = n1
  n2 = n2
  n3 = n3
  Dummy = Dummy
  None = None
  Producers = {p1}
  Consumers = {c1, c2}
  Instances = {n1, n2, n3}
  Uses <- SharingOrDying
  MIN_VIDEO_TUNNEL_ID = 1
  MAX_VIDEO_TUNNEL_ID = 2
  MaxRef = 3
SYMMETRY Addresses
INVARIANTS
  TypeOK
  
  OneInstancePerId
  
  
  
