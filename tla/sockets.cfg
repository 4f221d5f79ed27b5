SPECIFICATION FairSpec
CONSTANTS
  k1 = k1  k2 = k2  k3 = k3  alice = alice  bob = bob  r1 = r1  e1 = e1
  None = None
  Clients = {k1, k2}
  Users = {alice}
  Rooms = {r1}
  Emissions = {e1}
  UserOf <- MCUserOf
CHECK_DEADLOCK FALSE
INVARIANTS TypeOK TablesAgree
PROPERTIES EveryoneIsTold DeadPeerIsReleased
