SPECIFICATION Spec
CONSTANTS
  owner = owner
  admin = admin
  Requests = {1, 2, 3}
  Sessions = {1, 2}
  Users = {owner, admin}
  Readers = {admin}
  Administrators = {admin}
  NoUser = NoUser
  PageSize = 1
  MaxSends = 2
  MaxOpen = 2
INVARIANTS TypeOK IInv
CHECK_DEADLOCK FALSE
