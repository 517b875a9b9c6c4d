SPECIFICATION Spec
CONSTANTS
  root = root
  alice = alice
  nobody = nobody
  k1 = k1
  k2 = k2
  s0 = s0
  s1 = s1
  host = host
  Users = {root, alice, nobody}
  Accounts = {root, alice}
  Root = root
  NoUser = NoUser
  Keys = {k1, k2}
  NoKey = NoKey
  Holders <- MCHolders
  ForcedKeys = {k1}
  SessionIds = {s0, s1}
  NoId = NoId
  Clients = {host}
  Trusted <- MCTrusted
  EmptyPasswd = {alice}
  PermitRootLogin = "forced-commands-only"
  PermitEmptyPasswd = TRUE
  PasswordAuthentication = TRUE
  Sid = s1
  MadeSigs <- MCSigs
  Banner = TRUE
  PubkeyAuthentication = TRUE
  HostbasedAuthentication = TRUE
  MaxAuthTries = 0
INVARIANTS TypeOK GrantEarned NeverUnexpected Agreement AllowedDuringRequest
PROPERTIES IdentityFixed AuthEnds
CHECK_DEADLOCK FALSE
