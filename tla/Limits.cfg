SPECIFICATION FairSpec
CONSTANTS
  alice = alice
  bob = bob
  home = home
  packs = packs
  api = api
  Users = {alice, bob}
  Ips = {home}
  Newcomers = {bob}
  Types = {packs, api}
  Watched = {packs}
  Access <- MCAccess
  UserLimit <- MCUserLimit
  IpLimit <- MCIpLimit
  Expiry = 2
  Remembered = 4
  MaxAccounts = 1
INVARIANTS WindowNeverExceeded WeakSignsNeverBlock
PROPERTIES RefusalsAreFree RoomReturns
