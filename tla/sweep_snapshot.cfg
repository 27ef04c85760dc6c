SPECIFICATION Spec
CONSTANTS
  vm = vm
  disk = disk
  nic = nic
  ip = ip
  free = free
  lb = lb
  nat = nat
  net = net
  other = other
  sub = sub
  gws = gws
  nsg = nsg
  snap = snap
  img = img
  VMs = {vm}
  Disks = {disk}
  Nics = {nic}
  Addresses = {ip, free}
  Balancers = {lb}
  Gateways = {nat}
  Networks = {net, other}
  Subnets = {sub, gws}
  Nsgs = {nsg}
  Snapshots = {snap}
  Images = {img}
  NetworkOf <- MCNetworkOf
  SourceOf <- MCSourceOf
  BootedFrom <- MCBootedFrom
  Unbilled = {free}
  Links <- MCLinks
  Starts <- SnapshotStarts
  Elsewhere = Elsewhere
  None = None
  Scopes <- SnapshotScopes
  AzureNamed = {gws}
PROPERTIES
  SourceIsGone
