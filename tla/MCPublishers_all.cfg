SPECIFICATION Spec
CONSTANTS
  Backends = {"cloudflare", "nsupdate", "route53", "azure", "google"}
  Apex = "apex"
  Owners = {"apex", "host"}
  OtherData = {"apex"}
  Clients = {c1, c2}
  Hashes = {h1, h2}
  Ids = {i1, i2, i3}
  NoId = NoId
  NoOp = NoOp
SYMMETRY Symmetry
INVARIANTS TypeOK PlansSound AloneAccepted
PROPERTIES OthersKept OkMeansDone
