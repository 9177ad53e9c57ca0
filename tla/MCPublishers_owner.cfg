SPECIFICATION Spec
CONSTANTS
  Backends = {"cloudflare"}
  Apex = "apex"
  Owners = {"apex", "host"}
  OtherData = {"apex"}
  Clients = {c1}
  Hashes = {h1, h2}
  Ids = {i1, i2, i3}
  NoId = NoId
  NoOp = NoOp

PROPERTIES OnlyItsOwner
