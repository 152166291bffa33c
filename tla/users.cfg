SPECIFICATION Spec
CONSTANTS
  c1 = c1
  c2 = c2
  c3 = c3
  r1 = r1
  r2 = r2
  u1 = u1
  u2 = u2
  ada = ada
  bob = bob
  lower = lower
  upper = upper
  other = other
  nodot = nodot
  blank = blank
  nothing = nothing
  Clients = {c1, c2, c3}
  Replicas = {r1, r2}
  ReplicaOf <- TwoOnOne
  UserIDs = {u1, u2}
  Names = {ada, bob}
  Emails = {lower, upper, other, nodot}
  Normal <- LowerCase
  Blank = blank
  Nothing = nothing
  CreateCommands <- Creates
  UpdateCommands <- Updates
  MaxVersion = 1
  Faults = {"load", "save", "update", "publish", "read", "crash"}
SYMMETRY CallersAlike
INVARIANTS
  TypeOK
  EmailsUnique
  ReadYourWrites
  OwnUpdatesKept
  CreatedWereStored
