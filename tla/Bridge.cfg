SPECIFICATION Spec
CONSTANTS
  s1 = s1
  s2 = s2
  s3 = s3
  t1 = t1
  t2 = t2
  edit = edit
  create = create
  txn = txn
  conflict = conflict
  Servers = {s1, s2, s3}
  Ports = {1, 2}
  Tasks = {t1, t2}
  Items = {edit, create, txn, conflict}
  KindOf <- Kind
  NoFile = NoFile
  NoServer = NoServer
  Worlds <- AllWorlds
INVARIANT ServingIsPublished
INVARIANT AtMostOnce
INVARIANT RevokedRefused
PROPERTY TokenKept
CHECK_DEADLOCK FALSE
