\* Files in two folders, one below the other; two notices may be unread.
CONSTANTS
  Root = Root
  store = store
  dcim = dcim
  img1 = img1
  img2 = img2
  Dirs = {store, dcim}
  Parent <- Tree
  Keys <- ThreeFiles
  Perms = {"rw"}
  Protected = {}
  Null = Null
  Keep = 1
  HasDeleteAll = FALSE
  Faulty <- NoFunctions
  Partial <- NoFunctions
  MaxCalls = 0
  MaxEvents = 2
SPECIFICATION Spec
INVARIANTS TypeOK Coherent LruIntact DeleteAllDeletes
