\* The listing of files may fail.
CONSTANTS
  Root = Root
  store = store
  dcim = dcim
  img1 = img1
  img2 = img2
  Dirs = {store, dcim}
  Parent <- Tree
  Keys <- TwoFiles
  Perms = {"rw"}
  Protected = {}
  Null = Null
  Keep = 0
  HasDeleteAll = FALSE
  Faulty <- Listing
  Partial <- NoFunctions
  MaxCalls = 1
  MaxEvents = 0
SPECIFICATION Spec
INVARIANT DeleteAllDeletes
