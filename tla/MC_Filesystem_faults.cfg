\* Two files in one folder; two driver calls of an operation may fail.
CONSTANTS
  Root = Root
  store = store
  dcim = dcim
  img1 = img1
  img2 = img2
  Dirs = {store, dcim}
  Parent <- Tree
  Keys <- TwoFiles
  Perms = {"ro", "rw"}
  Protected = {"ro"}
  Null = Null
  Keep = 1
  HasDeleteAll = TRUE
  Faulty <- AllButFolderList
  Partial <- MayHaveWorked
  MaxCalls = 2
  MaxEvents = 1
SPECIFICATION Spec
INVARIANTS  InfoTrue NoStaleNode
