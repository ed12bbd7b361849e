SPECIFICATION Spec
CONSTANTS
  Own = {1, 2, 3, 5}
  Other = {4}
  Added = {5}
  Seen = {2}
  MEDIA_PAGE_SIZE = 2
  Media = {1, 2}
  End = 2
  Files = {"f1", "f2"}
  Urls = {"u1", "u2"}
  Held = {1, 2}
INVARIANTS
  ListsTell
  ChoicesKept
  DialogsTell
CHECK_DEADLOCK FALSE
