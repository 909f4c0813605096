SPECIFICATION Spec
CONSTANTS
  t1 = t1
  t2 = t2
  u1 = u1
  v1 = v1
  Titles = {t1, t2}
  Urls = {}
  Revisions = {}
  Writers = {"rdf2latex"}
  Keys <- TitleKey
  Absent = Absent
  Empty = Empty
  MaxItems = 2
  MaxChapter = 2
  MaxRendered = 1
INVARIANT ServesWhatWasAsked
