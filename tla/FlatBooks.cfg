SPECIFICATION Spec
CONSTANTS
  t1 = t1
  t2 = t2
  u1 = u1
  v1 = v1
  Titles = {t1}
  Urls = {u1}
  Revisions = {v1}
  Writers = {"rdf2latex", "rdf2text"}
  Keys <- TitleKey
  Absent = Absent
  Empty = Empty
  MaxItems = 2
  MaxChapter = 0
  MaxRendered = 1
INVARIANT ServesFlatBooks
