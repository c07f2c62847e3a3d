\* The life of a pending folder: two folders, one scrape command, two fetches.
CONSTANTS
  Folder = {f1, f2}
  Mapped = {f1, f2}
  Removable = {}
  Scraper = {s1}
  Gen = gen
  Ses = ses
  MaxFetches = 2
  MaxEdits = 0
SPECIFICATION Spec
SYMMETRY FolderSymmetry
INVARIANTS
  BatchIsSettled
PROPERTIES
  NoFetchLost
  OutcomesCarried
  LifeImplemented
