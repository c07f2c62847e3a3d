\* Who holds the claim and what the work areas and the gamelist keep: two scrape commands, one
\* folder that the family may delete and copy back, two fetches, a frontend that rewrites its
\* gamelist; and, under fairness, whether the session and a generator get past it all.
CONSTANTS
  Folder = {f1}
  Mapped = {f1}
  Removable = {f1}
  Scraper = {s1, s2}
  Gen = gen
  Ses = ses
  MaxFetches = 2
  MaxEdits = 1
SPECIFICATION FairSpec
INVARIANTS
  ClaimExclusive
PROPERTIES
  WorkOutlivesChild
  FamilyDataKept
  FrontendReached
  GenerationEnds
