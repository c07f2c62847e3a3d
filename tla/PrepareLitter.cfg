\* A run that is cut short, and a rebuild with the feature off.
CONSTANTS
  conf = conf
  vault = vault
  a = a
  b = b
  user = user
  token = token
  on = on
  pref = pref
  duck = duck
  pcsx2 = pcsx2
  ppsspp = ppsspp
  n1 = n1
  n2 = n2
  yes = yes
  no = no
  mild = mild
  hot = hot
  bad = bad
  Section = {a, b}
  Key = {user, token, on, pref}
  Value <- MCValue
  Unwritable = {bad}
  Remove = remove
  Nothing = nothing
  Session = session
  Admin = admin
  File = {conf, vault}
  FormatOf <- MCFormatOf
  Rank <- MCRank
  Enforce <- MCEnforce
  Seed <- MCSeed
  Target = {duck, ppsspp, pcsx2}
  SecretTarget = {ppsspp}
  EncryptTarget = {duck}
  NameAt <- MCNameAt
  TokenAt <- MCTokenAt
  Cache = cache
  Systems = systemsfile
  SystemsDeclared = TRUE
  Name = {n1}
  None = none
  Draft <- MCDraft
  MaxRuns = 2
  MaxSaves = 0
  MaxFaults = 1
  MaxChanges = 0
  MaxRebuilds = 1
  FirstName = n1
SPECIFICATION Spec
INVARIANTS
  NoCredentialLeft
CHECK_DEADLOCK FALSE
