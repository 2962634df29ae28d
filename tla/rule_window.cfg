SPECIFICATION WindowSpec
CONSTANTS
  r1 = r1
  r2 = r2
  r3 = r3
  h1 = h1
  h2 = h2
  h3 = h3
  read = read
  shell = shell
  out = out
  fetch = fetch
  none = none
  Runs = {r1, r2}
  Hosts = {h1, h2, h3}
  HostOf <- OwnProcess
  Sessions = {1, 2}
  Requests = {shell}
  NoRequest = none
  ToolOf <- MCToolOf
  OutsideRoot = {}
  Configs <- WindowLines
  Overlap = TRUE
  Killable = {r1}
  Failing = {}
  MaxChunks <- TwoOne
INVARIANTS
  EffectAuthorised
PROPERTIES
  DenyOutlivesStart
  AllowOutlivesStart
