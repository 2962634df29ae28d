SPECIFICATION FairSpec
CONSTANTS
  r1 = r1
  r2 = r2
  r3 = r3
  h1 = h1
  h2 = h2
  h3 = h3
  read = read
  shell = shell
  out = out
  fetch = fetch
  none = none
  Runs = {r1, r2}
  Hosts = {h1, h2, h3}
  HostOf <- OwnProcess
  Sessions = {1}
  Requests = {read, fetch}
  NoRequest = none
  ToolOf <- MCToolOf
  OutsideRoot = {}
  Configs <- LiveLines
  Overlap = FALSE
  Killable = {r1, r2}
  Failing = {}
  MaxChunks <- ThreeOne
INVARIANTS
  MessagesStreamed
  ToolLifecycle
PROPERTIES
  EveryRunEnds
