SPECIFICATION Spec
CONSTANTS
  r1 = r1
  r2 = r2
  r3 = r3
  h1 = h1
  h2 = h2
  h3 = h3
  read = read
  shell = shell
  out = out
  fetch = fetch
  none = none
  Runs = {r1, r2, r3}
  Hosts = {h1, h2, h3}
  HostOf <- TwoProcesses
  Sessions = {1, 2}
  Requests = {shell, out}
  NoRequest = none
  ToolOf <- MCToolOf
  OutsideRoot = {out}
  Configs <- PermissionLines
  Overlap = FALSE
  Killable = {r1}
  Failing = {r1}
  MaxChunks <- OneChunk
INVARIANTS
  EffectAuthorised
PROPERTIES
  NoDeniedEffect
