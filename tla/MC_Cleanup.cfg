SPECIFICATION FairSpec
CONSTANTS
  start = start
  conf = conf
  restart = restart
  rule = rule
  update = update
  reboot = reboot
  iface = iface
  None = None
  Action <- MCAction
  Tag <- MCAction
  tag <- MCTag
  prio <- MCPrio
  need <- MCNeed
  nested <- MCNested
  once = {reboot}
  MaxAdds = 4
  MaxKills = 1
INVARIANTS
  TypeOK
  NothingForgotten
  NeedsBehind
PROPERTIES
  KeepsPromise
  CleanupHappens
