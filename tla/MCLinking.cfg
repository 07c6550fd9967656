CONSTANTS
  app = app
  dep = dep
  leaf = leaf
  virt = virt
  gone = gone
  symbol = symbol
  Libs = {app, dep, leaf, virt, gone}
  Syms = {symbol}
  LibCxx = gone
  Worlds <- AllWorlds
  MaxLoads = 2
  MaxDepth = 4
SPECIFICATION MCSpec
INVARIANTS InitExactlyOnce LookupExact
PROPERTIES InitOrder 
CHECK_DEADLOCK FALSE
