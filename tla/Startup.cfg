CONSTANTS
  onion = onion
  clear = clear
  home = home
  NoNode = NoNode
  MaxRelease = 2
  MaxSerial = 2
  Requires <- MCRequires
  Fork <- MCFork
  Nodes <- MCNodes
  Onion = {onion}
  Local = home
  Lists <- MCLists
  Setups <- MCSetups
  Attempts = 3
SPECIFICATION StartupSpec
INVARIANT
  StartupInv
PROPERTIES
  AdvisorySettles
  NeverOlder
