CONSTANTS
  Worker = {w1}
SPECIFICATION Spec
PROPERTY TermExits
