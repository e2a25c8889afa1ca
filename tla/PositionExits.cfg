\* Three sellers of one position, two of them from the row of a signal that
\* may be edited.
SPECIFICATION Spec
CONSTANTS
  a = a  b = b  m1 = m1  bot = bot  app = app  scan = scan
  Symbol = {a, b}
  Message = {m1}
  Traded = {a}
  Manager = {bot, app}
  Bot = bot
  Engine = {scan}
  FlattenOn = TRUE
  MaxShares = 1
INVARIANTS TypeOK OversoldExplained SalesPerOpening FlattenSpares
PROPERTIES GivenUpUnheld
