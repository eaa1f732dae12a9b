\* The second call reads a MAC address from the printed text.
SPECIFICATION Spec
CONSTANTS
  c = c
  blank = blank
  Blank = blank
  Bits = 3
  Base = 2
  Length = 2
  Visible = 1
  Columns = 2
  MaxChanges = 2
  Screens = {1, 3}
  Chars = {c, blank}
  Names <- TheNames
  Devices <- TheDevices
INVARIANT MacReplayed
