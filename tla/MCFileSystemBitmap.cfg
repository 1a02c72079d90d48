SPECIFICATION MountSpec
CONSTANTS
  total_inodes = 4
  total_data_blocks = 9
  block_size = 2
  DataBlocks = 2
  x = x
  y = y
  letter1 = letter1
  letter2 = letter2
  Name = {x, y}
  Char = {letter1, letter2}
  Nul = Nul
  Content <- MCContent
  MaxSessions = 2
INVARIANTS BitmapInSync
