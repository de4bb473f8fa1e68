SPECIFICATION Spec
CONSTANTS
  a = a
  b = b
  e = e
  big = big
  Junk = Junk
  None = None
  Message = {a, b}
  Script <- MCScript
  Size <- MCSize
  header_size = 2
  send_buffer_size = 18
  send_chunk = 7
  receive_chunk = 3
  buffer_relax = 2
  OS_MAXSTR = 3
CONSTRAINT OneDirection
INVARIANTS
  TypeOK
  StreamIntact
  
  MessagesInOrder
