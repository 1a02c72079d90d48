SPECIFICATION Spec
CONSTANTS
  a = a
  b = b
  c1 = c1
  c2 = c2
  w1 = w1
  w2 = w2
  Client <- TwoClients
  Worker <- TwoWorkers
  Fd <- TwoFds
  Letter <- TwoLetters
  Newline = Newline
  dict <- MCdict
  Script <- TwoWords
  BufferSize = 3
  NoFd = NoFd
  Nobody = Nobody
SYMMETRY Alike
INVARIANTS
  TypeOK
  DescriptorOwned
  StreamIntegrity
  LogOrder
