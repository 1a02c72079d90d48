\* The system stops when all rounds are done, or the server was killed.
CHECK_DEADLOCK FALSE
SPECIFICATION BenchSpec
CONSTANTS
  a = a
  b = b
  w1 = w1
  bench = bench
  once = once
  Benchmark <- MCBenchmark
  Once <- MCOnce
  MaxRounds = 2
  hello <- MChello
  zubala <- MCzubala
  Abel <- MCAbel
  Client <- MCClient
  Worker <- MCWorker
  Fd <- MCFd
  Letter <- MCLetter
  Newline = Newline
  dict <- MCdict
  Script <- NoScript
  BufferSize = 3
  NoFd = NoFd
  Nobody = Nobody
PROPERTIES
  RoundEnds
