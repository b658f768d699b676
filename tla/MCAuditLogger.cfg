\* The log with failing writes, damaged files, restarts and a scan that races.
CONSTANTS
  alice = alice
  system = system
  nobody = nobody
  t1 = t1
  Threads = {t1}
  Operators <- MCOperators
  System = system
  NoOperator = nobody
  Data <- MCData
  MaxEntries = 3
  MaxFile = 3
  MaxLedgers = 5
  MaxFaults = 2
SPECIFICATION Spec
INVARIANT ChainVerifies
PROPERTIES EntriesKept LedgerSpec
