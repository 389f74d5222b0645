SPECIFICATION Spec
CONSTANTS
  Threads = {t1, t2}
  Interfaces = {ccmni0}
  Values = {0, 1}
  Answers <- MC_Answers
  MaxLeaks = 1
INVARIANTS TypeOK Ipv6OffExcused DescriptorsClosed
PROPERTIES Ipv6ComesBack ThrottleReturns
