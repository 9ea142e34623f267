\* Both sides send over a carrier that loses, duplicates and reorders; counters
\* end at 2.
CONSTANTS
  data = data
  big = big
  bye = bye
  Message = {data, big, bye}
  Close = bye
  Large = {big}
  MaxPending = 1
  CounterMax = 2
SPECIFICATION FairSpec
INVARIANTS TypeOK NonceNeverReused NextFrameDecrypts CloseIsLast CountersAgree
PROPERTIES ImplementsFifo 
