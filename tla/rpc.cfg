\* Two threads, two methods, three calls.
CONSTANTS
  Thread = {t1, t2}
  Method = {"send", "get"}
  Call <- MCCall
SPECIFICATION FairSpec
INVARIANTS
  TypeOK
  OneOwner
  NeverDeaf
PROPERTIES
  EveryCallAnswered
