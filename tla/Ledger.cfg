\* Two sessions; four transactions of up to two units, with a flag each, in one of three parts.
SPECIFICATION Parts
CONSTANTS
  Trx = {t1, t2, t3, t4}
  NoTrx = NoTrx
  Flag = {f1}
  NoFlag = NoFlag
  Session = {s1, s2}
  Kinds = {"CUSTOMER_INVOICE", "VENDOR_BILL", "INTERBANK_TRANSFER"}
  MaxAmount = 2
SYMMETRY Symmetry
INVARIANTS
  TypeOK
  NoOverAllocation
  SettlementsMatchJournal
  SubledgerMatchesJournal
  StatusMatchesEntry
  ReversedEntriesHaveReversals
PROPERTIES
  JournalIsAppendOnly
