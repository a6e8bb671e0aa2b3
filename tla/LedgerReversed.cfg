\* Two sessions and three transactions of one unit: bills, transfers, flags and reversals.
SPECIFICATION LedgerSpec
CONSTANTS
  Trx = {t1, t2, t3}
  NoTrx = NoTrx
  Flag = {f1}
  NoFlag = NoFlag
  Session = {s1, s2}
  Kinds = {"VENDOR_BILL", "INTERBANK_TRANSFER"}
  MaxAmount = 1
SYMMETRY Symmetry
INVARIANTS
  ReversedOnce
