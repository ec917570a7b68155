\* Two contexts of the subscriber, one SUCI; the USIM starts ahead of the
\* UDR by less than a step, so that a resynchronisation races a fresh vector.
SPECIFICATION Spec
CONSTANTS
  Contexts = {a1, a2}
  Sucis = {s1}
  MaxCalls = 3
  MaxRetx = 1
  UsimSqns = {3}
  FailCauses = {"again"}
  Tasks = {t1}
  Kinds = {sor}
  CounterMax = 2
  IndSize = 2
  SqnSize = 64
  NoSuci = NoSuci
INVARIANTS
  TypeOK
  KeyAgreement
  MacKeyKnown
  RejectedOnlyByRival
PROPERTIES
  SqnAdvances
CHECK_DEADLOCK FALSE
