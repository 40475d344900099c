CONSTANTS
  Calls = {c1, c2}
  Payloads = {transfer}
  MaxHead = 1
  Ttl = 1
  None = None
  c1 = c1
  c2 = c2
  transfer = transfer
SPECIFICATION Spec
SYMMETRY Symmetry
INVARIANT
  SentAsSigned
