\* Four cells, two item values, requests that may exceed the capacity.
CONSTANTS
  Item = {a, b}
  BufSize = 4
  MaxCount = 5
SPECIFICATION Spec
INVARIANT TypeOK
PROPERTY ImplementsFifo
