CONSTANTS
  Tokens = {t1, t2}
  Clocks = {95}
  Tops = {127, 100}
  MaxCalls = 3
SPECIFICATION SpecShim
CHECK_DEADLOCK FALSE
INVARIANTS HandedOver Understood
PROPERTY RequestAnswered
