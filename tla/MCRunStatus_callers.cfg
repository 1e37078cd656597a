\* Two transactions and a caller without one.
CONSTANTS
  Jobs = {a, b}
  Caller = {t1, t2, u}
  Unwrapped = {u}
  Written = {"running", "success"}
  MaxVersion = 4
SPECIFICATION Spec
INVARIANTS RunIsAggregate
SYMMETRY Symmetry
\* MaxVersion stops the callers.
CHECK_DEADLOCK FALSE
