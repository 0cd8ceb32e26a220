SPECIFICATION Spec
CONSTANTS
  old = old
  new = new
  q1 = q1
  q2 = q2
  q3 = q3
  Process = {old, new}
  Request = {q1, q2, q3}
  Of <- MCOf
  Nobody = Nobody
  Styles = {"fortnox", "google", "kth"}
  MaxToken = 3
  MaxTrouble = 1
SYMMETRY Symmetric
CHECK_DEADLOCK FALSE
INVARIANT RotationIsKept
INVARIANT HerdIsShared
INVARIANT DeadGrantIsAskedOnce
INVARIANT RetiredTokenIsNoFailure
