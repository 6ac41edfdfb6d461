--------------------------- MODULE MCClientSession ---------------------------
EXTENDS ClientSession

CONSTANTS u1, u2, k1, k2, l1, l2, c1, c2, r1, r2, none

TwoUsers    == {u1, u2}
TwoTokens   == {k1, k2}
OwnerOfTwo  == [k \in TwoTokens |-> IF k = k2 THEN u2 ELSE u1]
OneAttempt  == {l1}
TwoAttempts == {l1, l2}
OneCleanup  == {c1}
TwoCleanups == {c1, c2}
OneRequest  == {r1}
TwoRequests == {r1, r2}
AllKinds    == {"list", "create", "complete"}
AnyFault    == {"get", "set", "clear"}
Never       == {}
=============================================================================
