------------------------------ MODULE Thresholds ------------------------------
(***************************************************************************)
(* The quorum sizes a Session computes once, in its constructor, from the  *)
(* number n of entries of the chain's config (src/src/session.cpp).  All   *)
(* of them are size_t values, so arithmetic is modulo SIZE_MOD (2^64 in    *)
(* the build).  The case that meets the modulus is n = 0, a chain config   *)
(* that lists no node: then --t wraps around.                              *)
(***************************************************************************)
EXTENDS Integers

CONSTANT SIZE_MOD   \* the number of values of size_t

ASSUME SizeAssumption == SIZE_MOD \in Nat /\ SIZE_MOD > 4

-----------------------------------------------------------------------------
(* Slips in these definitions that the properties tell from the code.      *)

DeliverThresholdOnce(t) == t

-----------------------------------------------------------------------------
(* Session::getT: the number of faulty parties the session tolerates.      *)
GetT(n) ==
    IF (n \div 3) * 3 = n
    THEN ((n \div 3) - 1) % SIZE_MOD
    ELSE n \div 3

(* Session::getEchoMessageCountTarget: (n + t + 1) / 2, rounded up.        *)
GetEchoMessageCountTarget(n, t) ==
    LET sum == (n + t + 1) % SIZE_MOD
    IN  (sum \div 2) + (sum % 2)

(* The right-hand side 2 * t of the commit test in processMessage.         *)
DeliverThreshold(t) == (2 * t) % SIZE_MOD

=============================================================================
