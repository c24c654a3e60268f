--------------------------- MODULE ThresholdsProofs ---------------------------
(* Facts about the quorum sizes, for every size of a chain config that     *)
(* memory can hold (the sums stay below SIZE_MOD).                         *)
EXTENDS Thresholds, TLAPS

(* x % m is x for a number below m.                                        *)
LEMMA ModSmall ==
    ASSUME NEW m \in Nat \ {0}, NEW x \in Nat, x < m
    PROVE  x % m = x
  BY SMT

(* getT gives the largest t with 3 * t < n: it tolerates fewer than a      *)
(* third of the nodes, and as many as that allows.                         *)
THEOREM GetTIsLargest ==
    ASSUME NEW n \in Nat \ {0}, n < SIZE_MOD
    PROVE  /\ GetT(n) \in Nat
           /\ 3 * GetT(n) < n
           /\ n <= 3 * (GetT(n) + 1)
<1>1. SIZE_MOD \in Nat \ {0}
  BY SizeAssumption
<1>2. CASE (n \div 3) * 3 = n
  <2>1. (n \div 3) - 1 \in Nat /\ (n \div 3) - 1 < SIZE_MOD
    BY <1>1, <1>2
  <2>2. GetT(n) = (n \div 3) - 1
    BY <1>1, <1>2, <2>1, ModSmall DEF GetT
  <2>3. QED
    BY <1>2, <2>1, <2>2
<1>3. CASE (n \div 3) * 3 # n
  BY <1>3 DEF GetT
<1>4. QED
  BY <1>2, <1>3

(* getEchoMessageCountTarget is (n + t + 1) / 2 rounded up: two sets of    *)
(* that many nodes share more than t nodes, and the nodes that are left    *)
(* when t do not answer can still fill one.                                *)
THEOREM EchoQuorumsShareMoreThanT ==
    ASSUME NEW n \in Nat \ {0}, 3 * n < SIZE_MOD
    PROVE  LET t == GetT(n)
               target == GetEchoMessageCountTarget(n, t)
           IN  /\ target \in Nat
               /\ 2 * target > n + t
               /\ target <= n - t
<1> DEFINE t == GetT(n)
           sum == n + t + 1
<1>1. t \in Nat /\ 3 * t < n
  BY GetTIsLargest, SizeAssumption
<1>2. sum % SIZE_MOD = sum
  BY <1>1, SizeAssumption, ModSmall
<1>3. GetEchoMessageCountTarget(n, t) = (sum \div 2) + (sum % 2)
  BY <1>2 DEF GetEchoMessageCountTarget
<1>4. sum \in Nat
  BY <1>1
<1> HIDE DEF t
<1>5. /\ (sum \div 2) + (sum % 2) \in Nat
      /\ 2 * ((sum \div 2) + (sum % 2)) >= sum
      /\ 2 * ((sum \div 2) + (sum % 2)) <= sum + 1
  <2>1. \A x \in Nat : /\ (x \div 2) + (x % 2) \in Nat
                       /\ 2 * ((x \div 2) + (x % 2)) >= x
                       /\ 2 * ((x \div 2) + (x % 2)) <= x + 1
    BY SMT
  <2>2. QED
    BY <1>4, <2>1
<1>6. QED
  BY <1>1, <1>3, <1>5 DEF t

(* The target is the least number two sets of which share more than t      *)
(* nodes: any k nodes with 2 * k > n + t fill a quorum.                    *)
THEOREM EchoTargetIsLeast ==
    ASSUME NEW n \in Nat \ {0}, 3 * n < SIZE_MOD,
           NEW k \in Nat, 2 * k > n + GetT(n)
    PROVE  GetEchoMessageCountTarget(n, GetT(n)) <= k
<1> DEFINE sum == n + GetT(n) + 1
<1>1. GetT(n) \in Nat /\ 3 * GetT(n) < n
  BY GetTIsLargest, SizeAssumption
<1>2. sum % SIZE_MOD = sum
  BY <1>1, SizeAssumption, ModSmall
<1>3. GetEchoMessageCountTarget(n, GetT(n)) = (sum \div 2) + (sum % 2)
  BY <1>2 DEF GetEchoMessageCountTarget
<1>4. sum \in Nat /\ 2 * k >= sum
  BY <1>1
<1>5. \A x \in Nat : 2 * k >= x => (x \div 2) + (x % 2) <= k
  BY SMT
<1>6. QED
  BY <1>3, <1>4, <1>5

(* The n - t nodes that may be all that answer can fill a READY quorum of  *)
(* 2 * t + 1, and the product 2 * t does not wrap around.                  *)
THEOREM ReadyQuorumReachable ==
    ASSUME NEW n \in Nat \ {0}, 3 * n < SIZE_MOD
    PROVE  /\ DeliverThreshold(GetT(n)) = 2 * GetT(n)
           /\ DeliverThreshold(GetT(n)) + 1 <= n - GetT(n)
<1>1. GetT(n) \in Nat /\ 3 * GetT(n) < n
  BY GetTIsLargest, SizeAssumption
<1>2. DeliverThreshold(GetT(n)) = 2 * GetT(n)
  BY <1>1, SizeAssumption, ModSmall DEF DeliverThreshold
<1>3. QED
  BY <1>1, <1>2

(* A chain config without nodes makes --t wrap around: the session takes   *)
(* one ECHO for a quorum, and commits only on SIZE_MOD - 1 READYs.         *)
THEOREM EmptyChain ==
    /\ GetT(0) = SIZE_MOD - 1
    /\ GetEchoMessageCountTarget(0, GetT(0)) = 0
    /\ DeliverThreshold(GetT(0)) = SIZE_MOD - 2
<1> DEFINE S == SIZE_MOD
<1>1. S \in Nat /\ S > 4
  BY SizeAssumption
<1> HIDE DEF S
<1>2. (0 \div 3) * 3 = 0 /\ (0 \div 3) - 1 = -1
  OBVIOUS
<1>3. (-1) % S = S - 1
  <2>1. (-1) = S * (-1) + (S - 1)
    BY <1>1
  <2>2. QED
    BY <1>1, <2>1, SMT
<1>4. S % S = 0
  BY <1>1, SMT
<1>5. (2 * (S - 1)) % S = S - 2
  BY <1>1, SMT
<1>6. QED
  BY <1>1, <1>2, <1>3, <1>4, <1>5
  DEF S, GetT, GetEchoMessageCountTarget, DeliverThreshold
=============================================================================
