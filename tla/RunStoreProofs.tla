---------------------------- MODULE RunStoreProofs ----------------------------
(***************************************************************************)
(* What every implementation of RunStore has: sync vouches for whole runs, *)
(* and they stay whole until they expire.                                  *)
(***************************************************************************)
EXTENDS RunStore, TLAPS

\* A step keeps the types.
LEMMA StepType ==
  ASSUME TypeOK, [Next]_vars
  PROVE  TypeOK'
<1>1. CASE UNCHANGED vars
  BY <1>1 DEF vars, TypeOK
<1>2. CASE Tick
  <2>1. now + 1 \in Day
    BY <1>2, MaxDayAssumption DEF Tick, TypeOK, Day
  <2> QED
    BY <1>2, <2>1 DEF Tick, TypeOK
<1>3. ASSUME NEW r \in Run, Stamp(r) \/ Vouch(r)
      PROVE  TypeOK'
  BY <1>3 DEF Stamp, Vouch, TypeOK
<1>4. ASSUME NEW r \in Run, Appear(r) \/ Complete(r) \/ Retire(r)
      PROVE  TypeOK'
  <2>1. \E c \in Content : Becomes(r, c)
    BY <1>4 DEF Appear, Complete, Retire, Content
  <2>2. content' \in [Run -> Content]
    BY <2>1 DEF Becomes, TypeOK
  <2> QED
    BY <1>4, <2>2 DEF Appear, Complete, Retire, TypeOK
<1> QED
  BY <1>1, <1>2, <1>3, <1>4 DEF Next

LEMMA StepVouched ==
  ASSUME TypeOK, VouchedInv, [Next]_vars
  PROVE  VouchedInv'
<1>1. CASE UNCHANGED vars
  BY <1>1 DEF vars, VouchedInv, Expired
<1>2. CASE Tick
  <2>1. \A q \in Run : Expired(q) => Expired(q)'
    BY <1>2, RetentionDaysAssumption DEF Tick, Expired, BeforeCutoff, TypeOK, Day
  <2> QED
    BY <1>2, <2>1 DEF Tick, VouchedInv, TypeOK
<1>3. ASSUME NEW r \in Run, Stamp(r)
      PROVE  VouchedInv'
  <2>1. r \notin vouched
    BY <1>3 DEF Stamp, VouchedInv
  <2> QED
    BY <1>3, <2>1 DEF Stamp, VouchedInv, Expired, TypeOK
<1>4. ASSUME NEW r \in Run, Vouch(r)
      PROVE  VouchedInv'
  BY <1>4 DEF Vouch, VouchedInv, Expired
<1>5. ASSUME NEW r \in Run, Appear(r) \/ Complete(r)
      PROVE  VouchedInv'
  <2>1. r \notin vouched
    BY <1>5 DEF Appear, Complete, VouchedInv
  <2>2. \A q \in vouched : content'[q] = content[q]
    BY <1>5, <2>1 DEF Appear, Complete, Becomes, TypeOK
  <2> QED
    BY <1>5, <2>2 DEF Appear, Complete, VouchedInv, Expired
<1>6. ASSUME NEW r \in Run, Retire(r)
      PROVE  VouchedInv'
  <2>1. content'[r] \in {"rest", "gone"} /\ \A q \in Run \ {r} : content'[q] = content[q]
    BY <1>6 DEF Retire, Becomes, TypeOK
  <2>2. Expired(r) /\ UNCHANGED <<now, finished, vouched>>
    BY <1>6 DEF Retire
  <2> QED
    BY <2>1, <2>2 DEF VouchedInv, Expired, TypeOK
<1> QED
  BY <1>1, <1>2, <1>3, <1>4, <1>5, <1>6 DEF Next

\* A run that sync vouched for is whole as long as it is within the retention
\* window, in whatever implements RunStore (the contract of sync and cleanup).
THEOREM VouchedRunsStayWhole == Spec => []VouchedRunsAreWhole
<1>1. Init => TypeOK /\ VouchedInv
  BY MaxDayAssumption DEF Init, TypeOK, VouchedInv, Day, Content
<1>2. TypeOK /\ VouchedInv /\ [Next]_vars => (TypeOK /\ VouchedInv)'
  BY StepType, StepVouched
<1>3. VouchedInv => VouchedRunsAreWhole
  BY DEF VouchedInv, VouchedRunsAreWhole
<1> QED
  BY <1>1, <1>2, <1>3, PTL DEF Spec
===============================================================================
