--------------------------------- MODULE Rto ---------------------------------
(***************************************************************************)
(* The retransmission timeout, in microseconds: update_timeout of          *)
(* src/lib/sender.c (ALPHA 1/8, BETA 1/4, results cut to integers) and     *)
(* what set_timer of src/lib/utility.c makes of it.  A timeout of 0 would  *)
(* stop the timer, a negative one end the program.  A sample is the time   *)
(* from the first sending of a packet to the acknowledgement after it.     *)
(***************************************************************************)
EXTENDS Integers, TLAPS

CONSTANTS
  MaxSample,  \* the longest sample
  RTO_0,      \* the timeout before there is any: 500000
  MAX_RTO,    \* the longest a timer is set to: 300000
  INT_MAX     \* the largest int: 2^31 - 1

VARIABLES estimatedRTT, devRTT, timeoutInterval

vars == <<estimatedRTT, devRTT, timeoutInterval>>

\* What is left of a 64-bit value passed as int.
AsInt(v) == ((v + INT_MAX + 1) % (2 * INT_MAX + 2)) - (INT_MAX + 1)

\* What the interval timer is set to.
set_timer(micro) == IF AsInt(micro) >= MAX_RTO THEN MAX_RTO ELSE AsInt(micro)

\* abs of the difference, which fits an int while samples do.
Distance(a, b) == IF a >= b THEN a - b ELSE b - a

initialize_send ==
  /\ estimatedRTT' = 1000
  /\ devRTT' = 1
  /\ timeoutInterval' = RTO_0

update_timeout(sampleRTT) ==
  /\ estimatedRTT' = (7 * estimatedRTT + sampleRTT) \div 8
  /\ devRTT' = (3 * devRTT + Distance(sampleRTT, estimatedRTT')) \div 4
  /\ timeoutInterval' = estimatedRTT' + 4 * devRTT'

Init == estimatedRTT = 1000 /\ devRTT = 1 /\ timeoutInterval = RTO_0
Next == initialize_send \/ \E sampleRTT \in 1 .. MaxSample : update_timeout(sampleRTT)
Spec == Init /\ [][Next]_vars

-----------------------------------------------------------------------------
\* Whenever set_timer is called with the estimate (sender.c:195, :229) the timer is
\* started, with at most MAX_RTO.
TimerIsStarted == set_timer(timeoutInterval) \in 1 .. MAX_RTO

\* The estimate and the deviation stay within the samples; an estimate of at least
\* 1 stays so, since 7/8 of it and 1/8 of a sample make 1.
Estimates ==
  /\ estimatedRTT \in 1 .. MaxSample
  /\ devRTT \in 0 .. MaxSample
  /\ timeoutInterval \in 1 .. INT_MAX

\* A value that fits an int is not changed, so a positive one starts the timer.
LEMMA SetTimerStarts ==
  ASSUME INT_MAX \in Nat, MAX_RTO \in Nat \ {0}, NEW v \in 1 .. INT_MAX
  PROVE  set_timer(v) \in 1 .. MAX_RTO
<1>1. ASSUME NEW m \in Nat, NEW x \in 0 .. m - 1
      PROVE  x % m = x
  BY SMT
<1>2. v + INT_MAX + 1 \in 0 .. (2 * INT_MAX + 2) - 1 /\ 2 * INT_MAX + 2 \in Nat
  BY SMT
<1>3. (v + INT_MAX + 1) % (2 * INT_MAX + 2) = v + INT_MAX + 1
  BY <1>1, <1>2
<1>4. AsInt(v) = v
  BY <1>3, SMT DEF AsInt
<1> QED
  BY <1>4, SMT DEF set_timer

\* If a sample is at least a microsecond, so that the division never makes 0 of the
\* estimate, and at most a fifth of the largest int (seven minutes), so that the
\* estimate and four deviations are an int: then no call of set_timer in a transfer
\* stops the timer or is refused by the kernel (sender.c:222, utility.c:91).
THEOREM TimerAlwaysStarted ==
  ASSUME MaxSample \in Nat, MaxSample >= 1000,
         INT_MAX \in Nat, 5 * MaxSample <= INT_MAX,
         RTO_0 \in 1 .. INT_MAX, MAX_RTO \in Nat \ {0}
  PROVE  Spec => []TimerIsStarted
<1>1. Init => Estimates
  BY SMT DEF Init, Estimates
<1>2. ASSUME Estimates, [Next]_vars
      PROVE  Estimates'
  <2>1. CASE initialize_send
    BY <2>1, SMT DEF initialize_send, Estimates
  <2>2. ASSUME NEW sampleRTT \in 1 .. MaxSample, update_timeout(sampleRTT)
        PROVE  Estimates'
    <3>1. estimatedRTT' \in 1 .. MaxSample
      BY <1>2, <2>2, SMT DEF update_timeout, Estimates
    <3>2. Distance(sampleRTT, estimatedRTT') \in 0 .. MaxSample
      <4>1. \A a, b \in 1 .. MaxSample : Distance(a, b) \in 0 .. MaxSample
        BY SMT DEF Distance
      <4> QED
        BY <3>1, <4>1
    <3>3. devRTT' \in 0 .. MaxSample
      BY <1>2, <2>2, <3>2, SMT DEF update_timeout, Estimates
    <3> QED
      BY <2>2, <3>1, <3>3, SMT DEF update_timeout, Estimates
  <2>3. CASE UNCHANGED vars
    BY <1>2, <2>3, SMT DEF vars, Estimates
  <2> QED
    BY <1>2, <2>1, <2>2, <2>3 DEF Next
<1>3. Estimates => TimerIsStarted
  BY SetTimerStarts DEF Estimates, TimerIsStarted
<1> QED
  BY <1>1, <1>2, <1>3, PTL DEF Spec
=============================================================================
