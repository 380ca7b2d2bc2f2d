---------------------------- MODULE RetryProofs ----------------------------
(***************************************************************************)
(* Theorems about Retry, for any timeout and any number of attempts, as    *)
(* long as no int overflows.                                               *)
(***************************************************************************)
EXTENDS Retry, TLAPS

(* An int in range is read as it is.                                       *)
LEMMA WrapInRange ==
  ASSUME NEW t \in Nat, t <= IntMax
  PROVE  Wrap(t) = t
<1>1. IntMax \in Nat
  BY IntAssumption
<1> DEFINE M == IntMax + 1
<1>2. M \in Nat \ {0} /\ t + M \in Nat /\ t + M < 2 * M
  BY <1>1
<1>3. (t + M) % (2 * M) = t + M
  BY <1>2, Z3
<1> QED
  BY <1>1, <1>3 DEF Wrap

LEMMA SumInRange ==
  ASSUME NEW t \in Nat, NEW d \in Nat, t + d <= IntMax
  PROVE  Sum(t, d) = t + d
BY WrapInRange DEF Sum

LEMMA RetryNumbers ==
  /\ RTimeout \in Nat /\ RAttempts \in Nat /\ Poll \in Nat /\ MaxTime \in Nat
  /\ Poll <= RTimeout /\ RAttempts * RTimeout \in Nat
  /\ \A k \in Nat : k * RTimeout \in Nat
<1>1. RTimeout \in Nat /\ RAttempts \in Nat
  BY RetryAssumption
<1>2. \A k \in Nat : k * RTimeout \in Nat
  BY <1>1
<1> QED
  BY <1>1, <1>2, RetryAssumption

LEMMA LaterIs ==
  ASSUME NEW s \in Int, NEW t \in Int
  PROVE  Later(s, t) \in Int /\ s <= Later(s, t) /\ t <= Later(s, t)
BY DEF Later

LEMMA RetryInit == Init => RetryInv
<1> SUFFICES ASSUME Init PROVE RetryInv
  OBVIOUS
<1>1. TypeOK
  <2>1. MaxTime \in Nat /\ Poll \in Nat
    BY RetryNumbers
  <2>2. /\ now = 0 /\ turned = 0 /\ said = 0 /\ woke = 0 /\ sendtime = 0 /\ attempts = 0
        /\ tried = Never
        /\ sleeping \in BOOLEAN /\ pending \in BOOLEAN /\ rested \in BOOLEAN
    BY DEF Init
  <2> QED
    BY <2>1, <2>2 DEF TypeOK
<1>2. AttemptsInv
  BY DEF Init, AttemptsInv
<1> QED
  BY <1>1, <1>2 DEF RetryInv

LEMMA RetryNext ==
  ASSUME NoWrap, RetryInv, [Next]_vars
  PROVE  RetryInv'
<1>n. /\ RTimeout \in Nat /\ RAttempts \in Nat /\ Poll \in Nat /\ MaxTime \in Nat
      /\ Poll <= RTimeout /\ RAttempts * RTimeout \in Nat
  BY RetryNumbers
<1>t. /\ now \in Nat /\ now <= MaxTime /\ turned \in Nat /\ turned <= now
      /\ now <= turned + Poll
      /\ sleeping \in BOOLEAN /\ pending \in BOOLEAN /\ rested \in BOOLEAN
      /\ said \in Nat /\ said <= now /\ woke \in Nat /\ woke <= now
      /\ tried \in {Never} \cup 0 .. now /\ sendtime \in Nat /\ attempts \in Int
  BY <1>n DEF RetryInv, TypeOK
<1>r. Reading = now
  BY <1>n, <1>t, IntAssumption, WrapInRange DEF Reading, NoWrap
<1>l. /\ Later(said, woke) \in Int
      /\ said <= Later(said, woke) /\ woke <= Later(said, woke)
  <2>1. said \in Int /\ woke \in Int
    BY <1>t
  <2> QED
    BY <2>1, LaterIs
<1>a. pending =>
        /\ attempts \in Nat /\ attempts <= RAttempts
        /\ attempts * RTimeout \in Nat
        /\ sendtime <= now + RTimeout
        /\ sendtime + attempts * RTimeout = said + RAttempts * RTimeout
        /\ ~ sleeping =>
             turned + attempts * RTimeout <= Later(said, woke) + RAttempts * RTimeout
        /\ ~ rested =>
             /\ ~ sleeping /\ turned <= sendtime
             /\ tried # Never => sendtime >= tried + RTimeout - Poll
  <2> SUFFICES ASSUME pending
               PROVE  attempts \in Nat /\ attempts <= RAttempts /\ attempts * RTimeout \in Nat
    BY DEF RetryInv, AttemptsInv
  <2>1. attempts \in Nat /\ attempts <= RAttempts
    BY <1>n DEF RetryInv, AttemptsInv
  <2> QED
    BY <1>n, <2>1
<1>1. CASE Tick
  <2>1. /\ now' = now + 1 /\ now < MaxTime /\ now < turned + Poll
        /\ UNCHANGED <<sleeping, turned, woke, pending, sendtime, attempts, said,
                       tried, rested>>
    BY <1>1 DEF Tick, message
  <2>2. TypeOK'
    <3>1. tried' \in {Never} \cup 0 .. now'
      BY <1>t, <2>1
    <3> QED
      BY <1>n, <1>t, <2>1, <3>1 DEF TypeOK
  <2>3. AttemptsInv'
    <3>1. sendtime <= now + RTimeout => sendtime <= now' + RTimeout
      BY <1>n, <1>t, <2>1
    <3> QED
      BY <1>n, <1>a, <2>1, <3>1 DEF AttemptsInv, RetryInv
  <2> QED
    BY <2>2, <2>3 DEF RetryInv
<1>2. CASE Say
  <2>1. /\ pending' /\ pending' \in BOOLEAN /\ sendtime' = now /\ attempts' = RAttempts
        /\ said' = now /\ tried' = Never /\ rested' = sleeping
        /\ UNCHANGED <<now, sleeping, turned, woke>>
    BY <1>2, <1>r DEF Say
  <2>2. Later(now, woke) = now
    BY <1>t DEF Later
  <2>3. TypeOK'
    BY <1>n, <1>t, <2>1 DEF TypeOK
  <2>4. AttemptsInv'
    BY <1>n, <1>t, <2>1, <2>2 DEF AttemptsInv
  <2> QED
    BY <2>3, <2>4 DEF RetryInv
<1>3. CASE Confirm
  <2>1. ~ pending' /\ pending' \in BOOLEAN
        /\ UNCHANGED <<now, sleeping, turned, woke, sendtime, attempts, said, tried, rested>>
    BY <1>3 DEF Confirm
  <2>2. TypeOK'
    BY <1>n, <1>t, <2>1 DEF TypeOK
  <2> QED
    BY <2>1, <2>2 DEF RetryInv, AttemptsInv
<1>4. CASE Turn
  <2>0. UNCHANGED <<now, sleeping, woke, said, rested>> /\ turned' = now
    BY <1>4 DEF Turn
  <2>1. CASE GiveUp
    <3>1. ~ pending' /\ pending' \in BOOLEAN /\ attempts' = attempts - 1
          /\ UNCHANGED <<sendtime, tried>>
      BY <2>1 DEF GiveUp
    <3>2. TypeOK'
      BY <1>n, <1>t, <2>0, <3>1 DEF TypeOK
    <3> QED
      BY <3>1, <3>2 DEF RetryInv, AttemptsInv
  <2>2. CASE Attempt
    <3>1. /\ ~ sleeping /\ pending /\ now >= sendtime /\ attempts > 0
          /\ attempts' = attempts - 1 /\ pending' = pending /\ tried' = now
      BY <1>r, <2>2 DEF Attempt, Due
    <3>2. sendtime' = sendtime + RTimeout
      <4>1. sendtime + RTimeout <= IntMax /\ IntMax \in Nat
        BY <1>n, <1>t, <3>1, IntAssumption DEF NoWrap
      <4> QED
        BY <1>n, <1>t, <2>2, <4>1, SumInRange DEF Attempt, NextTry
    <3>3. attempts' * RTimeout = attempts * RTimeout - RTimeout
      BY <1>n, <1>a, <3>1
    <3>4. sendtime' + attempts' * RTimeout = said' + RAttempts * RTimeout
      BY <1>n, <1>t, <1>a, <2>0, <3>1, <3>2, <3>3
    <3>5. turned' + attempts' * RTimeout <= Later(said, woke)' + RAttempts * RTimeout
      BY <1>n, <1>t, <1>a, <1>l, <2>0, <3>1, <3>3
    <3>6. ~ rested' => /\ ~ sleeping' /\ turned' <= sendtime'
                       /\ sendtime' >= tried' + RTimeout - Poll
      BY <1>n, <1>t, <1>a, <2>0, <3>1, <3>2
    <3>7. attempts' \in 0 .. RAttempts /\ sendtime' <= now' + RTimeout
      BY <1>n, <1>t, <1>a, <2>0, <3>1, <3>2
    <3>8. TypeOK'
      BY <1>n, <1>t, <2>0, <3>1, <3>2 DEF TypeOK
    <3> QED
      BY <3>4, <3>5, <3>6, <3>7, <3>8 DEF RetryInv, AttemptsInv
  <2>3. CASE ~ Due /\ UNCHANGED <<pending, sendtime, attempts, tried>>
    <3>1. pending /\ ~ sleeping => now < sendtime
      BY <1>r, <1>t, <2>3 DEF Due
    <3>2. pending /\ ~ sleeping =>
            now + attempts * RTimeout <= Later(said, woke) + RAttempts * RTimeout
      BY <1>n, <1>t, <1>a, <1>l, <3>1
    <3>3. TypeOK'
      BY <1>n, <1>t, <2>0, <2>3 DEF TypeOK
    <3>4. pending /\ ~ rested => now <= sendtime
      BY <1>t, <1>a, <3>1
    <3>5. AttemptsInv'
      BY <1>n, <1>a, <2>0, <2>3, <3>2, <3>4 DEF AttemptsInv
    <3> QED
      BY <3>3, <3>5 DEF RetryInv
  <2> QED
    BY <1>4, <2>1, <2>2, <2>3 DEF Turn
<1>5. CASE Sleep
  <2>1. /\ sleeping' /\ rested' /\ sleeping' \in BOOLEAN /\ rested' \in BOOLEAN
        /\ UNCHANGED <<now, turned, woke, pending, sendtime, attempts, said, tried>>
    BY <1>5 DEF Sleep
  <2>2. TypeOK'
    BY <2>1 DEF RetryInv, TypeOK
  <2>3. AttemptsInv'
    BY <1>n, <1>a, <2>1 DEF AttemptsInv
  <2> QED
    BY <2>2, <2>3 DEF RetryInv
<1>6. CASE Wake
  <2>1. /\ sleeping' = FALSE /\ woke' = IF sleeping THEN now ELSE woke
        /\ UNCHANGED <<now, turned, pending, sendtime, attempts, said, tried, rested>>
    BY <1>6 DEF Wake, message
  <2>2. TypeOK'
    <3>1. sleeping' \in BOOLEAN
      BY <2>1
    <3>2. woke' \in 0 .. now
      BY <1>t, <2>1
    <3> QED
      BY <2>1, <3>1, <3>2 DEF RetryInv, TypeOK
  <2>3. pending => turned + attempts * RTimeout <= Later(said, woke)' + RAttempts * RTimeout
    <3>1. CASE ~ sleeping
      BY <1>a, <2>1, <3>1
    <3>2. CASE sleeping
      <4>1. Later(said, woke)' = now
        BY <1>t, <2>1, <3>2 DEF Later
      <4>2. pending => attempts * RTimeout <= RAttempts * RTimeout
        BY <1>n, <1>a
      <4> QED
        BY <1>n, <1>t, <1>a, <4>1, <4>2
    <3> QED
      BY <3>1, <3>2
  <2>4. pending /\ ~ rested => ~ sleeping
    BY <1>a
  <2>5. AttemptsInv'
    BY <1>n, <1>a, <2>1, <2>3, <2>4 DEF AttemptsInv
  <2> QED
    BY <2>2, <2>5 DEF RetryInv
<1>7. CASE UNCHANGED vars
  BY <1>7 DEF vars, message, RetryInv, TypeOK, AttemptsInv, Later
<1> QED
  BY <1>1, <1>2, <1>3, <1>4, <1>5, <1>6, <1>7 DEF Next

(* RetryInv, as long as no int overflows: the attempts left fit in the     *)
(* time left.                                                              *)
THEOREM RetryCorrect == NoWrap => (Spec => []RetryInv)
<1> SUFFICES ASSUME NoWrap PROVE Spec => []RetryInv
  OBVIOUS
<1>1. RetryInv /\ [Next]_vars => RetryInv'
  BY RetryNext
<1> QED
  BY <1>1, RetryInit, PTL DEF Spec

(* Every message is answered one rtimeout per attempt after it was typed,  *)
(* or after the node woke up (AnswerInTime).                               *)
THEOREM AnsweredInTime == NoWrap => (Spec => []AnswerInTime)
<1> SUFFICES ASSUME NoWrap PROVE Spec => []AnswerInTime
  OBVIOUS
<1>1. RetryInv => AnswerInTime
  <2> SUFFICES ASSUME RetryInv, pending, ~ sleeping
               PROVE  now <= Later(said, woke) + RAttempts * RTimeout + Poll
    BY DEF AnswerInTime
  <2>1. /\ now \in Int /\ turned \in Int /\ said \in Int /\ woke \in Int
        /\ now <= turned + Poll
        /\ attempts \in Nat
        /\ turned + attempts * RTimeout <= Later(said, woke) + RAttempts * RTimeout
    BY RetryNumbers DEF RetryInv, TypeOK, AttemptsInv
  <2>2. Later(said, woke) \in Int
    BY <2>1, LaterIs
  <2>3. attempts * RTimeout \in Nat /\ RAttempts * RTimeout \in Nat /\ Poll \in Nat
    BY <2>1, RetryNumbers
  <2> QED
    BY <2>1, <2>2, <2>3
<1> QED
  BY <1>1, RetryCorrect, PTL

(* The attempts of a message the node has not slept on are rtimeout apart  *)
(* (AttemptsSpaced).                                                       *)
THEOREM AttemptsAreSpaced == NoWrap => (Spec => AttemptsSpaced)
<1> SUFFICES ASSUME NoWrap PROVE Spec => AttemptsSpaced
  OBVIOUS
<1>1. ASSUME RetryInv, Next, pending, pending', attempts' < attempts, tried # Never, ~ rested
      PROVE  now >= tried + RTimeout - Poll
  <2>1. /\ now \in Nat /\ now <= MaxTime /\ sendtime \in Nat /\ tried \in Nat
        /\ attempts \in 0 .. RAttempts
        /\ sendtime >= tried + RTimeout - Poll
    BY <1>1, RetryNumbers DEF RetryInv, TypeOK, AttemptsInv
  <2>2. Reading = now
    BY <2>1, RetryNumbers, IntAssumption, WrapInRange DEF Reading, NoWrap
  <2>3. Attempt
    BY <1>1, <2>1 DEF Next, Tick, Say, Confirm, Turn, GiveUp, Sleep, Wake, message
  <2>4. now >= sendtime
    BY <2>2, <2>3 DEF Attempt, Due
  <2> QED
    BY <2>1, <2>4, RetryNumbers
<1>2. RetryInv /\ [Next]_vars =>
        [ pending /\ pending' /\ attempts' < attempts /\ tried # Never /\ ~ rested
            => now >= tried + RTimeout - Poll ]_vars
  BY <1>1
<1> QED
  BY <1>2, RetryCorrect, PTL DEF Spec, AttemptsSpaced

=============================================================================
