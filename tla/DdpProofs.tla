----------------------------- MODULE DdpProofs -----------------------------
(***************************************************************************)
(* Theorems about Ddp, for any number of ranks, parameters and buckets and *)
(* any training programs: its types, the matching of the collectives, what *)
(* p.grad is after every synchronisation, and that Ddp implements          *)
(* DataParallel.                                                           *)
(***************************************************************************)
EXTENDS DdpAveraging, FiniteSetTheorems, TLAPS

-----------------------------------------------------------------------------
(* Type correctness. *)

\* Only a rank at a step of the program is in a backward pass or a flush.
BusyAtStep ==
    \A r \in Ranks : pc[r] \in {"backward", "finish"} => step[r] \in Steps

TypeInv == TypeOK /\ BusyAtStep

\* The reduction of any slice is a gradient.
LEMMA MeanSliceType == \A p \in Params : MeanSlice(p) \in Grads
  BY DEF MeanSlice, Average, Grads, Coefs

LEMMA AverageType == \A owner, w : Average(owner, w) \in Coefs
  BY DEF Average, Coefs

\* A full bucket's count is a natural number.
LEMMA FullPendingType ==
  /\ FullPending \in [Buckets -> Nat]
  /\ \A b \in Buckets : IsFiniteSet(ParamsOf(b))
  <1>1. \A b \in Buckets : IsFiniteSet(ParamsOf(b))
    BY BucketsAssumption, FS_Subset DEF ParamsOf
  <1> QED
    BY <1>1, FS_CardinalityType DEF FullPending

\* The initial states have the types.
LEMMA InitType == Init => TypeInv
  <1> SUFFICES ASSUME Init PROVE TypeInv
    OBVIOUS
  <1> USE RanksAssumption, BucketsAssumption, PlansAssumption
  <1>1. ZeroGrad \in Grads
    BY DEF ZeroGrad, Grads, Coefs
  <1>2. FullPending \in [Buckets -> Int]
    BY FullPendingType
  <1>3. 0 \in Buckets
    BY DEF Buckets
  <1>4. 1 \in 1 .. NumSteps + 1
    OBVIOUS
  <1>5. TypeOK
    BY <1>1, <1>2, <1>3, <1>4 DEF Init, TypeOK, Labels, Buckets
  <1> QED
    BY <1>5 DEF TypeInv, BusyAtStep, Init

\* What launching the next bucket leaves.
LEMMA LaunchType ==
  ASSUME TypeInv, NEW r \in Ranks, next[r] < NumBuckets, Launch(r, next[r])
  PROVE  TypeInv'
  <1>1. next[r] \in Buckets
    BY BucketsAssumption DEF TypeInv, TypeOK, Buckets
  <1>2. buffer' \in [Ranks -> [Params -> Grads]]
    <2>1. [p \in Params |-> IF BucketOf[p] = next[r] THEN grad[r][p] ELSE buffer[r][p]]
            \in [Params -> Grads]
      BY DEF TypeInv, TypeOK
    <2>2. buffer \in [Ranks -> [Params -> Grads]]
      BY DEF TypeInv, TypeOK
    <2> QED
      BY <2>1, <2>2 DEF Launch
  <1>3. log' \in [Ranks -> Seq(Buckets)]
    BY <1>1 DEF Launch, TypeInv, TypeOK
  <1>4. work' \in [Ranks -> [Buckets -> Nat]]
    <2>1. /\ work \in [Ranks -> [Buckets -> Nat]]
          /\ log \in [Ranks -> Seq(Buckets)]
      BY DEF TypeInv, TypeOK
    <2>2. Len(log[r]) + 1 \in Nat
      BY <2>1
    <2> QED
      BY <1>1, <2>1, <2>2 DEF Launch
  <1>5. next' \in [Ranks -> 0 .. NumBuckets]
    <2>1. next \in [Ranks -> 0 .. NumBuckets]
      BY DEF TypeInv, TypeOK
    <2>2. next[r] + 1 \in 0 .. NumBuckets
      BY <2>1, BucketsAssumption
    <2>3. next' = [next EXCEPT ![r] = next[r] + 1]
      BY DEF Launch
    <2> QED
      BY <2>1, <2>2, <2>3
  <1>6. TypeOK'
    BY <1>2, <1>3, <1>4, <1>5 DEF Launch, program, pass, TypeInv, TypeOK
  <1> QED
    BY <1>6 DEF Launch, TypeInv, BusyAtStep

\* A rank that ends its step is idle at a position of the plan, or after it.
LEMMA IdleNextType ==
  ASSUME TypeInv, NEW r \in Ranks, step[r] \in Steps, GoTo(r, "idle"), NextStep(r)
  PROVE  /\ pc' \in [Ranks -> Labels]
         /\ step' \in [Ranks -> 1 .. NumSteps + 1]
         /\ BusyAtStep'
  <1>1. /\ pc \in [Ranks -> Labels]
        /\ step \in [Ranks -> 1 .. NumSteps + 1]
    BY DEF TypeInv, TypeOK
  <1>2. step[r] + 1 \in 1 .. NumSteps + 1
    BY PlansAssumption DEF Steps
  <1>3. step' \in [Ranks -> 1 .. NumSteps + 1]
    BY <1>1, <1>2 DEF NextStep
  <1>4. pc' \in [Ranks -> Labels]
    BY <1>1 DEF GoTo, Labels
  <1>5. ASSUME NEW s \in Ranks, pc'[s] \in {"backward", "finish"}
        PROVE  step'[s] \in Steps
    <2>1. s # r
      BY <1>1, <1>5 DEF GoTo
    <2> QED
      BY <1>1, <1>5, <2>1 DEF GoTo, NextStep, TypeInv, BusyAtStep
  <1> QED
    BY <1>3, <1>4, <1>5 DEF BusyAtStep

\* Every step preserves the types.
LEMMA NextType == TypeInv /\ [Next]_vars => TypeInv'
  <1> SUFFICES ASSUME TypeInv, [Next]_vars PROVE TypeInv'
    OBVIOUS
  <1>t. TypeOK /\ BusyAtStep
    BY DEF TypeInv
  <1>pc. /\ pc \in [Ranks -> Labels]
         /\ step \in [Ranks -> 1 .. NumSteps + 1]
         /\ at \in [Ranks -> Buckets]
         /\ next \in [Ranks -> 0 .. NumBuckets]
         /\ BusyAtStep
    BY <1>t DEF TypeOK
  <1> USE DEF TypeInv, program, pass, reducer, calls, GoTo, NextStep
  <1>1. ASSUME NEW r \in Ranks, Construct(r) PROVE TypeInv'
    <2>1. origin[BroadcastRoot] \in Ranks
      BY <1>t, RanksAssumption DEF TypeOK, BroadcastRoot
    <2>2. /\ origin' \in [Ranks -> Ranks]
          /\ pc' \in [Ranks -> Labels]
      BY <1>1, <1>t, <2>1 DEF TypeOK, Labels, Construct
    <2>3. TypeOK'
      BY <1>1, <1>t, <2>2 DEF TypeOK, Construct
    <2>4. BusyAtStep'
      BY <1>1, <1>pc DEF BusyAtStep, Construct
    <2> QED
      BY <2>3, <2>4
  <1>2. ASSUME NEW r \in Ranks, StartBackward(r) PROVE TypeInv'
    <2>1. PICK u \in UsedSets : /\ todo' = [todo EXCEPT ![r] = u]
                                /\ used' = [used EXCEPT ![r][step[r]] = u]
      BY <1>2 DEF StartBackward
    <2>2. u \in SUBSET Params /\ step[r] \in Steps
      BY <1>2, PlansAssumption DEF StartBackward, AtStep
    <2>3. /\ todo' \in [Ranks -> SUBSET Params]
          /\ pc' \in [Ranks -> Labels]
      BY <1>2, <1>t, <2>1, <2>2 DEF TypeOK, Labels, StartBackward
    <2>4. used' \in [Ranks -> [Steps -> SUBSET Params]]
      BY <1>t, <2>1, <2>2 DEF TypeOK
    <2>5. TypeOK'
      BY <1>2, <1>t, <2>3, <2>4 DEF TypeOK, StartBackward
    <2> QED
      BY <1>2, <1>t, <2>2, <2>5 DEF TypeOK, BusyAtStep, StartBackward
  <1>3. ASSUME NEW r \in Ranks, NEW p \in Params, GradReady(r, p)
        PROVE  TypeInv'
    <2>1. Accumulated(r, p) \in Grads
      <3>1. grad[r][p] \in [Contribs -> Coefs]
        BY <1>t DEF TypeOK, Grads
      <3> QED
        BY <3>1 DEF Accumulated, Grads, Coefs
    <2>2. /\ grad' \in [Ranks -> [Params -> Grads]]
          /\ todo' \in [Ranks -> SUBSET Params]
      BY <1>3, <1>t, <2>1 DEF TypeOK, GradReady
    <2>3. /\ pending' \in [Ranks -> [Buckets -> Int]]
          /\ queued' \in [Ranks -> BOOLEAN]
      <3>1. BucketOf[p] \in Buckets
        BY BucketsAssumption
      <3>2. CASE SyncEnabled(r)
        <4>1. /\ pending' = [pending EXCEPT ![r][BucketOf[p]] = @ - 1]
              /\ queued' = [queued EXCEPT ![r] = TRUE]
          BY <1>3, <3>2 DEF GradReady
        <4>2. /\ pending \in [Ranks -> [Buckets -> Int]]
              /\ queued \in [Ranks -> BOOLEAN]
          BY <1>t DEF TypeOK
        <4>3. pending[r][BucketOf[p]] - 1 \in Int
          BY <3>1, <4>2
        <4> QED
          BY <3>1, <4>1, <4>2, <4>3
      <3>3. CASE ~SyncEnabled(r)
        BY <1>3, <1>t, <3>3 DEF TypeOK, GradReady
      <3> QED
        BY <3>2, <3>3
    <2>4. TypeOK'
      BY <1>3, <1>t, <2>2, <2>3 DEF TypeOK, GradReady
    <2> QED
      BY <1>3, <1>t, <2>4 DEF BusyAtStep, GradReady
  <1>4. ASSUME NEW r \in Ranks, LaunchReady(r) PROVE TypeInv'
    BY <1>4, LaunchType DEF LaunchReady, NextIsReady
  <1>5. ASSUME NEW r \in Ranks, EndBackward(r) PROVE TypeInv'
    <2>1. queued' \in [Ranks -> BOOLEAN]
      BY <1>5, <1>t DEF TypeOK, EndBackward
    <2>2. step[r] \in Steps
      BY <1>5, <1>pc DEF BusyAtStep, EndBackward
    <2>3. /\ pc' \in [Ranks -> Labels]
          /\ step' \in [Ranks -> 1 .. NumSteps + 1]
          /\ BusyAtStep'
      <3>1. CASE queued[r]
        BY <1>5, <1>pc, <2>2, <3>1 DEF EndBackward, Labels, BusyAtStep
      <3>2. CASE ~queued[r]
        BY <1>5, <2>2, <3>2, IdleNextType DEF EndBackward
      <3> QED
        BY <3>1, <3>2
    <2>4. TypeOK'
      BY <1>5, <1>t, <2>1, <2>3 DEF TypeOK, EndBackward
    <2> QED
      BY <2>3, <2>4
  <1>6. ASSUME NEW r \in Ranks, CallFinish(r) PROVE TypeInv'
    <2>1. pc' \in [Ranks -> Labels]
      BY <1>6, <1>t DEF TypeOK, Labels, CallFinish
    <2>2. TypeOK'
      BY <1>6, <1>t, <2>1 DEF TypeOK, CallFinish
    <2> QED
      BY <1>6, <1>t, <2>2 DEF TypeOK, BusyAtStep, CallFinish, AtStep
  <1>7. ASSUME NEW r \in Ranks, FlushBucket(r) PROVE TypeInv'
    BY <1>7, LaunchType DEF FlushBucket
  <1>8. ASSUME NEW r \in Ranks, WaitBucket(r) PROVE TypeInv'
    <2>1. Scattered(r, at[r]) \in [Params -> Grads]
      BY <1>t DEF TypeOK, Scattered
    <2>2. grad' \in [Ranks -> [Params -> Grads]]
      BY <1>8, <1>t, <2>1 DEF TypeOK, WaitBucket
    <2>3. FullPending[at[r]] \in Int
      BY <1>t, FullPendingType DEF TypeOK
    <2>4. /\ pending' \in [Ranks -> [Buckets -> Int]]
          /\ work' \in [Ranks -> [Buckets -> Nat]]
      BY <1>8, <1>t, <2>3 DEF TypeOK, WaitBucket
    <2>5. EndOfWait(r) /\ pc[r] = "finish"
      BY <1>8 DEF WaitBucket
    <2>6. /\ at' \in [Ranks -> Buckets]
          /\ next' \in [Ranks -> 0 .. NumBuckets]
          /\ pc' \in [Ranks -> Labels]
          /\ step' \in [Ranks -> 1 .. NumSteps + 1]
          /\ BusyAtStep'
      <3>1. step[r] \in Steps
        BY <2>5, <1>pc DEF BusyAtStep
      <3>2. CASE at[r] = NumBuckets - 1
        <4>1. /\ pc' \in [Ranks -> Labels]
              /\ step' \in [Ranks -> 1 .. NumSteps + 1]
              /\ BusyAtStep'
          BY <2>5, <3>1, <3>2, IdleNextType DEF EndOfWait
        <4>2. /\ at' = [at EXCEPT ![r] = 0]
              /\ next' = [next EXCEPT ![r] = 0]
          BY <2>5, <3>2 DEF EndOfWait
        <4> QED
          BY <1>pc, <4>1, <4>2, BucketsAssumption DEF Buckets
      <3>3. CASE at[r] # NumBuckets - 1
        BY <2>5, <1>pc, <3>1, <3>3, BucketsAssumption
        DEF BusyAtStep, EndOfWait, Buckets
      <3> QED
        BY <3>2, <3>3
    <2> QED
      BY <1>8, <1>t, <2>2, <2>4, <2>6 DEF TypeOK, WaitBucket
  <1>9. ASSUME NEW r \in Ranks, OptStep(r) PROVE TypeInv'
    <2>1. grad' \in [Ranks -> [Params -> Grads]]
      BY <1>9, <1>t DEF TypeOK, OptStep, ZeroGrad, Grads, Coefs
    <2>2. step' \in [Ranks -> 1 .. NumSteps + 1]
      BY <1>9, <1>t, PlansAssumption DEF TypeOK, OptStep, AtStep, Steps
    <2>3. TypeOK'
      BY <1>9, <1>t, <2>1, <2>2 DEF TypeOK, OptStep
    <2> QED
      BY <1>9, <1>t, <2>3 DEF TypeOK, BusyAtStep, OptStep, AtStep
  <1>10. ASSUME NEW k \in 1 .. MaxCalls, Complete(k) PROVE TypeInv'
    <2>1. BadGrad \in Grads
      BY DEF BadGrad, Grads, Coefs
    <2>2. buffer' \in [Ranks -> [Params -> Grads]]
      BY <1>10, <1>t, <2>1, MeanSliceType DEF TypeOK, Complete
    <2>3. k \in Nat
      OBVIOUS
    <2>4. completed' \subseteq Nat
      BY <1>10, <1>t, <2>3 DEF TypeOK, Complete
    <2>5. TypeOK'
      BY <1>10, <1>t, <2>2, <2>4 DEF TypeOK, Complete
    <2> QED
      BY <1>10, <1>t, <2>5 DEF BusyAtStep, Complete
  <1>11. CASE UNCHANGED vars
    BY <1>11, <1>t DEF TypeOK, BusyAtStep, vars
  <1>12. CASE Terminating
    BY <1>11, <1>12 DEF Terminating
  <1> QED
    BY <1>1, <1>2, <1>3, <1>4, <1>5, <1>6, <1>7, <1>8, <1>9, <1>10, <1>11,
       <1>12 DEF Next, RankStep

\* Every variable keeps its type (property TypeOK), for any group, any
\* partition of the parameters into buckets and any training programs.
THEOREM TypeCorrect == Spec => []TypeOK
  <1>1. TypeInv => TypeOK
    BY DEF TypeInv
  <1> QED
    BY <1>1, InitType, NextType, PTL DEF Spec

-----------------------------------------------------------------------------
(* The order of the collectives.                                           *)
(*                                                                         *)
(* CollectivesMatch says that two logs agree where both are long enough;   *)
(* it is not inductive.  What makes it so is that a rank's log determines  *)
(* its own next entry: the buckets follow one another cyclically, and      *)
(* _next_to_launch is the bucket after the last one launched.              *)

\* The bucket launched after b.
After(b) == IF b = NumBuckets - 1 THEN 0 ELSE b + 1

\* A rank launches bucket 0 first and the buckets in cyclic order.
CyclicLogs ==
    \A r \in Ranks :
        /\ Len(log[r]) > 0 => log[r][1] = 0
        /\ \A k \in 1 .. Len(log[r]) - 1 : log[r][k + 1] = After(log[r][k])

\* _next_to_launch continues the cycle.
NextFollowsLog ==
    \A r \in Ranks :
        IF Len(log[r]) = 0 THEN next[r] = 0
        ELSE \/ next[r] = log[r][Len(log[r])] + 1
             \/ next[r] = 0 /\ log[r][Len(log[r])] = NumBuckets - 1

OrderInv == CollectivesMatch /\ CyclicLogs /\ NextFollowsLog

\* No call, and the counter restarts only after the last bucket.
LEMMA OrderNoLaunch ==
  ASSUME TypeInv, OrderInv, log' = log,
         \A r \in Ranks : next'[r] = next[r] \/ (next[r] = NumBuckets /\ next'[r] = 0)
  PROVE  OrderInv'
  <1>1. CollectivesMatch' /\ CyclicLogs'
    BY DEF OrderInv, CollectivesMatch, CyclicLogs
  <1>2. ASSUME NEW r \in Ranks
        PROVE  IF Len(log'[r]) = 0 THEN next'[r] = 0
               ELSE \/ next'[r] = log'[r][Len(log'[r])] + 1
                    \/ next'[r] = 0 /\ log'[r][Len(log'[r])] = NumBuckets - 1
    <2>1. /\ next[r] \in Nat /\ log[r] \in Seq(Buckets)
          /\ NumBuckets \in Nat \ {0}
      BY BucketsAssumption DEF TypeInv, TypeOK
    <2>2. Len(log[r]) # 0 => log[r][Len(log[r])] \in Int
      BY <2>1 DEF Buckets
    <2> QED
      BY <2>1, <2>2 DEF OrderInv, NextFollowsLog
  <1> QED
    BY <1>1, <1>2 DEF OrderInv, NextFollowsLog

\* Launching the next bucket in line keeps the logs in step.
LEMMA OrderLaunch ==
  ASSUME TypeInv, OrderInv, NEW r \in Ranks, next[r] < NumBuckets, Launch(r, next[r])
  PROVE  OrderInv'
  <1> DEFINE n == Len(log[r])
             b == next[r]
  <1>1. /\ NumBuckets \in Nat \ {0}
        /\ b \in Buckets
        /\ log \in [Ranks -> Seq(Buckets)]
        /\ \A s \in Ranks : Len(log[s]) \in Nat
        /\ \A s \in Ranks : \A k \in 1 .. Len(log[s]) : log[s][k] \in Buckets
    <2>1. /\ NumBuckets \in Nat \ {0}
          /\ log \in [Ranks -> Seq(Buckets)]
          /\ next[r] \in Nat
      BY BucketsAssumption DEF TypeInv, TypeOK
    <2>2. b \in Buckets
      BY <2>1 DEF Buckets
    <2> QED
      BY <2>1, <2>2
  <1>2. /\ log' = [log EXCEPT ![r] = Append(log[r], b)]
        /\ next' = [next EXCEPT ![r] = b + 1]
    BY DEF Launch
  <1>3. /\ Len(log'[r]) = n + 1
        /\ log'[r][n + 1] = b
        /\ \A k \in 1 .. n : log'[r][k] = log[r][k]
        /\ \A s \in Ranks \ {r} : log'[s] = log[s]
        /\ next'[r] = b + 1
        /\ \A s \in Ranks \ {r} : next'[s] = next[s]
    BY <1>1, <1>2 DEF TypeInv, TypeOK
  <1>4. n = 0 => b = 0
    BY DEF OrderInv, NextFollowsLog
  <1>5. n > 0 => b = After(log[r][n])
    BY <1>1 DEF OrderInv, NextFollowsLog, After, Buckets
  <1>6. CyclicLogs'
    <2>1. ASSUME NEW s \in Ranks \ {r}
          PROVE  /\ Len(log'[s]) > 0 => log'[s][1] = 0
                 /\ \A k \in 1 .. Len(log'[s]) - 1 : log'[s][k + 1] = After(log'[s][k])
      BY <1>3 DEF OrderInv, CyclicLogs
    <2>2. log'[r][1] = 0
      BY <1>1, <1>3, <1>4 DEF OrderInv, CyclicLogs
    <2>3. ASSUME NEW k \in 1 .. n PROVE log'[r][k + 1] = After(log'[r][k])
      <3>1. CASE k = n
        BY <1>1, <1>3, <1>5, <3>1
      <3>2. CASE k < n
        BY <1>1, <1>3, <3>2 DEF OrderInv, CyclicLogs
      <3> QED
        BY <1>1, <3>1, <3>2
    <2>4. \A k \in 1 .. Len(log'[r]) - 1 : log'[r][k + 1] = After(log'[r][k])
      <3>1. Len(log'[r]) - 1 = n
        BY <1>1, <1>3
      <3> QED
        BY <2>3, <3>1
    <2> HIDE DEF n, b
    <2>5. \A s \in Ranks :
             /\ Len(log'[s]) > 0 => log'[s][1] = 0
             /\ \A k \in 1 .. Len(log'[s]) - 1 : log'[s][k + 1] = After(log'[s][k])
      BY <2>1, <2>2, <2>4
    <2> QED
      BY <2>5 DEF CyclicLogs, After
  <1>7. NextFollowsLog'
    BY <1>1, <1>3 DEF OrderInv, NextFollowsLog
  <1>8. \* the new call is the one any longer log holds in its place
        ASSUME NEW s \in Ranks \ {r}, n + 1 <= Len(log[s])
        PROVE  log[s][n + 1] = b
    <2>1. CASE n = 0
      BY <1>1, <1>4, <1>8, <2>1 DEF OrderInv, CyclicLogs
    <2>2. CASE n > 0
      <3>1. log[s][n] = log[r][n]
        BY <1>1, <1>8, <2>2 DEF OrderInv, CollectivesMatch
      <3>2. log[s][n + 1] = After(log[s][n])
        BY <1>1, <1>8, <2>2 DEF OrderInv, CyclicLogs
      <3> QED
        BY <1>5, <2>2, <3>1, <3>2
    <2> QED
      BY <1>1, <2>1, <2>2
  <1>9. CollectivesMatch'
    <2> SUFFICES ASSUME NEW s \in Ranks, NEW t \in Ranks,
                        NEW k \in 1 .. Len(log'[s]), k <= Len(log'[t])
                 PROVE  log'[s][k] = log'[t][k]
      BY DEF CollectivesMatch
    <2>1. CASE s # r /\ t # r
      BY <1>3, <2>1 DEF OrderInv, CollectivesMatch
    <2>2. CASE s = r /\ t = r
      BY <2>2
    <2>3. CASE s = r /\ t # r
      <3>1. CASE k = n + 1
        BY <1>3, <1>8, <2>3, <3>1
      <3>2. CASE k # n + 1
        <4>1. k \in 1 .. n
          BY <1>1, <1>3, <2>3, <3>2
        <4> QED
          BY <1>3, <2>3, <4>1 DEF OrderInv, CollectivesMatch
      <3> QED
        BY <3>1, <3>2
    <2>4. CASE s # r /\ t = r
      <3>1. CASE k = n + 1
        BY <1>3, <1>8, <2>4, <3>1
      <3>2. CASE k # n + 1
        <4>1. k \in 1 .. n
          BY <1>1, <1>3, <2>4, <3>2
        <4> QED
          BY <1>3, <2>4, <4>1 DEF OrderInv, CollectivesMatch
      <3> QED
        BY <3>1, <3>2
    <2> QED
      BY <2>1, <2>2, <2>3, <2>4
  <1> QED
    BY <1>6, <1>7, <1>9 DEF OrderInv

LEMMA InitOrder == Init => OrderInv
  BY DEF Init, OrderInv, CollectivesMatch, CyclicLogs, NextFollowsLog

LEMMA NextOrder == TypeInv /\ OrderInv /\ [Next]_vars => OrderInv'
  <1> SUFFICES ASSUME TypeInv, OrderInv, [Next]_vars PROVE OrderInv'
    OBVIOUS
  <1>1. ASSUME NEW r \in Ranks, LaunchReady(r) \/ FlushBucket(r) PROVE OrderInv'
    BY <1>1, OrderLaunch DEF LaunchReady, NextIsReady, FlushBucket
  <1>2. ASSUME NEW r \in Ranks, WaitBucket(r) PROVE OrderInv'
    <2>1. next \in [Ranks -> 0 .. NumBuckets]
      BY DEF TypeInv, TypeOK
    <2>2. UNCHANGED log /\ next[r] = NumBuckets /\ EndOfWait(r)
      BY <1>2 DEF WaitBucket, calls
    <2>3. next' = [next EXCEPT ![r] = 0] \/ UNCHANGED next
      BY <2>2 DEF EndOfWait
    <2>4. \A s \in Ranks : next'[s] = next[s] \/ (next[s] = NumBuckets /\ next'[s] = 0)
      BY <2>1, <2>2, <2>3
    <2>5. log' = log
      BY <2>2
    <2> HIDE DEF TypeInv, OrderInv
    <2> QED
      BY <2>4, <2>5, OrderNoLaunch
  <1>3. ASSUME UNCHANGED <<log, next>> PROVE OrderInv'
    <2>1. log' = log /\ \A s \in Ranks : next'[s] = next[s]
      BY <1>3
    <2> QED
      BY <2>1, OrderNoLaunch
  <1>4. ASSUME NEW r \in Ranks,
               \/ Construct(r) \/ StartBackward(r) \/ EndBackward(r)
               \/ CallFinish(r) \/ OptStep(r)
               \/ \E p \in Params : GradReady(r, p)
        PROVE  OrderInv'
    <2>1. UNCHANGED <<log, next>>
      BY <1>4 DEF Construct, StartBackward, EndBackward, CallFinish, OptStep,
                  GradReady, calls, reducer
    <2> QED
      BY <2>1, <1>3
  <1>5. ASSUME NEW k \in 1 .. MaxCalls, Complete(k) PROVE OrderInv'
    BY <1>3, <1>5 DEF Complete, reducer
  <1>6. CASE UNCHANGED vars
    BY <1>3, <1>6 DEF vars, reducer, calls
  <1> QED
    BY <1>1, <1>2, <1>4, <1>5, <1>6 DEF Next, RankStep, Terminating

\* The k-th all-reduce of any two ranks is for the same bucket (property
\* CollectivesMatch): for every number of ranks, every bucketing, every
\* program, every readiness order and every choice of unused parameters.
THEOREM CollectiveOrder == Spec => []CollectivesMatch
  <1>1. OrderInv => CollectivesMatch
    BY DEF OrderInv
  <1> QED
    BY <1>1, InitType, NextType, InitOrder, NextOrder, PTL DEF Spec

-----------------------------------------------------------------------------
(* The reducer's bookkeeping.                                              *)
(*                                                                         *)
(* The launched buckets of a rank are those from the wait loop's position  *)
(* up to _next_to_launch, and a bucket's pending count is the number of    *)
(* its parameters whose hook has yet to run.                               *)

\* The parameters of bucket b whose hook has not run in this backward pass.
Waiting(r, b) == ParamsOf(b) \ (used[r][step[r]] \ todo[r])

LaunchedRange(r) ==
    /\ at[r] > 0 => next[r] = NumBuckets /\ pc[r] = "finish"
    /\ \A b \in Buckets : work[r][b] # 0 <=> at[r] <= b /\ b < next[r]

Resting(r) ==
    /\ pc[r] # "backward" => todo[r] = {} /\ ~queued[r]
    /\ pc[r] \in {"ctor", "idle"} => next[r] = 0 /\ pending[r] = FullPending
    /\ pc[r] = "finish" =>
          \A b \in Buckets : b < at[r] => pending[r][b] = FullPending[b]

Counting(r) ==
    pc[r] = "backward" =>
        /\ todo[r] \subseteq used[r][step[r]]
        /\ IF SyncEnabled(r)
           THEN \A b \in Buckets : pending[r][b] = Cardinality(Waiting(r, b))
           ELSE pending[r] = FullPending
        /\ \A b \in Buckets : b < next[r] => ParamsOf(b) \cap todo[r] = {}
        /\ ~queued[r] => next[r] = 0 /\ pending[r] = FullPending
        /\ ~SyncEnabled(r) => ~queued[r]

RankInv(r) == LaunchedRange(r) /\ Resting(r) /\ Counting(r)

ReducerInv == \A r \in Ranks : RankInv(r)

\* RankInv(r) speaks of rank r only.
LEMMA RankFrame ==
  ASSUME NEW r \in Ranks, RankInv(r),
         plan' = plan, step'[r] = step[r], pc'[r] = pc[r], todo'[r] = todo[r],
         used'[r] = used[r], pending'[r] = pending[r], work'[r] = work[r],
         next'[r] = next[r], queued'[r] = queued[r], at'[r] = at[r]
  PROVE  RankInv(r)'
  BY DEF RankInv, LaunchedRange, Resting, Counting, SyncEnabled, Waiting

\* A step of rank q leaves the invariant of the others.
LEMMA OtherRank ==
  ASSUME TypeInv, NEW q \in Ranks, RankStep(q), NEW r \in Ranks \ {q}, RankInv(r)
  PROVE  RankInv(r)'
  <1>1. /\ pc \in [Ranks -> Labels]
        /\ step \in [Ranks -> 1 .. NumSteps + 1]
        /\ todo \in [Ranks -> SUBSET Params]
        /\ used \in [Ranks -> [Steps -> SUBSET Params]]
        /\ pending \in [Ranks -> [Buckets -> Int]]
        /\ work \in [Ranks -> [Buckets -> Nat]]
        /\ next \in [Ranks -> 0 .. NumBuckets]
        /\ queued \in [Ranks -> BOOLEAN]
        /\ at \in [Ranks -> Buckets]
    BY DEF TypeInv, TypeOK
  <1> DEFINE Frame == /\ plan' = plan /\ step'[r] = step[r] /\ pc'[r] = pc[r]
                      /\ todo'[r] = todo[r] /\ used'[r] = used[r]
                      /\ pending'[r] = pending[r] /\ work'[r] = work[r]
                      /\ next'[r] = next[r] /\ queued'[r] = queued[r]
                      /\ at'[r] = at[r]
  <1> USE DEF program, pass, reducer, calls, GoTo, NextStep
  <1>2. ASSUME Construct(q) PROVE Frame
    BY <1>1, <1>2 DEF Construct
  <1>3. ASSUME StartBackward(q) PROVE Frame
    BY <1>1, <1>3 DEF StartBackward
  <1>4. ASSUME NEW p \in Params, GradReady(q, p) PROVE Frame
    BY <1>1, <1>4 DEF GradReady
  <1>5. ASSUME NEW b \in Buckets, Launch(q, b) PROVE Frame
    BY <1>1, <1>5 DEF Launch
  <1>6. ASSUME LaunchReady(q) \/ FlushBucket(q) PROVE Frame
    <2>1. next[q] \in Buckets /\ Launch(q, next[q])
      BY <1>1, <1>6, BucketsAssumption
      DEF LaunchReady, NextIsReady, FlushBucket, Buckets
    <2> QED
      BY <1>5, <2>1
  <1>7. ASSUME EndBackward(q) PROVE Frame
    BY <1>1, <1>7 DEF EndBackward
  <1>8. ASSUME CallFinish(q) PROVE Frame
    BY <1>1, <1>8 DEF CallFinish
  <1>9. ASSUME WaitBucket(q) PROVE Frame
    BY <1>1, <1>9 DEF WaitBucket, EndOfWait
  <1>10. ASSUME OptStep(q) PROVE Frame
    BY <1>1, <1>10 DEF OptStep
  <1>11. Frame
    BY <1>2, <1>3, <1>4, <1>6, <1>7, <1>8, <1>9, <1>10 DEF RankStep
  <1> QED
    BY <1>11, RankFrame

\* The counts of a bucket's parameters.
LEMMA WaitingCount ==
  ASSUME NEW r \in Ranks, NEW b \in Buckets
  PROVE  /\ IsFiniteSet(Waiting(r, b))
         /\ Cardinality(Waiting(r, b)) \in Nat
         /\ Cardinality(Waiting(r, b)) = 0 <=> Waiting(r, b) = {}
  <1>1. IsFiniteSet(Waiting(r, b))
    BY FullPendingType, FS_Subset DEF Waiting
  <1> QED
    BY <1>1, FS_CardinalityType, FS_EmptySet

\* A bucket launched from the backward pass is one the pass is done with.
LEMMA ReadyIsDone ==
  ASSUME TypeInv, NEW r \in Ranks, RankInv(r), pc[r] = "backward", NextIsReady(r)
  PROVE  /\ ParamsOf(next[r]) \cap todo[r] = {}
         /\ queued[r]
  <1>1. /\ next[r] \in Buckets
        /\ pending[r][next[r]] <= 0
    BY BucketsAssumption DEF TypeInv, TypeOK, NextIsReady, Buckets
  <1>2. FullPending[next[r]] > 0
    <2>1. Cardinality(ParamsOf(next[r])) # 0
      BY <1>1, FullPendingType, BucketsAssumption, FS_EmptySet
    <2> QED
      BY <1>1, <2>1, FullPendingType DEF FullPending
  <1>3. pending[r] # FullPending
    BY <1>1, <1>2, FullPendingType
  <1>4. SyncEnabled(r) /\ queued[r]
    BY <1>3 DEF RankInv, Counting
  <1>5. Cardinality(Waiting(r, next[r])) <= 0
    BY <1>1, <1>4 DEF RankInv, Counting
  <1>6. Waiting(r, next[r]) = {}
    BY <1>1, <1>5, WaitingCount
  <1> QED
    BY <1>4, <1>6 DEF Waiting

\* A hook counts its parameter out of its bucket.
LEMMA HookCounts ==
  ASSUME TypeInv, NEW r \in Ranks, RankInv(r), NEW p \in Params, GradReady(r, p)
  PROVE  RankInv(r)'
  <1>1. /\ pc[r] = "backward" /\ p \in todo[r]
        /\ todo'[r] = todo[r] \ {p}
        /\ plan' = plan /\ step'[r] = step[r] /\ pc'[r] = pc[r]
        /\ used'[r] = used[r] /\ work'[r] = work[r]
        /\ next'[r] = next[r] /\ at'[r] = at[r]
        /\ SyncEnabled(r)' = SyncEnabled(r)
    BY DEF GradReady, TypeInv, TypeOK, program, calls, SyncEnabled
  <1>2. LaunchedRange(r)' /\ Resting(r)'
    BY <1>1 DEF RankInv, LaunchedRange, Resting
  <1>3. CASE ~SyncEnabled(r)
    <2>1. pending'[r] = pending[r] /\ queued'[r] = queued[r]
      BY <1>3 DEF GradReady
    <2> QED
      BY <1>1, <1>2, <1>3, <2>1 DEF RankInv, Counting
  <1>4. CASE SyncEnabled(r)
    <2>1. /\ queued'[r]
          /\ pending'[r] = [pending[r] EXCEPT ![BucketOf[p]] = @ - 1]
      BY <1>4 DEF GradReady, TypeInv, TypeOK
    <2>2. pending[r] \in [Buckets -> Int] /\ BucketOf[p] \in Buckets
      BY BucketsAssumption DEF TypeInv, TypeOK
    <2>3. ASSUME NEW b \in Buckets
          PROVE  pending'[r][b] = Cardinality(Waiting(r, b)')
      <3>1. pending[r][b] = Cardinality(Waiting(r, b)) /\ IsFiniteSet(Waiting(r, b))
        BY <1>1, <1>4, WaitingCount DEF RankInv, Counting
      <3>2. CASE b = BucketOf[p]
        <4>1. Waiting(r, b)' = Waiting(r, b) \ {p} /\ p \in Waiting(r, b)
          BY <1>1, <3>2 DEF Waiting, ParamsOf, RankInv, Counting
        <4>2. Cardinality(Waiting(r, b) \ {p}) = Cardinality(Waiting(r, b)) - 1
          BY <3>1, <4>1, FS_RemoveElement
        <4>3. pending'[r][b] = pending[r][b] - 1
          BY <2>1, <2>2, <3>2
        <4> QED
          BY <3>1, <4>1, <4>2, <4>3
      <3>3. CASE b # BucketOf[p]
        <4>1. Waiting(r, b)' = Waiting(r, b)
          BY <1>1, <3>3 DEF Waiting, ParamsOf
        <4> QED
          BY <2>1, <2>2, <3>1, <3>3, <4>1
      <3> QED
        BY <3>2, <3>3
    <2>4. Counting(r)'
      BY <1>1, <1>4, <2>1, <2>3 DEF RankInv, Counting
    <2> QED
      BY <1>2, <2>4 DEF RankInv
  <1> QED
    BY <1>3, <1>4

\* Launching the next bucket extends the range of launched ones.
LEMMA LaunchExtends ==
  ASSUME TypeInv, NEW r \in Ranks, RankInv(r), next[r] < NumBuckets,
         pc[r] \in {"backward", "finish"},
         pc[r] = "backward" => ParamsOf(next[r]) \cap todo[r] = {} /\ queued[r],
         Launch(r, next[r])
  PROVE  RankInv(r)'
  <1>1. /\ NumBuckets \in Nat \ {0} /\ next[r] \in Nat /\ at[r] \in Nat
        /\ next \in [Ranks -> 0 .. NumBuckets]
        /\ work \in [Ranks -> [Buckets -> Nat]]
        /\ Len(log[r]) \in Nat
    <2>1. log[r] \in Seq(Buckets)
      BY DEF TypeInv, TypeOK
    <2>2. Len(log[r]) \in Nat
      BY <2>1
    <2>3. /\ next \in [Ranks -> 0 .. NumBuckets] /\ at \in [Ranks -> Buckets]
          /\ work \in [Ranks -> [Buckets -> Nat]]
      BY DEF TypeInv, TypeOK
    <2>4. NumBuckets \in Nat \ {0}
      BY BucketsAssumption
    <2>5. next[r] \in Nat
      BY <2>3, <2>4
    <2>6. at[r] \in Nat
      BY <2>3, <2>4 DEF Buckets
    <2> QED
      BY <2>2, <2>3, <2>4, <2>5, <2>6
  <1>2. /\ plan' = plan /\ step'[r] = step[r] /\ pc'[r] = pc[r]
        /\ todo'[r] = todo[r] /\ used'[r] = used[r]
        /\ pending'[r] = pending[r] /\ queued'[r] = queued[r] /\ at'[r] = at[r]
        /\ SyncEnabled(r)' = SyncEnabled(r)
        /\ \A b : Waiting(r, b)' = Waiting(r, b)
    BY DEF Launch, program, pass, SyncEnabled, Waiting
  <1>3. /\ next'[r] = next[r] + 1
        /\ work'[r] = [work[r] EXCEPT ![next[r]] = Len(log[r]) + 1]
    BY <1>1 DEF Launch
  <1>4. at[r] = 0
    BY <1>1 DEF RankInv, LaunchedRange
  <1>5. LaunchedRange(r)'
    BY <1>1, <1>2, <1>3, <1>4 DEF RankInv, LaunchedRange, Buckets
  <1>6. Resting(r)'
    BY <1>2 DEF RankInv, Resting
  <1>7. Counting(r)'
    <2> SUFFICES ASSUME pc[r] = "backward" PROVE Counting(r)'
      BY <1>2 DEF Counting
    <2>1. ASSUME NEW b \in Buckets, b < next[r] + 1
          PROVE  ParamsOf(b) \cap todo[r] = {}
      <3>1. b = next[r] \/ b < next[r]
        BY <1>1, <2>1 DEF Buckets
      <3> QED
        BY <3>1 DEF RankInv, Counting
    <2> QED
      BY <1>2, <1>3, <2>1 DEF RankInv, Counting
  <1> QED
    BY <1>5, <1>6, <1>7 DEF RankInv

\* One turn of the wait loop; the last one leaves the reducer at rest.
LEMMA WaitRests ==
  ASSUME TypeInv, NEW r \in Ranks, RankInv(r), WaitBucket(r)
  PROVE  RankInv(r)'
  <1>1. /\ NumBuckets \in Nat \ {0} /\ at[r] \in Nat /\ at[r] \in Buckets
        /\ next \in [Ranks -> 0 .. NumBuckets] /\ at \in [Ranks -> Buckets]
        /\ pc \in [Ranks -> Labels] /\ FullPending \in [Buckets -> Nat]
        /\ pending[r] \in [Buckets -> Int] /\ work[r] \in [Buckets -> Nat]
    <2>1. /\ next \in [Ranks -> 0 .. NumBuckets] /\ at \in [Ranks -> Buckets]
          /\ pc \in [Ranks -> Labels]
          /\ pending[r] \in [Buckets -> Int] /\ work[r] \in [Buckets -> Nat]
      BY DEF TypeInv, TypeOK
    <2>2. at[r] \in Nat
      BY <2>1, BucketsAssumption DEF Buckets
    <2> QED
      BY <2>1, <2>2, BucketsAssumption, FullPendingType
  <1>2. /\ pc[r] = "finish" /\ next[r] = NumBuckets
        /\ todo'[r] = todo[r] /\ queued'[r] = queued[r]
        /\ pending'[r] = [pending[r] EXCEPT ![at[r]] = FullPending[at[r]]]
        /\ work'[r] = [work[r] EXCEPT ![at[r]] = 0]
        /\ EndOfWait(r)
    BY DEF WaitBucket, pass, TypeInv, TypeOK
  <1>3. todo[r] = {} /\ ~queued[r]
    BY <1>2 DEF RankInv, Resting
  <1>4. /\ \A b \in Buckets : work[r][b] # 0 <=> at[r] <= b
        /\ \A b \in Buckets : b < at[r] => pending[r][b] = FullPending[b]
    <2>1. \A b \in Buckets : b < NumBuckets
      BY <1>1 DEF Buckets
    <2>2. \A b \in Buckets : work[r][b] # 0 <=> at[r] <= b /\ b < NumBuckets
      BY <1>2 DEF RankInv, LaunchedRange
    <2>3. \A b \in Buckets : b < at[r] => pending[r][b] = FullPending[b]
      BY <1>2 DEF RankInv, Resting
    <2> QED
      BY <2>1, <2>2, <2>3
  <1>5. /\ \A b \in Buckets : work'[r][b] # 0 <=> at[r] + 1 <= b
        /\ \A b \in Buckets : b < at[r] + 1 => pending'[r][b] = FullPending[b]
    <2> SUFFICES ASSUME NEW b \in Buckets
                 PROVE  /\ work'[r][b] # 0 <=> at[r] + 1 <= b
                        /\ b < at[r] + 1 => pending'[r][b] = FullPending[b]
      OBVIOUS
    <2>1. b \in Nat
      BY <1>1 DEF Buckets
    <2>2. CASE b = at[r]
      BY <1>1, <1>2, <2>1, <2>2
    <2>3. CASE b # at[r]
      <3>1. work'[r][b] = work[r][b] /\ pending'[r][b] = pending[r][b]
        BY <1>1, <1>2, <2>3
      <3>2. at[r] <= b <=> at[r] + 1 <= b
        BY <1>1, <2>1, <2>3
      <3>3. b < at[r] + 1 <=> b < at[r]
        BY <1>1, <2>1, <2>3
      <3> QED
        BY <1>4, <3>1, <3>2, <3>3
    <2> QED
      BY <2>2, <2>3
  <1>6. CASE at[r] = NumBuckets - 1
    <2>1. at'[r] = 0 /\ next'[r] = 0 /\ pc'[r] = "idle"
      BY <1>1, <1>2, <1>6 DEF EndOfWait, GoTo
    <2>2. \A b \in Buckets : work'[r][b] = 0 /\ pending'[r][b] = FullPending[b]
      BY <1>1, <1>5, <1>6 DEF Buckets
    <2>3. pending'[r] = FullPending
      BY <1>1, <1>2, <2>2
    <2> QED
      BY <1>1, <1>2, <1>3, <2>1, <2>2, <2>3
      DEF RankInv, LaunchedRange, Resting, Counting, Buckets
  <1>7. CASE at[r] # NumBuckets - 1
    <2>1. at'[r] = at[r] + 1 /\ next'[r] = NumBuckets /\ pc'[r] = "finish"
      BY <1>1, <1>2, <1>7 DEF EndOfWait
    <2>2. \A b \in Buckets : b < NumBuckets
      BY <1>1 DEF Buckets
    <2>3. LaunchedRange(r)'
      BY <1>5, <2>1, <2>2 DEF LaunchedRange
    <2>4. Resting(r)'
      BY <1>2, <1>3, <1>5, <2>1 DEF Resting
    <2>5. Counting(r)'
      BY <2>1 DEF Counting
    <2> QED
      BY <2>3, <2>4, <2>5 DEF RankInv
  <1> QED
    BY <1>6, <1>7

LEMMA InitReducer == Init => ReducerInv
  <1> SUFFICES ASSUME Init, NEW r \in Ranks PROVE RankInv(r)
    BY DEF ReducerInv
  <1> QED
    BY BucketsAssumption
    DEF Init, RankInv, LaunchedRange, Resting, Counting, Buckets

\* Every step preserves the bookkeeping.
LEMMA NextReducer == TypeInv /\ ReducerInv /\ [Next]_vars => ReducerInv'
  <1> SUFFICES ASSUME TypeInv, ReducerInv, [Next]_vars PROVE ReducerInv'
    OBVIOUS
  <1>0. \A r \in Ranks : RankInv(r)
    BY DEF ReducerInv
  <1>t. /\ pc \in [Ranks -> Labels] /\ todo \in [Ranks -> SUBSET Params]
        /\ used \in [Ranks -> [Steps -> SUBSET Params]]
        /\ step \in [Ranks -> 1 .. NumSteps + 1]
        /\ queued \in [Ranks -> BOOLEAN]
    BY DEF TypeInv, TypeOK
  <1>1. ASSUME NEW q \in Ranks, RankStep(q) PROVE RankInv(q)'
    <2> USE DEF program, pass, reducer, calls, GoTo, NextStep
    <2>1. ASSUME Construct(q) PROVE RankInv(q)'
      BY <1>0, <1>t, <2>1
      DEF Construct, RankInv, LaunchedRange, Resting, Counting
    <2>2. ASSUME StartBackward(q) PROVE RankInv(q)'
      <3>1. PICK u \in UsedSets : /\ todo' = [todo EXCEPT ![q] = u]
                                  /\ used' = [used EXCEPT ![q][step[q]] = u]
        BY <2>2 DEF StartBackward
      <3>2. /\ pc[q] = "idle" /\ pc'[q] = "backward" /\ step[q] \in Steps
            /\ plan' = plan /\ step'[q] = step[q] /\ next'[q] = next[q]
            /\ pending'[q] = pending[q] /\ queued'[q] = queued[q]
            /\ work'[q] = work[q] /\ at'[q] = at[q]
        BY <1>t, <2>2 DEF StartBackward, AtStep
      <3>3. todo'[q] = u /\ used'[q][step'[q]] = u
        BY <1>t, <3>1, <3>2
      <3>4. ~queued[q] /\ next[q] = 0 /\ pending[q] = FullPending
        BY <1>0, <3>2 DEF RankInv, Resting
      <3>5. \A b \in Buckets : Waiting(q, b)' = ParamsOf(b)
        BY <3>3 DEF Waiting
      <3>6. LaunchedRange(q)' /\ Resting(q)'
        BY <1>0, <3>2, <3>4 DEF RankInv, LaunchedRange, Resting
      <3>7. Counting(q)'
        BY <3>2, <3>3, <3>4, <3>5 DEF Counting, FullPending, Buckets
      <3> QED
        BY <3>6, <3>7 DEF RankInv
    <2>3. ASSUME NEW p \in Params, GradReady(q, p) PROVE RankInv(q)'
      BY <1>0, <2>3, HookCounts
    <2>4. ASSUME LaunchReady(q) PROVE RankInv(q)'
      BY <1>0, <2>4, ReadyIsDone, LaunchExtends DEF LaunchReady, NextIsReady
    <2>5. ASSUME EndBackward(q) PROVE RankInv(q)'
      <3>1. /\ pc[q] = "backward" /\ todo'[q] = {} /\ ~queued'[q]
            /\ pending'[q] = pending[q] /\ next'[q] = next[q]
            /\ work'[q] = work[q] /\ at'[q] = at[q]
            /\ pc'[q] = IF queued[q] THEN "finish" ELSE "idle"
        BY <1>t, <2>5 DEF EndBackward
      <3>2. at[q] = 0 \/ at[q] > 0
        BY DEF TypeInv, TypeOK, Buckets
      <3>3. at[q] = 0
        BY <1>0, <3>1, <3>2 DEF RankInv, LaunchedRange
      <3>4. LaunchedRange(q)'
        BY <1>0, <3>1, <3>3 DEF RankInv, LaunchedRange
      <3>5. Resting(q)'
        BY <1>0, <3>1, <3>3 DEF RankInv, Counting, Resting, Buckets
      <3> QED
        BY <3>1, <3>4, <3>5 DEF RankInv, Counting
    <2>6. ASSUME CallFinish(q) PROVE RankInv(q)'
      <3>1. /\ pc[q] = "idle" /\ pc'[q] = "finish" /\ todo'[q] = todo[q]
            /\ pending'[q] = pending[q] /\ next'[q] = next[q]
            /\ work'[q] = work[q] /\ at'[q] = at[q] /\ queued'[q] = queued[q]
        BY <1>t, <2>6 DEF CallFinish, AtStep
      <3> QED
        BY <1>0, <3>1 DEF RankInv, LaunchedRange, Resting, Counting
    <2>7. ASSUME FlushBucket(q) PROVE RankInv(q)'
      BY <1>0, <2>7, LaunchExtends DEF FlushBucket
    <2>8. ASSUME WaitBucket(q) PROVE RankInv(q)'
      BY <1>0, <2>8, WaitRests
    <2>9. ASSUME OptStep(q) PROVE RankInv(q)'
      <3>1. /\ pc[q] = "idle" /\ pc'[q] = pc[q] /\ todo'[q] = todo[q]
            /\ pending'[q] = pending[q] /\ next'[q] = next[q]
            /\ work'[q] = work[q] /\ at'[q] = at[q] /\ queued'[q] = queued[q]
        BY <1>t, <2>9 DEF OptStep, AtStep
      <3> QED
        BY <1>0, <3>1 DEF RankInv, LaunchedRange, Resting, Counting
    <2> QED
      BY <1>1, <2>1, <2>2, <2>3, <2>4, <2>5, <2>6, <2>7, <2>8, <2>9 DEF RankStep
  <1>2. ASSUME NEW q \in Ranks, RankStep(q) PROVE ReducerInv'
    BY <1>0, <1>1, <1>2, OtherRank DEF ReducerInv
  <1>3. ASSUME UNCHANGED <<program, pc, step, pass, reducer>> PROVE ReducerInv'
    BY <1>0, <1>3, RankFrame DEF ReducerInv, program, pass, reducer
  <1>4. ASSUME NEW k \in 1 .. MaxCalls, Complete(k) PROVE ReducerInv'
    BY <1>3, <1>4 DEF Complete
  <1>5. CASE UNCHANGED vars
    BY <1>3, <1>5 DEF vars
  <1> QED
    BY <1>2, <1>4, <1>5 DEF Next, Terminating

\* Between steps the reducer is as __init__ left it (property
\* CleanBetweenSteps), for every program and readiness order.
THEOREM CleanReducer == Spec => []CleanBetweenSteps
  <1>1. TypeInv /\ ReducerInv => CleanBetweenSteps
    <2> SUFFICES ASSUME TypeInv, ReducerInv, NEW r \in Ranks, pc[r] = "idle"
                 PROVE  /\ pending[r] = FullPending /\ next[r] = 0 /\ ~queued[r]
                        /\ \A b \in Buckets : work[r][b] = 0
      BY DEF CleanBetweenSteps
    <2>1. pending[r] = FullPending /\ next[r] = 0 /\ ~queued[r]
      BY DEF ReducerInv, RankInv, Resting
    <2>2. ASSUME NEW b \in Buckets PROVE work[r][b] = 0
      <3>1. ~(b < next[r])
        BY <2>1, BucketsAssumption DEF Buckets
      <3> QED
        BY <3>1 DEF ReducerInv, RankInv, LaunchedRange
    <2> QED
      BY <2>1, <2>2
  <1> QED
    BY <1>1, InitType, NextType, InitReducer, NextReducer, PTL DEF Spec

\* What an all-reduce reads is final (property LaunchedIsFinal): no bucket
\* is launched before every gradient the pass will put in it is there.
THEOREM LaunchFinal == Spec => []LaunchedIsFinal
  <1>1. ReducerInv => LaunchedIsFinal
    <2> SUFFICES ASSUME ReducerInv, NEW r \in Ranks, NEW b \in Buckets, work[r][b] # 0
                 PROVE  ParamsOf(b) \cap todo[r] = {}
      BY DEF LaunchedIsFinal
    <2>1. b < next[r]
      BY DEF ReducerInv, RankInv, LaunchedRange
    <2>2. CASE pc[r] = "backward"
      BY <2>1, <2>2 DEF ReducerInv, RankInv, Counting
    <2>3. CASE pc[r] # "backward"
      BY <2>3 DEF ReducerInv, RankInv, Resting
    <2> QED
      BY <2>2, <2>3
  <1> QED
    BY <1>1, InitType, NextType, InitReducer, NextReducer, PTL DEF Spec

\* No buffer is reused and no handle dropped in flight (property
\* InFlightUntouched), whatever the programs and the bucketing.
THEOREM BuffersInFlight == Spec => InFlightUntouched
  <1>1. TypeInv /\ ReducerInv /\ [Next]_vars => [HandleKept]_vars
    <2> SUFFICES ASSUME TypeInv, ReducerInv, Next,
                        NEW r \in Ranks, NEW b \in Buckets,
                        work[r][b] # 0, work'[r][b] # work[r][b]
                 PROVE  work[r][b] \in completed
      BY DEF HandleKept
    <2>1. work \in [Ranks -> [Buckets -> Nat]]
      BY DEF TypeInv, TypeOK
    <2>2. work' # work
      OBVIOUS
    <2>3. PICK q \in Ranks : RankStep(q)
      BY <2>2 DEF Next, Complete, reducer, Terminating, vars
    <2>4. LaunchReady(q) \/ FlushBucket(q) \/ WaitBucket(q)
      BY <2>2, <2>3 DEF RankStep, Construct, StartBackward, GradReady,
                        EndBackward, CallFinish, OptStep, reducer
    <2>5. CASE LaunchReady(q) \/ FlushBucket(q)
      <3>1. work' = [work EXCEPT ![q][next[q]] = Len(log[q]) + 1]
        BY <2>5 DEF LaunchReady, FlushBucket, Launch
      <3>2. r = q /\ b = next[q]
        BY <2>1, <3>1
      <3> QED
        BY <3>2, BucketsAssumption
        DEF ReducerInv, RankInv, LaunchedRange, Buckets
    <2>6. CASE WaitBucket(q)
      <3>1. work' = [work EXCEPT ![q][at[q]] = 0]
        BY <2>6 DEF WaitBucket
      <3>2. r = q /\ b = at[q]
        BY <2>1, <3>1
      <3> QED
        BY <2>6, <3>2 DEF WaitBucket, Waited
    <2> QED
      BY <2>4, <2>5, <2>6
  <1> QED
    BY <1>1, InitType, NextType, InitReducer, NextReducer, PTL
    DEF Spec, InFlightUntouched

-----------------------------------------------------------------------------
(* Averaging. *)

(***************************************************************************)
(* Call k of two ranks has to be of the same training step, not only of    *)
(* the same bucket.  A rank makes one call per bucket in every             *)
(* synchronising step, so the step and the bucket number the call; and a   *)
(* rank leaves a step only when all the step's calls have completed, that  *)
(* is, when every rank has made them.                                      *)
(*                                                                         *)
(* The operators take the program pl and the passes us as arguments.       *)
(***************************************************************************)
SyncKinds == {"backward", "finish"}
SyncsBefore(pl, k) == {j \in 1 .. k - 1 : pl[j] \in SyncKinds}

\* The number of calls a rank makes before step k.
Base(pl, k) == NumBuckets * Cardinality(SyncsBefore(pl, k))

\* What was accumulated in step j is still in the gradients before step k,
\* and has been averaged.
Kept(pl, j, k) == j \in 1 .. k - 1 /\ \A i \in j .. k - 1 : pl[i] # "opt"
Synced(pl, j, k) == \E i \in j .. k - 1 : pl[i] \in SyncKinds

\* ExpectedMean.
Mean(pl, us, p, k) ==
    [c \in Contribs |->
        IF Kept(pl, c[2], k) /\ p \in us[c[1]][c[2]] THEN "mean" ELSE "zero"]

\* p.grad on rank r in step k, before the step's average, while the
\* rank's backward pass has still to reach the parameters in rest.
Local(pl, us, r, p, k, rest) ==
    [c \in Contribs |->
        IF p \notin us[c[1]][c[2]] THEN "zero"
        ELSE IF Kept(pl, c[2], k) /\ Synced(pl, c[2], k) THEN "mean"
        ELSE IF c[1] = r /\ (Kept(pl, c[2], k) \/ (c[2] = k /\ p \notin rest)) THEN "own"
        ELSE "zero"]

(* The inductive invariant. *)

\* The call by which a rank reduces bucket b in its step.
CallOf(r, b) == Base(plan, step[r]) + b + 1

\* Where a rank is in its step, and which passes it has begun.
PassInv(r) ==
    /\ pc[r] = "backward" =>
          /\ plan[step[r]] \in {"backward", "no_sync"}
          /\ used[r][step[r]] # {}
          /\ plan[step[r]] = "backward" /\ todo[r] # used[r][step[r]] => queued[r]
    /\ pc[r] = "finish" => plan[step[r]] \in SyncKinds
    /\ \A j \in Steps : used[r][j] # {} =>
          j < step[r] \/ (j = step[r] /\ pc[r] \in {"backward", "finish"})

\* The rank's calls: those of the steps before and of the buckets launched;
\* all it has waited for have completed.
CallInv(r) ==
    /\ Len(log[r]) = Base(plan, step[r]) + next[r]
    /\ \A b \in Buckets : b < next[r] => log[r][CallOf(r, b)] = b
    /\ \A b \in Buckets : work[r][b] # 0 => work[r][b] = CallOf(r, b)
    /\ completed \subseteq 1 .. Len(log[r])
    /\ 1 .. Base(plan, step[r]) + at[r] \subseteq completed

\* The gradients, of the buckets already taken and of the others.
GradInv(r) ==
    \A p \in Params :
        grad[r][p] = IF BucketOf[p] < at[r] THEN Mean(plan, used, p, step[r] + 1)
                     ELSE Local(plan, used, r, p, step[r], todo[r])

\* A launched bucket's buffer holds the gradients, and once the call has
\* completed their average.
BufferInv(r) ==
    \A p \in Params :
        work[r][BucketOf[p]] # 0 =>
            buffer[r][p] = IF work[r][BucketOf[p]] \in completed
                           THEN Mean(plan, used, p, step[r] + 1) ELSE grad[r][p]

MeanInv == \A r \in Ranks : PassInv(r) /\ CallInv(r) /\ GradInv(r) /\ BufferInv(r)

IInv == TypeInv /\ ReducerInv /\ MeanInv

-----------------------------------------------------------------------------
(* Lemmas about the numbering of the calls. *)

LEMMA SyncsFacts ==
  ASSUME NEW pl, NEW k \in Nat
  PROVE  /\ IsFiniteSet(SyncsBefore(pl, k))
         /\ Cardinality(SyncsBefore(pl, k)) \in Nat
  <1>1. IsFiniteSet(1 .. k - 1)
    BY FS_Interval
  <1>2. IsFiniteSet(SyncsBefore(pl, k))
    BY <1>1, FS_Subset DEF SyncsBefore
  <1> QED
    BY <1>2, FS_CardinalityType

\* Products, once and for all.
LEMMA Products ==
  ASSUME NEW m \in Nat, NEW n \in Nat, m + 1 <= n
  PROVE  /\ NumBuckets * m \in Nat /\ NumBuckets * n \in Nat
         /\ NumBuckets * (m + 1) = NumBuckets * m + NumBuckets
         /\ NumBuckets * m + NumBuckets <= NumBuckets * n
  <1>0. NumBuckets \in Nat
    BY BucketsAssumption
  <1>1. PICK d \in Nat : n = (m + 1) + d
    <2>1. n - (m + 1) \in Nat /\ n = (m + 1) + (n - (m + 1))
      OBVIOUS
    <2> QED
      BY <2>1
  <1>2. NumBuckets * d \in Nat /\ NumBuckets * m \in Nat /\ NumBuckets * n \in Nat
    BY <1>0
  <1>3. NumBuckets * (m + 1) = NumBuckets * m + NumBuckets
    BY <1>0
  <1>4. NumBuckets * ((m + 1) + d) = NumBuckets * m + NumBuckets + NumBuckets * d
    BY <1>0
  <1> QED
    BY <1>0, <1>1, <1>2, <1>3, <1>4

LEMMA BaseType ==
  ASSUME NEW pl, NEW k \in Nat
  PROVE  Base(pl, k) \in Nat
  <1>1. NumBuckets \in Nat /\ Cardinality(SyncsBefore(pl, k)) \in Nat
    BY SyncsFacts, BucketsAssumption
  <1> QED
    BY <1>1 DEF Base

LEMMA BaseFirst == ASSUME NEW pl PROVE Base(pl, 1) = 0
  <1>1. SyncsBefore(pl, 1) = {}
    BY DEF SyncsBefore
  <1>2. Cardinality(SyncsBefore(pl, 1)) = 0
    BY <1>1, FS_EmptySet
  <1> QED
    BY <1>2, BucketsAssumption DEF Base

\* A synchronising step makes NumBuckets calls, another one none.
LEMMA BaseNext ==
  ASSUME NEW pl, NEW k \in Nat \ {0}
  PROVE  /\ pl[k] \in SyncKinds => Base(pl, k + 1) = Base(pl, k) + NumBuckets
         /\ pl[k] \notin SyncKinds => Base(pl, k + 1) = Base(pl, k)
  <1>1. k \notin SyncsBefore(pl, k) /\ k + 1 \in Nat
    BY DEF SyncsBefore
  <1>2. ASSUME pl[k] \in SyncKinds PROVE Base(pl, k + 1) = Base(pl, k) + NumBuckets
    <2>1. SyncsBefore(pl, k + 1) = SyncsBefore(pl, k) \cup {k}
      BY <1>2 DEF SyncsBefore
    <2>2. Cardinality(SyncsBefore(pl, k + 1)) = Cardinality(SyncsBefore(pl, k)) + 1
      BY <1>1, <2>1, SyncsFacts, FS_AddElement
    <2>3. PICK n \in Nat : n = Cardinality(SyncsBefore(pl, k))
      BY SyncsFacts
    <2>4. NumBuckets * (n + 1) = NumBuckets * n + NumBuckets
      BY Products
    <2> QED
      BY <2>2, <2>3, <2>4 DEF Base
  <1>3. ASSUME pl[k] \notin SyncKinds PROVE Base(pl, k + 1) = Base(pl, k)
    <2>1. SyncsBefore(pl, k + 1) = SyncsBefore(pl, k)
      BY <1>3 DEF SyncsBefore
    <2> QED
      BY <2>1 DEF Base
  <1> QED
    BY <1>2, <1>3

\* The calls of a later step come after those of an earlier one.
LEMMA BaseOrder ==
  ASSUME NEW pl, NEW j \in Nat \ {0}, NEW k \in Nat, j < k
  PROVE  /\ Base(pl, j) <= Base(pl, k)
         /\ pl[j] \in SyncKinds => Base(pl, j) + NumBuckets <= Base(pl, k)
  <1>1. /\ SyncsBefore(pl, j + 1) \subseteq SyncsBefore(pl, k) /\ j + 1 \in Nat
        /\ Base(pl, j) \in Nat /\ Base(pl, k) \in Nat /\ NumBuckets \in Nat
    BY BaseType, BucketsAssumption DEF SyncsBefore
  <1>2. PICK m \in Nat : m = Cardinality(SyncsBefore(pl, j + 1))
    BY <1>1, SyncsFacts
  <1>3. PICK n \in Nat : n = Cardinality(SyncsBefore(pl, k))
    BY SyncsFacts
  <1>4. m <= n
    BY <1>1, <1>2, <1>3, SyncsFacts, FS_Subset
  <1>5. NumBuckets * m <= NumBuckets * n
    <2>1. CASE m = n
      BY <1>1, <2>1
    <2>2. CASE m + 1 <= n
      <3>1. NumBuckets * m \in Nat /\ NumBuckets * m + NumBuckets <= NumBuckets * n
        BY <2>2, Products
      <3>2. NumBuckets * n \in Nat
        BY <1>1
      <3> QED
        BY <1>1, <3>1, <3>2
    <2> QED
      BY <1>4, <2>1, <2>2
  <1>6. Base(pl, j + 1) <= Base(pl, k)
    BY <1>2, <1>3, <1>5 DEF Base
  <1>7. pl[j] \in SyncKinds => Base(pl, j + 1) = Base(pl, j) + NumBuckets
    BY BaseNext
  <1>8. pl[j] \notin SyncKinds => Base(pl, j + 1) = Base(pl, j)
    BY BaseNext
  <1> QED
    BY <1>1, <1>6, <1>7, <1>8

-----------------------------------------------------------------------------
(* Lemmas about gradients. *)

\* What a step keeps and averages.
LEMMA KeptNext ==
  ASSUME NEW pl, NEW k \in Nat \ {0}, NEW j \in Nat \ {0}
  PROVE  /\ pl[k] = "opt" => ~Kept(pl, j, k + 1)
         /\ pl[k] # "opt" => (Kept(pl, j, k + 1) <=> Kept(pl, j, k) \/ j = k)
         /\ ~Kept(pl, k, k) /\ (Kept(pl, j, k) => j < k)
         /\ pl[k] \in SyncKinds => (Kept(pl, j, k + 1) => Synced(pl, j, k + 1))
         /\ pl[k] \notin SyncKinds => (Synced(pl, j, k + 1) <=> Synced(pl, j, k))
  <1>1. ASSUME pl[k] = "opt" PROVE ~Kept(pl, j, k + 1)
    BY <1>1 DEF Kept
  <1>2. ASSUME pl[k] # "opt" PROVE Kept(pl, j, k + 1) <=> Kept(pl, j, k) \/ j = k
    <2>1. \A i \in Nat : i \in j .. (k + 1) - 1 <=> i \in j .. k - 1 \/ (i = k /\ j <= k)
      OBVIOUS
    <2>2. j \in 1 .. (k + 1) - 1 <=> j \in 1 .. k - 1 \/ j = k
      OBVIOUS
    <2>3. j = k => j .. k - 1 = {}
      OBVIOUS
    <2>4. \A i \in j .. (k + 1) - 1 : i \in Nat
      OBVIOUS
    <2>5. \A i \in j .. k - 1 : i \in Nat
      OBVIOUS
    <2> QED
      BY <1>2, <2>1, <2>2, <2>3, <2>4, <2>5 DEF Kept
  <1>3. ~Kept(pl, k, k) /\ (Kept(pl, j, k) => j < k)
    BY DEF Kept
  <1>4. ASSUME pl[k] \in SyncKinds, Kept(pl, j, k + 1) PROVE Synced(pl, j, k + 1)
    <2>1. k \in j .. (k + 1) - 1
      BY <1>4 DEF Kept
    <2> QED
      BY <1>4, <2>1 DEF Synced
  <1>5. ASSUME pl[k] \notin SyncKinds PROVE Synced(pl, j, k + 1) <=> Synced(pl, j, k)
    <2>1. \A i : i \in j .. (k + 1) - 1 /\ i # k => i \in j .. k - 1
      OBVIOUS
    <2>2. \A i \in j .. k - 1 : i \in j .. (k + 1) - 1
      OBVIOUS
    <2> QED
      BY <1>5, <2>1, <2>2 DEF Synced
  <1> QED
    BY <1>1, <1>2, <1>3, <1>4, <1>5

\* The step and the rank of a contribution.
LEMMA ContribOf ==
  ASSUME NEW c \in Contribs
  PROVE  /\ c[1] \in Ranks /\ c[2] \in Steps /\ c[2] \in Nat \ {0}
         /\ c = <<c[1], c[2]>>
  BY DEF Contribs, Steps

\* After a synchronising step every gradient is an average.
LEMMA AfterSync ==
  ASSUME NEW pl, NEW us, NEW r \in Ranks, NEW p, NEW k \in Steps, NEW rest,
         pl[k] \in SyncKinds, k + 1 \in Steps => us[r][k + 1] = {}
  PROVE  Local(pl, us, r, p, k + 1, rest) = Mean(pl, us, p, k + 1)
  <1> SUFFICES ASSUME NEW c \in Contribs
               PROVE  Local(pl, us, r, p, k + 1, rest)[c] = Mean(pl, us, p, k + 1)[c]
    BY DEF Local, Mean
  <1>1. k \in Nat \ {0} /\ c[2] \in Steps /\ c[2] \in Nat \ {0}
    BY ContribOf DEF Steps
  <1>2. Kept(pl, c[2], k + 1) => Synced(pl, c[2], k + 1)
    BY <1>1, KeptNext
  <1>3. c[1] = r /\ c[2] = k + 1 => p \notin us[c[1]][c[2]]
    BY <1>1
  <1> QED
    BY <1>2, <1>3 DEF Local, Mean

\* A no_sync() step leaves what its backward pass has accumulated.
LEMMA AfterLocal ==
  ASSUME NEW pl, NEW us, NEW r \in Ranks, NEW p, NEW k \in Steps, NEW rest,
         pl[k] = "no_sync", k + 1 \in Steps => us[r][k + 1] = {}
  PROVE  Local(pl, us, r, p, k + 1, rest) = Local(pl, us, r, p, k, {})
  <1> SUFFICES ASSUME NEW c \in Contribs
               PROVE  Local(pl, us, r, p, k + 1, rest)[c] = Local(pl, us, r, p, k, {})[c]
    BY DEF Local
  <1>1. k \in Nat \ {0} /\ c[2] \in Steps /\ c[2] \in Nat \ {0}
    BY ContribOf DEF Steps
  <1>2. /\ Kept(pl, c[2], k + 1) <=> Kept(pl, c[2], k) \/ c[2] = k
        /\ Synced(pl, c[2], k + 1) <=> Synced(pl, c[2], k)
    BY <1>1, KeptNext DEF SyncKinds
  <1>3. c[1] = r /\ c[2] = k + 1 => p \notin us[c[1]][c[2]]
    BY <1>1
  <1>4. ~Synced(pl, k, k)
    BY <1>1 DEF Synced
  <1> QED
    BY <1>2, <1>3, <1>4 DEF Local

\* zero_grad() leaves nothing.
LEMMA AfterOpt ==
  ASSUME NEW pl, NEW us, NEW r \in Ranks, NEW p, NEW k \in Steps, NEW rest,
         pl[k] = "opt", k + 1 \in Steps => us[r][k + 1] = {}
  PROVE  Local(pl, us, r, p, k + 1, rest) = ZeroGrad
  <1> SUFFICES ASSUME NEW c \in Contribs
               PROVE  Local(pl, us, r, p, k + 1, rest)[c] = ZeroGrad[c]
    BY DEF Local, ZeroGrad
  <1>1. k \in Nat \ {0} /\ c[2] \in Steps /\ c[2] \in Nat \ {0}
    BY ContribOf DEF Steps
  <1>2. ~Kept(pl, c[2], k + 1)
    BY <1>1, KeptNext
  <1>3. c[1] = r /\ c[2] = k + 1 => p \notin us[c[1]][c[2]]
    BY <1>1
  <1> QED
    BY <1>2, <1>3 DEF Local, ZeroGrad

\* A backward pass that begins has accumulated nothing yet.
LEMMA AtStart ==
  ASSUME NEW pl, NEW us, NEW vs, NEW r \in Ranks, NEW p, NEW k \in Steps,
         us[r][k] = {}, NEW u,
         \A c \in Contribs : vs[c[1]][c[2]] = IF c = <<r, k>> THEN u ELSE us[c[1]][c[2]]
  PROVE  Local(pl, vs, r, p, k, u) = Local(pl, us, r, p, k, {})
  <1> SUFFICES ASSUME NEW c \in Contribs
               PROVE  Local(pl, vs, r, p, k, u)[c] = Local(pl, us, r, p, k, {})[c]
    BY DEF Local
  <1>1. k \in Nat \ {0} /\ c = <<c[1], c[2]>>
    BY ContribOf DEF Steps
  <1>2. ~Kept(pl, k, k)
    BY <1>1, KeptNext
  <1>3. CASE c = <<r, k>>
    BY <1>2, <1>3 DEF Local
  <1>4. CASE c # <<r, k>>
    <2>1. vs[c[1]][c[2]] = us[c[1]][c[2]] /\ ~(c[1] = r /\ c[2] = k)
      BY <1>1, <1>4
    <2> QED
      BY <2>1 DEF Local
  <1> QED
    BY <1>3, <1>4

\* The backward pass reaches p.
LEMMA AtReached ==
  ASSUME NEW pl, NEW us, NEW r \in Ranks, NEW p, NEW k \in Steps, p \in us[r][k],
         NEW rest, p \in rest
  PROVE  Local(pl, us, r, p, k, rest \ {p}) =
            [Local(pl, us, r, p, k, rest) EXCEPT ![<<r, k>>] = "own"]
  <1> DEFINE old == Local(pl, us, r, p, k, rest)
             new == Local(pl, us, r, p, k, rest \ {p})
  <1>1. k \in Nat \ {0} /\ <<r, k>> \in Contribs /\ ~Kept(pl, k, k)
    BY KeptNext DEF Steps, Contribs
  <1>2. new[<<r, k>>] = "own"
    BY <1>1 DEF Local
  <1>3. ASSUME NEW c \in Contribs, c # <<r, k>> PROVE new[c] = old[c]
    <2>1. ~(c[1] = r /\ c[2] = k)
      BY <1>3, ContribOf
    <2> QED
      BY <2>1 DEF Local
  <1>4. new = [c \in Contribs |-> new[c]] /\ old = [c \in Contribs |-> old[c]]
    BY DEF Local
  <1> HIDE DEF old, new
  <1>5. new = [old EXCEPT ![<<r, k>>] = "own"]
    BY <1>1, <1>2, <1>3, <1>4
  <1> QED
    BY <1>5 DEF old, new

\* Only whether p itself is still to be reached matters.
LEMMA LocalRest ==
  ASSUME NEW pl, NEW us, NEW r, NEW p, NEW k, NEW m, NEW n, p \in m <=> p \in n
  PROVE  Local(pl, us, r, p, k, m) = Local(pl, us, r, p, k, n)
  BY DEF Local

\* The average of what the ranks hold in one and the same synchronising
\* step: every contribution counts once, whether this average or an earlier
\* one took it in.
LEMMA AverageIsMean ==
  ASSUME NEW pl, NEW us, NEW p, NEW k \in Steps, pl[k] \in SyncKinds
  PROVE  [c \in Contribs |-> Average(c[1], [s \in Ranks |-> Local(pl, us, s, p, k, {})[c]])]
            = Mean(pl, us, p, k + 1)
  <1> SUFFICES ASSUME NEW c \in Contribs
               PROVE  Average(c[1], [s \in Ranks |-> Local(pl, us, s, p, k, {})[c]])
                        = Mean(pl, us, p, k + 1)[c]
    BY DEF Mean
  <1> DEFINE w == [s \in Ranks |-> Local(pl, us, s, p, k, {})[c]]
  <1>1. c[1] \in Ranks /\ k \in Nat \ {0} /\ c[2] \in Nat \ {0} /\ pl[k] # "opt"
    BY ContribOf DEF Steps, SyncKinds
  <1>2. Kept(pl, c[2], k + 1) <=> Kept(pl, c[2], k) \/ c[2] = k
    BY <1>1, KeptNext
  <1>3. ~Kept(pl, k, k) /\ ~Synced(pl, k, k)
    BY <1>1 DEF Kept, Synced
  <1>4. CASE p \notin us[c[1]][c[2]] \/ ~Kept(pl, c[2], k + 1)
    <2>1. \A s \in Ranks : w[s] = "zero"
      BY <1>2, <1>4 DEF Local
    <2> HIDE DEF w
    <2>2. Average(c[1], w) = "zero"
      BY <2>1 DEF Average
    <2> QED
      BY <1>4, <2>2 DEF Mean, w
  <1>5. CASE p \in us[c[1]][c[2]] /\ Kept(pl, c[2], k + 1)
    <2>1. CASE Synced(pl, c[2], k)
      <3>1. \A s \in Ranks : w[s] = "mean"
        BY <1>2, <1>3, <1>5, <2>1 DEF Local
      <3> HIDE DEF w
      <3>2. Average(c[1], w) = "mean"
        BY <1>1, <3>1 DEF Average
      <3> QED
        BY <1>5, <3>2 DEF Mean, w
    <2>2. CASE ~Synced(pl, c[2], k)
      <3>1. w[c[1]] = "own" /\ \A s \in Ranks \ {c[1]} : w[s] = "zero"
        BY <1>1, <1>2, <1>5, <2>2 DEF Local
      <3> HIDE DEF w
      <3>2. Average(c[1], w) = "mean"
        BY <1>1, <3>1 DEF Average
      <3> QED
        BY <1>5, <3>2 DEF Mean, w
    <2> QED
      BY <2>1, <2>2
  <1> QED
    BY <1>4, <1>5

\* The gradients on a rank do not depend on passes of other ranks that no
\* average has taken in.
LEMMA LocalFrame ==
  ASSUME NEW pl, NEW us, NEW vs, NEW r \in Ranks, NEW p, NEW k, NEW rest,
         \A c \in Contribs :
            c[1] = r \/ Synced(pl, c[2], k) => vs[c[1]][c[2]] = us[c[1]][c[2]]
  PROVE  Local(pl, vs, r, p, k, rest) = Local(pl, us, r, p, k, rest)
  <1>1. ASSUME NEW c \in Contribs
        PROVE  Local(pl, vs, r, p, k, rest)[c] = Local(pl, us, r, p, k, rest)[c]
    <2>1. CASE c[1] = r \/ Synced(pl, c[2], k)
      BY <2>1 DEF Local
    <2>2. CASE ~(c[1] = r \/ Synced(pl, c[2], k))
      BY <2>2 DEF Local
    <2> QED
      BY <2>1, <2>2
  <1> QED
    BY <1>1 DEF Local

LEMMA MeanFrame ==
  ASSUME NEW pl, NEW us, NEW vs, NEW p, NEW k,
         \A c \in Contribs : Kept(pl, c[2], k) => vs[c[1]][c[2]] = us[c[1]][c[2]]
  PROVE  Mean(pl, vs, p, k) = Mean(pl, us, p, k)
  <1>1. ASSUME NEW c \in Contribs PROVE Mean(pl, vs, p, k)[c] = Mean(pl, us, p, k)[c]
    BY DEF Mean
  <1> QED
    BY <1>1 DEF Mean

-----------------------------------------------------------------------------
(* Lemmas about the ranks and their calls. *)

LEMMA RankTypes ==
  ASSUME TypeInv, NEW r \in Ranks
  PROVE  /\ NumBuckets \in Nat \ {0} /\ NumSteps \in Nat
         /\ plan \in [Steps -> StepKinds]
         /\ step[r] \in Nat \ {0} /\ step[r] <= NumSteps + 1
         /\ next[r] \in Nat /\ next[r] <= NumBuckets
         /\ at[r] \in Nat /\ at[r] < NumBuckets /\ at[r] \in Buckets
         /\ Base(plan, step[r]) \in Nat
         /\ log[r] \in Seq(Buckets) /\ Len(log[r]) \in Nat
         /\ pc[r] \in Labels
         /\ \A b \in Buckets : b \in Nat /\ b < NumBuckets
         /\ \A p \in Params : BucketOf[p] \in Buckets
  <1>1. /\ NumBuckets \in Nat \ {0} /\ NumSteps \in Nat
        /\ \A p \in Params : BucketOf[p] \in Buckets
    BY BucketsAssumption, PlansAssumption
  <1>2. /\ plan \in [Steps -> StepKinds]
        /\ step[r] \in 1 .. NumSteps + 1 /\ next[r] \in 0 .. NumBuckets
        /\ at[r] \in Buckets /\ log[r] \in Seq(Buckets) /\ pc[r] \in Labels
    BY PlansAssumption DEF TypeInv, TypeOK
  <1>3. step[r] \in Nat \ {0} /\ step[r] <= NumSteps + 1
    BY <1>1, <1>2
  <1>4. Base(plan, step[r]) \in Nat
    BY <1>3, BaseType
  <1>5. next[r] \in Nat /\ next[r] <= NumBuckets
    BY <1>1, <1>2
  <1>6. \A b \in Buckets : b \in Nat /\ b < NumBuckets
    BY <1>1 DEF Buckets
  <1>7. Len(log[r]) \in Nat
    BY <1>2
  <1> QED
    BY <1>1, <1>2, <1>3, <1>4, <1>5, <1>6, <1>7

\* Only a rank in a synchronising step has launched a bucket.
LEMMA LaunchedIsSync ==
  ASSUME IInv, NEW r \in Ranks, next[r] # 0
  PROVE  /\ pc[r] \in {"backward", "finish"}
         /\ step[r] \in Steps /\ plan[step[r]] \in SyncKinds
  <1>1. RankInv(r) /\ PassInv(r) /\ TypeInv /\ BusyAtStep /\ pc[r] \in Labels
    BY RankTypes DEF IInv, ReducerInv, MeanInv, TypeInv
  <1>2. pc[r] \in {"backward", "finish"}
    BY <1>1 DEF RankInv, Resting, Labels
  <1>3. CASE pc[r] = "finish"
    BY <1>1, <1>3 DEF PassInv, BusyAtStep
  <1>4. CASE pc[r] = "backward"
    <2>1. SyncEnabled(r)
      BY <1>1, <1>4 DEF RankInv, Counting
    <2> QED
      BY <1>1, <1>4, <2>1 DEF PassInv, BusyAtStep, SyncEnabled, SyncKinds
  <1> QED
    BY <1>2, <1>3, <1>4

\* A call not completed yet is one of the rank's current step.
LEMMA OpenCall ==
  ASSUME IInv, NEW r \in Ranks, NEW k \in 1 .. Len(log[r]), k \notin completed
  PROVE  /\ step[r] \in Steps /\ plan[step[r]] \in SyncKinds
         /\ \E b \in Buckets : /\ b < next[r] /\ k = CallOf(r, b)
                               /\ work[r][b] = k /\ log[r][k] = b
  <1>1. TypeInv /\ RankInv(r) /\ CallInv(r)
    BY DEF IInv, ReducerInv, MeanInv
  <1>2. PICK base \in Nat : base = Base(plan, step[r])
    BY <1>1, RankTypes
  <1>3. /\ k \in Nat /\ base + at[r] < k /\ k <= base + next[r]
        /\ at[r] \in Nat /\ next[r] \in Nat /\ next[r] <= NumBuckets
    <2>1. ~(k \in 1 .. base + at[r]) /\ Len(log[r]) = base + next[r]
      BY <1>1, <1>2 DEF CallInv
    <2> QED
      BY <1>1, <1>2, <2>1, RankTypes
  <1>4. PICK b \in Nat : k = base + b + 1 /\ at[r] <= b /\ b < next[r]
    <2>1. k - base - 1 \in Nat /\ k = base + (k - base - 1) + 1
      BY <1>2, <1>3
    <2>2. at[r] <= k - base - 1 /\ k - base - 1 < next[r]
      BY <1>2, <1>3
    <2> QED
      BY <2>1, <2>2
  <1>5. b \in Buckets /\ next[r] # 0
    <2>1. NumBuckets \in Nat
      BY BucketsAssumption
    <2>2. b < NumBuckets /\ next[r] # 0
      BY <1>3, <1>4, <2>1
    <2> QED
      BY <2>1, <2>2 DEF Buckets
  <1>6. k = CallOf(r, b) /\ log[r][k] = b
    BY <1>1, <1>2, <1>4, <1>5 DEF CallInv, CallOf
  <1>7. work[r][b] = k
    BY <1>1, <1>4, <1>5, <1>6 DEF RankInv, LaunchedRange, CallInv
  <1> QED
    BY <1>4, <1>5, <1>6, <1>7, LaunchedIsSync

\* A rank that has made a call of step i is in that step or past it.
LEMMA HasCalled ==
  ASSUME IInv, NEW s \in Ranks, NEW i \in Steps, NEW n \in Nat,
         Base(plan, i) < n, n <= Len(log[s])
  PROVE  step[s] > i \/ (step[s] = i /\ pc[s] \in {"backward", "finish"})
  <1>1. TypeInv /\ CallInv(s) /\ i \in Nat \ {0}
    BY DEF IInv, MeanInv, Steps
  <1>2. PICK k \in Nat \ {0} : k = step[s]
    BY <1>1, RankTypes
  <1>3. /\ n <= Base(plan, k) + next[s] /\ next[s] \in Nat /\ next[s] <= NumBuckets
        /\ Base(plan, k) \in Nat /\ Base(plan, i) \in Nat /\ NumBuckets \in Nat
    BY <1>1, <1>2, RankTypes, BaseType DEF CallInv
  <1>4. CASE next[s] = 0
    <2>1. ~(k < i) /\ k # i
      BY <1>1, <1>2, <1>3, <1>4, BaseOrder
    <2> QED
      BY <1>1, <1>2, <2>1
  <1>5. CASE next[s] # 0
    <2>1. pc[s] \in {"backward", "finish"} /\ plan[k] \in SyncKinds
      BY <1>2, <1>5, LaunchedIsSync
    <2>2. ~(k < i)
      BY <1>1, <1>2, <1>3, <2>1, BaseOrder
    <2> QED
      BY <1>1, <1>2, <2>1, <2>2
  <1> QED
    BY <1>4, <1>5

\* Once a rank has left a synchronising step, or taken an average in one, no
\* rank is still to begin it.
LEMMA Passed ==
  ASSUME IInv, NEW r \in Ranks, NEW q \in Ranks, pc[q] = "idle"
  PROVE  /\ \A i \in Steps : i < step[r] /\ plan[i] \in SyncKinds => step[q] > i
         /\ at[r] > 0 => step[q] > step[r]
         /\ \A b \in Buckets :
               work[r][b] # 0 /\ work[r][b] \in completed => step[q] > step[r]
  <1>1. TypeInv /\ CallInv(r) /\ CallInv(q) /\ RankInv(r)
    BY DEF IInv, ReducerInv, MeanInv
  <1>2. PICK base \in Nat : base = Base(plan, step[r])
    BY <1>1, RankTypes
  <1>3. \A n \in 1 .. base + at[r] : n \in completed
    BY <1>1, <1>2 DEF CallInv
  <1>4. \A n \in completed : n \in Nat /\ n <= Len(log[q])
    BY <1>1, RankTypes DEF CallInv
  <1>5. ASSUME NEW i \in Steps, i < step[r], plan[i] \in SyncKinds PROVE step[q] > i
    <2>1. /\ Base(plan, i) \in Nat /\ Base(plan, i) + NumBuckets <= base
          /\ NumBuckets \in Nat \ {0} /\ at[r] \in Nat
      BY <1>1, <1>2, <1>5, BaseOrder, BaseType, RankTypes DEF Steps
    <2>2. base \in 1 .. base + at[r] /\ Base(plan, i) < base
      BY <1>2, <2>1
    <2>3. base \in Nat /\ base <= Len(log[q])
      BY <1>3, <1>4, <2>2
    <2> QED
      BY <2>2, <2>3, HasCalled
  <1>6. ASSUME NEW n \in completed, base < n, next[r] # 0 PROVE step[q] > step[r]
    <2>1. step[r] \in Steps
      BY <1>6, LaunchedIsSync
    <2>2. n \in Nat /\ n <= Len(log[q]) /\ Base(plan, step[r]) < n
      BY <1>2, <1>4, <1>6
    <2> QED
      BY <2>1, <2>2, HasCalled
  <1>7. ASSUME at[r] > 0 PROVE step[q] > step[r]
    <2>1. at[r] \in Nat /\ next[r] # 0
      BY <1>1, <1>7, RankTypes DEF RankInv, LaunchedRange
    <2>2. base + at[r] \in 1 .. base + at[r] /\ base < base + at[r]
      BY <1>2, <1>7, <2>1
    <2> QED
      BY <1>3, <1>6, <2>1, <2>2
  <1>8. ASSUME NEW b \in Buckets, work[r][b] # 0, work[r][b] \in completed
        PROVE  step[q] > step[r]
    <2>1. work[r][b] = base + b + 1 /\ b < next[r] /\ b \in Nat /\ next[r] \in Nat
      BY <1>1, <1>2, <1>8, RankTypes DEF CallInv, CallOf, RankInv, LaunchedRange
    <2>2. base < work[r][b] /\ next[r] # 0
      BY <1>2, <2>1
    <2> QED
      BY <1>6, <1>8, <2>2
  <1> QED
    BY <1>5, <1>7, <1>8

-----------------------------------------------------------------------------
(* A step of one rank leaves what the invariant says of the others. *)

\* What a step of rank q does to rank r's variables, and to what was used.
LEMMA OtherVars ==
  ASSUME TypeInv, NEW q \in Ranks, RankStep(q), NEW r \in Ranks \ {q}
  PROVE  /\ plan' = plan /\ completed' = completed
         /\ pc'[r] = pc[r] /\ step'[r] = step[r] /\ todo'[r] = todo[r]
         /\ grad'[r] = grad[r] /\ buffer'[r] = buffer[r] /\ queued'[r] = queued[r]
         /\ work'[r] = work[r] /\ next'[r] = next[r] /\ at'[r] = at[r]
         /\ log'[r] = log[r] /\ used'[r] = used[r]
  <1>1. /\ pc \in [Ranks -> Labels]
        /\ step \in [Ranks -> 1 .. NumSteps + 1]
        /\ todo \in [Ranks -> SUBSET Params]
        /\ used \in [Ranks -> [Steps -> SUBSET Params]]
        /\ grad \in [Ranks -> [Params -> Grads]]
        /\ buffer \in [Ranks -> [Params -> Grads]]
        /\ pending \in [Ranks -> [Buckets -> Int]]
        /\ work \in [Ranks -> [Buckets -> Nat]]
        /\ next \in [Ranks -> 0 .. NumBuckets]
        /\ queued \in [Ranks -> BOOLEAN]
        /\ at \in [Ranks -> Buckets]
        /\ log \in [Ranks -> Seq(Buckets)]
    BY DEF TypeInv, TypeOK
  <1> DEFINE Same == /\ plan' = plan /\ completed' = completed
                     /\ pc'[r] = pc[r] /\ step'[r] = step[r] /\ todo'[r] = todo[r]
                     /\ grad'[r] = grad[r] /\ buffer'[r] = buffer[r]
                     /\ queued'[r] = queued[r] /\ work'[r] = work[r]
                     /\ next'[r] = next[r] /\ at'[r] = at[r]
                     /\ log'[r] = log[r] /\ used'[r] = used[r]
  <1> USE DEF program, pass, reducer, calls, GoTo, NextStep
  <1>2. ASSUME Construct(q) PROVE Same
    BY <1>1, <1>2 DEF Construct
  <1>3. ASSUME StartBackward(q) PROVE Same
    BY <1>1, <1>3 DEF StartBackward
  <1>4. ASSUME NEW p \in Params, GradReady(q, p) PROVE Same
    BY <1>1, <1>4 DEF GradReady
  <1>5. ASSUME NEW b \in Buckets, Launch(q, b) PROVE Same
    BY <1>1, <1>5 DEF Launch
  <1>6. ASSUME LaunchReady(q) \/ FlushBucket(q) PROVE Same
    <2>1. next[q] \in Buckets /\ Launch(q, next[q])
      BY <1>1, <1>6, BucketsAssumption
      DEF LaunchReady, NextIsReady, FlushBucket, Buckets
    <2> QED
      BY <1>5, <2>1
  <1>7. ASSUME EndBackward(q) PROVE Same
    BY <1>1, <1>7 DEF EndBackward
  <1>8. ASSUME CallFinish(q) PROVE Same
    BY <1>1, <1>8 DEF CallFinish
  <1>9. ASSUME WaitBucket(q) PROVE Same
    <2>1. /\ UNCHANGED <<plan, completed, todo, used, buffer, queued, log>>
          /\ pending'[r] = pending[r] /\ work'[r] = work[r]
      BY <1>1, <1>9 DEF WaitBucket
    <2>2. grad'[r] = grad[r]
      BY <1>1, <1>9 DEF WaitBucket
    <2>3. at'[r] = at[r] /\ next'[r] = next[r] /\ pc'[r] = pc[r] /\ step'[r] = step[r]
      BY <1>1, <1>9 DEF WaitBucket, EndOfWait
    <2> QED
      BY <2>1, <2>2, <2>3
  <1>10. ASSUME OptStep(q) PROVE Same
    BY <1>1, <1>10 DEF OptStep
  <1>11. Same
    BY <1>2, <1>3, <1>4, <1>6, <1>7, <1>8, <1>9, <1>10 DEF RankStep
  <1> QED
    BY <1>11

\* Only a rank that begins a backward pass changes what was used, and only
\* in the step it is in.
LEMMA UsedChange ==
  ASSUME TypeInv, NEW q \in Ranks, RankStep(q), NEW c \in Contribs,
         used'[c[1]][c[2]] # used[c[1]][c[2]]
  PROVE  pc[q] = "idle" /\ c[1] = q /\ c[2] = step[q]
  <1>1. used' # used
    OBVIOUS
  <1>2. StartBackward(q)
    BY <1>1 DEF RankStep, Construct, GradReady, LaunchReady, FlushBucket, Launch,
                EndBackward, CallFinish, WaitBucket, OptStep, pass
  <1>3. PICK u \in UsedSets : used' = [used EXCEPT ![q][step[q]] = u]
    BY <1>2 DEF StartBackward
  <1>4. used \in [Ranks -> [Steps -> SUBSET Params]] /\ c[1] \in Ranks /\ c[2] \in Steps
    BY ContribOf DEF TypeInv, TypeOK
  <1>5. c[1] = q /\ c[2] = step[q]
    BY <1>3, <1>4
  <1> QED
    BY <1>2, <1>5 DEF StartBackward, AtStep

\* What a rank holds of the others' contributions is not touched when one of
\* them begins a backward pass.
LEMMA OtherMean ==
  ASSUME IInv, NEW q \in Ranks, RankStep(q), NEW r \in Ranks \ {q}
  PROVE  PassInv(r)' /\ CallInv(r)' /\ GradInv(r)' /\ BufferInv(r)'
  <1>1. TypeInv /\ PassInv(r) /\ CallInv(r) /\ GradInv(r) /\ BufferInv(r)
    BY DEF IInv, MeanInv
  <1>2. /\ plan' = plan /\ completed' = completed
        /\ pc'[r] = pc[r] /\ step'[r] = step[r] /\ todo'[r] = todo[r]
        /\ grad'[r] = grad[r] /\ buffer'[r] = buffer[r] /\ queued'[r] = queued[r]
        /\ work'[r] = work[r] /\ next'[r] = next[r] /\ at'[r] = at[r]
        /\ log'[r] = log[r] /\ used'[r] = used[r]
    BY <1>1, OtherVars
  <1>3. PICK k \in Nat \ {0} : k = step[r]
    BY <1>1, RankTypes
  <1>4. PassInv(r)' /\ CallInv(r)'
    BY <1>1, <1>2 DEF PassInv, CallInv, CallOf
  <1>5. ASSUME NEW p \in Params, NEW rest
        PROVE  Local(plan, used', r, p, k, rest) = Local(plan, used, r, p, k, rest)
    <2>1. ASSUME NEW c \in Contribs, c[1] = r \/ Synced(plan, c[2], k)
          PROVE  used'[c[1]][c[2]] = used[c[1]][c[2]]
      <3>1. CASE c[1] = r
        BY <1>2, <3>1
      <3>2. CASE Synced(plan, c[2], k)
        <4>1. PICK i \in c[2] .. k - 1 : plan[i] \in SyncKinds
          BY <3>2 DEF Synced
        <4>2. i \in Nat /\ c[2] \in Nat /\ c[2] <= i /\ i < step[r] /\ i \in Steps
          BY <1>1, <1>3, <4>1, ContribOf, RankTypes DEF Steps
        <4>3. pc[q] = "idle" => step[q] > i /\ step[q] \in Nat
          BY <1>1, <4>1, <4>2, Passed, RankTypes
        <4> QED
          BY <1>1, <4>2, <4>3, UsedChange
      <3> QED
        BY <2>1, <3>1, <3>2
    <2> QED
      BY <2>1, LocalFrame
  <1>6. ASSUME NEW p \in Params, pc[q] = "idle" => step[q] > k
        PROVE  Mean(plan, used', p, k + 1) = Mean(plan, used, p, k + 1)
    <2>1. ASSUME NEW c \in Contribs, Kept(plan, c[2], k + 1)
          PROVE  used'[c[1]][c[2]] = used[c[1]][c[2]]
      <3>1. c[2] \in Nat /\ c[2] < k + 1
        BY <2>1, ContribOf DEF Kept
      <3>2. step[q] \in Nat
        BY <1>1, RankTypes
      <3> QED
        BY <1>1, <1>3, <1>6, <3>1, <3>2, UsedChange
    <2> QED
      BY <2>1, MeanFrame
  <1>7. GradInv(r)'
    <2>1. ASSUME NEW p \in Params
          PROVE  grad'[r][p] = IF BucketOf[p] < at'[r]
                               THEN Mean(plan', used', p, step'[r] + 1)
                               ELSE Local(plan', used', r, p, step'[r], todo'[r])
      <3>1. CASE BucketOf[p] < at[r]
        <4>1. pc[q] = "idle" => step[q] > k
          <5>1. at[r] > 0
            BY <1>1, <3>1, RankTypes
          <5> QED
            BY <1>3, <5>1, Passed
        <4>2. grad[r][p] = Mean(plan, used, p, k + 1)
          BY <1>1, <1>3, <3>1 DEF GradInv
        <4> QED
          BY <1>2, <1>3, <1>6, <3>1, <4>1, <4>2
      <3>2. CASE ~(BucketOf[p] < at[r])
        <4>1. grad[r][p] = Local(plan, used, r, p, k, todo[r])
          BY <1>1, <1>3, <3>2 DEF GradInv
        <4> QED
          BY <1>2, <1>3, <1>5, <3>2, <4>1
      <3> QED
        BY <3>1, <3>2
    <2> QED
      BY <2>1 DEF GradInv
  <1>8. BufferInv(r)'
    <2>1. ASSUME NEW p \in Params, work[r][BucketOf[p]] # 0
          PROVE  buffer'[r][p] = IF work'[r][BucketOf[p]] \in completed'
                                 THEN Mean(plan', used', p, step'[r] + 1) ELSE grad'[r][p]
      <3>1. CASE work[r][BucketOf[p]] \in completed
        <4>1. pc[q] = "idle" => step[q] > k
          BY <1>1, <1>3, <2>1, <3>1, Passed, RankTypes
        <4>2. buffer[r][p] = Mean(plan, used, p, k + 1)
          BY <1>1, <1>3, <2>1, <3>1 DEF BufferInv
        <4> QED
          BY <1>2, <1>3, <1>6, <3>1, <4>1, <4>2
      <3>2. CASE work[r][BucketOf[p]] \notin completed
        BY <1>1, <1>2, <2>1, <3>2 DEF BufferInv
      <3> QED
        BY <3>1, <3>2
    <2> QED
      BY <1>2, <2>1 DEF BufferInv
  <1> QED
    BY <1>4, <1>7, <1>8

-----------------------------------------------------------------------------
(* Each step of a rank keeps what the invariant says of that rank. *)

LEMMA ConstructMean ==
  ASSUME IInv, NEW q \in Ranks, Construct(q)
  PROVE  PassInv(q)' /\ CallInv(q)' /\ GradInv(q)' /\ BufferInv(q)'
  <1>1. PassInv(q) /\ CallInv(q) /\ GradInv(q) /\ BufferInv(q)
    BY DEF IInv, MeanInv
  <1>2. /\ pc[q] = "ctor" /\ pc'[q] = "idle"
        /\ UNCHANGED <<plan, step, todo, used, grad, buffer, work, next, queued, at,
                       log, completed>>
    BY DEF Construct, program, pass, reducer, calls, GoTo, IInv, TypeInv, TypeOK
  <1>3. PassInv(q)'
    BY <1>1, <1>2 DEF PassInv
  <1>4. CallInv(q)' /\ GradInv(q)' /\ BufferInv(q)'
    BY <1>1, <1>2 DEF CallInv, CallOf, GradInv, BufferInv
  <1> QED
    BY <1>3, <1>4

LEMMA StartMean ==
  ASSUME IInv, NEW q \in Ranks, StartBackward(q)
  PROVE  PassInv(q)' /\ CallInv(q)' /\ GradInv(q)' /\ BufferInv(q)'
  <1>1. /\ TypeInv /\ RankInv(q)
        /\ PassInv(q) /\ CallInv(q) /\ GradInv(q) /\ BufferInv(q)
    BY DEF IInv, ReducerInv, MeanInv
  <1>2. PICK u \in UsedSets : /\ todo' = [todo EXCEPT ![q] = u]
                              /\ used' = [used EXCEPT ![q][step[q]] = u]
    BY DEF StartBackward
  <1>3. /\ pc[q] = "idle" /\ step[q] \in Steps
        /\ plan[step[q]] \in {"backward", "no_sync"} /\ pc'[q] = "backward"
        /\ UNCHANGED <<plan, step, grad, buffer, work, next, queued, at, log, completed>>
    BY <1>1 DEF StartBackward, AtStep, program, reducer, calls, GoTo, TypeInv, TypeOK
  <1>4. u # {} /\ todo[q] = {} /\ next[q] = 0 /\ used[q][step[q]] = {}
    <2>1. u # {}
      BY PlansAssumption
    <2>2. todo[q] = {} /\ next[q] = 0
      BY <1>1, <1>3 DEF RankInv, Resting
    <2>3. used[q][step[q]] = {}
      BY <1>1, <1>3, RankTypes DEF PassInv
    <2> QED
      BY <2>1, <2>2, <2>3
  <1>5. /\ used \in [Ranks -> [Steps -> SUBSET Params]] /\ todo \in [Ranks -> SUBSET Params]
        /\ todo'[q] = u /\ used'[q][step[q]] = u
        /\ \A j \in Steps : j # step[q] => used'[q][j] = used[q][j]
    <2>1. used \in [Ranks -> [Steps -> SUBSET Params]] /\ todo \in [Ranks -> SUBSET Params]
      BY <1>1 DEF TypeInv, TypeOK
    <2> QED
      BY <1>2, <1>3, <2>1
  <1>6. PassInv(q)'
    <2>1. ASSUME NEW j \in Steps, used'[q][j] # {} PROVE j < step[q] \/ j = step[q]
      BY <1>1, <1>5, <2>1 DEF PassInv
    <2> QED
      BY <1>3, <1>4, <1>5, <2>1 DEF PassInv
  <1>7. CallInv(q)'
    BY <1>1, <1>3 DEF CallInv, CallOf
  <1>8. at[q] = 0 /\ \A b \in Buckets : work[q][b] = 0
    BY <1>1, <1>3, <1>4, RankTypes DEF RankInv, LaunchedRange
  <1>9. GradInv(q)'
    <2> SUFFICES ASSUME NEW p \in Params
                 PROVE  grad[q][p] = Local(plan, used', q, p, step[q], u)
      BY <1>1, <1>3, <1>5, <1>8, RankTypes DEF GradInv
    <2>1. grad[q][p] = Local(plan, used, q, p, step[q], {})
      <3>1. todo[q] = {} /\ ~(BucketOf[p] < at[q])
        BY <1>1, <1>4, <1>8, RankTypes
      <3> QED
        BY <1>1, <3>1 DEF GradInv
    <2>2. \A c \in Contribs : used'[c[1]][c[2]] = IF c = <<q, step[q]>> THEN u
                                                  ELSE used[c[1]][c[2]]
      <3> SUFFICES ASSUME NEW c \in Contribs
                   PROVE  used'[c[1]][c[2]] = IF c = <<q, step[q]>> THEN u
                                              ELSE used[c[1]][c[2]]
        OBVIOUS
      <3>1. c[1] \in Ranks /\ c[2] \in Steps /\ c = <<c[1], c[2]>>
        BY ContribOf
      <3> QED
        BY <1>2, <1>3, <1>5, <3>1
    <2>3. PICK k \in Steps : k = step[q]
      BY <1>3
    <2>4. used[q][k] = {} /\ (\A c \in Contribs : used'[c[1]][c[2]] =
                              IF c = <<q, k>> THEN u ELSE used[c[1]][c[2]])
      BY <1>4, <2>2, <2>3
    <2>5. Local(plan, used', q, p, k, u) = Local(plan, used, q, p, k, {})
      BY <2>4, AtStart
    <2> QED
      BY <2>1, <2>3, <2>5
  <1>10. BufferInv(q)'
    BY <1>1, <1>3, <1>8, RankTypes DEF BufferInv
  <1> QED
    BY <1>6, <1>7, <1>9, <1>10

LEMMA ReadyMean ==
  ASSUME IInv, NEW q \in Ranks, NEW p \in Params, GradReady(q, p)
  PROVE  PassInv(q)' /\ CallInv(q)' /\ GradInv(q)' /\ BufferInv(q)'
  <1>1. /\ TypeInv /\ RankInv(q)
        /\ PassInv(q) /\ CallInv(q) /\ GradInv(q) /\ BufferInv(q)
    BY DEF IInv, ReducerInv, MeanInv
  <1>2. /\ pc[q] = "backward" /\ p \in todo[q] /\ step[q] \in Steps
        /\ todo' = [todo EXCEPT ![q] = @ \ {p}]
        /\ grad' = [grad EXCEPT ![q][p] = Accumulated(q, p)]
        /\ UNCHANGED <<plan, pc, step, used, buffer, work, next, at, log, completed>>
    BY <1>1 DEF GradReady, program, calls, TypeInv, BusyAtStep
  <1>3. SyncEnabled(q) => queued'[q]
    BY <1>1, <1>2 DEF GradReady, TypeInv, TypeOK
  <1>4. /\ todo \in [Ranks -> SUBSET Params] /\ grad \in [Ranks -> [Params -> Grads]]
        /\ todo'[q] = todo[q] \ {p} /\ grad'[q][p] = Accumulated(q, p)
        /\ \A o \in Params \ {p} : grad'[q][o] = grad[q][o]
    <2>1. todo \in [Ranks -> SUBSET Params] /\ grad \in [Ranks -> [Params -> Grads]]
      BY <1>1 DEF TypeInv, TypeOK
    <2> QED
      BY <1>2, <2>1
  <1>5. p \in used[q][step[q]] /\ at[q] = 0
        /\ (\A b \in Buckets : work[q][b] # 0 => b # BucketOf[p])
    <2>1. p \in used[q][step[q]]
      BY <1>1, <1>2 DEF RankInv, Counting
    <2>2. at[q] = 0
      BY <1>1, <1>2, RankTypes DEF RankInv, LaunchedRange
    <2>3. ASSUME NEW b \in Buckets, work[q][b] # 0 PROVE b # BucketOf[p]
      BY <1>1, <1>2, <2>3 DEF RankInv, LaunchedRange, Counting, ParamsOf
    <2> QED
      BY <2>1, <2>2, <2>3
  <1>6. PassInv(q)'
    BY <1>1, <1>2, <1>3 DEF PassInv, SyncEnabled
  <1>7. CallInv(q)'
    BY <1>1, <1>2 DEF CallInv, CallOf
  <1>8. GradInv(q)'
    <2> SUFFICES ASSUME NEW o \in Params
                 PROVE  grad'[q][o] = Local(plan, used, q, o, step[q], todo'[q])
      <3>1. plan' = plan /\ used' = used /\ step' = step /\ at' = at
        BY <1>2
      <3>2. \A o \in Params : ~(BucketOf[o] < at[q])
        BY <1>1, <1>5, RankTypes
      <3> QED
        BY <3>1, <3>2 DEF GradInv
    <2>1. grad[q][o] = Local(plan, used, q, o, step[q], todo[q])
      BY <1>1, <1>5, RankTypes DEF GradInv
    <2>2. CASE o = p
      <3>1. grad'[q][p] = [grad[q][p] EXCEPT ![<<q, step[q]>>] = "own"]
        BY <1>4 DEF Accumulated
      <3>2. Local(plan, used, q, p, step[q], todo[q] \ {p})
              = [Local(plan, used, q, p, step[q], todo[q]) EXCEPT ![<<q, step[q]>>] = "own"]
        BY <1>2, <1>5, AtReached
      <3> QED
        BY <1>4, <2>1, <2>2, <3>1, <3>2
    <2>3. CASE o # p
      <3>1. (o \in todo'[q] <=> o \in todo[q]) /\ grad'[q][o] = grad[q][o]
        BY <1>4, <2>3
      <3>2. Local(plan, used, q, o, step[q], todo'[q]) = Local(plan, used, q, o, step[q], todo[q])
        BY <3>1, LocalRest
      <3> QED
        BY <2>1, <3>1, <3>2
    <2> QED
      BY <2>2, <2>3
  <1>9. BufferInv(q)'
    <2>1. ASSUME NEW o \in Params, work[q][BucketOf[o]] # 0 PROVE grad'[q][o] = grad[q][o]
      BY <1>1, <1>4, <1>5, <2>1, RankTypes
    <2> QED
      BY <1>1, <1>2, <2>1 DEF BufferInv
  <1> QED
    BY <1>6, <1>7, <1>8, <1>9

LEMMA LaunchMean ==
  ASSUME IInv, NEW q \in Ranks, next[q] < NumBuckets, Launch(q, next[q])
  PROVE  PassInv(q)' /\ CallInv(q)' /\ GradInv(q)' /\ BufferInv(q)'
  <1>1. /\ TypeInv /\ RankInv(q)
        /\ PassInv(q) /\ CallInv(q) /\ GradInv(q) /\ BufferInv(q)
    BY DEF IInv, ReducerInv, MeanInv
  <1>2. PICK base \in Nat : base = Base(plan, step[q])
    BY <1>1, RankTypes
  <1>3. PICK n \in Buckets : n = next[q] /\ n \in Nat
    BY <1>1, RankTypes DEF Buckets
  <1>4. /\ UNCHANGED <<plan, pc, step, todo, used, grad, queued, at, completed>>
        /\ buffer' = [buffer EXCEPT ![q] =
                        [p \in Params |-> IF BucketOf[p] = n THEN grad[q][p] ELSE @[p]]]
        /\ log' = [log EXCEPT ![q] = Append(@, n)]
        /\ work' = [work EXCEPT ![q][n] = Len(log[q]) + 1]
        /\ next' = [next EXCEPT ![q] = @ + 1]
    BY <1>3 DEF Launch, program, pass
  <1>5. /\ log[q] \in Seq(Buckets) /\ Len(log[q]) = base + n
        /\ next'[q] = n + 1 /\ log'[q] = Append(log[q], n)
        /\ work'[q][n] = base + n + 1
        /\ \A b \in Buckets \ {n} : work'[q][b] = work[q][b]
        /\ \A p \in Params : buffer'[q][p] = IF BucketOf[p] = n THEN grad[q][p]
                                             ELSE buffer[q][p]
    <2>1. /\ log \in [Ranks -> Seq(Buckets)] /\ next \in [Ranks -> 0 .. NumBuckets]
          /\ work \in [Ranks -> [Buckets -> Nat]]
          /\ buffer \in [Ranks -> [Params -> Grads]]
      BY <1>1 DEF TypeInv, TypeOK
    <2>2. Len(log[q]) = base + n
      BY <1>1, <1>2, <1>3 DEF CallInv
    <2>3. next'[q] = n + 1 /\ log'[q] = Append(log[q], n) /\ log[q] \in Seq(Buckets)
      BY <1>3, <1>4, <2>1
    <2>4. work'[q][n] = base + n + 1 /\ \A b \in Buckets \ {n} : work'[q][b] = work[q][b]
      BY <1>4, <2>1, <2>2
    <2>5. \A p \in Params : buffer'[q][p] = IF BucketOf[p] = n THEN grad[q][p]
                                            ELSE buffer[q][p]
      BY <1>4, <2>1
    <2> QED
      BY <2>2, <2>3, <2>4, <2>5
  <1>6. /\ Len(log'[q]) = base + n + 1 /\ log'[q][base + n + 1] = n
        /\ \A k \in 1 .. base + n : log'[q][k] = log[q][k]
    BY <1>2, <1>3, <1>5
  <1>7. PassInv(q)' /\ GradInv(q)'
    BY <1>1, <1>4 DEF PassInv, GradInv
  <1>8. CallInv(q)'
    <2>1. Len(log'[q]) = base + next'[q]
      BY <1>2, <1>3, <1>5, <1>6
    <2>2. ASSUME NEW b \in Buckets, b < next'[q] PROVE log'[q][base + b + 1] = b
      <3>1. b \in Nat /\ b <= n
        BY <1>1, <1>3, <1>5, <2>2, RankTypes
      <3>2. CASE b = n
        BY <1>6, <3>2
      <3>3. CASE b < n
        <4>1. base + b + 1 \in 1 .. base + n
          BY <1>2, <1>3, <3>1, <3>3
        <4>2. log[q][base + b + 1] = b
          BY <1>1, <1>2, <1>3, <3>3 DEF CallInv, CallOf
        <4> QED
          BY <1>6, <4>1, <4>2
      <3> QED
        BY <1>3, <3>1, <3>2, <3>3
    <2>3. ASSUME NEW b \in Buckets, work'[q][b] # 0 PROVE work'[q][b] = base + b + 1
      <3>1. CASE b = n
        BY <1>5, <3>1
      <3>2. CASE b # n
        BY <1>1, <1>2, <1>5, <2>3, <3>2 DEF CallInv, CallOf
      <3> QED
        BY <3>1, <3>2
    <2>4. completed \subseteq 1 .. base + n + 1
      <3>1. completed \subseteq 1 .. base + n
        BY <1>1, <1>5 DEF CallInv
      <3>2. \A k \in 1 .. base + n : k \in 1 .. base + n + 1
        BY <1>2, <1>3
      <3> QED
        BY <3>1, <3>2
    <2>5. 1 .. base + at[q] \subseteq completed
      BY <1>1, <1>2 DEF CallInv
    <2> QED
      BY <1>2, <1>4, <1>6, <2>1, <2>2, <2>3, <2>4, <2>5 DEF CallInv, CallOf
  <1>9. BufferInv(q)'
    <2>1. base + n + 1 \notin completed
      <3>1. completed \subseteq 1 .. base + n
        BY <1>1, <1>5 DEF CallInv
      <3> QED
        BY <1>2, <1>3, <3>1
    <2>2. ASSUME NEW p \in Params, work'[q][BucketOf[p]] # 0
          PROVE  buffer'[q][p] = IF work'[q][BucketOf[p]] \in completed
                                 THEN Mean(plan, used, p, step[q] + 1) ELSE grad[q][p]
      <3>1. CASE BucketOf[p] = n
        BY <1>5, <2>1, <3>1
      <3>2. CASE BucketOf[p] # n
        <4>1. work'[q][BucketOf[p]] = work[q][BucketOf[p]] /\ buffer'[q][p] = buffer[q][p]
          BY <1>1, <1>5, <3>2, RankTypes
        <4> QED
          BY <1>1, <2>2, <4>1 DEF BufferInv
      <3> QED
        BY <3>1, <3>2
    <2> QED
      BY <1>4, <2>2 DEF BufferInv
  <1> QED
    BY <1>7, <1>8, <1>9

\* No backward pass of a step to come has begun.
LEMMA NotBegun ==
  ASSUME IInv, NEW r \in Ranks, NEW k \in Steps, k = step[r]
  PROVE  k + 1 \in Steps => used[r][k + 1] = {}
  <1>1. PassInv(r) /\ k \in Nat /\ ~(k + 1 < k) /\ k + 1 # k
    BY DEF IInv, MeanInv, Steps
  <1> QED
    BY <1>1 DEF PassInv

\* A rank in a step that makes no calls has launched nothing.
LEMMA NoneLaunched ==
  ASSUME IInv, NEW r \in Ranks, next[r] = 0
  PROVE  at[r] = 0 /\ \A b \in Buckets : work[r][b] = 0
  <1>1. TypeInv /\ RankInv(r)
    BY DEF IInv, ReducerInv
  <1>2. at[r] = 0
    BY <1>1, RankTypes DEF RankInv, LaunchedRange
  <1>3. \A b \in Buckets : ~(b < next[r])
    BY <1>1, RankTypes
  <1> QED
    BY <1>1, <1>2, <1>3 DEF RankInv, LaunchedRange

\* Nothing launched in a step that makes no calls: on to the next step.
LEMMA LocalNext ==
  ASSUME IInv, NEW q \in Ranks, NEW k \in Steps, k = step[q], plan[k] \notin SyncKinds,
         next[q] = 0, pc'[q] = "idle", step'[q] = k + 1,
         UNCHANGED <<plan, todo, used, buffer, work, next, at, log, completed>>,
         \A p \in Params : grad'[q][p] = Local(plan, used, q, p, k + 1, todo[q])
  PROVE  PassInv(q)' /\ CallInv(q)' /\ GradInv(q)' /\ BufferInv(q)'
  <1>1. TypeInv /\ PassInv(q) /\ CallInv(q) /\ k \in Nat \ {0}
    BY DEF IInv, MeanInv, Steps
  <1>2. at[q] = 0 /\ \A b \in Buckets : work[q][b] = 0
    BY NoneLaunched
  <1>3. Base(plan, k + 1) = Base(plan, k)
    BY <1>1, BaseNext
  <1>4. PassInv(q)'
    <2>1. ASSUME NEW j \in Steps, used[q][j] # {} PROVE j < k + 1
      BY <1>1, <2>1 DEF PassInv, Steps
    <2> QED
      BY <2>1 DEF PassInv
  <1>5. CallInv(q)'
    <2>1. step'[q] = k + 1
      OBVIOUS
    <2> QED
      BY <1>1, <1>2, <1>3, <2>1 DEF CallInv, CallOf
  <1>6. GradInv(q)'
    <2>1. \A p \in Params : ~(BucketOf[p] < at[q])
      BY <1>1, <1>2, RankTypes
    <2>2. at' = at /\ plan' = plan /\ used' = used /\ todo' = todo
      OBVIOUS
    <2> QED
      BY <2>1, <2>2 DEF GradInv
  <1>7. BufferInv(q)'
    BY <1>1, <1>2, RankTypes DEF BufferInv
  <1> QED
    BY <1>4, <1>5, <1>6, <1>7

LEMMA EndMean ==
  ASSUME IInv, NEW q \in Ranks, EndBackward(q)
  PROVE  PassInv(q)' /\ CallInv(q)' /\ GradInv(q)' /\ BufferInv(q)'
  <1>1. /\ TypeInv /\ RankInv(q)
        /\ PassInv(q) /\ CallInv(q) /\ GradInv(q) /\ BufferInv(q)
    BY DEF IInv, ReducerInv, MeanInv
  <1>2. PICK k \in Steps : k = step[q]
    BY <1>1 DEF EndBackward, TypeInv, BusyAtStep
  <1>3. /\ pc[q] = "backward" /\ todo[q] = {}
        /\ UNCHANGED <<plan, todo, used, grad, buffer, work, next, at, log, completed>>
    BY DEF EndBackward, program, pass, calls
  <1>4. CASE queued[q]
    <2>1. pc'[q] = "finish" /\ step'[q] = step[q]
      BY <1>1, <1>4 DEF EndBackward, GoTo, TypeInv, TypeOK
    <2>2. plan[step[q]] \in SyncKinds
      BY <1>1, <1>3, <1>4 DEF PassInv, RankInv, Counting, SyncEnabled, SyncKinds
    <2>3. PassInv(q)'
      BY <1>1, <1>3, <2>1, <2>2 DEF PassInv
    <2>4. CallInv(q)'
      BY <1>1, <1>3, <2>1 DEF CallInv, CallOf
    <2>5. GradInv(q)' /\ BufferInv(q)'
      BY <1>1, <1>3, <2>1 DEF GradInv, BufferInv
    <2> QED
      BY <2>3, <2>4, <2>5
  <1>5. CASE ~queued[q]
    <2>1. pc'[q] = "idle" /\ step'[q] = k + 1
      BY <1>1, <1>2, <1>5 DEF EndBackward, GoTo, NextStep, TypeInv, TypeOK
    <2>2. plan[k] = "no_sync" /\ next[q] = 0
      BY <1>1, <1>2, <1>3, <1>5 DEF PassInv, RankInv, Counting
    <2>3. ASSUME NEW p \in Params
          PROVE  grad'[q][p] = Local(plan, used, q, p, k + 1, todo[q])
      <3>1. ~(BucketOf[p] < at[q])
        BY <1>1, <2>2, NoneLaunched, RankTypes
      <3>2. grad[q][p] = Local(plan, used, q, p, k, {})
        BY <1>1, <1>2, <1>3, <3>1 DEF GradInv
      <3>3. Local(plan, used, q, p, k + 1, {}) = Local(plan, used, q, p, k, {})
        BY <1>2, <2>2, NotBegun, AfterLocal
      <3> QED
        BY <1>3, <3>2, <3>3
    <2>4. plan[k] \notin SyncKinds
      BY <2>2 DEF SyncKinds
    <2> QED
      BY <1>2, <1>3, <2>1, <2>2, <2>3, <2>4, LocalNext
  <1> QED
    BY <1>4, <1>5

LEMMA FinishMean ==
  ASSUME IInv, NEW q \in Ranks, CallFinish(q)
  PROVE  PassInv(q)' /\ CallInv(q)' /\ GradInv(q)' /\ BufferInv(q)'
  <1>1. PassInv(q) /\ CallInv(q) /\ GradInv(q) /\ BufferInv(q)
    BY DEF IInv, MeanInv
  <1>2. /\ pc[q] = "idle" /\ pc'[q] = "finish" /\ plan[step[q]] = "finish"
        /\ UNCHANGED <<plan, step, todo, used, grad, buffer, work, next, queued, at,
                       log, completed>>
    BY DEF CallFinish, AtStep, program, pass, reducer, calls, GoTo, IInv, TypeInv, TypeOK
  <1>3. PassInv(q)'
    BY <1>1, <1>2 DEF PassInv, SyncKinds
  <1>4. CallInv(q)' /\ GradInv(q)' /\ BufferInv(q)'
    BY <1>1, <1>2 DEF CallInv, CallOf, GradInv, BufferInv
  <1> QED
    BY <1>3, <1>4

LEMMA OptMean ==
  ASSUME IInv, NEW q \in Ranks, OptStep(q)
  PROVE  PassInv(q)' /\ CallInv(q)' /\ GradInv(q)' /\ BufferInv(q)'
  <1>1. TypeInv /\ RankInv(q)
    BY DEF IInv, ReducerInv
  <1>2. PICK k \in Steps : k = step[q]
    BY DEF OptStep, AtStep
  <1>3. /\ pc[q] = "idle" /\ plan[k] = "opt" /\ pc'[q] = "idle" /\ step'[q] = k + 1
        /\ \A p \in Params : grad'[q][p] = ZeroGrad
        /\ UNCHANGED <<plan, todo, used, buffer, work, next, at, log, completed>>
    BY <1>1, <1>2 DEF OptStep, AtStep, NextStep, program, pass, reducer, calls, TypeInv, TypeOK
  <1>4. next[q] = 0 /\ plan[k] \notin SyncKinds
    BY <1>1, <1>3 DEF RankInv, Resting, SyncKinds
  <1>5. ASSUME NEW p \in Params PROVE Local(plan, used, q, p, k + 1, todo[q]) = ZeroGrad
    <2>1. k + 1 \in Steps => used[q][k + 1] = {}
      BY <1>2, NotBegun
    <2>2. PICK rest : rest = todo[q]
      OBVIOUS
    <2>3. Local(plan, used, q, p, k + 1, rest) = ZeroGrad
      BY <1>3, <2>1, AfterOpt
    <2> QED
      BY <2>2, <2>3
  <1> QED
    BY <1>2, <1>3, <1>4, <1>5, LocalNext

LEMMA WaitMean ==
  ASSUME IInv, NEW q \in Ranks, WaitBucket(q)
  PROVE  PassInv(q)' /\ CallInv(q)' /\ GradInv(q)' /\ BufferInv(q)'
  <1>1. /\ TypeInv /\ RankInv(q)
        /\ PassInv(q) /\ CallInv(q) /\ GradInv(q) /\ BufferInv(q)
    BY DEF IInv, ReducerInv, MeanInv
  <1>2. PICK k \in Steps : k = step[q]
    BY <1>1 DEF WaitBucket, TypeInv, BusyAtStep
  <1>3. PICK a \in Buckets : a = at[q]
    BY <1>1, RankTypes
  <1>4. PICK base \in Nat : base = Base(plan, k)
    BY BaseType DEF Steps
  <1>5. /\ NumBuckets \in Nat \ {0} /\ a \in Nat /\ a < NumBuckets /\ k \in Nat \ {0}
        /\ \A b \in Buckets : b \in Nat /\ b < NumBuckets
        /\ \A p \in Params : BucketOf[p] \in Buckets
    BY <1>1, <1>3, RankTypes DEF Steps
  <1>6. /\ pc[q] = "finish" /\ next[q] = NumBuckets /\ plan[k] \in SyncKinds
        /\ UNCHANGED <<plan, todo, used, buffer, queued, log, completed>>
    BY <1>1, <1>2 DEF WaitBucket, PassInv, program, pass, calls
  <1>7. work[q][a] = base + a + 1 /\ base + a + 1 \in completed
    <2>1. work[q][a] # 0
      BY <1>1, <1>3, <1>5, <1>6 DEF RankInv, LaunchedRange
    <2>2. work[q][a] = base + a + 1
      BY <1>1, <1>2, <1>4, <2>1 DEF CallInv, CallOf
    <2> QED
      BY <1>3, <2>1, <2>2 DEF WaitBucket, Waited
  <1>8. /\ work'[q][a] = 0 /\ \A b \in Buckets \ {a} : work'[q][b] = work[q][b]
        /\ \A p \in Params : grad'[q][p] = IF BucketOf[p] = a THEN buffer[q][p]
                                           ELSE grad[q][p]
    <2>1. /\ work \in [Ranks -> [Buckets -> Nat]] /\ grad \in [Ranks -> [Params -> Grads]]
      BY <1>1 DEF TypeInv, TypeOK
    <2>2. work' = [work EXCEPT ![q][a] = 0]
      BY <1>3 DEF WaitBucket
    <2>3. grad' = [grad EXCEPT ![q] = Scattered(q, a)]
      BY <1>3, <1>5, <1>7 DEF WaitBucket
    <2>4. grad'[q] = Scattered(q, a)
      BY <2>1, <2>3
    <2>5. \A p \in Params : grad'[q][p] = IF BucketOf[p] = a THEN buffer[q][p]
                                          ELSE grad[q][p]
      BY <2>4 DEF Scattered
    <2> QED
      BY <2>1, <2>2, <2>5
  <1>9. ASSUME NEW p \in Params, BucketOf[p] = a
        PROVE  grad'[q][p] = Mean(plan, used, p, k + 1)
    <2>1. work[q][BucketOf[p]] # 0 /\ work[q][BucketOf[p]] \in completed
      BY <1>4, <1>5, <1>7, <1>9
    <2>2. buffer[q][p] = Mean(plan, used, p, k + 1)
      BY <1>1, <1>2, <2>1 DEF BufferInv
    <2> QED
      BY <1>8, <1>9, <2>2
  <1>10. ASSUME NEW p \in Params, BucketOf[p] < a
         PROVE  grad'[q][p] = Mean(plan, used, p, k + 1)
    <2>1. grad[q][p] = Mean(plan, used, p, k + 1) /\ BucketOf[p] # a
      BY <1>1, <1>2, <1>3, <1>5, <1>10 DEF GradInv
    <2> QED
      BY <1>8, <2>1
  <1>11. ASSUME NEW p \in Params, BucketOf[p] > a
         PROVE  grad'[q][p] = grad[q][p] /\ grad[q][p] = Local(plan, used, q, p, k, todo[q])
    <2>0. BucketOf[p] \in Nat
      BY <1>5
    <2>1. ~(BucketOf[p] < a) /\ BucketOf[p] # a
      BY <1>5, <1>11, <2>0
    <2> QED
      BY <1>1, <1>2, <1>3, <1>8, <2>1 DEF GradInv
  <1>12. 1 .. base + a + 1 \subseteq completed
    <2>1. 1 .. base + a \subseteq completed
      BY <1>1, <1>2, <1>3, <1>4 DEF CallInv
    <2>2. \A n \in 1 .. base + a + 1 : n = base + a + 1 \/ n \in 1 .. base + a
      BY <1>4, <1>5
    <2> QED
      BY <1>7, <2>1, <2>2
  <1>13. CASE a = NumBuckets - 1
    <2>1. at'[q] = 0 /\ next'[q] = 0 /\ pc'[q] = "idle" /\ step'[q] = k + 1
      BY <1>1, <1>2, <1>3, <1>13
      DEF WaitBucket, EndOfWait, GoTo, NextStep, TypeInv, TypeOK
    <2>2. Base(plan, k + 1) = base + NumBuckets
      BY <1>4, <1>5, <1>6, BaseNext
    <2>3. \A b \in Buckets : work'[q][b] = 0
      <3> SUFFICES ASSUME NEW b \in Buckets, b # a PROVE work[q][b] = 0
        BY <1>8
      <3>1. ~(a <= b)
        BY <1>5, <1>13
      <3> QED
        BY <1>1, <1>3, <3>1 DEF RankInv, LaunchedRange
    <2>4. PassInv(q)'
      <3>1. ASSUME NEW j \in Steps, used[q][j] # {} PROVE j < k + 1
        BY <1>1, <1>2, <3>1 DEF PassInv, Steps
      <3> QED
        BY <1>6, <2>1, <3>1 DEF PassInv
    <2>5. CallInv(q)'
      <3>1. Len(log[q]) = base + NumBuckets /\ completed \subseteq 1 .. Len(log[q])
        BY <1>1, <1>2, <1>4, <1>6 DEF CallInv
      <3>2. base + a + 1 = base + NumBuckets /\ base + NumBuckets + 0 = base + NumBuckets
        BY <1>4, <1>5, <1>13
      <3>3. \A b \in Buckets : ~(b < 0)
        BY <1>5
      <3> QED
        BY <1>6, <1>12, <2>1, <2>2, <2>3, <3>1, <3>2, <3>3 DEF CallInv, CallOf
    <2>6. GradInv(q)'
      <3> SUFFICES ASSUME NEW p \in Params
                   PROVE  grad'[q][p] = Local(plan, used, q, p, k + 1, todo[q])
        <4>1. plan' = plan /\ used' = used /\ todo' = todo
          BY <1>6
        <4>2. \A p \in Params : ~(BucketOf[p] < 0)
          BY <1>5
        <4> QED
          BY <2>1, <4>1, <4>2 DEF GradInv
      <3>1. grad'[q][p] = Mean(plan, used, p, k + 1)
        <4>0. BucketOf[p] \in Nat /\ BucketOf[p] < NumBuckets
          BY <1>5
        <4>1. BucketOf[p] = a \/ BucketOf[p] < a
          BY <1>5, <1>13, <4>0
        <4> QED
          BY <1>9, <1>10, <4>1
      <3>2. k + 1 \in Steps => used[q][k + 1] = {}
        BY <1>2, NotBegun
      <3>3. Local(plan, used, q, p, k + 1, todo[q]) = Mean(plan, used, p, k + 1)
        BY <1>6, <3>2, AfterSync
      <3> QED
        BY <3>1, <3>3
    <2>7. BufferInv(q)'
      BY <1>5, <2>3 DEF BufferInv
    <2> QED
      BY <2>4, <2>5, <2>6, <2>7
  <1>14. CASE a # NumBuckets - 1
    <2>1. at'[q] = a + 1 /\ next' = next /\ pc' = pc /\ step' = step
      BY <1>1, <1>3, <1>14 DEF WaitBucket, EndOfWait, TypeInv, TypeOK
    <2>2. PassInv(q)'
      BY <1>1, <1>6, <2>1 DEF PassInv
    <2>3. CallInv(q)'
      <3>1. 1 .. base + (a + 1) \subseteq completed
        <4>1. base + (a + 1) = base + a + 1
          BY <1>4, <1>5
        <4> QED
          BY <1>12, <4>1
      <3>2. \A b \in Buckets : work'[q][b] # 0 => work'[q][b] = work[q][b]
        BY <1>8
      <3> QED
        BY <1>1, <1>2, <1>4, <1>6, <2>1, <3>1, <3>2 DEF CallInv, CallOf
    <2>4. GradInv(q)'
      <3> SUFFICES ASSUME NEW p \in Params
                   PROVE  grad'[q][p] = IF BucketOf[p] < a + 1
                                        THEN Mean(plan, used, p, k + 1)
                                        ELSE Local(plan, used, q, p, k, todo[q])
        <4>1. plan' = plan /\ used' = used /\ todo' = todo /\ step' = step
          BY <1>6, <2>1
        <4> QED
          BY <1>2, <2>1, <4>1 DEF GradInv
      <3>1. BucketOf[p] \in Nat
        BY <1>5
      <3>2. CASE BucketOf[p] < a + 1
        <4>1. BucketOf[p] = a \/ BucketOf[p] < a
          BY <1>5, <3>1, <3>2
        <4> QED
          BY <1>9, <1>10, <3>2, <4>1
      <3>3. CASE ~(BucketOf[p] < a + 1)
        <4>1. BucketOf[p] > a
          BY <1>5, <3>1, <3>3
        <4> QED
          BY <1>11, <3>3, <4>1
      <3> QED
        BY <3>2, <3>3
    <2>5. BufferInv(q)'
      <3>1. ASSUME NEW p \in Params, work'[q][BucketOf[p]] # 0
            PROVE  work'[q][BucketOf[p]] = work[q][BucketOf[p]] /\ grad'[q][p] = grad[q][p]
        BY <1>5, <1>8, <3>1
      <3> QED
        BY <1>1, <1>6, <2>1, <3>1 DEF BufferInv
    <2> QED
      BY <2>2, <2>3, <2>4, <2>5
  <1> QED
    BY <1>13, <1>14

-----------------------------------------------------------------------------
(* The process group completes a call. *)

\* The ranks are in the same step when a call all have made is still open,
\* and the call is for the same bucket.
LEMMA OpenTogether ==
  ASSUME IInv, NEW k, k \notin completed, \A r \in Ranks : k \in 1 .. Len(log[r])
  PROVE  \E j \in Steps, b \in Buckets :
            /\ plan[j] \in SyncKinds
            /\ \A r \in Ranks : /\ step[r] = j /\ b < next[r]
                                /\ work[r][b] = k /\ log[r][k] = b
  <1>1. TypeInv /\ NumBuckets \in Nat \ {0}
    BY BucketsAssumption DEF IInv
  <1>2. PICK o \in Ranks : TRUE
    BY RanksAssumption
  <1>3. /\ k \in Nat
        /\ \A r \in Ranks :
              /\ step[r] \in Steps /\ plan[step[r]] \in SyncKinds
              /\ \E b \in Buckets : /\ b < next[r] /\ k = Base(plan, step[r]) + b + 1
                                    /\ work[r][b] = k /\ log[r][k] = b
    <2>1. k \in Nat
      BY <1>1, <1>2
    <2>2. ASSUME NEW r \in Ranks
          PROVE  /\ step[r] \in Steps /\ plan[step[r]] \in SyncKinds
                 /\ \E b \in Buckets : /\ b < next[r] /\ k = Base(plan, step[r]) + b + 1
                                       /\ work[r][b] = k /\ log[r][k] = b
      BY OpenCall DEF CallOf
    <2> QED
      BY <2>1, <2>2
  <1>4. PICK j \in Steps : j = step[o]
    BY <1>2, <1>3
  <1>5. PICK b \in Buckets : /\ b < next[o] /\ k = Base(plan, j) + b + 1
                             /\ work[o][b] = k /\ log[o][k] = b
    BY <1>2, <1>3, <1>4
  <1>6. ASSUME NEW r \in Ranks
        PROVE  /\ step[r] = j /\ b < next[r]
               /\ work[r][b] = k /\ log[r][k] = b
    <2>1. PICK i \in Steps : i = step[r]
      BY <1>3
    <2>2. PICK d \in Buckets : /\ d < next[r] /\ k = Base(plan, i) + d + 1
                               /\ work[r][d] = k /\ log[r][k] = d
      BY <1>3, <2>1
    <2>3. /\ i \in Nat \ {0} /\ j \in Nat \ {0} /\ b \in Nat /\ d \in Nat
          /\ b < NumBuckets /\ d < NumBuckets
          /\ plan[i] \in SyncKinds /\ plan[j] \in SyncKinds
      <3>1. plan[i] \in SyncKinds /\ plan[j] \in SyncKinds
        BY <1>2, <1>3, <1>4, <2>1
      <3>2. i \in Nat \ {0} /\ j \in Nat \ {0}
        BY DEF Steps
      <3> QED
        BY <1>1, <3>1, <3>2 DEF Buckets
    <2>4. Base(plan, i) \in Nat /\ Base(plan, j) \in Nat
      BY <2>3, BaseType
    <2>5. ~(i < j)
      <3>1. i < j => Base(plan, i) + NumBuckets <= Base(plan, j)
        BY <2>3, BaseOrder
      <3> QED
        BY <1>1, <1>5, <2>2, <2>3, <2>4, <3>1
    <2>6. ~(j < i)
      <3>1. j < i => Base(plan, j) + NumBuckets <= Base(plan, i)
        BY <2>3, BaseOrder
      <3> QED
        BY <1>1, <1>5, <2>2, <2>3, <2>4, <3>1
    <2>7. i = j
      BY <2>3, <2>5, <2>6
    <2>8. d = b
      BY <1>5, <2>2, <2>3, <2>4, <2>7
    <2> QED
      BY <2>1, <2>2, <2>7, <2>8
  <1> QED
    BY <1>2, <1>3, <1>4, <1>6

\* What a rank has offered and the process group not yet reduced.
LEMMA OfferedIsLocal ==
  ASSUME IInv, NEW r \in Ranks, NEW p \in Params, NEW j \in Steps, j = step[r],
         work[r][BucketOf[p]] # 0, work[r][BucketOf[p]] \notin completed
  PROVE  /\ buffer[r][p] = grad[r][p]
         /\ buffer[r][p] = Local(plan, used, r, p, j, {})
  <1>1. TypeInv /\ RankInv(r) /\ GradInv(r) /\ BufferInv(r)
    BY DEF IInv, ReducerInv, MeanInv
  <1>2. BucketOf[p] \in Buckets /\ BucketOf[p] \in Nat /\ at[r] \in Nat
    BY <1>1, RankTypes
  <1>3. at[r] <= BucketOf[p] /\ BucketOf[p] < next[r]
    BY <1>1, <1>2 DEF RankInv, LaunchedRange
  <1>4. p \notin todo[r]
    <2>1. CASE pc[r] = "backward"
      BY <1>1, <1>2, <1>3, <2>1 DEF RankInv, Counting, ParamsOf
    <2>2. CASE pc[r] # "backward"
      BY <1>1, <2>2 DEF RankInv, Resting
    <2> QED
      BY <2>1, <2>2
  <1>5. grad[r][p] = Local(plan, used, r, p, j, todo[r])
    BY <1>1, <1>2, <1>3 DEF GradInv
  <1>6. Local(plan, used, r, p, j, todo[r]) = Local(plan, used, r, p, j, {})
    BY <1>4, LocalRest
  <1>7. buffer[r][p] = grad[r][p]
    BY <1>1 DEF BufferInv
  <1> QED
    BY <1>5, <1>6, <1>7

\* The process group returns the mean.
LEMMA ReducedIsMean ==
  ASSUME IInv, NEW j \in Steps, NEW p \in Params, plan[j] \in SyncKinds,
         \A r \in Ranks : /\ step[r] = j
                          /\ work[r][BucketOf[p]] # 0
                          /\ work[r][BucketOf[p]] \notin completed
  PROVE  MeanSlice(p) = Mean(plan, used, p, j + 1)
  <1>1. \A r \in Ranks : buffer[r][p] = Local(plan, used, r, p, j, {})
    BY OfferedIsLocal
  <1>2. ASSUME NEW c \in Contribs
        PROVE  [s \in Ranks |-> buffer[s][p][c]]
                  = [s \in Ranks |-> Local(plan, used, s, p, j, {})[c]]
    BY <1>1
  <1>3. MeanSlice(p) = [c \in Contribs |->
                          Average(c[1], [s \in Ranks |-> Local(plan, used, s, p, j, {})[c]])]
    BY <1>2 DEF MeanSlice
  <1> QED
    BY <1>3, AverageIsMean

LEMMA CompleteMean ==
  ASSUME IInv, NEW k \in 1 .. MaxCalls, Complete(k)
  PROVE  MeanInv'
  <1>1. TypeInv /\ MaxCalls \in Nat /\ k \in Nat \ {0}
    BY BucketsAssumption, PlansAssumption DEF IInv, MaxCalls
  <1>2. /\ k \notin completed /\ completed' = completed \cup {k}
        /\ UNCHANGED <<plan, pc, step, todo, used, grad, work, next, queued, at, log>>
    BY DEF Complete, program, pass, reducer
  <1>3. \A r \in Ranks : k \in 1 .. Len(log[r])
    BY <1>1, RankTypes DEF Complete
  <1>4. PICK j \in Steps, b \in Buckets :
            /\ plan[j] \in SyncKinds
            /\ \A r \in Ranks : /\ step[r] = j /\ b < next[r]
                                /\ work[r][b] = k /\ log[r][k] = b
    BY <1>2, <1>3, OpenTogether
  <1>5. ASSUME NEW r \in Ranks, NEW p \in Params
        PROVE  buffer'[r][p] = IF BucketOf[p] = b THEN Mean(plan, used, p, j + 1)
                               ELSE buffer[r][p]
    <2>1. BucketOf[p] = b => MeanSlice(p) = Mean(plan, used, p, j + 1)
      BY <1>1, <1>2, <1>4, ReducedIsMean
    <2>2. log[r][k] = b /\ \A s \in Ranks : log[s][k] = log[r][k]
      BY <1>4
    <2>3. buffer'[r][p] = IF BucketOf[p] # log[r][k] THEN buffer[r][p]
                          ELSE IF \A s \in Ranks : log[s][k] = log[r][k]
                               THEN MeanSlice(p) ELSE BadGrad
      BY DEF Complete
    <2> QED
      BY <2>1, <2>2, <2>3
  <1>6. ASSUME NEW r \in Ranks
        PROVE  PassInv(r)' /\ CallInv(r)' /\ GradInv(r)' /\ BufferInv(r)'
    <2>1. PassInv(r) /\ CallInv(r) /\ GradInv(r) /\ BufferInv(r)
      BY DEF IInv, MeanInv
    <2>2. PassInv(r)'
      BY <1>2, <2>1 DEF PassInv
    <2>3. CallInv(r)'
      BY <1>2, <1>3, <2>1 DEF CallInv, CallOf
    <2>4. GradInv(r)'
      BY <1>2, <2>1 DEF GradInv
    <2>5. ASSUME NEW p \in Params, work[r][BucketOf[p]] # 0
          PROVE  buffer'[r][p] = IF work[r][BucketOf[p]] \in completed'
                                 THEN Mean(plan, used, p, j + 1) ELSE grad[r][p]
      <3>1. CASE BucketOf[p] = b
        BY <1>2, <1>4, <1>5, <3>1
      <3>2. CASE BucketOf[p] # b
        <4>1. /\ BucketOf[p] \in Nat /\ b \in Nat /\ BucketOf[p] \in Buckets
              /\ Base(plan, step[r]) \in Nat
          BY <1>1, RankTypes
        <4>2. /\ work[r][BucketOf[p]] = Base(plan, step[r]) + BucketOf[p] + 1
              /\ work[r][b] = Base(plan, step[r]) + b + 1
          BY <1>1, <1>4, <2>1, <2>5, <4>1 DEF CallInv, CallOf
        <4>3. work[r][BucketOf[p]] # k
          BY <1>4, <3>2, <4>1, <4>2
        <4>4. buffer[r][p] = IF work[r][BucketOf[p]] \in completed
                             THEN Mean(plan, used, p, j + 1) ELSE grad[r][p]
          BY <1>4, <2>1, <2>5 DEF BufferInv
        <4> QED
          BY <1>2, <1>5, <3>2, <4>3, <4>4
      <3> QED
        BY <3>1, <3>2
    <2>6. BufferInv(r)'
      BY <1>2, <1>4, <2>5 DEF BufferInv
    <2> QED
      BY <2>2, <2>3, <2>4, <2>6
  <1> QED
    BY <1>6 DEF MeanInv

-----------------------------------------------------------------------------
(* The theorem. *)

LEMMA InitMean == Init => MeanInv
  <1> SUFFICES ASSUME Init, NEW r \in Ranks
               PROVE  PassInv(r) /\ CallInv(r) /\ GradInv(r) /\ BufferInv(r)
    BY DEF MeanInv
  <1>1. /\ pc[r] = "ctor" /\ step[r] = 1 /\ todo[r] = {} /\ next[r] = 0 /\ at[r] = 0
        /\ log[r] = << >> /\ completed = {} /\ ~queued[r]
        /\ \A b \in Buckets : work[r][b] = 0
        /\ \A p \in Params : grad[r][p] = ZeroGrad
        /\ \A s \in Ranks : \A k \in Steps : used[s][k] = {}
    BY DEF Init
  <1>2. /\ \A b \in Buckets : b \in Nat
        /\ \A p \in Params : BucketOf[p] \in Buckets
    BY BucketsAssumption DEF Buckets
  <1>3. PassInv(r)
    BY <1>1 DEF PassInv
  <1>4. CallInv(r)
    <2>1. Base(plan, 1) = 0 /\ Len(<< >>) = 0
      BY BaseFirst
    <2> QED
      BY <1>1, <1>2, <2>1 DEF CallInv
  <1>5. ASSUME NEW p \in Params PROVE grad[r][p] = Local(plan, used, r, p, 1, todo[r])
    <2>1. ASSUME NEW c \in Contribs PROVE p \notin used[c[1]][c[2]]
      BY <1>1, ContribOf
    <2> QED
      BY <1>1, <2>1 DEF Local, ZeroGrad
  <1>6. GradInv(r)
    BY <1>1, <1>2, <1>5 DEF GradInv
  <1>7. BufferInv(r)
    BY <1>1, <1>2 DEF BufferInv
  <1> QED
    BY <1>3, <1>4, <1>6, <1>7

LEMMA NextMean == IInv /\ [Next]_vars => MeanInv'
  <1> SUFFICES ASSUME IInv, [Next]_vars PROVE MeanInv'
    OBVIOUS
  <1>1. ASSUME NEW q \in Ranks, RankStep(q) PROVE MeanInv'
    <2>1. PassInv(q)' /\ CallInv(q)' /\ GradInv(q)' /\ BufferInv(q)'
      <3>1. LaunchReady(q) \/ FlushBucket(q) => next[q] < NumBuckets /\ Launch(q, next[q])
        BY DEF LaunchReady, NextIsReady, FlushBucket
      <3> QED
        BY <1>1, <3>1, ConstructMean, StartMean, ReadyMean, LaunchMean, EndMean,
           FinishMean, WaitMean, OptMean DEF RankStep
    <2>2. \A r \in Ranks \ {q} : PassInv(r)' /\ CallInv(r)' /\ GradInv(r)' /\ BufferInv(r)'
      BY <1>1, OtherMean
    <2> QED
      BY <2>1, <2>2 DEF MeanInv
  <1>2. CASE UNCHANGED vars
    BY <1>2 DEF vars, program, pass, reducer, calls, IInv, MeanInv,
                PassInv, CallInv, CallOf, GradInv, BufferInv
  <1> QED
    BY <1>1, <1>2, CompleteMean DEF Next, Terminating

LEMMA InitIInv == Init => IInv
  BY InitType, InitReducer, InitMean DEF IInv

LEMMA NextIInv == IInv /\ [Next]_vars => IInv'
  BY NextType, NextReducer, NextMean DEF IInv

\* What a rank holds when it has left a synchronising step.
LEMMA LeftWithMean ==
  ASSUME IInv, NEW r \in Ranks, NEW p \in Params, NEW k \in Steps,
         pc[r] = "idle", step[r] = k + 1, plan[k] \in SyncKinds
  PROVE  grad[r][p] = Mean(plan, used, p, k + 1)
  <1>1. TypeInv /\ RankInv(r) /\ GradInv(r) /\ PassInv(r)
    BY DEF IInv, ReducerInv, MeanInv
  <1>2. k + 1 \in Steps => used[r][k + 1] = {}
    <2>1. k \in Nat /\ ~(k + 1 < k + 1)
      BY DEF Steps
    <2> QED
      BY <1>1, <2>1 DEF PassInv
  <1>3. Local(plan, used, r, p, k + 1, todo[r]) = Mean(plan, used, p, k + 1)
    BY <1>2, AfterSync
  <1>4. next[r] = 0
    BY <1>1 DEF RankInv, Resting
  <1>5. ~(BucketOf[p] < at[r])
    BY <1>1, <1>4, NoneLaunched, RankTypes
  <1>6. grad[r][p] = Local(plan, used, r, p, step[r], todo[r])
    BY <1>1, <1>5 DEF GradInv
  <1> QED
    BY <1>3, <1>6

\* After every synchronisation p.grad is the mean over the ranks of all that
\* was accumulated since the last optimizer step (property SyncedGradIsMean),
\* for any group, bucketing, training programs, readiness orders, overlap or
\* not, and whichever parameters each backward pass reaches.
THEOREM SyncedMean == Spec => []SyncedGradIsMean
  <1>1. IInv => SyncedGradIsMean
    <2> SUFFICES ASSUME IInv, NEW r \in Ranks, pc[r] = "idle", step[r] > 1,
                        plan[step[r] - 1] \in {"backward", "finish"}, NEW p \in Params
                 PROVE  grad[r][p] = ExpectedMean(p, step[r])
      BY DEF SyncedGradIsMean
    <2>1. step[r] \in Nat /\ NumSteps \in Nat /\ step[r] <= NumSteps + 1
      BY RankTypes DEF IInv
    <2>2. PICK k \in Steps : step[r] = k + 1 /\ k = step[r] - 1
      <3>1. step[r] - 1 \in 1 .. NumSteps /\ step[r] = (step[r] - 1) + 1
        BY <2>1
      <3> QED
        BY <3>1 DEF Steps
    <2>3. grad[r][p] = Mean(plan, used, p, k + 1)
      BY <2>2, LeftWithMean DEF SyncKinds
    <2> QED
      BY <2>2, <2>3 DEF Mean, ExpectedMean, Window, Kept
  <1> QED
    BY <1>1, InitIInv, NextIInv, PTL DEF Spec

-----------------------------------------------------------------------------
(* Ddp implements DataParallel: one lemma per action of Ddp, which says    *)
(* the action of DataParallel it is, or that the caller sees nothing of    *)
(* it.                                                                     *)

\* The mapped variables of DataParallel, by name.
AbsStarted == [r \in Ranks |-> pc[r] # "ctor"]
AbsBusy == [r \in Ranks |-> pc[r] \in {"backward", "finish"}]
AbsGrad == [r \in Ranks |-> [p \in Params |-> Held(grad[r][p])]]
AbsSlot == [r \in Ranks |-> [p \in Params |-> SlotOf(r, p)]]

\* The rank all others copy keeps its own parameters.
OriginInv == origin[BroadcastRoot] = BroadcastRoot

\* A gradient keeps its place in the average while a step leaves alone its
\* bucket's handle and buffer, and whether that is completed or taken.
LEMMA SlotFrame ==
  ASSUME NEW r \in Ranks, NEW p \in Params,
         work'[r][BucketOf[p]] = work[r][BucketOf[p]], buffer'[r][p] = buffer[r][p],
         work[r][BucketOf[p]] \in completed' <=> work[r][BucketOf[p]] \in completed,
         TakenAlready(r, BucketOf[p])' <=> TakenAlready(r, BucketOf[p])
  PROVE  SlotOf(r, p)' = SlotOf(r, p)
  BY DEF SlotOf, StateOf, Held

\* The broadcast of the parameters starts a replica.
LEMMA ConstructRefines ==
  ASSUME IInv, OriginInv, NEW q \in Ranks, Construct(q)
  PROVE  DP!Start(q)
  <1>1. /\ pc \in [Ranks -> Labels] /\ origin \in [Ranks -> Ranks]
    BY DEF IInv, TypeInv, TypeOK
  <1>2. /\ pc[q] = "ctor" /\ pc' = [pc EXCEPT ![q] = "idle"]
        /\ origin' = [origin EXCEPT ![q] = BroadcastRoot]
        /\ UNCHANGED <<plan, step, todo, grad, buffer, work, next, at, completed>>
    BY DEF Construct, GoTo, program, pass, reducer, calls, OriginInv
  <1>3. AbsSlot' = AbsSlot
    <2>1. ASSUME NEW r \in Ranks, NEW p \in Params PROVE SlotOf(r, p)' = SlotOf(r, p)
      BY <1>1, <1>2, SlotFrame DEF TakenAlready
    <2> QED
      BY <2>1 DEF AbsSlot
  <1>4. AbsBusy' = AbsBusy
    BY <1>1, <1>2 DEF AbsBusy
  <1>5. AbsStarted' = [AbsStarted EXCEPT ![q] = TRUE]
    BY <1>1, <1>2 DEF AbsStarted
  <1>6. AbsGrad' = AbsGrad /\ ~AbsStarted[q]
    BY <1>2 DEF AbsGrad, AbsStarted
  <1> QED
    BY <1>2, <1>3, <1>4, <1>5, <1>6 DEF DP!Start, AbsGrad, AbsSlot, AbsBusy, AbsStarted

\* A backward pass begins a step of the caller.
LEMMA StartRefines ==
  ASSUME IInv, NEW q \in Ranks, StartBackward(q)
  PROVE  DP!Begin(q)
  <1>1. pc \in [Ranks -> Labels] /\ todo \in [Ranks -> SUBSET Params]
    BY DEF IInv, TypeInv, TypeOK
  <1>2. PICK u \in UsedSets : todo' = [todo EXCEPT ![q] = u]
    BY DEF StartBackward
  <1>3. /\ pc[q] = "idle" /\ pc' = [pc EXCEPT ![q] = "backward"]
        /\ step[q] \in Steps /\ plan[step[q]] \in {"backward", "no_sync"}
        /\ UNCHANGED <<plan, step, origin, grad, buffer, work, next, at, completed>>
    BY DEF StartBackward, AtStep, GoTo, program, reducer, calls
  <1>4. u \in SUBSET Params
    BY PlansAssumption
  <1>5. AbsSlot' = AbsSlot
    <2>1. ASSUME NEW r \in Ranks, NEW p \in Params PROVE SlotOf(r, p)' = SlotOf(r, p)
      BY <1>1, <1>3, SlotFrame DEF TakenAlready
    <2> QED
      BY <2>1 DEF AbsSlot
  <1>6. AbsBusy' = [AbsBusy EXCEPT ![q] = TRUE] /\ ~AbsBusy[q]
    BY <1>1, <1>3 DEF AbsBusy
  <1>7. AbsStarted' = AbsStarted /\ AbsStarted[q]
    BY <1>1, <1>3 DEF AbsStarted
  <1>8. AbsGrad' = AbsGrad
    BY <1>3 DEF AbsGrad
  <1>9. DP!At(q, {"backward", "no_sync"}) /\ DP!At(q, {"backward", "no_sync", "finish"})
    BY <1>3 DEF DP!At
  <1> QED
    BY <1>2, <1>3, <1>4, <1>5, <1>6, <1>7, <1>8, <1>9
    DEF DP!Begin, DP!replica, AbsGrad, AbsSlot, AbsBusy, AbsStarted

\* So does an explicit finish_gradient_sync.
LEMMA FinishRefines ==
  ASSUME IInv, NEW q \in Ranks, CallFinish(q)
  PROVE  DP!Begin(q)
  <1>1. pc \in [Ranks -> Labels] /\ todo \in [Ranks -> SUBSET Params] /\ RankInv(q)
    BY DEF IInv, TypeInv, TypeOK, ReducerInv
  <1>2. /\ pc[q] = "idle" /\ pc' = [pc EXCEPT ![q] = "finish"]
        /\ step[q] \in Steps /\ plan[step[q]] \in {"finish"}
        /\ UNCHANGED <<plan, step, origin, todo, grad, buffer, work, next, at, completed>>
    BY DEF CallFinish, AtStep, GoTo, program, pass, reducer, calls
  <1>3. todo' = [todo EXCEPT ![q] = {}]
    BY <1>1, <1>2 DEF RankInv, Resting
  <1>4. next[q] = 0 /\ NumBuckets # 0
    BY <1>1, <1>2, BucketsAssumption DEF RankInv, Resting
  <1>5. AbsSlot' = AbsSlot
    <2>1. ASSUME NEW r \in Ranks, NEW p \in Params PROVE SlotOf(r, p)' = SlotOf(r, p)
      BY <1>1, <1>2, <1>4, SlotFrame DEF TakenAlready
    <2> QED
      BY <2>1 DEF AbsSlot
  <1>6. AbsBusy' = [AbsBusy EXCEPT ![q] = TRUE] /\ ~AbsBusy[q]
    BY <1>1, <1>2 DEF AbsBusy
  <1>7. AbsStarted' = AbsStarted /\ AbsStarted[q]
    BY <1>1, <1>2 DEF AbsStarted
  <1>8. AbsGrad' = AbsGrad
    BY <1>2 DEF AbsGrad
  <1>9. DP!At(q, {"backward", "no_sync", "finish"})
    BY <1>2 DEF DP!At
  <1> QED
    BY <1>2, <1>3, <1>5, <1>6, <1>7, <1>8, <1>9
    DEF DP!Begin, DP!replica, AbsGrad, AbsSlot, AbsBusy, AbsStarted

\* The optimizer step is the caller's own.
LEMMA OptRefines ==
  ASSUME IInv, NEW q \in Ranks, OptStep(q)
  PROVE  DP!OptStep(q)
  <1>1. /\ pc \in [Ranks -> Labels] /\ grad \in [Ranks -> [Params -> Grads]]
    BY DEF IInv, TypeInv, TypeOK
  <1>2. /\ pc[q] = "idle" /\ step' = [step EXCEPT ![q] = @ + 1]
        /\ grad' = [grad EXCEPT ![q] = [p \in Params |-> ZeroGrad]]
        /\ step[q] \in Steps /\ plan[step[q]] \in {"opt"}
        /\ UNCHANGED <<plan, pc, origin, todo, buffer, work, next, at, completed>>
    BY DEF OptStep, AtStep, NextStep, program, pass, reducer, calls
  <1>3. AbsSlot' = AbsSlot
    <2>1. ASSUME NEW r \in Ranks, NEW p \in Params PROVE SlotOf(r, p)' = SlotOf(r, p)
      BY <1>1, <1>2, SlotFrame DEF TakenAlready
    <2> QED
      BY <2>1 DEF AbsSlot
  <1>4. AbsGrad' = [AbsGrad EXCEPT ![q] = [p \in Params |-> DP!NoGrad]]
    <2>1. Held(ZeroGrad) = DP!NoGrad
      BY DEF Held, ZeroGrad, DP!NoGrad
    <2>2. \A r \in Ranks, p \in Params : grad'[r][p] = IF r = q THEN ZeroGrad ELSE grad[r][p]
      BY <1>1, <1>2
    <2> QED
      BY <2>1, <2>2 DEF AbsGrad
  <1>5. /\ AbsBusy' = AbsBusy /\ AbsStarted' = AbsStarted
        /\ ~AbsBusy[q] /\ AbsStarted[q]
    BY <1>2 DEF AbsBusy, AbsStarted
  <1>6. DP!At(q, {"opt"})
    BY <1>2 DEF DP!At
  <1> QED
    BY <1>2, <1>3, <1>4, <1>5, <1>6
    DEF DP!OptStep, DP!replica, AbsGrad, AbsSlot, AbsBusy, AbsStarted

\* The rank's step ends.
LEMMA BusyEnds ==
  ASSUME NEW q \in Ranks, pc \in [Ranks -> Labels], pc' = [pc EXCEPT ![q] = "idle"]
  PROVE  AbsBusy' = [AbsBusy EXCEPT ![q] = FALSE]
  <1>1. \A r \in Ranks : pc'[r] = IF r = q THEN "idle" ELSE pc[r]
    OBVIOUS
  <1>2. \A r \in Ranks : pc'[r] \in {"backward", "finish"} <=>
                            r # q /\ pc[r] \in {"backward", "finish"}
    BY <1>1
  <1>3. ASSUME NEW r \in Ranks
        PROVE  (pc'[r] \in {"backward", "finish"}) =
                  (IF r = q THEN FALSE ELSE pc[r] \in {"backward", "finish"})
    <2>1. CASE r = q
      <3>1. (pc'[r] \in {"backward", "finish"}) = FALSE
        BY <1>2, <2>1
      <3> QED
        BY <2>1, <3>1
    <2>2. CASE r # q
      <3>1. pc'[r] = pc[r]
        BY <1>1, <2>2
      <3> QED
        BY <2>2, <3>1
    <2> QED
      BY <2>1, <2>2
  <1>4. AbsBusy' = [r \in Ranks |-> IF r = q THEN FALSE ELSE AbsBusy[r]]
    BY <1>3 DEF AbsBusy
  <1>5. AbsBusy = [r \in Ranks |-> AbsBusy[r]]
    BY DEF AbsBusy
  <1> HIDE DEF AbsBusy
  <1> QED
    BY <1>4, <1>5

\* A backward pass under no_sync ends the step; one that synchronises goes on
\* to the flush, which its caller does not see.
LEMMA EndRefines ==
  ASSUME IInv, NEW q \in Ranks, EndBackward(q)
  PROVE  DP!EndLocal(q) \/ UNCHANGED DP!vars
  <1>1. /\ pc \in [Ranks -> Labels] /\ TypeInv /\ RankInv(q) /\ PassInv(q)
    BY DEF IInv, TypeInv, TypeOK, ReducerInv, MeanInv
  <1>2. /\ pc[q] = "backward" /\ todo[q] = {} /\ step[q] \in Steps
        /\ pc' = [pc EXCEPT ![q] = IF queued[q] THEN "finish" ELSE "idle"]
        /\ UNCHANGED <<plan, origin, todo, grad, buffer, work, next, at, completed>>
    BY <1>1 DEF EndBackward, GoTo, program, pass, calls, TypeInv, BusyAtStep
  <1>3. ~(\E b \in Buckets : b < at[q])
    <2>1. at[q] = 0
      BY <1>1, <1>2, RankTypes DEF RankInv, LaunchedRange
    <2> QED
      BY <1>1, <2>1, RankTypes
  <1>4. AbsSlot' = AbsSlot
    <2>1. ASSUME NEW r \in Ranks, NEW p \in Params PROVE SlotOf(r, p)' = SlotOf(r, p)
      <3>1. BucketOf[p] \in Buckets
        BY <1>1, RankTypes
      <3> QED
        BY <1>1, <1>2, <1>3, <3>1, SlotFrame DEF TakenAlready
    <2> QED
      BY <2>1 DEF AbsSlot
  <1>5. AbsGrad' = AbsGrad /\ AbsStarted' = AbsStarted /\ AbsBusy[q]
    BY <1>1, <1>2 DEF AbsGrad, AbsStarted, AbsBusy
  <1>6. CASE queued[q]
    <2>1. AbsBusy' = AbsBusy /\ step' = step
      BY <1>1, <1>2, <1>6 DEF AbsBusy, EndBackward
    <2> QED
      BY <1>2, <1>4, <1>5, <2>1
      DEF DP!vars, DP!replica, AbsGrad, AbsSlot, AbsBusy, AbsStarted
  <1>7. CASE ~queued[q]
    <2>1. AbsBusy' = [AbsBusy EXCEPT ![q] = FALSE] /\ step' = [step EXCEPT ![q] = @ + 1]
      <3>1. pc' = [pc EXCEPT ![q] = "idle"]
        BY <1>2, <1>7
      <3>2. AbsBusy' = [AbsBusy EXCEPT ![q] = FALSE]
        BY <1>1, <3>1, BusyEnds
      <3>3. step' = [step EXCEPT ![q] = @ + 1]
        BY <1>7 DEF EndBackward, NextStep
      <3> QED
        BY <3>2, <3>3
    <2>2. DP!At(q, {"no_sync"})
      BY <1>1, <1>2, <1>7 DEF PassInv, DP!At
    <2> QED
      BY <1>2, <1>4, <1>5, <2>1, <2>2
      DEF DP!EndLocal, DP!replica, AbsGrad, AbsSlot, AbsBusy, AbsStarted
  <1> QED
    BY <1>6, <1>7

\* A gradient that becomes ready is accumulated.
LEMMA ReadyRefines ==
  ASSUME IInv, NEW q \in Ranks, NEW p \in Params, GradReady(q, p)
  PROVE  DP!Accumulate(q, p)
  <1>1. /\ TypeInv /\ RankInv(q) /\ GradInv(q)
        /\ todo \in [Ranks -> SUBSET Params] /\ grad \in [Ranks -> [Params -> Grads]]
    BY DEF IInv, TypeInv, TypeOK, ReducerInv, MeanInv
  <1>2. /\ pc[q] = "backward" /\ p \in todo[q]
        /\ todo' = [todo EXCEPT ![q] = @ \ {p}]
        /\ grad' = [grad EXCEPT ![q][p] = Accumulated(q, p)]
        /\ UNCHANGED <<plan, pc, step, origin, used, buffer, work, next, at, completed>>
    BY DEF GradReady, program, calls
  <1>3. PICK k \in Steps : k = step[q]
    BY <1>1, <1>2 DEF TypeInv, BusyAtStep
  <1>4. work[q][BucketOf[p]] = 0 /\ at[q] = 0 /\ BucketOf[p] \in Buckets
    <2>1. BucketOf[p] \in Buckets
      BY <1>1, RankTypes
    <2>2. ~(BucketOf[p] < next[q])
      BY <1>1, <1>2, <2>1 DEF RankInv, Counting, ParamsOf
    <2>3. at[q] = 0
      BY <1>1, <1>2, RankTypes DEF RankInv, LaunchedRange
    <2> QED
      BY <1>1, <2>1, <2>2, <2>3 DEF RankInv, LaunchedRange
  <1>5. AbsSlot' = AbsSlot
    <2>1. ASSUME NEW r \in Ranks, NEW o \in Params PROVE SlotOf(r, o)' = SlotOf(r, o)
      BY <1>2, SlotFrame DEF TakenAlready
    <2> QED
      BY <2>1 DEF AbsSlot
  <1>6. SlotOf(q, p) = DP!Unoffered
    <2>1. ~TakenAlready(q, BucketOf[p])
      BY <1>2 DEF TakenAlready
    <2>2. StateOf(q, BucketOf[p]) = "none"
      BY <1>4, <2>1 DEF StateOf
    <2>3. Held(ZeroGrad) = DP!NoGrad
      BY DEF Held, ZeroGrad, DP!NoGrad
    <2> QED
      BY <1>4, <2>2, <2>3 DEF SlotOf, DP!Unoffered, DP!Slot
  <1>7. grad[q][p] \in Grads /\ <<q, k>> \in Contribs /\ grad[q][p][<<q, k>>] = "zero"
    <2>1. <<q, k>> \in Contribs
      BY DEF Contribs
    <2>2. ~(BucketOf[p] < at[q])
      BY <1>1, <1>4, RankTypes
    <2>3. grad[q][p] = Local(plan, used, q, p, k, todo[q])
      BY <1>1, <1>3, <2>2 DEF GradInv
    <2>4. ~Kept(plan, k, k)
      BY KeptNext DEF Steps
    <2>5. Local(plan, used, q, p, k, todo[q])[<<q, k>>] = "zero"
      BY <1>2, <2>1, <2>4 DEF Local
    <2>6. grad[q][p] \in Grads
      BY <1>1
    <2> QED
      BY <2>1, <2>3, <2>5, <2>6
  <1>8. Held(Accumulated(q, p)) = [Held(grad[q][p]) EXCEPT !.own = @ \cup {<<q, step[q]>>}]
    <2>1. PICK g \in Grads : g = grad[q][p]
      BY <1>7
    <2>2. PICK h : h = [g EXCEPT ![<<q, k>>] = "own"]
      OBVIOUS
    <2>3. \A c \in Contribs : h[c] = IF c = <<q, k>> THEN "own" ELSE g[c]
      BY <1>7, <2>2 DEF Grads
    <2>4. {c \in Contribs : h[c] = "own"} = {c \in Contribs : g[c] = "own"} \cup {<<q, k>>}
      BY <1>7, <2>3
    <2>5. {c \in Contribs : h[c] = "mean"} = {c \in Contribs : g[c] = "mean"}
      BY <1>7, <2>1, <2>3
    <2>6. Held(h) = [Held(g) EXCEPT !.own = @ \cup {<<q, k>>}]
      <3>1. PICK own, avg : /\ own = {c \in Contribs : g[c] = "own"}
                            /\ avg = {c \in Contribs : g[c] = "mean"}
        OBVIOUS
      <3>2. Held(g) = [own |-> own, avg |-> avg]
        BY <3>1 DEF Held
      <3>3. Held(h) = [own |-> own \cup {<<q, k>>}, avg |-> avg]
        BY <2>4, <2>5, <3>1 DEF Held
      <3> QED
        BY <3>2, <3>3
    <2>7. Accumulated(q, p) = h
      BY <1>3, <2>1, <2>2 DEF Accumulated
    <2> QED
      BY <1>3, <2>1, <2>6, <2>7
  <1>9. AbsGrad' = [AbsGrad EXCEPT ![q][p].own = @ \cup {<<q, step[q]>>}]
    <2>1. PICK new : new = Accumulated(q, p)
      OBVIOUS
    <2>2. \A r \in Ranks, o \in Params :
              grad'[r][o] = IF r = q /\ o = p THEN new ELSE grad[r][o]
      BY <1>1, <1>2, <2>1
    <2>3. AbsGrad' = [AbsGrad EXCEPT ![q][p] = Held(new)]
      <3>1. AbsGrad' = [r \in Ranks |-> [o \in Params |->
                            IF r = q /\ o = p THEN Held(new) ELSE Held(grad[r][o])]]
        BY <2>2 DEF AbsGrad
      <3> QED
        BY <3>1 DEF AbsGrad
    <2>4. AbsGrad[q][p] = Held(grad[q][p])
      BY DEF AbsGrad
    <2> QED
      BY <1>8, <2>1, <2>3, <2>4
  <1>10. AbsBusy' = AbsBusy /\ AbsStarted' = AbsStarted /\ AbsBusy[q]
    BY <1>2 DEF AbsBusy, AbsStarted
  <1>11. AbsSlot[q][p] = DP!Unoffered
    BY <1>6 DEF AbsSlot
  <1> QED
    BY <1>2, <1>5, <1>9, <1>10, <1>11
    DEF DP!Accumulate, DP!replica, AbsGrad, AbsSlot, AbsBusy, AbsStarted

\* A launched bucket is an offer of its gradients.
LEMMA LaunchRefines ==
  ASSUME IInv, IInv', NEW q \in Ranks, NEW n \in Buckets, n = next[q], Launch(q, n),
         pc[q] \in {"backward", "finish"}, ParamsOf(n) \cap todo[q] = {}
  PROVE  DP!Offer(q, ParamsOf(n))
  <1>1. /\ TypeInv /\ RankInv(q) /\ CallInv(q)
        /\ \A p \in Params : BucketOf[p] \in Buckets
        /\ \A b \in Buckets : b \in Nat /\ b < NumBuckets
        /\ NumBuckets \in Nat \ {0} /\ next[q] \in Nat /\ Len(log[q]) \in Nat
    BY RankTypes DEF IInv, ReducerInv, MeanInv
  <1>2. /\ UNCHANGED <<plan, pc, step, origin, todo, grad, at, completed>>
        /\ buffer' = [buffer EXCEPT ![q] =
                        [p \in Params |-> IF BucketOf[p] = n THEN grad[q][p] ELSE @[p]]]
        /\ work' = [work EXCEPT ![q][n] = Len(log[q]) + 1]
        /\ next' = [next EXCEPT ![q] = @ + 1]
    BY DEF Launch, program, pass
  <1>3. /\ work'[q][n] = Len(log[q]) + 1
        /\ \A p \in Params : buffer'[q][p] = IF BucketOf[p] = n THEN grad[q][p]
                                             ELSE buffer[q][p]
        /\ \A r \in Ranks, p \in Params :
              r # q \/ BucketOf[p] # n => /\ buffer'[r][p] = buffer[r][p]
                                          /\ work'[r][BucketOf[p]] = work[r][BucketOf[p]]
        /\ \A r \in Ranks : next'[r] = IF r = q THEN n + 1 ELSE next[r]
    <2>1. /\ next \in [Ranks -> 0 .. NumBuckets] /\ work \in [Ranks -> [Buckets -> Nat]]
          /\ buffer \in [Ranks -> [Params -> Grads]]
      BY <1>1 DEF TypeInv, TypeOK
    <2>2. work'[q][n] = Len(log[q]) + 1
      BY <1>2, <2>1
    <2>3. \A p \in Params : buffer'[q][p] = IF BucketOf[p] = n THEN grad[q][p]
                                            ELSE buffer[q][p]
      BY <1>2, <2>1
    <2>4. ASSUME NEW r \in Ranks, NEW p \in Params, r # q \/ BucketOf[p] # n
          PROVE  /\ buffer'[r][p] = buffer[r][p]
                 /\ work'[r][BucketOf[p]] = work[r][BucketOf[p]]
      BY <1>1, <1>2, <2>1, <2>3, <2>4
    <2>5. \A r \in Ranks : next'[r] = IF r = q THEN n + 1 ELSE next[r]
      BY <1>2, <2>1
    <2> QED
      BY <2>2, <2>3, <2>4, <2>5
  <1>4. Len(log[q]) + 1 # 0 /\ Len(log[q]) + 1 \notin completed
    <2>1. completed \subseteq 1 .. Len(log[q])
      BY <1>1 DEF CallInv
    <2>2. Len(log[q]) + 1 \notin 1 .. Len(log[q])
      BY <1>1
    <2> QED
      BY <1>1, <2>1, <2>2
  <1>5. at[q] = 0 /\ n # NumBuckets
    BY <1>1, RankTypes DEF RankInv, LaunchedRange
  <1>6. \A b \in Buckets : ~TakenAlready(q, b) /\ ~TakenAlready(q, b)'
    BY <1>1, <1>2, <1>5 DEF TakenAlready
  <1>7. ASSUME NEW r \in Ranks, NEW p \in Params, r # q \/ BucketOf[p] # n
        PROVE  SlotOf(r, p)' = SlotOf(r, p)
    <2>1. TakenAlready(r, BucketOf[p])' <=> TakenAlready(r, BucketOf[p])
      <3>1. CASE r = q
        BY <1>1, <1>6, <3>1
      <3>2. CASE r # q
        BY <1>2, <1>3, <3>2 DEF TakenAlready
      <3> QED
        BY <3>1, <3>2
    <2> QED
      BY <1>2, <1>3, <1>7, <2>1, SlotFrame
  <1>8. ASSUME NEW p \in Params, BucketOf[p] = n
        PROVE  /\ SlotOf(q, p) = DP!Unoffered
               /\ SlotOf(q, p)' = DP!Slot("offered", Held(grad[q][p]))
    <2>1. work[q][BucketOf[p]] = 0
      BY <1>1, <1>8 DEF RankInv, LaunchedRange
    <2>2. StateOf(q, BucketOf[p]) = "none"
      BY <1>1, <1>6, <2>1 DEF StateOf
    <2>3. Held(ZeroGrad) = DP!NoGrad
      BY DEF Held, ZeroGrad, DP!NoGrad
    <2>4. SlotOf(q, p) = DP!Unoffered
      BY <2>1, <2>2, <2>3 DEF SlotOf, DP!Unoffered, DP!Slot
    <2>5. work'[q][BucketOf[p]] = Len(log[q]) + 1
      BY <1>3, <1>8
    <2>6. StateOf(q, BucketOf[p])' = "offered"
      BY <1>2, <1>4, <2>5 DEF StateOf
    <2>7. buffer'[q][p] = grad[q][p]
      BY <1>3, <1>8
    <2>8. SlotOf(q, p)' = DP!Slot("offered", Held(grad[q][p]))
      BY <1>4, <2>5, <2>6, <2>7 DEF SlotOf, DP!Slot, Held
    <2> QED
      BY <2>4, <2>8
  <1>9. AbsSlot' = [AbsSlot EXCEPT ![q] =
                [p \in Params |-> IF p \in ParamsOf(n)
                                  THEN DP!Slot("offered", AbsGrad[q][p]) ELSE @[p]]]
    <2>1. \A p \in Params : AbsGrad[q][p] = Held(grad[q][p]) /\ AbsSlot[q][p] = SlotOf(q, p)
      BY DEF AbsGrad, AbsSlot
    <2>2. AbsSlot' = [r \in Ranks |-> [p \in Params |->
                IF r = q /\ p \in ParamsOf(n) THEN DP!Slot("offered", AbsGrad[q][p])
                ELSE SlotOf(r, p)]]
      BY <1>7, <1>8, <2>1 DEF AbsSlot, ParamsOf
    <2> QED
      BY <2>1, <2>2 DEF AbsSlot
  <1>10. \A p \in ParamsOf(n) : AbsSlot[q][p] = DP!Unoffered
    BY <1>8 DEF AbsSlot, ParamsOf
  <1>11. step[q] \in Steps /\ plan[step[q]] \in {"backward", "finish"}
    <2>1. step[q] \in Steps /\ PassInv(q)
      BY <1>1 DEF TypeInv, BusyAtStep, IInv, MeanInv
    <2>2. CASE pc[q] = "finish"
      BY <2>1, <2>2 DEF PassInv, SyncKinds
    <2>3. CASE pc[q] = "backward"
      <3>1. next'[q] # 0 /\ pc'[q] = "backward"
        BY <1>1, <1>2, <1>3, <2>3
      <3>2. Counting(q)'
        BY DEF IInv, ReducerInv, RankInv
      <3>3. plan[step[q]] # "no_sync"
        BY <1>2, <3>1, <3>2 DEF Counting, SyncEnabled
      <3> QED
        BY <2>1, <2>3, <3>3 DEF PassInv
    <2> QED
      BY <2>2, <2>3
  <1>12. /\ AbsBusy' = AbsBusy /\ AbsStarted' = AbsStarted /\ AbsGrad' = AbsGrad
         /\ AbsBusy[q] /\ DP!At(q, {"backward", "finish"})
    BY <1>2, <1>11 DEF AbsBusy, AbsStarted, AbsGrad, DP!At
  <1> QED
    BY <1>2, <1>9, <1>10, <1>12
    DEF DP!Offer, DP!replica, AbsGrad, AbsSlot, AbsBusy, AbsStarted

\* A turn of the wait loop takes the bucket's averages.
LEMMA WaitRefines ==
  ASSUME IInv, NEW q \in Ranks, WaitBucket(q)
  PROVE  \E Q \in SUBSET Params : DP!Take(q, Q)
  <1>1. /\ TypeInv /\ RankInv(q)
        /\ pc \in [Ranks -> Labels] /\ at \in [Ranks -> Buckets]
        /\ next \in [Ranks -> 0 .. NumBuckets]
        /\ work \in [Ranks -> [Buckets -> Nat]] /\ grad \in [Ranks -> [Params -> Grads]]
    BY DEF IInv, TypeInv, TypeOK, ReducerInv
  <1>2. PICK a \in Buckets : a = at[q]
    BY <1>1
  <1>3. /\ NumBuckets \in Nat \ {0} /\ a \in Nat /\ a < NumBuckets
        /\ \A b \in Buckets : b \in Nat /\ b < NumBuckets
        /\ \A p \in Params : BucketOf[p] \in Buckets
    BY <1>1, RankTypes
  <1>4. /\ pc[q] = "finish" /\ next[q] = NumBuckets /\ todo[q] = {}
        /\ UNCHANGED <<plan, origin, todo, buffer, completed>>
    BY <1>1 DEF WaitBucket, program, pass, calls, RankInv, Resting
  <1>5. \A b \in Buckets : work[q][b] # 0 <=> a <= b
    BY <1>1, <1>2, <1>3, <1>4 DEF RankInv, LaunchedRange
  <1>6. work[q][a] # 0 /\ work[q][a] \in completed
    BY <1>2, <1>3, <1>5 DEF WaitBucket, Waited
  <1>7. /\ \A r \in Ranks, b \in Buckets :
              work'[r][b] = IF r = q /\ b = a THEN 0 ELSE work[r][b]
        /\ \A r \in Ranks, p \in Params :
              grad'[r][p] = IF r = q /\ BucketOf[p] = a THEN buffer[q][p] ELSE grad[r][p]
    <2>1. work' = [work EXCEPT ![q][a] = 0]
      BY <1>2 DEF WaitBucket
    <2>2. grad' = [grad EXCEPT ![q] = Scattered(q, a)]
      BY <1>2, <1>6 DEF WaitBucket
    <2>3. \A r \in Ranks, b \in Buckets :
              work'[r][b] = IF r = q /\ b = a THEN 0 ELSE work[r][b]
      BY <1>1, <2>1
    <2>4. \A r \in Ranks, p \in Params :
              grad'[r][p] = IF r = q /\ BucketOf[p] = a THEN buffer[q][p] ELSE grad[r][p]
      BY <1>1, <2>2 DEF Scattered
    <2> QED
      BY <2>3, <2>4
  <1>8. Held(ZeroGrad) = DP!NoGrad
    BY DEF Held, ZeroGrad, DP!NoGrad
  <1>9. \A p \in Params : BucketOf[p] = a =>
            SlotOf(q, p) = DP!Slot("averaged", Held(buffer[q][p]))
    BY <1>6 DEF SlotOf, StateOf, DP!Slot
  <1>10. \A p \in Params : BucketOf[p] < a => SlotOf(q, p) = DP!Taken
    <2> SUFFICES ASSUME NEW p \in Params, BucketOf[p] < a PROVE SlotOf(q, p) = DP!Taken
      OBVIOUS
    <2>0. BucketOf[p] \in Buckets /\ BucketOf[p] \in Nat
      BY <1>3
    <2>1. ~(a <= BucketOf[p])
      BY <1>3, <2>0
    <2>2. work[q][BucketOf[p]] = 0 /\ TakenAlready(q, BucketOf[p])
      BY <1>2, <1>4, <1>5, <2>0, <2>1 DEF TakenAlready
    <2> QED
      BY <1>8, <2>2 DEF SlotOf, StateOf, DP!Taken, DP!Slot
  <1>11. \A p \in Params : BucketOf[p] > a => SlotOf(q, p) # DP!Taken
    <2> SUFFICES ASSUME NEW p \in Params, BucketOf[p] > a PROVE SlotOf(q, p) # DP!Taken
      OBVIOUS
    <2>1. BucketOf[p] \in Buckets /\ BucketOf[p] \in Nat
      BY <1>3
    <2>2. work[q][BucketOf[p]] # 0
      BY <1>3, <1>5, <2>1
    <2>3. SlotOf(q, p).state # "taken"
      BY <2>2 DEF SlotOf, StateOf
    <2> QED
      BY <2>3 DEF DP!Taken, DP!Slot
  <1>12. ASSUME NEW r \in Ranks \ {q}, NEW p \in Params PROVE SlotOf(r, p)' = SlotOf(r, p)
    <2>1. work'[r][BucketOf[p]] = work[r][BucketOf[p]]
      BY <1>3, <1>7
    <2>2. pc'[r] = pc[r] /\ next'[r] = next[r] /\ at'[r] = at[r]
      BY <1>1 DEF WaitBucket, EndOfWait, GoTo
    <2> QED
      BY <1>4, <2>1, <2>2, SlotFrame DEF TakenAlready
  <1>13. AbsGrad' = [AbsGrad EXCEPT ![q] = [p \in Params |->
                         IF p \in ParamsOf(a) THEN AbsSlot[q][p].grad ELSE @[p]]]
    <2>1. \A p \in ParamsOf(a) : AbsSlot[q][p].grad = Held(buffer[q][p])
      BY <1>9 DEF AbsSlot, ParamsOf, DP!Slot
    <2>2. AbsGrad' = [r \in Ranks |-> [p \in Params |->
                         IF r = q /\ p \in ParamsOf(a) THEN AbsSlot[q][p].grad
                         ELSE AbsGrad[r][p]]]
      <3>1. ASSUME NEW r \in Ranks, NEW p \in Params
            PROVE  Held(grad[r][p])' = IF r = q /\ p \in ParamsOf(a)
                                       THEN AbsSlot[q][p].grad ELSE Held(grad[r][p])
        <4>1. CASE r = q /\ p \in ParamsOf(a)
          <5>1. grad'[r][p] = buffer[q][p]
            BY <1>7, <4>1 DEF ParamsOf
          <5>2. Held(grad[r][p])' = Held(buffer[q][p])
            BY <5>1 DEF Held
          <5> QED
            BY <2>1, <4>1, <5>2
        <4>2. CASE ~(r = q /\ p \in ParamsOf(a))
          <5>1. grad'[r][p] = grad[r][p]
            BY <1>7, <4>2 DEF ParamsOf
          <5>2. Held(grad[r][p])' = Held(grad[r][p])
            BY <5>1 DEF Held
          <5> QED
            BY <4>2, <5>2
        <4> QED
          BY <4>1, <4>2
      <3> QED
        BY <3>1 DEF AbsGrad
    <2>3. AbsGrad = [r \in Ranks |-> [p \in Params |-> AbsGrad[r][p]]]
      BY DEF AbsGrad
    <2> HIDE DEF AbsGrad, AbsSlot
    <2> QED
      BY <2>2, <2>3
  <1>14. AbsStarted' = AbsStarted
    BY <1>1, <1>4 DEF AbsStarted, WaitBucket, EndOfWait, GoTo
  <1>15. AbsBusy[q] /\ \A p \in ParamsOf(a) : AbsSlot[q][p].state = "averaged"
    <2>1. AbsBusy[q]
      BY <1>4 DEF AbsBusy
    <2>2. ASSUME NEW p \in ParamsOf(a) PROVE AbsSlot[q][p].state = "averaged"
      <3>1. AbsSlot[q][p] = DP!Slot("averaged", Held(buffer[q][p]))
        BY <1>9 DEF AbsSlot, ParamsOf
      <3> QED
        BY <3>1 DEF DP!Slot
    <2> QED
      BY <2>1, <2>2
  <1>16. CASE a = NumBuckets - 1
    <2>1. /\ pc' = [pc EXCEPT ![q] = "idle"] /\ step' = [step EXCEPT ![q] = @ + 1]
      BY <1>2, <1>16 DEF WaitBucket, EndOfWait, GoTo, NextStep
    <2>2. AbsBusy' = [AbsBusy EXCEPT ![q] = FALSE]
      BY <1>1, <2>1, BusyEnds
    <2>3. \A p \in Params \ ParamsOf(a) : AbsSlot[q][p] = DP!Taken
      <3> SUFFICES ASSUME NEW p \in Params, p \notin ParamsOf(a)
                   PROVE  SlotOf(q, p) = DP!Taken
        BY DEF AbsSlot
      <3>1. BucketOf[p] \in Nat /\ BucketOf[p] < NumBuckets /\ BucketOf[p] # a
        BY <1>3 DEF ParamsOf
      <3>2. BucketOf[p] < a
        BY <1>3, <1>16, <3>1
      <3> QED
        BY <1>10, <3>2
    <2>4. \A p \in Params : SlotOf(q, p)' = DP!Unoffered
      <3> SUFFICES ASSUME NEW p \in Params PROVE SlotOf(q, p)' = DP!Unoffered
        OBVIOUS
      <3>1. work'[q][BucketOf[p]] = 0
        <4>0. BucketOf[p] \in Buckets /\ BucketOf[p] \in Nat /\ BucketOf[p] < NumBuckets
          BY <1>3
        <4>1. BucketOf[p] = a \/ ~(a <= BucketOf[p])
          BY <1>3, <1>16, <4>0
        <4> QED
          BY <1>5, <1>7, <4>0, <4>1
      <3>2. pc'[q] = "idle"
        BY <1>1, <2>1
      <3>3. ~TakenAlready(q, BucketOf[p])'
        BY <3>2 DEF TakenAlready
      <3>4. StateOf(q, BucketOf[p])' = "none"
        BY <3>1, <3>3 DEF StateOf
      <3>5. SlotOf(q, p)' = [state |-> "none", grad |-> Held(ZeroGrad)]
        BY <3>1, <3>4 DEF SlotOf, Held
      <3> QED
        BY <1>8, <3>5 DEF DP!Unoffered, DP!Slot
    <2>5. AbsSlot' = [AbsSlot EXCEPT ![q] = [p \in Params |-> DP!Unoffered]]
      BY <1>12, <2>4 DEF AbsSlot
    <2>6. DP!Take(q, ParamsOf(a))
      BY <1>4, <1>13, <1>14, <1>15, <2>1, <2>2, <2>3, <2>5
      DEF DP!Take, DP!replica, AbsGrad, AbsSlot, AbsBusy, AbsStarted
    <2> QED
      BY <2>6 DEF ParamsOf
  <1>17. CASE a # NumBuckets - 1
    <2>1. pc' = pc /\ next' = next /\ step' = step /\ at' = [at EXCEPT ![q] = a + 1]
      BY <1>2, <1>17 DEF WaitBucket, EndOfWait
    <2>2. AbsBusy' = AbsBusy
      BY <2>1 DEF AbsBusy
    <2>3. ~(\A p \in Params \ ParamsOf(a) : AbsSlot[q][p] = DP!Taken)
      <3>1. a + 1 \in Buckets
        BY <1>3, <1>17 DEF Buckets
      <3>2. PICK p \in Params : BucketOf[p] = a + 1
        BY <3>1, BucketsAssumption DEF ParamsOf
      <3>3. BucketOf[p] > a /\ p \notin ParamsOf(a)
        BY <1>3, <3>2 DEF ParamsOf
      <3>4. AbsSlot[q][p] # DP!Taken
        BY <1>11, <3>3 DEF AbsSlot
      <3> QED
        BY <3>3, <3>4
    <2>4. at'[q] = a + 1
      BY <1>1, <2>1
    <2>5. ASSUME NEW p \in Params, BucketOf[p] = a PROVE SlotOf(q, p)' = DP!Taken
      <3>1. work'[q][BucketOf[p]] = 0
        BY <1>7, <2>5
      <3>2. TakenAlready(q, BucketOf[p])'
        BY <1>3, <1>4, <2>1, <2>4, <2>5 DEF TakenAlready
      <3>3. SlotOf(q, p)' = [state |-> "taken", grad |-> Held(ZeroGrad)]
        BY <3>1, <3>2 DEF SlotOf, StateOf, Held
      <3> QED
        BY <1>8, <3>3 DEF DP!Taken, DP!Slot
    <2>6. ASSUME NEW p \in Params, BucketOf[p] # a PROVE SlotOf(q, p)' = SlotOf(q, p)
      <3>0. BucketOf[p] \in Buckets /\ BucketOf[p] \in Nat
        BY <1>3
      <3>1. work'[q][BucketOf[p]] = work[q][BucketOf[p]]
        BY <1>7, <2>6, <3>0
      <3>2. BucketOf[p] < a + 1 <=> BucketOf[p] < a
        BY <1>3, <2>6, <3>0
      <3>3. TakenAlready(q, BucketOf[p])' <=> TakenAlready(q, BucketOf[p])
        BY <1>2, <2>1, <2>4, <3>2 DEF TakenAlready
      <3> QED
        BY <1>4, <3>1, <3>3, SlotFrame
    <2>7. AbsSlot' = [AbsSlot EXCEPT ![q] = [p \in Params |->
                          IF p \in ParamsOf(a) THEN DP!Taken ELSE @[p]]]
      <3>1. AbsSlot' = [r \in Ranks |-> [p \in Params |->
                          IF r = q /\ p \in ParamsOf(a) THEN DP!Taken ELSE SlotOf(r, p)]]
        BY <1>12, <2>5, <2>6 DEF AbsSlot, ParamsOf
      <3> QED
        BY <3>1 DEF AbsSlot
    <2>8. DP!Take(q, ParamsOf(a))
      BY <1>4, <1>13, <1>14, <1>15, <2>1, <2>2, <2>3, <2>7
      DEF DP!Take, DP!replica, AbsGrad, AbsSlot, AbsBusy, AbsStarted
    <2> QED
      BY <2>8 DEF ParamsOf
  <1> QED
    BY <1>16, <1>17

\* The average of what the ranks hold, in contributions: nothing stays own,
\* and what any rank holds is in it.
LEMMA AverageOfHeld ==
  ASSUME NEW pl, NEW us, NEW p, NEW k \in Steps, pl[k] \in SyncKinds
  PROVE  /\ \A r, s \in Ranks :
               Held(Local(pl, us, r, p, k, {})).avg = Held(Local(pl, us, s, p, k, {})).avg
         /\ Held(Mean(pl, us, p, k + 1)).own = {}
         /\ Held(Mean(pl, us, p, k + 1)).avg =
               UNION {Held(Local(pl, us, s, p, k, {})).own
                        \cup Held(Local(pl, us, s, p, k, {})).avg : s \in Ranks}
  <1> DEFINE L(s) == Local(pl, us, s, p, k, {})
             mean == Mean(pl, us, p, k + 1)
  <1>1. k \in Nat \ {0} /\ pl[k] # "opt"
    BY DEF Steps, SyncKinds
  <1>2. ~Kept(pl, k, k) /\ ~Synced(pl, k, k)
    BY <1>1 DEF Kept, Synced
  <1>3. ASSUME NEW c \in Contribs
        PROVE  /\ \A s \in Ranks : L(s)[c] = "mean" <=>
                     p \in us[c[1]][c[2]] /\ Kept(pl, c[2], k) /\ Synced(pl, c[2], k)
               /\ \A s \in Ranks : L(s)[c] = "own" <=>
                     /\ p \in us[c[1]][c[2]] /\ ~(Kept(pl, c[2], k) /\ Synced(pl, c[2], k))
                     /\ c[1] = s /\ (Kept(pl, c[2], k) \/ c[2] = k)
               /\ mean[c] = "mean" <=>
                     p \in us[c[1]][c[2]] /\ (Kept(pl, c[2], k) \/ c[2] = k)
               /\ mean[c] # "own"
    <2>1. c[2] \in Nat \ {0}
      BY ContribOf
    <2>2. Kept(pl, c[2], k + 1) <=> Kept(pl, c[2], k) \/ c[2] = k
      BY <1>1, <2>1, KeptNext
    <2>3. mean[c] = IF Kept(pl, c[2], k + 1) /\ p \in us[c[1]][c[2]] THEN "mean" ELSE "zero"
      BY DEF Mean
    <2>4. \A s \in Ranks : L(s)[c] =
              IF p \notin us[c[1]][c[2]] THEN "zero"
              ELSE IF Kept(pl, c[2], k) /\ Synced(pl, c[2], k) THEN "mean"
              ELSE IF c[1] = s /\ (Kept(pl, c[2], k) \/ c[2] = k) THEN "own" ELSE "zero"
      BY DEF Local
    <2> HIDE DEF L, mean
    <2> QED
      BY <2>2, <2>3, <2>4
  <1> HIDE DEF L, mean
  <1>4. \A r, s \in Ranks : Held(L(r)).avg = Held(L(s)).avg
    BY <1>3 DEF Held
  <1>5. Held(mean).own = {}
    BY <1>3 DEF Held
  <1>6. ASSUME NEW c \in Contribs
        PROVE  mean[c] = "mean" <=> \E s \in Ranks : L(s)[c] = "own" \/ L(s)[c] = "mean"
    <2>1. c[1] \in Ranks
      BY ContribOf
    <2>2. ASSUME mean[c] = "mean" PROVE L(c[1])[c] = "own" \/ L(c[1])[c] = "mean"
      BY <1>3, <2>1, <2>2
    <2>3. ASSUME NEW s \in Ranks, L(s)[c] = "own" \/ L(s)[c] = "mean" PROVE mean[c] = "mean"
      BY <1>3, <2>3
    <2> QED
      BY <2>1, <2>2, <2>3
  <1>7. Held(mean).avg = UNION {Held(L(s)).own \cup Held(L(s)).avg : s \in Ranks}
    <2>1. \A s \in Ranks : Held(L(s)).own \cup Held(L(s)).avg =
              {c \in Contribs : L(s)[c] = "own" \/ L(s)[c] = "mean"}
      BY DEF Held
    <2>2. Held(mean).avg = {c \in Contribs : mean[c] = "mean"}
      BY DEF Held
    <2> QED
      BY <1>6, <2>1, <2>2
  <1> QED
    BY <1>4, <1>5, <1>7 DEF L, mean

\* A completed call is an average over ranks that are in the same step.
LEMMA CompleteRefines ==
  ASSUME IInv, NEW k \in 1 .. MaxCalls, Complete(k)
  PROVE  \E Q \in SUBSET Params : DP!Average(Q)
  <1>1. TypeInv /\ MaxCalls \in Nat /\ k \in Nat \ {0}
    BY BucketsAssumption, PlansAssumption DEF IInv, MaxCalls
  <1>2. /\ k \notin completed /\ completed' = completed \cup {k}
        /\ UNCHANGED <<plan, pc, step, origin, todo, grad, work, next, at>>
    BY DEF Complete, program, pass, reducer
  <1>3. \A r \in Ranks : k \in 1 .. Len(log[r])
    BY <1>1, RankTypes DEF Complete
  <1>4. PICK j \in Steps, b \in Buckets :
            /\ plan[j] \in SyncKinds
            /\ \A r \in Ranks : /\ step[r] = j /\ b < next[r]
                                /\ work[r][b] = k /\ log[r][k] = b
    BY <1>2, <1>3, OpenTogether
  <1>5. ASSUME NEW r \in Ranks, NEW p \in Params
        PROVE  buffer'[r][p] = IF BucketOf[p] = b THEN Mean(plan, used, p, j + 1)
                               ELSE buffer[r][p]
    <2>1. BucketOf[p] = b => MeanSlice(p) = Mean(plan, used, p, j + 1)
      BY <1>1, <1>2, <1>4, ReducedIsMean
    <2>2. log[r][k] = b /\ \A s \in Ranks : log[s][k] = log[r][k]
      BY <1>4
    <2>3. buffer'[r][p] = IF BucketOf[p] # log[r][k] THEN buffer[r][p]
                          ELSE IF \A s \in Ranks : log[s][k] = log[r][k]
                               THEN MeanSlice(p) ELSE BadGrad
      BY DEF Complete
    <2> QED
      BY <2>1, <2>2, <2>3
  <1>6. ASSUME NEW r \in Ranks, NEW p \in Params, BucketOf[p] # b
        PROVE  SlotOf(r, p)' = SlotOf(r, p)
    <2>1. work[r][BucketOf[p]] # k
      <3>1. BucketOf[p] \in Buckets /\ BucketOf[p] \in Nat /\ b \in Nat
            /\ Base(plan, step[r]) \in Nat /\ CallInv(r)
        BY <1>1, RankTypes DEF IInv, MeanInv
      <3>2. /\ work[r][BucketOf[p]] # 0 =>
                  work[r][BucketOf[p]] = Base(plan, step[r]) + BucketOf[p] + 1
            /\ work[r][b] # 0 => work[r][b] = Base(plan, step[r]) + b + 1
        BY <3>1 DEF CallInv, CallOf
      <3> QED
        BY <1>1, <1>4, <1>6, <3>1, <3>2
    <2>2. work[r][BucketOf[p]] \in completed' <=> work[r][BucketOf[p]] \in completed
      BY <1>2, <2>1
    <2>3. TakenAlready(r, BucketOf[p])' <=> TakenAlready(r, BucketOf[p])
      BY <1>2 DEF TakenAlready
    <2> QED
      BY <1>2, <1>5, <1>6, <2>2, <2>3, SlotFrame
  <1>7. ASSUME NEW r \in Ranks, NEW p \in Params, BucketOf[p] = b
        PROVE  /\ SlotOf(r, p) = DP!Slot("offered", Held(Local(plan, used, r, p, j, {})))
               /\ SlotOf(r, p)' = DP!Slot("averaged", Held(Mean(plan, used, p, j + 1)))
    <2>1. work[r][BucketOf[p]] = k /\ k # 0
      BY <1>1, <1>4, <1>7
    <2>2. buffer[r][p] = Local(plan, used, r, p, j, {})
      BY <1>2, <1>4, <2>1, OfferedIsLocal
    <2>3. SlotOf(r, p) = DP!Slot("offered", Held(buffer[r][p]))
      BY <1>2, <2>1 DEF SlotOf, StateOf, DP!Slot
    <2>4. buffer'[r][p] = Mean(plan, used, p, j + 1)
      BY <1>5, <1>7
    <2>5. work'[r][BucketOf[p]] = k /\ k \in completed'
      BY <1>2, <2>1
    <2>6. SlotOf(r, p)' = DP!Slot("averaged", Held(Mean(plan, used, p, j + 1)))
      BY <2>1, <2>4, <2>5 DEF SlotOf, StateOf, DP!Slot, Held
    <2> QED
      BY <2>2, <2>3, <2>6
  <1>8. ASSUME NEW p \in ParamsOf(b)
        PROVE  /\ \A r, s \in Ranks : /\ AbsSlot[r][p].state = "offered"
                                      /\ AbsSlot[r][p].grad.avg = AbsSlot[s][p].grad.avg
               /\ \A r \in Ranks :
                     AbsSlot'[r][p] = DP!Slot("averaged",
                        [own |-> {},
                         avg |-> UNION {AbsSlot[s][p].grad.own \cup AbsSlot[s][p].grad.avg :
                                            s \in Ranks}])
    <2>1. p \in Params /\ BucketOf[p] = b
      BY DEF ParamsOf
    <2>2. \A r \in Ranks : /\ AbsSlot[r][p].state = "offered"
                           /\ AbsSlot[r][p].grad = Held(Local(plan, used, r, p, j, {}))
      BY <1>7, <2>1 DEF AbsSlot, DP!Slot
    <2>a. /\ \A r, s \in Ranks : Held(Local(plan, used, r, p, j, {})).avg
                                    = Held(Local(plan, used, s, p, j, {})).avg
          /\ Held(Mean(plan, used, p, j + 1)).own = {}
          /\ Held(Mean(plan, used, p, j + 1)).avg =
                UNION {Held(Local(plan, used, s, p, j, {})).own
                         \cup Held(Local(plan, used, s, p, j, {})).avg : s \in Ranks}
      BY <1>4, AverageOfHeld
    <2>3. \A r, s \in Ranks : AbsSlot[r][p].grad.avg = AbsSlot[s][p].grad.avg
      BY <2>2, <2>a
    <2>4. UNION {AbsSlot[s][p].grad.own \cup AbsSlot[s][p].grad.avg : s \in Ranks}
            = UNION {Held(Local(plan, used, s, p, j, {})).own
                        \cup Held(Local(plan, used, s, p, j, {})).avg : s \in Ranks}
      BY <2>2
    <2>5. /\ Held(Mean(plan, used, p, j + 1)).own = {}
          /\ Held(Mean(plan, used, p, j + 1)).avg =
                UNION {AbsSlot[s][p].grad.own \cup AbsSlot[s][p].grad.avg : s \in Ranks}
      BY <2>4, <2>a
    <2>6. Held(Mean(plan, used, p, j + 1)) =
              [own |-> {},
               avg |-> UNION {AbsSlot[s][p].grad.own \cup AbsSlot[s][p].grad.avg : s \in Ranks}]
      BY <2>5 DEF Held
    <2>7. \A r \in Ranks : AbsSlot'[r][p] = DP!Slot("averaged", Held(Mean(plan, used, p, j + 1)))
      BY <1>7, <2>1 DEF AbsSlot
    <2> QED
      BY <2>2, <2>3, <2>6, <2>7
  <1>9. AbsSlot' = [r \in Ranks |-> [p \in Params |->
              IF p \notin ParamsOf(b) THEN AbsSlot[r][p]
              ELSE DP!Slot("averaged",
                      [own |-> {},
                       avg |-> UNION {AbsSlot[s][p].grad.own \cup AbsSlot[s][p].grad.avg :
                                          s \in Ranks}])]]
    <2>1. \A r \in Ranks, p \in Params \ ParamsOf(b) : AbsSlot'[r][p] = AbsSlot[r][p]
      BY <1>6 DEF AbsSlot, ParamsOf
    <2>2. AbsSlot' = [r \in Ranks |-> [p \in Params |-> AbsSlot'[r][p]]]
      BY DEF AbsSlot
    <2> HIDE DEF AbsSlot
    <2> QED
      BY <1>8, <2>1, <2>2
  <1>10. AbsBusy' = AbsBusy /\ AbsStarted' = AbsStarted /\ AbsGrad' = AbsGrad
    BY <1>2 DEF AbsBusy, AbsStarted, AbsGrad
  <1>11. DP!Average(ParamsOf(b))
    <2>1. \A r, s \in Ranks : step[r] = step[s]
      BY <1>4
    <2> QED
      BY <1>2, <1>8, <1>9, <1>10, <2>1
      DEF DP!Average, DP!replica, AbsGrad, AbsSlot, AbsBusy, AbsStarted
  <1> QED
    BY <1>11 DEF ParamsOf

-----------------------------------------------------------------------------
(* The refinement. *)

\* The wrapper's initial state is one of the promise.
LEMMA InitAveraging == Init => DP!Init /\ OriginInv
  <1> SUFFICES ASSUME Init PROVE DP!Init /\ OriginInv
    OBVIOUS
  <1>1. OriginInv
    BY RanksAssumption DEF Init, OriginInv, BroadcastRoot
  <1>2. \A p \in Params : BucketOf[p] \in Buckets
    BY BucketsAssumption
  <1>3. Held(ZeroGrad) = DP!NoGrad
    BY DEF Held, ZeroGrad, DP!NoGrad
  <1>4. \A r \in Ranks, p \in Params : SlotOf(r, p) = DP!Unoffered
    BY <1>2, <1>3 DEF Init, SlotOf, StateOf, TakenAlready, DP!Unoffered, DP!Slot
  <1>5. \A r \in Ranks : pc[r] = "ctor"
    BY DEF Init
  <1>6. /\ AbsStarted = [r \in Ranks |-> FALSE] /\ AbsBusy = [r \in Ranks |-> FALSE]
        /\ AbsGrad = [r \in Ranks |-> [p \in Params |-> DP!NoGrad]]
        /\ AbsSlot = [r \in Ranks |-> [p \in Params |-> DP!Unoffered]]
    <2>1. \A r \in Ranks : /\ (pc[r] # "ctor") = FALSE
                           /\ (pc[r] \in {"backward", "finish"}) = FALSE
      BY <1>5
    <2>2. \A r \in Ranks, p \in Params : grad[r][p] = ZeroGrad
      BY DEF Init
    <2>3. AbsStarted = [r \in Ranks |-> FALSE] /\ AbsBusy = [r \in Ranks |-> FALSE]
      BY <2>1 DEF AbsStarted, AbsBusy
    <2>4. AbsGrad = [r \in Ranks |-> [p \in Params |-> DP!NoGrad]]
      BY <1>3, <2>2 DEF AbsGrad
    <2>5. AbsSlot = [r \in Ranks |-> [p \in Params |-> DP!Unoffered]]
      BY <1>4 DEF AbsSlot
    <2> QED
      BY <2>3, <2>4, <2>5
  <1>7. DP!Init
    BY <1>6 DEF Init, DP!Init, AbsStarted, AbsBusy, AbsGrad, AbsSlot
  <1> QED
    BY <1>1, <1>7

\* Only __init__ writes the parameters' origin.
LEMMA NextOrigin == TypeInv /\ OriginInv /\ [Next]_vars => OriginInv'
  <1> SUFFICES ASSUME TypeInv, OriginInv, [Next]_vars PROVE OriginInv'
    OBVIOUS
  <1>1. BroadcastRoot' = BroadcastRoot
    BY DEF BroadcastRoot
  <1>2. ASSUME NEW q \in Ranks, Construct(q) PROVE OriginInv'
    BY <1>1, <1>2, RanksAssumption DEF Construct, OriginInv, TypeInv, TypeOK, BroadcastRoot
  <1>3. CASE origin' = origin
    BY <1>1, <1>3 DEF OriginInv
  <1>4. ASSUME NEW q \in Ranks, RankStep(q) PROVE OriginInv'
    BY <1>2, <1>3, <1>4
    DEF RankStep, StartBackward, GradReady, LaunchReady, FlushBucket, Launch,
        EndBackward, CallFinish, WaitBucket, OptStep
  <1> QED
    BY <1>3, <1>4 DEF Next, Complete, Terminating, vars

\* Every step of Ddp is a step of DataParallel, or nothing the caller sees.
LEMMA NextAveraging ==
  IInv /\ IInv' /\ OriginInv /\ [Next]_vars => [DP!Next]_DP!vars
  <1> SUFFICES ASSUME IInv, IInv', OriginInv, [Next]_vars PROVE DP!Next \/ UNCHANGED DP!vars
    OBVIOUS
  <1>1. ASSUME NEW q \in Ranks, RankStep(q) PROVE DP!Next \/ UNCHANGED DP!vars
    <2>1. ASSUME Construct(q) PROVE DP!Next
      BY <2>1, ConstructRefines DEF DP!Next
    <2>2. ASSUME StartBackward(q) PROVE DP!Next
      BY <2>2, StartRefines DEF DP!Next
    <2>3. ASSUME NEW p \in Params, GradReady(q, p) PROVE DP!Next
      BY <2>3, ReadyRefines DEF DP!Next
    <2>4. ASSUME NEW n \in Buckets, n = next[q], Launch(q, n),
                 pc[q] \in {"backward", "finish"}, ParamsOf(n) \cap todo[q] = {}
          PROVE  DP!Next
      <3>1. DP!Offer(q, ParamsOf(n)) /\ ParamsOf(n) \in SUBSET Params
        BY <2>4, LaunchRefines DEF ParamsOf
      <3> QED
        BY <3>1 DEF DP!Next
    <2>5. ASSUME LaunchReady(q) PROVE DP!Next
      <3>1. /\ next[q] \in Buckets /\ Launch(q, next[q]) /\ pc[q] = "backward"
            /\ NextIsReady(q)
        BY <2>5, RankTypes DEF LaunchReady, NextIsReady, IInv, Buckets
      <3>2. ParamsOf(next[q]) \cap todo[q] = {}
        BY <3>1, ReadyIsDone DEF IInv, ReducerInv, NextIsReady
      <3> QED
        BY <2>4, <3>1, <3>2
    <2>6. ASSUME FlushBucket(q) PROVE DP!Next
      <3>1. next[q] \in Buckets /\ Launch(q, next[q]) /\ pc[q] = "finish"
        BY <2>6, RankTypes DEF FlushBucket, IInv, Buckets
      <3>2. todo[q] = {}
        BY <3>1 DEF IInv, ReducerInv, RankInv, Resting
      <3> QED
        BY <2>4, <3>1, <3>2
    <2>7. ASSUME EndBackward(q) PROVE DP!Next \/ UNCHANGED DP!vars
      BY <2>7, EndRefines DEF DP!Next
    <2>8. ASSUME CallFinish(q) PROVE DP!Next
      BY <2>8, FinishRefines DEF DP!Next
    <2>9. ASSUME WaitBucket(q) PROVE DP!Next
      BY <2>9, WaitRefines DEF DP!Next
    <2>10. ASSUME OptStep(q) PROVE DP!Next
      BY <2>10, OptRefines DEF DP!Next
    <2> QED
      BY <1>1, <2>1, <2>2, <2>3, <2>5, <2>6, <2>7, <2>8, <2>9, <2>10 DEF RankStep
  <1>2. ASSUME NEW k \in 1 .. MaxCalls, Complete(k) PROVE DP!Next
    BY <1>2, CompleteRefines DEF DP!Next
  <1>3. CASE UNCHANGED vars
    BY <1>3 DEF vars, program, pass, reducer, calls, DP!vars, DP!replica, SlotOf, StateOf,
                TakenAlready, Held
  <1> QED
    BY <1>1, <1>2, <1>3 DEF Next, Terminating

\* Ddp implements DataParallel (property Averaging), for any group, bucketing
\* and programs.
THEOREM Refinement == Spec => Averaging
  <1>1. Init => IInv /\ OriginInv /\ DP!Init
    BY InitIInv, InitAveraging
  <1>2. IInv /\ OriginInv /\ [Next]_vars => IInv' /\ OriginInv'
    BY NextIInv, NextOrigin DEF IInv
  <1>3. IInv /\ IInv' /\ OriginInv /\ [Next]_vars => [DP!Next]_DP!vars
    BY NextAveraging
  <1> QED
    BY <1>1, <1>2, <1>3, PTL DEF Spec, Averaging, DP!Spec

=============================================================================
