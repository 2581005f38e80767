-------------------------- MODULE GradScalerProofs --------------------------
(***************************************************************************)
(* Proofs about GradScaler, for any number of ranks and any bounds.        *)
(***************************************************************************)
EXTENDS GradScaler, TLAPS

(* What update() makes of a rank's scale and step count. *)

NextLevel(r) ==
    IF Overflowed(r) THEN BackedOff(level[r])
    ELSE IF good[r] + 1 >= GrowthInterval THEN level[r] + 1 ELSE level[r]

NextGood(r) ==
    IF Overflowed(r) \/ good[r] + 1 >= GrowthInterval THEN 0 ELSE good[r] + 1

(* The inductive invariant.                                                *)
(*                                                                         *)
(* All ranks go through the all-reduce of an iteration together, so two    *)
(* ranks are in the same iteration exactly if both are before it or both   *)
(* after it.  A rank before it while another is after it has already run   *)
(* the update() the other has yet to run.                                  *)

\* Where a rank is in its iteration decides what its flags can be.
FlagsFollow(r) ==
    /\ unscaled[r] => pc[r] \in {"ready", "unscaled"}
    /\ pc[r] = "unscaled" => unscaled[r]
    /\ foundInf[r] => unscaled[r]

\* Only the flag agreed in this iteration decides its steps.
OutcomeFollows(r) ==
    /\ ~unscaled[r] /\ pc[r] # "backward" => \A o \in Opts : outcome[r][o] = "none"
    /\ unscaled[r] => \A o \in Opts : outcome[r][o] \in {"none", Decide(r)}

\* At the ceiling every gradient overflows, and the group finds out.
CeilingHolds(r) ==
    MustOverflow(level[r]) =>
        /\ pc[r] # "backward" => \A o \in Opts : bad[r][o]
        /\ unscaled[r] => foundInf[r]

RankInv(r) == FlagsFollow(r) /\ OutcomeFollows(r) /\ CeilingHolds(r)

\* Two ranks on the same side of the all-reduce.
Together(r, s) ==
    /\ level[r] = level[s] /\ good[r] = good[s]
    /\ foundInf[r] = foundInf[s]
    /\ \A o \in Opts : outcome[r][o] # "none" /\ outcome[s][o] # "none"
                       => outcome[r][o] = outcome[s][o]

\* Rank r has run update() and s, in the iteration before, has not.
Leads(r, s) ==
    /\ level[r] = NextLevel(s) /\ good[r] = NextGood(s)
    /\ \A o \in Opts : outcome[r][o] \in {"none", Decide(s)}

PairInv(r, s) ==
    /\ iter[r] = iter[s] <=> unscaled[r] = unscaled[s]
    /\ unscaled[r] = unscaled[s] => Together(r, s)
    /\ ~unscaled[r] /\ unscaled[s] => Leads(r, s)

IInv ==
    /\ TypeOK
    /\ \A r \in Ranks : RankInv(r)
    /\ \A r, s \in Ranks : PairInv(r, s)

-----------------------------------------------------------------------------
(* Lemmas. *)

\* The scale of the next iteration keeps its bounds: at the ceiling the
\* group has found an overflow, so the scale never grows past it.
LEMMA NextInBounds ==
  ASSUME TypeOK, NEW r \in Ranks, CeilingHolds(r), unscaled[r]
  PROVE  /\ NextLevel(r) \in MinLevel .. Ceiling
         /\ NextGood(r) \in 0 .. GrowthInterval - 1
  <1>1. /\ level[r] \in MinLevel .. Ceiling
        /\ good[r] \in 0 .. GrowthInterval - 1
        /\ foundInf[r] \in BOOLEAN
    BY DEF TypeOK
  <1>2. MinLevel \in Int /\ Ceiling \in Int /\ GrowthInterval \in Nat \ {0}
    BY ScalerAssumption
  <1>3. BackedOff(level[r]) \in MinLevel .. Ceiling
    BY <1>1, <1>2 DEF BackedOff
  <1>4. ~foundInf[r] => level[r] + 1 \in MinLevel .. Ceiling
    BY <1>1, <1>2 DEF CeilingHolds, MustOverflow
  <1> QED
    BY <1>1, <1>2, <1>3, <1>4 DEF NextLevel, NextGood, Overflowed

\* RankInv and PairInv speak of the ranks they are given, and only of some
\* of their variables.
LEMMA RankFrame ==
  ASSUME NEW r \in Ranks, RankInv(r),
         pc'[r] = pc[r], level'[r] = level[r], foundInf'[r] = foundInf[r],
         unscaled'[r] = unscaled[r], bad'[r] = bad[r], outcome'[r] = outcome[r]
  PROVE  RankInv(r)'
  BY DEF RankInv, FlagsFollow, OutcomeFollows, CeilingHolds, Decide, MustOverflow

LEMMA PairFrame ==
  ASSUME NEW r \in Ranks, NEW s \in Ranks, PairInv(r, s),
         iter'[r] = iter[r], iter'[s] = iter[s],
         level'[r] = level[r], level'[s] = level[s],
         good'[r] = good[r], good'[s] = good[s],
         foundInf'[r] = foundInf[r], foundInf'[s] = foundInf[s],
         unscaled'[r] = unscaled[r], unscaled'[s] = unscaled[s],
         \A o \in Opts : outcome'[r][o] \in {outcome[r][o], "none"},
         \A o \in Opts : outcome'[s][o] \in {outcome[s][o], "none"}
  PROVE  PairInv(r, s)'
  <1>1. Together(r, s) => Together(r, s)'
    BY DEF Together
  <1>2. NextLevel(s)' = NextLevel(s) /\ NextGood(s)' = NextGood(s)
    BY DEF NextLevel, NextGood, Overflowed, BackedOff
  <1>3. Leads(r, s) => Leads(r, s)'
    <2> SUFFICES ASSUME Leads(r, s) PROVE Leads(r, s)'
      OBVIOUS
    <2>1. Decide(s)' = Decide(s)
      BY DEF Decide
    <2>2. \A o \in Opts : outcome'[r][o] \in {"none", Decide(s)'}
      BY <2>1 DEF Leads
    <2> QED
      BY <1>2, <2>2 DEF Leads
  <1> QED
    BY <1>1, <1>3 DEF PairInv

\* A decision follows from the agreed flag alone.
LEMMA DecideType ==
  \A r \in Ranks : Decide(r) \in {"applied", "skipped"}
  BY DEF Decide

-----------------------------------------------------------------------------
(* Each operation preserves the invariant. *)

LEMMA InitInv == Init => IInv
  <1> SUFFICES ASSUME Init PROVE IInv
    OBVIOUS
  <1>1. (CHOOSE o \in Opts : TRUE) \in Opts
    BY ScalerAssumption
  <1>2. TypeOK
    BY <1>1, ScalerAssumption DEF Init, TypeOK, Everywhere
  <1>3. \A r \in Ranks : RankInv(r)
    BY DEF Init, Everywhere, RankInv, FlagsFollow, OutcomeFollows, CeilingHolds
  <1>4. \A r, s \in Ranks : PairInv(r, s)
    BY DEF Init, Everywhere, PairInv, Together
  <1> QED
    BY <1>2, <1>3, <1>4 DEF IInv

LEMMA BackwardInv ==
  ASSUME IInv, NEW r \in Ranks, ScaledBackward(r)
  PROVE  IInv'
  <1>1. TypeOK /\ pc[r] = "backward"
    BY DEF IInv, ScaledBackward
  <1>2. PICK b \in [Opts -> BOOLEAN] :
          /\ MustOverflow(level[r]) => \A o \in Opts : b[o]
          /\ bad' = [bad EXCEPT ![r] = b]
          /\ badBatches' = badBatches \/ (badBatches > 0 /\ badBatches' = badBatches - 1)
    BY DEF ScaledBackward
  <1>3. /\ power' = [power EXCEPT ![r] = [o \in Opts |-> level[r]]]
        /\ outcome' = [outcome EXCEPT ![r] = [o \in Opts |-> "none"]]
        /\ pc' = [pc EXCEPT ![r] = "ready"]
        /\ UNCHANGED <<iter, level, good, foundInf, unscaled, calling, stepping,
                       checkpoint, restarts>>
    BY DEF ScaledBackward, scaler, call, job
  <1>4. TypeOK'
    <2>1. level[r] \in Int
      BY <1>1, ScalerAssumption DEF TypeOK
    <2>2. power' \in [Ranks -> [Opts -> Int]]
      BY <1>1, <1>3, <2>1 DEF TypeOK
    <2>3. badBatches' \in 0 .. MaxBadBatches
      BY <1>1, <1>2, ScalerAssumption DEF TypeOK
    <2>4. bad' \in [Ranks -> [Opts -> BOOLEAN]]
      BY <1>1, <1>2 DEF TypeOK
    <2>5. outcome' \in [Ranks -> [Opts -> {"none", "applied", "skipped"}]]
      BY <1>1, <1>3 DEF TypeOK
    <2>6. pc' \in [Ranks -> {"backward", "ready", "reduce", "unscaled"}]
      BY <1>1, <1>3 DEF TypeOK
    <2> QED
      BY <1>1, <1>3, <2>2, <2>3, <2>4, <2>5, <2>6 DEF TypeOK
  <1>5. /\ pc'[r] = "ready" /\ bad'[r] = b
        /\ \A o \in Opts : outcome'[r][o] = "none"
        /\ \A s \in Ranks \ {r} : /\ pc'[s] = pc[s] /\ bad'[s] = bad[s]
                                  /\ outcome'[s] = outcome[s]
    BY <1>1, <1>2, <1>3 DEF TypeOK
  <1>6. ASSUME NEW s \in Ranks PROVE RankInv(s)'
    <2>1. RankInv(s)
      BY DEF IInv
    <2>2. CASE s # r
      BY <1>3, <1>5, <2>1, <2>2, RankFrame
    <2>3. CASE s = r
      BY <1>1, <1>2, <1>3, <1>5, <2>1, <2>3
      DEF RankInv, FlagsFollow, OutcomeFollows, CeilingHolds, MustOverflow
    <2> QED
      BY <2>2, <2>3
  <1>7. ASSUME NEW s \in Ranks, NEW t \in Ranks PROVE PairInv(s, t)'
    <2>1. PairInv(s, t)
      BY DEF IInv
    <2>2. \A q \in Ranks, o \in Opts : outcome'[q][o] \in {outcome[q][o], "none"}
      BY <1>5
    <2> QED
      BY <1>3, <2>1, <2>2, PairFrame
  <1> QED
    BY <1>4, <1>6, <1>7 DEF IInv

LEMMA CallUnscaleInv ==
  ASSUME IInv, NEW r \in Ranks, NEW o \in Opts, CallUnscale(r, o)
  PROVE  IInv'
  <1>1. /\ TypeOK /\ pc[r] = "ready"
        /\ UNCHANGED <<iter, level, good, foundInf, unscaled, bad, badBatches,
                       outcome, checkpoint, restarts>>
    BY DEF IInv, CallUnscale, Unstepped, scaler, job
  <1>2. /\ calling' \in [Ranks -> Opts]
        /\ stepping' \in [Ranks -> BOOLEAN]
    BY <1>1 DEF CallUnscale, TypeOK
  <1>3. /\ pc' = [pc EXCEPT ![r] = IF unscaled[r] THEN "unscaled" ELSE "reduce"]
        /\ power' \in [Ranks -> [Opts -> Int]]
    <2>1. power[r][o] - level[r] \in Int
      BY <1>1, ScalerAssumption DEF TypeOK
    <2>2. power \in [Ranks -> [Opts -> Int]]
      BY <1>1 DEF TypeOK
    <2>3. CASE unscaled[r]
      BY <2>2, <2>3 DEF CallUnscale, EnterUnscale
    <2>4. CASE ~unscaled[r]
      <3>1. /\ pc' = [pc EXCEPT ![r] = "reduce"]
            /\ power' = [power EXCEPT ![r][o] = power[r][o] - level[r]]
        BY <2>4 DEF CallUnscale, EnterUnscale
      <3> QED
        BY <2>1, <2>2, <2>4, <3>1
    <2> QED
      BY <2>3, <2>4
  <1>4. TypeOK'
    BY <1>1, <1>2, <1>3 DEF TypeOK
  <1>5. ASSUME NEW s \in Ranks PROVE RankInv(s)'
    <2>1. RankInv(s) /\ pc \in [Ranks -> {"backward", "ready", "reduce", "unscaled"}]
      BY <1>1 DEF IInv, TypeOK
    <2>2. CASE s # r
      BY <1>1, <1>3, <2>1, <2>2, RankFrame
    <2>3. CASE s = r
      BY <1>1, <1>3, <2>1, <2>3
      DEF RankInv, FlagsFollow, OutcomeFollows, CeilingHolds, Decide, MustOverflow
    <2> QED
      BY <2>2, <2>3
  <1>6. ASSUME NEW s \in Ranks, NEW t \in Ranks PROVE PairInv(s, t)'
    <2>1. PairInv(s, t)
      BY DEF IInv
    <2> QED
      BY <1>1, <2>1, PairFrame
  <1> QED
    BY <1>4, <1>5, <1>6 DEF IInv

\* The all-reduce gathers ranks of one iteration and gives all of them the
\* same flag; if one is at the ceiling all are, and the flag is set.
LEMMA AllReduceInv ==
  ASSUME IInv, AllReduce
  PROVE  IInv'
  <1>1. /\ TypeOK
        /\ \A r \in Ranks : pc[r] = "reduce" /\ ~unscaled[r]
        /\ \A r, s \in Ranks : iter[r] = iter[s] /\ level[r] = level[s] /\ good[r] = good[s]
    <2>1. TypeOK /\ \A r \in Ranks : pc[r] = "reduce"
      BY DEF IInv, AllReduce
    <2>2. \A r \in Ranks : RankInv(r) /\ unscaled[r] \in BOOLEAN
      BY <2>1 DEF IInv, TypeOK
    <2>3. \A r \in Ranks : ~unscaled[r] /\ unscaled[r] = FALSE
      BY <2>1, <2>2 DEF RankInv, FlagsFollow
    <2>4. \A r, s \in Ranks : PairInv(r, s)
      BY DEF IInv
    <2>5. \A r, s \in Ranks : unscaled[r] = unscaled[s]
      BY <2>3
    <2>6. \A r, s \in Ranks : iter[r] = iter[s] /\ Together(r, s)
      BY <2>4, <2>5 DEF PairInv
    <2> QED
      BY <2>1, <2>3, <2>6 DEF Together
  <1>2. /\ foundInf' \in [Ranks -> BOOLEAN]
        /\ \A r, s \in Ranks : foundInf'[r] = foundInf'[s]
        /\ \A r \in Ranks : foundInf'[r] = Reduced(r)
    BY DEF AllReduce, Reduced, LocalFlag
  <1>3. /\ pc' = [r \in Ranks |-> "unscaled"]
        /\ unscaled' = [r \in Ranks |-> TRUE]
        /\ UNCHANGED <<iter, level, good, power, bad, badBatches, calling, stepping,
                       outcome, checkpoint, restarts>>
    BY DEF AllReduce, gradients, call, job
  <1>4. TypeOK'
    BY <1>1, <1>2, <1>3 DEF TypeOK
  <1>5. ASSUME NEW r \in Ranks PROVE RankInv(r)'
    <2>1. /\ \A o \in Opts : outcome[r][o] = "none"
          /\ MustOverflow(level[r]) => bad[r][calling[r]]
      BY <1>1 DEF IInv, RankInv, OutcomeFollows, CeilingHolds, TypeOK
    <2>2. MustOverflow(level[r]) => foundInf'[r] /\ \A o \in Opts : bad[r][o]
      BY <1>1, <1>2, <2>1 DEF Reduced, LocalFlag, IInv, RankInv, CeilingHolds
    <2> QED
      BY <1>2, <1>3, <2>1, <2>2
      DEF RankInv, FlagsFollow, OutcomeFollows, CeilingHolds, MustOverflow
  <1>6. ASSUME NEW r \in Ranks, NEW s \in Ranks PROVE PairInv(r, s)'
    <2>1. \A o \in Opts : outcome[r][o] = "none"
      BY <1>1 DEF IInv, RankInv, OutcomeFollows
    <2> QED
      BY <1>1, <1>2, <1>3, <2>1 DEF PairInv, Together
  <1> QED
    BY <1>4, <1>5, <1>6 DEF IInv

\* step() decides by the flag the group agreed on.
LEMMA LeaveUnscaleInv ==
  ASSUME IInv, NEW r \in Ranks, LeaveUnscale(r)
  PROVE  IInv'
  <1>1. /\ TypeOK /\ pc[r] = "unscaled" /\ unscaled[r] /\ calling[r] \in Opts
        /\ UNCHANGED <<iter, level, good, foundInf, unscaled, power, bad, badBatches,
                       calling, stepping, checkpoint, restarts>>
    BY DEF IInv, RankInv, FlagsFollow, TypeOK, LeaveUnscale, scaler, gradients, call, job
  <1>2. /\ pc' = [pc EXCEPT ![r] = "ready"]
        /\ pc' \in [Ranks -> {"backward", "ready", "reduce", "unscaled"}]
    BY <1>1 DEF LeaveUnscale, TypeOK
  <1>3. /\ outcome' \in [Ranks -> [Opts -> {"none", "applied", "skipped"}]]
        /\ \A s \in Ranks \ {r} : outcome'[s] = outcome[s]
        /\ \A o \in Opts : outcome'[r][o] \in {outcome[r][o], Decide(r)}
    <2>1. Decide(r) \in {"applied", "skipped"}
      BY DecideType
    <2>2. outcome \in [Ranks -> [Opts -> {"none", "applied", "skipped"}]]
      BY <1>1 DEF TypeOK
    <2>3. \/ outcome' = outcome
          \/ outcome' = [outcome EXCEPT ![r][calling[r]] = Decide(r)]
      BY DEF LeaveUnscale
    <2> QED
      BY <1>1, <2>1, <2>2, <2>3
  <1>4. TypeOK'
    BY <1>1, <1>2, <1>3 DEF TypeOK
  <1>5. \A s \in Ranks : Decide(s)' = Decide(s)
    BY <1>1 DEF Decide
  <1>6. \A o \in Opts : outcome'[r][o] \in {"none", Decide(r)}
    BY <1>1, <1>3 DEF IInv, RankInv, OutcomeFollows
  <1>7. ASSUME NEW s \in Ranks PROVE RankInv(s)'
    <2>1. RankInv(s) /\ pc \in [Ranks -> {"backward", "ready", "reduce", "unscaled"}]
      BY <1>1 DEF IInv, TypeOK
    <2>2. CASE s # r
      BY <1>1, <1>2, <1>3, <2>1, <2>2, RankFrame
    <2>3. CASE s = r
      BY <1>1, <1>2, <1>5, <1>6, <2>1, <2>3
      DEF RankInv, FlagsFollow, OutcomeFollows, CeilingHolds, MustOverflow
    <2> QED
      BY <2>2, <2>3
  <1>8. ASSUME NEW s \in Ranks, NEW t \in Ranks PROVE PairInv(s, t)'
    <2>1. PairInv(s, t) /\ OutcomeFollows(s) /\ OutcomeFollows(t)
      BY DEF IInv, RankInv
    <2>2. /\ NextLevel(t)' = NextLevel(t) /\ NextGood(t)' = NextGood(t)
      BY <1>1 DEF NextLevel, NextGood, Overflowed, BackedOff
    <2>3. unscaled[s] = unscaled[t] => Together(s, t)'
      <3> SUFFICES ASSUME unscaled[s] = unscaled[t] PROVE Together(s, t)'
        OBVIOUS
      <3>1. Together(s, t)
        BY <2>1 DEF PairInv
      <3>2. CASE unscaled[s]
        <4>1. Decide(s) = Decide(t)
          BY <3>1 DEF Together, Decide
        <4>2. \A o \in Opts : /\ outcome'[s][o] \in {"none", Decide(s)}
                              /\ outcome'[t][o] \in {"none", Decide(t)}
          BY <1>3, <1>6, <2>1, <3>2 DEF OutcomeFollows
        <4> QED
          BY <1>1, <3>1, <4>1, <4>2 DEF Together
      <3>3. CASE ~unscaled[s]
        <4>1. s # r /\ t # r
          BY <1>1, <3>3
        <4> QED
          BY <1>1, <1>3, <3>1, <4>1 DEF Together
      <3> QED
        BY <3>2, <3>3
    <2>4. ~unscaled[s] /\ unscaled[t] => Leads(s, t)'
      <3> SUFFICES ASSUME ~unscaled[s], unscaled[t] PROVE Leads(s, t)'
        OBVIOUS
      <3>1. Leads(s, t) /\ s # r
        BY <1>1, <2>1 DEF PairInv
      <3>2. \A o \in Opts : outcome'[s][o] \in {"none", Decide(t)'}
        BY <1>3, <1>5, <3>1 DEF Leads
      <3> QED
        BY <1>1, <2>2, <3>1, <3>2 DEF Leads
    <2> QED
      BY <1>1, <2>1, <2>3, <2>4 DEF PairInv
  <1> QED
    BY <1>4, <1>7, <1>8 DEF IInv

\* update() takes a rank to the next iteration: it joins the ranks that lead
\* it and leads those it was together with.
LEMMA UpdateInv ==
  ASSUME IInv, NEW r \in Ranks, Update(r)
  PROVE  IInv'
  <1>1. /\ TypeOK /\ pc[r] = "ready" /\ RankInv(r)
        /\ \A o \in Opts : outcome[r][o] # "none"
        /\ UNCHANGED <<power, bad, badBatches, calling, stepping, outcome,
                       checkpoint, restarts>>
    BY DEF IInv, Update, gradients, call, job
  <1>2. unscaled[r] /\ \A o \in Opts : outcome[r][o] = Decide(r)
    BY <1>1, ScalerAssumption DEF RankInv, OutcomeFollows, TypeOK
  <1>3. /\ level \in [Ranks -> MinLevel .. Ceiling]
        /\ good \in [Ranks -> 0 .. GrowthInterval - 1]
        /\ iter \in [Ranks -> {0, 1}]
        /\ foundInf \in [Ranks -> BOOLEAN] /\ unscaled \in [Ranks -> BOOLEAN]
        /\ pc \in [Ranks -> {"backward", "ready", "reduce", "unscaled"}]
    BY <1>1 DEF TypeOK
  <1>4. /\ level' = [level EXCEPT ![r] = NextLevel(r)]
        /\ good' = [good EXCEPT ![r] = NextGood(r)]
    BY <1>3 DEF Update, NextLevel, NextGood
  <1>5. /\ foundInf' = [foundInf EXCEPT ![r] = FALSE]
        /\ unscaled' = [unscaled EXCEPT ![r] = FALSE]
        /\ iter' = [iter EXCEPT ![r] = 1 - iter[r]]
        /\ pc' = [pc EXCEPT ![r] = "backward"]
    BY DEF Update
  <1>6. /\ NextLevel(r) \in MinLevel .. Ceiling
        /\ NextGood(r) \in 0 .. GrowthInterval - 1
    BY <1>1, <1>2, NextInBounds DEF RankInv
  <1>7. TypeOK'
    <2>1. 1 - iter[r] \in {0, 1}
      BY <1>3
    <2> QED
      BY <1>1, <1>3, <1>4, <1>5, <1>6, <2>1 DEF TypeOK
  <1>8. /\ level'[r] = NextLevel(r) /\ good'[r] = NextGood(r)
        /\ foundInf'[r] = FALSE /\ unscaled'[r] = FALSE
        /\ iter'[r] = 1 - iter[r] /\ pc'[r] = "backward"
        /\ \A s \in Ranks \ {r} :
              /\ level'[s] = level[s] /\ good'[s] = good[s] /\ iter'[s] = iter[s]
              /\ foundInf'[s] = foundInf[s] /\ unscaled'[s] = unscaled[s]
              /\ pc'[s] = pc[s]
    BY <1>3, <1>4, <1>5
  <1>9. ASSUME NEW s \in Ranks PROVE RankInv(s)'
    <2>1. CASE s # r
      BY <1>1, <1>8, <2>1, RankFrame DEF IInv
    <2>2. CASE s = r
      BY <1>8, <2>2 DEF RankInv, FlagsFollow, OutcomeFollows, CeilingHolds
    <2> QED
      BY <2>1, <2>2
  <1>10. ASSUME NEW s \in Ranks \ {r} PROVE PairInv(r, s)' /\ PairInv(s, r)'
    <2>1. PairInv(r, s) /\ PairInv(s, r) /\ RankInv(s)
      BY DEF IInv
    <2>2. 1 - iter[r] = iter[s] <=> iter[r] # iter[s]
      BY <1>3
    <2>3. CASE unscaled[s]
      <3>1. /\ iter[r] = iter[s] /\ level[r] = level[s]
            /\ good[r] = good[s] /\ foundInf[r] = foundInf[s]
        BY <1>2, <2>1, <2>3 DEF PairInv, Together
      <3>2. NextLevel(r) = NextLevel(s)' /\ NextGood(r) = NextGood(s)'
        BY <1>8, <3>1 DEF NextLevel, NextGood, Overflowed, BackedOff
      <3>3. Decide(r) = Decide(s)'
        BY <1>8, <3>1 DEF Decide
      <3>4. Leads(r, s)'
        BY <1>1, <1>2, <1>8, <3>2, <3>3 DEF Leads
      <3> QED
        BY <1>8, <2>2, <2>3, <3>1, <3>4 DEF PairInv
    <2>4. CASE ~unscaled[s]
      <3>1. iter[r] # iter[s] /\ Leads(s, r) /\ ~foundInf[s]
        BY <1>2, <2>1, <2>4 DEF PairInv, RankInv, FlagsFollow
      <3>2. foundInf[s] = FALSE /\ unscaled[s] = FALSE
        BY <1>3, <2>4, <3>1
      <3>3. \A o \in Opts : outcome[s][o] \in {"none", Decide(r)}
        BY <3>1 DEF Leads
      <3>4. Together(r, s)' /\ Together(s, r)'
        <4>1. /\ level'[r] = level'[s] /\ good'[r] = good'[s]
              /\ foundInf'[r] = foundInf'[s]
          BY <1>8, <3>1, <3>2 DEF Leads
        <4>2. \A o \in Opts : outcome'[r][o] = Decide(r)
                            /\ outcome'[s][o] \in {"none", Decide(r)}
          BY <1>1, <1>2, <3>3
        <4> QED
          BY <4>1, <4>2 DEF Together
      <3> QED
        BY <1>8, <2>2, <3>1, <3>2, <3>4 DEF PairInv
    <2> QED
      BY <2>3, <2>4
  <1>11. PairInv(r, r)'
    BY DEF PairInv, Together
  <1>12. ASSUME NEW s \in Ranks \ {r}, NEW t \in Ranks \ {r} PROVE PairInv(s, t)'
    BY <1>1, <1>8, PairFrame DEF IInv
  <1> QED
    BY <1>7, <1>9, <1>10, <1>11, <1>12 DEF IInv

LEMMA SaveCheckpointInv ==
  ASSUME IInv, NEW r \in Ranks, SaveCheckpoint(r)
  PROVE  IInv'
  <1>1. /\ checkpoint'.scale = level[r] /\ checkpoint'.goodSteps = good[r]
        /\ UNCHANGED <<pc, iter, level, good, foundInf, unscaled, power, bad, badBatches,
                       calling, stepping, outcome, restarts>>
    BY DEF SaveCheckpoint, scaler, gradients, call
  <1>2. TypeOK'
    BY <1>1 DEF IInv, TypeOK
  <1>3. ASSUME NEW s \in Ranks PROVE RankInv(s)'
    BY <1>1, RankFrame DEF IInv
  <1>4. ASSUME NEW s \in Ranks, NEW t \in Ranks PROVE PairInv(s, t)'
    BY <1>1, PairFrame DEF IInv
  <1> QED
    BY <1>2, <1>3, <1>4 DEF IInv

\* All ranks load one checkpoint, so they agree whatever it holds.
LEMMA RestartInv ==
  ASSUME IInv, Restart
  PROVE  IInv'
  <1>1. TypeOK
    BY DEF IInv
  <1>2. (CHOOSE o \in Opts : TRUE) \in Opts
    BY ScalerAssumption
  <1>3. restarts' \in 0 .. MaxRestarts
    BY <1>1, ScalerAssumption DEF Restart, TypeOK
  <1>4. TypeOK'
    BY <1>1, <1>2, <1>3 DEF Restart, TypeOK, Everywhere
  <1>5. \A r \in Ranks : RankInv(r)'
    BY DEF Restart, Everywhere, RankInv, FlagsFollow, OutcomeFollows, CeilingHolds
  <1>6. \A r, s \in Ranks : PairInv(r, s)'
    BY DEF Restart, Everywhere, PairInv, Together
  <1> QED
    BY <1>4, <1>5, <1>6 DEF IInv

LEMMA NextInv == IInv /\ [Next]_vars => IInv'
  <1> SUFFICES ASSUME IInv, [Next]_vars PROVE IInv'
    OBVIOUS
  <1>1. CASE AllReduce
    BY <1>1, AllReduceInv
  <1>2. CASE Restart
    BY <1>2, RestartInv
  <1>3. ASSUME NEW r \in Ranks, RankStep(r) PROVE IInv'
    BY <1>3, BackwardInv, CallUnscaleInv, LeaveUnscaleInv, UpdateInv DEF RankStep
  <1>4. ASSUME NEW r \in Ranks, SaveCheckpoint(r) PROVE IInv'
    BY <1>4, SaveCheckpointInv
  <1>5. CASE UNCHANGED vars
    <2>1. UNCHANGED <<pc, iter, level, good, foundInf, unscaled, power, bad, badBatches,
                      calling, stepping, outcome, checkpoint, restarts>>
      BY <1>5 DEF vars, scaler, gradients, call, job
    <2>2. TypeOK'
      BY <2>1 DEF IInv, TypeOK
    <2>3. \A r \in Ranks : RankInv(r)'
      BY <2>1, RankFrame DEF IInv
    <2>4. \A r, s \in Ranks : PairInv(r, s)'
      BY <2>1, PairFrame DEF IInv
    <2> QED
      BY <2>2, <2>3, <2>4 DEF IInv
  <1> QED
    BY <1>1, <1>2, <1>3, <1>4, <1>5 DEF Next

LEMMA Invariance == Spec => []IInv
  BY InitInv, NextInv, PTL DEF Spec

-----------------------------------------------------------------------------
(* The results. *)

\* Every variable keeps its type, and the scale its bounds (TypeOK): the
\* backoff stops at min_scale, and a scale at which all gradients overflow is
\* never grown, whatever batches come and whenever the job restarts.
THEOREM ScalerTypes == Spec => []TypeOK
  <1>1. IInv => TypeOK
    BY DEF IInv
  <1> QED
    BY <1>1, Invariance, PTL

\* Ranks in the same iteration have the same scale and step count
\* (ScaleAgrees) for any number of ranks and optimizers, any overflows and
\* any restarts, though update() communicates neither.
THEOREM ScalesAgree == Spec => []ScaleAgrees
  <1>1. IInv => ScaleAgrees
    BY DEF IInv, PairInv, Together, ScaleAgrees
  <1> QED
    BY <1>1, Invariance, PTL

\* All ranks apply an optimizer's step in an iteration or all skip it
\* (StepsUnanimous), with any number of optimizers.
THEOREM UnanimousSteps == Spec => []StepsUnanimous
  <1>1. IInv => StepsUnanimous
    BY DEF IInv, PairInv, Together, StepsUnanimous
  <1> QED
    BY <1>1, Invariance, PTL

-----------------------------------------------------------------------------
(* One optimizer.                                                          *)
(*                                                                         *)
(* The scaler keeps one flag and one result for all optimizers, so what    *)
(* it says of gradients it says of the one optimizer unscale_ was called   *)
(* with first; with a second one the run grad_scaler_two_optimizers        *)
(* refutes AppliesRealGradients.                                           *)

OneOptimizer == \A o, p \in Opts : o = p

\* The optimizer's gradients carry the scale until unscale_ divides by it.
ScaledOnce(r) ==
    \A o \in Opts :
        /\ pc[r] = "ready" /\ ~unscaled[r] => power[r][o] = level[r]
        /\ pc[r] = "reduce" \/ unscaled[r] => power[r][o] = 0

\* If the group found no overflow, no rank that was part of it has one.
FoundAll(r, s) ==
    unscaled[r] /\ unscaled[s] /\ ~foundInf[r] => \A o \in Opts : ~bad[s][o]

GradInv ==
    /\ IInv
    /\ \A r \in Ranks : ScaledOnce(r)
    /\ \A r, s \in Ranks : FoundAll(r, s)

LEMMA InitGrad == Init => GradInv
  <1> SUFFICES ASSUME Init PROVE GradInv
    OBVIOUS
  <1>1. \A r \in Ranks : ScaledOnce(r)
    BY DEF Init, Everywhere, ScaledOnce
  <1>2. \A r, s \in Ranks : FoundAll(r, s)
    BY DEF Init, Everywhere, FoundAll
  <1> QED
    BY <1>1, <1>2, InitInv DEF GradInv

\* Every step preserves both parts, with one optimizer.
LEMMA NextGrad ==
  ASSUME OneOptimizer, GradInv, [Next]_vars
  PROVE  GradInv'
  <1>1. /\ TypeOK /\ IInv'
        /\ \A r \in Ranks : ScaledOnce(r) /\ FlagsFollow(r)
        /\ \A r, s \in Ranks : FoundAll(r, s)
    BY NextInv DEF GradInv, IInv, RankInv
  <1>2. /\ pc \in [Ranks -> {"backward", "ready", "reduce", "unscaled"}]
        /\ level \in [Ranks -> MinLevel .. Ceiling]
        /\ unscaled \in [Ranks -> BOOLEAN] /\ foundInf \in [Ranks -> BOOLEAN]
        /\ power \in [Ranks -> [Opts -> Int]]
        /\ bad \in [Ranks -> [Opts -> BOOLEAN]]
        /\ \A r \in Ranks : calling[r] \in Opts
    BY <1>1 DEF TypeOK
  <1>3. \A r \in Ranks : level[r] \in Int
    BY <1>2, ScalerAssumption
  <1>4. CASE AllReduce
    <2>1. /\ pc' = [r \in Ranks |-> "unscaled"]
          /\ unscaled' = [r \in Ranks |-> TRUE]
          /\ foundInf' = [r \in Ranks |-> Reduced(r)]
          /\ UNCHANGED <<level, power, bad>>
          /\ \A r \in Ranks : pc[r] = "reduce"
      BY <1>4 DEF AllReduce, gradients
    <2>2. \A r \in Ranks : ScaledOnce(r)'
      BY <1>1, <2>1 DEF ScaledOnce
    <2>3. \A r, s \in Ranks : FoundAll(r, s)'
      <3>1. \A s \in Ranks, o \in Opts : bad[s][o] = LocalFlag(s)
        BY <1>2 DEF OneOptimizer, LocalFlag
      <3> QED
        BY <2>1, <3>1 DEF FoundAll, Reduced
    <2> QED
      BY <1>1, <2>2, <2>3 DEF GradInv
  <1>5. CASE Restart
    <2>1. \A r \in Ranks : ScaledOnce(r)'
      BY <1>5 DEF Restart, Everywhere, ScaledOnce
    <2>2. \A r, s \in Ranks : FoundAll(r, s)'
      BY <1>5 DEF Restart, Everywhere, FoundAll
    <2> QED
      BY <1>1, <2>1, <2>2 DEF GradInv
  <1>6. ASSUME NEW r \in Ranks, ScaledBackward(r) PROVE GradInv'
    <2>1. /\ pc[r] = "backward" /\ ~unscaled[r]
          /\ UNCHANGED <<level, foundInf, unscaled>>
          /\ \A s \in Ranks \ {r} : bad'[s] = bad[s]
      BY <1>1, <1>2, <1>6 DEF ScaledBackward, FlagsFollow, scaler
    <2>2. /\ power' = [power EXCEPT ![r] = [o \in Opts |-> level[r]]]
          /\ pc' = [pc EXCEPT ![r] = "ready"]
      BY <1>6 DEF ScaledBackward
    <2>3. \A s \in Ranks : ScaledOnce(s)'
      BY <1>1, <1>2, <2>1, <2>2 DEF ScaledOnce
    <2>4. \A s, t \in Ranks : FoundAll(s, t)'
      BY <1>1, <2>1 DEF FoundAll
    <2> QED
      BY <1>1, <2>3, <2>4 DEF GradInv
  <1>7. ASSUME NEW r \in Ranks, NEW o \in Opts, CallUnscale(r, o) PROVE GradInv'
    <2>1. pc[r] = "ready" /\ UNCHANGED <<level, foundInf, unscaled, bad>>
      BY <1>7 DEF CallUnscale, Unstepped, scaler
    <2>2. \A s \in Ranks : ScaledOnce(s)'
      <3>1. CASE unscaled[r]
        <4>1. pc' = [pc EXCEPT ![r] = "unscaled"] /\ UNCHANGED power
          BY <1>7, <3>1 DEF CallUnscale, EnterUnscale
        <4> QED
          BY <1>1, <1>2, <2>1, <3>1, <4>1 DEF ScaledOnce
      <3>2. CASE ~unscaled[r]
        <4>1. /\ pc' = [pc EXCEPT ![r] = "reduce"]
              /\ power' = [power EXCEPT ![r][o] = power[r][o] - level[r]]
          BY <1>7, <3>2 DEF CallUnscale, EnterUnscale
        <4>2. power[r][o] = level[r] /\ power'[r][o] = 0
          BY <1>1, <1>2, <1>3, <2>1, <3>2, <4>1 DEF ScaledOnce
        <4>3. \A p \in Opts : p = o
          BY DEF OneOptimizer
        <4>4. ScaledOnce(r)'
          BY <1>2, <2>1, <3>2, <4>1, <4>2, <4>3 DEF ScaledOnce
        <4>5. ASSUME NEW s \in Ranks \ {r} PROVE ScaledOnce(s)'
          BY <1>1, <1>2, <2>1, <4>1 DEF ScaledOnce
        <4> QED
          BY <4>4, <4>5
      <3> QED
        BY <3>1, <3>2
    <2>3. \A s, t \in Ranks : FoundAll(s, t)'
      BY <1>1, <2>1 DEF FoundAll
    <2> QED
      BY <1>1, <2>2, <2>3 DEF GradInv
  <1>8. ASSUME NEW r \in Ranks, LeaveUnscale(r) PROVE GradInv'
    <2>1. /\ pc[r] = "unscaled" /\ unscaled[r] /\ pc' = [pc EXCEPT ![r] = "ready"]
          /\ UNCHANGED <<level, foundInf, unscaled, bad, power>>
      BY <1>1, <1>8 DEF LeaveUnscale, FlagsFollow, scaler, gradients
    <2>2. \A s \in Ranks : ScaledOnce(s)'
      BY <1>1, <1>2, <2>1 DEF ScaledOnce
    <2>3. \A s, t \in Ranks : FoundAll(s, t)'
      BY <1>1, <2>1 DEF FoundAll
    <2> QED
      BY <1>1, <2>2, <2>3 DEF GradInv
  <1>9. ASSUME NEW r \in Ranks, Update(r) PROVE GradInv'
    <2>1. /\ pc' = [pc EXCEPT ![r] = "backward"]
          /\ unscaled' = [unscaled EXCEPT ![r] = FALSE]
          /\ foundInf' = [foundInf EXCEPT ![r] = FALSE]
          /\ UNCHANGED <<bad, power>>
          /\ \A s \in Ranks \ {r} : level'[s] = level[s]
      BY <1>2, <1>9 DEF Update, gradients
    <2>2. \A s \in Ranks : ScaledOnce(s)'
      BY <1>1, <1>2, <2>1 DEF ScaledOnce
    <2>3. \A s, t \in Ranks : FoundAll(s, t)'
      BY <1>1, <1>2, <2>1 DEF FoundAll
    <2> QED
      BY <1>1, <2>2, <2>3 DEF GradInv
  <1>10. ASSUME UNCHANGED <<pc, scaler, gradients>> PROVE GradInv'
    <2>1. UNCHANGED <<pc, level, foundInf, unscaled, power, bad>>
      BY <1>10 DEF scaler, gradients
    <2>2. \A s \in Ranks : ScaledOnce(s)'
      BY <1>1, <2>1 DEF ScaledOnce
    <2>3. \A s, t \in Ranks : FoundAll(s, t)'
      BY <1>1, <2>1 DEF FoundAll
    <2> QED
      BY <1>1, <2>2, <2>3 DEF GradInv
  <1>11. ASSUME NEW r \in Ranks, SaveCheckpoint(r) PROVE GradInv'
    BY <1>10, <1>11 DEF SaveCheckpoint
  <1>12. CASE UNCHANGED vars
    BY <1>10, <1>12 DEF vars
  <1> QED
    BY <1>4, <1>5, <1>6, <1>7, <1>8, <1>9, <1>11, <1>12 DEF Next, RankStep

LEMMA GradInvariance == OneOptimizer => (Spec => []GradInv)
  <1> SUFFICES ASSUME OneOptimizer PROVE Spec => []GradInv
    OBVIOUS
  <1>1. GradInv /\ [Next]_vars => GradInv'
    BY NextGrad
  <1> QED
    BY <1>1, InitGrad, PTL DEF Spec

\* Only step() applies an optimizer, once unscale_ has returned and the
\* agreed flag allows it.
LEMMA OnlyStepApplies ==
  ASSUME IInv, [Next]_vars, NEW r \in Ranks, NEW o \in Opts,
         outcome[r][o] # "applied", outcome'[r][o] = "applied"
  PROVE  LeaveUnscale(r) /\ unscaled[r] /\ ~foundInf[r] /\ o = calling[r]
  <1>1. TypeOK /\ FlagsFollow(r)
    BY DEF IInv, RankInv
  <1>2. outcome \in [Ranks -> [Opts -> {"none", "applied", "skipped"}]]
    BY <1>1 DEF TypeOK
  <1>3. ASSUME NEW s \in Ranks, ScaledBackward(s) PROVE FALSE
    BY <1>2, <1>3 DEF ScaledBackward
  <1>4. ~Restart
    BY DEF Restart, Everywhere
  <1>5. ASSUME NEW s \in Ranks, LeaveUnscale(s) PROVE s = r /\ o = calling[r] /\ ~foundInf[r]
    BY <1>2, <1>5 DEF LeaveUnscale, Decide
  <1>6. ASSUME outcome' = outcome PROVE FALSE
    BY <1>6
  <1>7. PICK s \in Ranks : LeaveUnscale(s)
    BY <1>3, <1>4, <1>6
    DEF Next, RankStep, AllReduce, CallUnscale, Update, SaveCheckpoint, vars
  <1> QED
    BY <1>1, <1>5, <1>7 DEF LeaveUnscale, FlagsFollow

\* A step is applied to gradients divided by the scale exactly once
\* (AppliesRealGradients), for one optimizer, however often and wherever the
\* caller calls unscale_.
THEOREM RealGradients == OneOptimizer => (Spec => AppliesRealGradients)
  <1> SUFFICES ASSUME OneOptimizer PROVE Spec => AppliesRealGradients
    OBVIOUS
  <1>1. ASSUME GradInv, [Next]_vars, NEW r \in Ranks, NEW o \in Opts
        PROVE  outcome[r][o] # "applied" /\ outcome'[r][o] = "applied" => power[r][o] = 0
    BY <1>1, OnlyStepApplies DEF GradInv, ScaledOnce
  <1>2. GradInv /\ [Next]_vars =>
           [\A r \in Ranks : \A o \in Opts :
               outcome[r][o] # "applied" /\ outcome'[r][o] = "applied" => power[r][o] = 0]_vars
    BY <1>1
  <1> QED
    BY <1>2, GradInvariance, PTL DEF Spec, AppliesRealGradients

\* A step is applied only if no rank's gradients of the iteration overflowed
\* (AppliesFiniteGradients), for one optimizer.
THEOREM FiniteGradients == OneOptimizer => (Spec => AppliesFiniteGradients)
  <1> SUFFICES ASSUME OneOptimizer PROVE Spec => AppliesFiniteGradients
    OBVIOUS
  <1>1. ASSUME GradInv, [Next]_vars, NEW r \in Ranks, NEW o \in Opts,
               outcome[r][o] # "applied", outcome'[r][o] = "applied",
               NEW s \in Ranks, iter[s] = iter[r]
        PROVE  ~bad[s][o]
    <2>1. unscaled[r] /\ ~foundInf[r]
      BY <1>1, OnlyStepApplies DEF GradInv
    <2>2. unscaled[s] = unscaled[r]
      BY <1>1 DEF GradInv, IInv, PairInv
    <2> QED
      BY <1>1, <2>1, <2>2 DEF GradInv, FoundAll
  <1>2. GradInv /\ [Next]_vars =>
           [\A r \in Ranks : \A o \in Opts :
               outcome[r][o] # "applied" /\ outcome'[r][o] = "applied"
               => \A s \in Ranks : iter[s] = iter[r] => ~bad[s][o]]_vars
    BY <1>1
  <1> QED
    BY <1>2, GradInvariance, PTL DEF Spec, AppliesFiniteGradients
=============================================================================
