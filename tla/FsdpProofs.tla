----------------------------- MODULE FsdpProofs -----------------------------
(***************************************************************************)
(* Proofs about Fsdp, for any number of ranks, blocks and parameters, both *)
(* reshard flags and any plan whose forwards and backwards alternate.      *)
(*                                                                         *)
(* A rank's place in its plan says everything about it: which units are    *)
(* gathered, how many gradients each of them awaits, what the gradients    *)
(* and the shards contain.  The operators below say so; their argument c   *)
(* is config, k a step and l a location of it.                             *)
(* The collectives keep the ranks together: none is past a collective      *)
(* another has not called (Lockstep), so that those in one are at the same *)
(* place.                                                                  *)
(***************************************************************************)
EXTENDS Fsdp, FiniteSetTheorems, TLAPS

Keeps(c, u) == ~(IF u = Root THEN c[3] ELSE c[2])
KeptUnits(c) == {u \in Units : Keeps(c, u)}

\* The units gathered between steps.
Kept(c, k) == IF Open(c[1], k) THEN KeptUnits(c) ELSE {}

\* The places of a step.
OnForward(h, n) ==
    /\ n \in 0 .. Root /\ (n \in {0, Root} => Root \in Units)
    /\ h \in {"gather", "arm", "use", "post"}
    /\ n = 0 => h # "post"
    /\ n = Root => h \in {"use", "post"}

OnBackward(c, kind, h, i) ==
    \/ h = "gather" /\ i = 0 /\ Root \in Units /\ c[3]
    \/ /\ i \in Params
       /\ \/ h = "gather" /\ ReachedFirst(i) /\ ~Keeps(c, Order[i])
          \/ h = "grad"
          \/ h = "reduce" /\ kind = "backward" /\ \A j \in ParamsOf(Order[i]) : j <= i
          \/ h = "free" /\ \A j \in ParamsOf(Order[i]) : j <= i

OnFinish(h, n) == n \in Units /\ h \in {"flush", "reduce", "free"} /\ Cardinality(Ranks) # 1
OnSummon(h, n) == n \in Units /\ h \in {"gather", "use", "restore"}

Located(c, k, l) ==
    \/ l = Return
    \/ /\ k \in DOMAIN c[1]
       /\ \/ c[1][k] \in {"forward", "eval"} /\ OnForward(l[1], l[2])
          \/ c[1][k] \in BackwardKinds /\ OnBackward(c, c[1][k], l[1], l[2])
          \/ c[1][k] = "finish" /\ OnFinish(l[1], l[2])
          \/ c[1][k] = "summon" /\ OnSummon(l[1], l[2])

\* The units gathered at a place of a forward, of a backward and of
\* summon_full_params.
InForward(kept, h, n) ==
    {u \in Units : \/ u < n /\ u \in kept
                   \/ u = n /\ h # "gather"
                   \/ u = Root /\ (n > 0 \/ h # "gather")}

InBackward(c, h, i) ==
    {u \in Units : /\ \E j \in ParamsOf(u) : j >= i
                   /\ \/ Keeps(c, u)
                      \/ u = Root /\ i > 0
                      \/ \E j \in ParamsOf(u) : j < i \/ (j = i /\ h # "gather")}

InSummon(kept, h, n) ==
    {u \in Units : \/ u \in kept
                   \/ h = "use"
                   \/ h = "gather" /\ u < n
                   \/ h = "restore" /\ u >= n}

Gathered(c, k, l) ==
    IF l = Return THEN Kept(c, k)
    ELSE IF c[1][k] = "forward" THEN InForward(KeptUnits(c), l[1], l[2])
    ELSE IF c[1][k] = "eval" THEN InForward({}, l[1], l[2])
    ELSE IF c[1][k] \in BackwardKinds THEN InBackward(c, l[1], l[2])
    ELSE IF c[1][k] = "summon" THEN InSummon(Kept(c, k), l[1], l[2])
    ELSE Kept(c, k)

\* The parameters of a unit whose gradients are still to come.
Remaining(h, i, u) == {j \in ParamsOf(u) : j > i \/ (j = i /\ h \in {"gather", "grad"})}

ArmedAt(h, n, u) ==
    \/ u < n
    \/ u = n /\ h \in {"use", "post"}
    \/ u = Root /\ (n > 0 \/ h = "use")

Awaited(c, k, l, u) ==
    IF l # Return /\ c[1][k] = "forward"
    THEN IF ArmedAt(l[1], l[2], u) THEN NumParams(u) ELSE 0
    ELSE IF l # Return /\ c[1][k] \in BackwardKinds THEN Cardinality(Remaining(l[1], l[2], u))
    ELSE IF Open(c[1], k) THEN NumParams(u) ELSE 0

\* What a rank's place says of its units.
UnitsInv(r) ==
    /\ Located(config, step[r], at[r])
    /\ \A u \in Units : /\ Unsharded(r, u) <=> u \in Gathered(config, step[r], at[r])
                        /\ pending[r][u] = Awaited(config, step[r], at[r], u)
    /\ at[r] # Return /\ plan[step[r]] = "summon" =>
            restore[r] = Units \ Kept(config, step[r])

\* The types, but for the bounds of pending.
Types ==
    /\ plan \in Plans /\ reshardBlocks \in BOOLEAN /\ reshardRoot \in BOOLEAN
    /\ step \in [Ranks -> 0 .. MaxSteps] /\ \A r \in Ranks : step[r] <= Len(plan)
    /\ at \in [Ranks -> Hooks \X Nat]
    /\ restore \in [Ranks -> SUBSET Units]
    /\ full \in [Ranks -> [Units -> SUBSET Nat]]
    /\ pending \in [Ranks -> [Units -> Int]]
    /\ grad \in [Ranks -> [Params -> [Steps -> Nat]]]
    /\ shardGrad \in [Ranks -> [Params -> [Ranks -> [Steps -> Nat]]]]
    /\ version \in [Ranks -> Nat]

LocalInv == Types /\ \A r \in Ranks : UnitsInv(r)

-----------------------------------------------------------------------------
(* Units and plans. *)

LEMMA UnitsShape ==
  /\ Root \in Nat \ {0} /\ Len(Order) \in Nat \ {0} /\ Params = 1 .. Len(Order)
  /\ \A i \in Params : Order[i] \in Units
  /\ Units \subseteq 1 .. Root /\ Blocks \subseteq Units /\ Root \notin Blocks
  /\ Units = 1 .. LastUnit /\ LastUnit \in 1 .. Root
  /\ \A u \in Units : u = Root \/ u \in Blocks
  <1>1. /\ Root \in Nat \ {0} /\ Len(Order) \in Nat \ {0} /\ Params = 1 .. Len(Order)
        /\ \A i \in Params : Order[i] \in 1 .. Root
    BY UnitsAssumption DEF Root, Params
  <1>2. \A i \in Params : Order[i] \in Units
    BY <1>1 DEF Units
  <1>3. /\ Units \subseteq 1 .. Root /\ Blocks \subseteq Units /\ Root \notin Blocks
        /\ \A u \in Units : u = Root \/ u \in Blocks
    BY UnitsAssumption DEF Units, Root, Blocks
  <1>4. Units = 1 .. LastUnit /\ LastUnit \in 1 .. Root
    <2>1. CASE Root \in Units
      <3>1. 1 .. Root = Blocks \cup {Root}
        BY <1>1, UnitsAssumption DEF Blocks, Root
      <3>2. Units = 1 .. Root
        BY <2>1, <3>1, <1>3
      <3>3. QED  BY <2>1, <3>2, <1>1 DEF LastUnit
    <2>2. CASE Root \notin Units
      <3>1. Units = Blocks
        BY <2>2, <1>3
      <3>2. NumBlocks # 0
        <4>1. 1 \in Params /\ Order[1] \in Units
          BY <1>1, <1>2
        <4>2. QED  BY <4>1, <3>1, UnitsAssumption DEF Blocks
      <3>3. QED  BY <2>2, <3>1, <3>2, UnitsAssumption DEF LastUnit, Blocks, Root
    <2>3. QED  BY <2>1, <2>2
  <1>5. QED  BY <1>1, <1>2, <1>3, <1>4

LEMMA UnitParams ==
  ASSUME NEW u \in Units
  PROVE  /\ ParamsOf(u) \subseteq Params /\ IsFiniteSet(ParamsOf(u)) /\ ParamsOf(u) # {}
         /\ NumParams(u) \in Nat \ {0}
  <1>1. ParamsOf(u) \subseteq Params /\ ParamsOf(u) # {}
    BY DEF ParamsOf, Units
  <1>2. IsFiniteSet(Params)
    BY UnitsShape, FS_Interval
  <1>3. IsFiniteSet(ParamsOf(u))
    BY <1>1, <1>2, FS_Subset
  <1>4. QED  BY <1>1, <1>3, FS_CardinalityType, FS_EmptySet DEF NumParams

\* How many gradients a unit still awaits, as the backward reaches one of
\* its parameters.
LEMMA RemainingCount ==
  ASSUME NEW u \in Units, NEW h, NEW i
  PROVE  /\ Remaining(h, i, u) \subseteq ParamsOf(u) /\ IsFiniteSet(Remaining(h, i, u))
         /\ Cardinality(Remaining(h, i, u)) \in 0 .. NumParams(u)
  <1>1. Remaining(h, i, u) \subseteq ParamsOf(u)
    BY DEF Remaining
  <1>2. IsFiniteSet(Remaining(h, i, u)) /\ Cardinality(Remaining(h, i, u)) <= NumParams(u)
    BY <1>1, UnitParams, FS_Subset DEF NumParams
  <1>3. Cardinality(Remaining(h, i, u)) \in Nat
    BY <1>2, FS_CardinalityType
  <1>4. QED  BY <1>1, <1>2, <1>3, UnitParams

LEMMA AwaitedBounds ==
  ASSUME NEW c, NEW k, NEW l, NEW u \in Units
  PROVE  Awaited(c, k, l, u) \in 0 .. NumParams(u)
  BY RemainingCount, UnitParams DEF Awaited

LEMMA OpenStep ==
  ASSUME NEW p \in Seq(StepKinds), NEW k \in Nat, k + 1 \in DOMAIN p
  PROVE  /\ ~Open(p, 0)
         /\ p[k + 1] = "forward" => Open(p, k + 1)
         /\ p[k + 1] \in BackwardKinds => ~Open(p, k + 1)
         /\ p[k + 1] \notin BackwardKinds \cup {"forward"} => (Open(p, k + 1) <=> Open(p, k))
  <1>1. ~Open(p, 0)
    BY DEF Open
  <1>2. p[k + 1] = "forward" => Open(p, k + 1)
    BY DEF Open
  <1>3. ASSUME p[k + 1] \in BackwardKinds PROVE ~Open(p, k + 1)
    BY <1>3 DEF Open, BackwardKinds
  <1>4. ASSUME p[k + 1] \notin BackwardKinds \cup {"forward"}
        PROVE  Open(p, k + 1) <=> Open(p, k)
    BY <1>4 DEF Open
  <1>5. QED  BY <1>1, <1>2, <1>3, <1>4

-----------------------------------------------------------------------------
(* The units at each place, one lemma per action. *)

\* Outside a backward a unit awaits its gradients if it is armed.
LEMMA SameAwaited ==
  ASSUME NEW c, NEW k, NEW h1, NEW h2, NEW n1, NEW n2, NEW u,
         <<h1, n1>> # Return, <<h2, n2>> # Return, c[1][k] \notin BackwardKinds,
         ArmedAt(h1, n1, u) <=> ArmedAt(h2, n2, u)
  PROVE  Awaited(c, k, <<h1, n1>>, u) = Awaited(c, k, <<h2, n2>>, u)
  <1>1. CASE c[1][k] = "forward"
    BY <1>1 DEF Awaited
  <1>2. CASE c[1][k] # "forward"
    BY <1>2 DEF Awaited
  <1>3. QED  BY <1>1, <1>2

\* Everything a step leaves alone.
LEMMA UnitsFrame ==
  ASSUME NEW r \in Ranks, UnitsInv(r), config' = config, step'[r] = step[r],
         at'[r] = at[r], restore'[r] = restore[r], full'[r] = full[r],
         pending'[r] = pending[r]
  PROVE  UnitsInv(r)'
  BY DEF UnitsInv, Unsharded, config

\* A rank between steps, about to begin one.
LEMMA Beginning ==
  ASSUME NEW r \in Ranks, Types, UnitsInv(r), Alternates(plan), NEW kind, NextIs(r, kind)
  PROVE  /\ plan \in Seq(StepKinds) /\ step[r] \in Nat /\ step[r] + 1 \in DOMAIN plan
         /\ plan[step[r] + 1] = kind /\ config[1] = plan
         /\ \A u \in Units : /\ Unsharded(r, u) <=> u \in Kept(config, step[r])
                             /\ pending[r][u] = IF Open(plan, step[r]) THEN NumParams(u) ELSE 0
  <1>1. plan \in Seq(StepKinds) /\ step[r] \in Nat /\ config[1] = plan
    BY PlansAssumption DEF Types, config
  <1>2. step[r] + 1 \in DOMAIN plan /\ plan[step[r] + 1] = kind
    BY <1>1 DEF NextIs
  <1>3. at[r] = Return
    BY DEF NextIs, Idle
  <1>4. \A u \in Units : /\ Unsharded(r, u) <=> u \in Kept(config, step[r])
                         /\ pending[r][u] = IF Open(plan, step[r]) THEN NumParams(u) ELSE 0
    BY <1>1, <1>3 DEF UnitsInv, Gathered, Awaited
  <1>5. QED  BY <1>1, <1>2, <1>4

LEMMA ForwardUnits ==
  ASSUME NEW r \in Ranks, Types, UnitsInv(r), Alternates(plan), Forward(r) \/ Evaluate(r)
  PROVE  UnitsInv(r)'
  <1> DEFINE k == step[r] + 1
             kind == plan[k]
             l == FirstModule
  <1>1. /\ NextIs(r, kind) /\ kind \in {"forward", "eval"}
        /\ config' = config /\ step'[r] = k /\ at'[r] = l
        /\ restore'[r] = restore[r] /\ full'[r] = full[r] /\ pending'[r] = pending[r]
        /\ plan' = plan
    BY DEF Types, Forward, Evaluate, Begin, NextIs, config
  <1>2. /\ plan \in Seq(StepKinds) /\ step[r] \in Nat /\ k \in DOMAIN plan /\ config[1] = plan
        /\ \A u \in Units : /\ Unsharded(r, u) <=> u \in Kept(config, step[r])
                            /\ pending[r][u] = IF Open(plan, step[r]) THEN NumParams(u) ELSE 0
    BY <1>1, Beginning
  <1>3. ~Open(plan, step[r])
    BY <1>1, <1>2 DEF Alternates
  <1>4. \A u \in Units : ~Unsharded(r, u) /\ pending[r][u] = 0
    BY <1>2, <1>3 DEF Kept
  <1>5. l = IF Root \in Units THEN <<"gather", 0>> ELSE <<"gather", 1>>
    BY UnitsShape DEF FirstModule, Module, Blocks
  <1>6. l # Return /\ Located(config, k, l)
    BY <1>1, <1>2, <1>5, UnitsShape DEF Located, OnForward, Return
  <1>7. \A u \in Units : u \notin Gathered(config, k, l) /\ Awaited(config, k, l, u) = 0
    <2>1. l[1] = "gather" /\ l[2] \in {0, 1} /\ (Root \in Units => l[2] = 0)
      BY <1>5
    <2>2. \A u \in Units : u \in Nat /\ ~(u < l[2]) /\ (u = Root => ~(l[2] > 0))
      BY <2>1, UnitsShape
    <2>3. \A kept, u : u \notin InForward(kept, l[1], l[2]) /\ (u \in Units => ~ArmedAt(l[1], l[2], u))
      BY <2>1, <2>2 DEF InForward, ArmedAt
    <2>4. kind = "eval" => ~Open(plan, k)
      BY <1>2, <1>3, OpenStep DEF BackwardKinds
    <2>5. QED  BY <1>1, <1>2, <1>6, <2>3, <2>4 DEF Gathered, Awaited, BackwardKinds
  <1>8. QED  BY <1>1, <1>4, <1>6, <1>7 DEF UnitsInv, Unsharded

LEMMA KeepsFlag ==
  /\ \A u : Keeps(config, u) <=> ~ReshardsAfterForward(u)
  /\ config[1] = plan /\ config[2] = reshardBlocks /\ config[3] = reshardRoot
  BY DEF Keeps, ReshardsAfterForward, config

\* Where a backward goes on after a parameter.
LEMMA Arriving ==
  ASSUME NEW k, k \in DOMAIN plan, plan[k] \in BackwardKinds, ~Open(plan, k),
         NEW i \in 1 .. Len(Order) + 1
  PROVE  /\ Located(config, k, Reached(i))
         /\ \A u \in Units :
                /\ u \in Gathered(config, k, Reached(i)) <=> u \in InBackward(config, "gather", i)
                /\ Awaited(config, k, Reached(i), u) = Cardinality(Remaining("gather", i, u))
  <1> DEFINE l == Reached(i)
  <1>0. plan[k] # "forward" /\ plan[k] # "eval" /\ config[1] = plan
    BY KeepsFlag DEF BackwardKinds
  <1>1. CASE i = Len(Order) + 1
    <2>1. l = Return
      BY <1>1, UnitsShape DEF Reached
    <2>2. \A u \in Units : \A j \in ParamsOf(u) : j \in Nat /\ j < i
      BY <1>1, UnitParams, UnitsShape
    <2>3. \A u \in Units : u \notin InBackward(config, "gather", i) /\ Remaining("gather", i, u) = {}
      BY <2>2 DEF InBackward, Remaining
    <2>4. QED  BY <1>0, <2>1, <2>3, FS_EmptySet DEF Located, Gathered, Kept, Awaited
  <1>2. CASE i \in Params /\ ReachedFirst(i) /\ ReshardsAfterForward(Order[i])
    <2>1. l = <<"gather", i>> /\ l # Return
      BY <1>2, UnitsShape DEF Reached, Return
    <2>2. QED  BY <1>0, <1>2, <2>1, KeepsFlag DEF Located, OnBackward, Gathered, Awaited
  <1>3. CASE i \in Params /\ ~(ReachedFirst(i) /\ ReshardsAfterForward(Order[i]))
    <2>1. l = <<"grad", i>> /\ l # Return
      BY <1>3, UnitsShape DEF Reached, Return
    <2>2. Located(config, k, l)
      BY <1>0, <1>3, <2>1 DEF Located, OnBackward
    <2>3. ASSUME NEW u \in Units
          PROVE  u \in InBackward(config, "grad", i) <=> u \in InBackward(config, "gather", i)
      <3>1. CASE u # Order[i]
        <4>1. i \notin ParamsOf(u)
          BY <3>1 DEF ParamsOf
        <4>2. QED  BY <4>1 DEF InBackward
      <3>2. CASE u = Order[i]
        <4>1. u = Root \/ Keeps(config, u) \/ \E j \in ParamsOf(u) : j < i
          <5>1. i \in Nat /\ \A j \in ParamsOf(u) : j \in Nat
            BY <1>3, UnitParams, UnitsShape
          <5>2. u = Root \/ u \in Blocks
            BY UnitsShape
          <5>3. QED  BY <1>3, <3>2, <5>1, <5>2, KeepsFlag DEF ReachedFirst
        <4>2. i \in ParamsOf(u) /\ i > 0
          BY <1>3, <3>2 DEF ParamsOf
        <4>3. QED  BY <4>1, <4>2 DEF InBackward
      <3>3. QED  BY <3>1, <3>2
    <2>4. \A u \in Units : Remaining("grad", i, u) = Remaining("gather", i, u)
      BY DEF Remaining
    <2>5. QED  BY <1>0, <2>1, <2>2, <2>3, <2>4 DEF Gathered, Awaited
  <1>4. QED  BY <1>1, <1>2, <1>3, UnitsShape

LEMMA BackwardUnits ==
  ASSUME NEW r \in Ranks, Types, UnitsInv(r), Alternates(plan), Backward(r)
  PROVE  UnitsInv(r)'
  <1> DEFINE k == step[r] + 1
             kind == plan[k]
             l == FirstReached
  <1>1. /\ NextIs(r, kind) /\ kind \in BackwardKinds
        /\ config' = config /\ step'[r] = k /\ at'[r] = l
        /\ restore'[r] = restore[r] /\ full'[r] = full[r] /\ pending'[r] = pending[r]
        /\ plan' = plan
    BY DEF Types, Backward, Begin, NextIs, config
  <1>2. /\ plan \in Seq(StepKinds) /\ step[r] \in Nat /\ k \in DOMAIN plan /\ config[1] = plan
        /\ \A u \in Units : /\ Unsharded(r, u) <=> u \in Kept(config, step[r])
                            /\ pending[r][u] = IF Open(plan, step[r]) THEN NumParams(u) ELSE 0
    BY <1>1, Beginning
  <1>3. Open(plan, step[r]) /\ ~Open(plan, k) /\ kind # "summon"
    BY <1>1, <1>2, OpenStep DEF Alternates, BackwardKinds
  <1>4. \A u \in Units : /\ Unsharded(r, u) <=> Keeps(config, u)
                         /\ pending[r][u] = NumParams(u)
    BY <1>2, <1>3 DEF Kept, KeptUnits
  <1>5. \A u \in Units : ParamsOf(u) \subseteq Nat \ {0} /\ ParamsOf(u) # {}
    <2>1. Params \subseteq Nat \ {0}
      BY UnitsShape
    <2>2. QED  BY <2>1, UnitParams
  <1>6. \A u \in Units : \A i \in {0, 1} : Remaining("gather", i, u) = ParamsOf(u)
    BY <1>5 DEF Remaining
  <1>7. Located(config, k, l)
        /\ \A u \in Units : /\ u \in Gathered(config, k, l) <=> Keeps(config, u)
                            /\ Awaited(config, k, l, u) = NumParams(u)
    <2>1. CASE Root \in Units /\ reshardRoot
      <3>1. l = <<"gather", 0>> /\ l # Return
        BY <2>1 DEF FirstReached, Return
      <3>2. Located(config, k, l)
        BY <1>1, <1>2, <2>1, <3>1, KeepsFlag DEF Located, OnBackward
      <3>3. \A u \in Units : u \in InBackward(config, "gather", 0) <=> Keeps(config, u)
        BY <1>5 DEF InBackward
      <3>4. QED  BY <1>1, <1>2, <1>6, <3>1, <3>2, <3>3 DEF Gathered, Awaited, NumParams, BackwardKinds
    <2>2. CASE ~(Root \in Units /\ reshardRoot)
      <3>1. l = Reached(1) /\ 1 \in 1 .. Len(Order) + 1
        BY <2>2, UnitsShape DEF FirstReached
      <3>2. \A u \in Units : u \in InBackward(config, "gather", 1) <=> Keeps(config, u)
        BY <1>5, <2>2, KeepsFlag DEF InBackward, ReshardsAfterForward
      <3>3. QED  BY <1>1, <1>2, <1>3, <1>6, <3>1, <3>2, Arriving DEF NumParams
    <2>3. QED  BY <2>1, <2>2
  <1>8. QED  BY <1>1, <1>3, <1>4, <1>7 DEF UnitsInv, Unsharded

LEMMA FinishUnits ==
  ASSUME NEW r \in Ranks, Types, UnitsInv(r), Alternates(plan), FinishGradientSync(r)
  PROVE  UnitsInv(r)'
  <1> DEFINE k == step[r] + 1
             l == IF Cardinality(Ranks) = 1 THEN Return ELSE EachUnit("flush", 1)
  <1>1. /\ NextIs(r, "finish")
        /\ config' = config /\ step'[r] = k /\ at'[r] = l
        /\ restore'[r] = restore[r] /\ full'[r] = full[r] /\ pending'[r] = pending[r]
        /\ plan' = plan
    BY DEF Types, FinishGradientSync, Begin, NextIs, config
  <1>2. /\ plan \in Seq(StepKinds) /\ step[r] \in Nat /\ k \in DOMAIN plan /\ config[1] = plan
        /\ plan[k] = "finish"
        /\ \A u \in Units : /\ Unsharded(r, u) <=> u \in Kept(config, step[r])
                            /\ pending[r][u] = IF Open(plan, step[r]) THEN NumParams(u) ELSE 0
    BY <1>1, Beginning
  <1>3. Open(plan, k) <=> Open(plan, step[r])
    BY <1>2, OpenStep DEF BackwardKinds
  <1>4. l = Return \/ (l = <<"flush", 1>> /\ Cardinality(Ranks) # 1 /\ 1 \in Units /\ l # Return)
    BY UnitsShape DEF EachUnit, Return
  <1>5. Located(config, k, l)
    BY <1>2, <1>4 DEF Located, OnFinish
  <1>6. Gathered(config, k, l) = Kept(config, step[r])
    BY <1>2, <1>3, <1>4 DEF Gathered, Kept, BackwardKinds
  <1>7. \A u \in Units : Awaited(config, k, l, u) = IF Open(plan, step[r]) THEN NumParams(u) ELSE 0
    BY <1>2, <1>3, <1>4 DEF Awaited, BackwardKinds
  <1>8. QED  BY <1>1, <1>2, <1>5, <1>6, <1>7 DEF UnitsInv, Unsharded

LEMMA SummonUnits ==
  ASSUME NEW r \in Ranks, Types, UnitsInv(r), Alternates(plan), SummonFullParams(r)
  PROVE  UnitsInv(r)'
  <1> DEFINE k == step[r] + 1
             l == EachUnit("gather", 1)
  <1>1. /\ NextIs(r, "summon")
        /\ config' = config /\ step'[r] = k /\ at'[r] = l
        /\ restore'[r] = Restored(r) /\ full'[r] = full[r] /\ pending'[r] = pending[r]
        /\ plan' = plan
    BY DEF Types, SummonFullParams, Begin, NextIs, config
  <1>2. /\ plan \in Seq(StepKinds) /\ step[r] \in Nat /\ k \in DOMAIN plan /\ config[1] = plan
        /\ plan[k] = "summon"
        /\ \A u \in Units : /\ Unsharded(r, u) <=> u \in Kept(config, step[r])
                            /\ pending[r][u] = IF Open(plan, step[r]) THEN NumParams(u) ELSE 0
    BY <1>1, Beginning
  <1>3. Open(plan, k) <=> Open(plan, step[r])
    BY <1>2, OpenStep DEF BackwardKinds
  <1>4. l = <<"gather", 1>> /\ 1 \in Units /\ l # Return
    BY UnitsShape DEF EachUnit, Return
  <1>5. Located(config, k, l)
    BY <1>2, <1>4 DEF Located, OnSummon
  <1>6. Kept(config, k) = Kept(config, step[r]) /\ Kept(config, k) \subseteq Units
    BY <1>2, <1>3 DEF Kept, KeptUnits
  <1>7. Gathered(config, k, l) = Kept(config, k)
    <2>1. \A u \in Units : ~(u < 1)
      BY UnitsShape
    <2>2. QED  BY <1>2, <1>4, <1>6, <2>1 DEF Gathered, InSummon, BackwardKinds
  <1>8. \A u \in Units : Awaited(config, k, l, u) = IF Open(plan, step[r]) THEN NumParams(u) ELSE 0
    BY <1>2, <1>3, <1>4 DEF Awaited, BackwardKinds
  <1>9. Restored(r) = Units \ Kept(config, k)
    BY <1>2, <1>6 DEF Restored
  <1>10. QED  BY <1>1, <1>2, <1>5, <1>6, <1>7, <1>8, <1>9 DEF UnitsInv, Unsharded

LEMMA OptUnits ==
  ASSUME NEW r \in Ranks, Types, UnitsInv(r), Alternates(plan), OptStep(r)
  PROVE  UnitsInv(r)' /\ \A u \in Units : ~Unsharded(r, u)
  <1> DEFINE k == step[r] + 1
  <1>1. /\ NextIs(r, "opt")
        /\ config' = config /\ step'[r] = k /\ at'[r] = at[r]
        /\ restore'[r] = restore[r] /\ full'[r] = full[r] /\ pending'[r] = pending[r]
        /\ plan' = plan
    BY DEF Types, OptStep, NextIs, config
  <1>2. /\ plan \in Seq(StepKinds) /\ step[r] \in Nat /\ k \in DOMAIN plan /\ config[1] = plan
        /\ plan[k] = "opt"
        /\ \A u \in Units : /\ Unsharded(r, u) <=> u \in Kept(config, step[r])
                            /\ pending[r][u] = IF Open(plan, step[r]) THEN NumParams(u) ELSE 0
    BY <1>1, Beginning
  <1>3. ~Open(plan, step[r]) /\ ~Open(plan, k)
    BY <1>2, OpenStep DEF Alternates, BackwardKinds
  <1>4. at[r] = Return
    BY <1>1 DEF NextIs, Idle
  <1>5. \A u \in Units : ~Unsharded(r, u) /\ pending[r][u] = 0
    BY <1>2, <1>3 DEF Kept
  <1>6. \A u \in Units : u \notin Gathered(config, k, Return) /\ Awaited(config, k, Return, u) = 0
    BY <1>2, <1>3 DEF Gathered, Awaited, Kept
  <1>7. QED  BY <1>1, <1>4, <1>5, <1>6 DEF UnitsInv, Unsharded, Located

\* A rank inside a step.
LEMMA Within ==
  ASSUME NEW r \in Ranks, Types, UnitsInv(r), NEW op, op # "idle", At(r, op)
  PROVE  /\ at[r] # Return /\ at[r] = <<op, Pos(r)>> /\ Pos(r) \in Nat
         /\ step[r] \in DOMAIN plan /\ plan \in Seq(StepKinds) /\ step[r] \in Nat
         /\ config[1] = plan /\ Kind(r) = plan[step[r]]
         /\ \/ Kind(r) \in {"forward", "eval"} /\ OnForward(op, Pos(r))
            \/ Kind(r) \in BackwardKinds /\ OnBackward(config, Kind(r), op, Pos(r))
            \/ Kind(r) = "finish" /\ OnFinish(op, Pos(r))
            \/ Kind(r) = "summon" /\ OnSummon(op, Pos(r))
  <1>1. at[r] \in Hooks \X Nat
    BY DEF Types
  <1>2. at[r] # Return /\ at[r] = <<op, Pos(r)>> /\ Pos(r) \in Nat
    BY <1>1 DEF At, Pos, Return
  <1>3. config[1] = plan /\ Kind(r) = plan[step[r]]
    BY DEF config, Kind
  <1>4. Located(config, step[r], at[r])
    BY DEF UnitsInv
  <1>5. plan \in Seq(StepKinds) /\ step[r] \in Nat
    BY PlansAssumption DEF Types
  <1>6. QED  BY <1>2, <1>3, <1>4, <1>5 DEF Located

\* The unit a rank is at is one.
LEMMA AtUnit ==
  ASSUME NEW r \in Ranks, Types, UnitsInv(r), NEW op, op # "idle", At(r, op)
  PROVE  UnitAt(r) \in Units
  <1>1. /\ Pos(r) \in Nat
        /\ \/ Kind(r) \in {"forward", "eval"} /\ OnForward(op, Pos(r))
           \/ Kind(r) \in BackwardKinds /\ OnBackward(config, Kind(r), op, Pos(r))
           \/ Kind(r) = "finish" /\ OnFinish(op, Pos(r))
           \/ Kind(r) = "summon" /\ OnSummon(op, Pos(r))
    BY Within
  <1>2. CASE Kind(r) \in {"forward", "eval"} /\ OnForward(op, Pos(r))
    <2>1. Pos(r) \in 0 .. Root /\ (Pos(r) \in {0, Root} => Root \in Units)
      BY <1>2 DEF OnForward
    <2>2. Pos(r) \in {0, Root} \/ Pos(r) \in Blocks
      BY <2>1, UnitsAssumption DEF Root, Blocks
    <2>3. QED  BY <1>2, <2>1, <2>2, UnitsShape DEF UnitAt, BackwardKinds
  <1>3. CASE Kind(r) \in BackwardKinds /\ OnBackward(config, Kind(r), op, Pos(r))
    BY <1>3, UnitsShape DEF UnitAt, OnBackward
  <1>4. CASE Kind(r) = "finish" /\ OnFinish(op, Pos(r))
    BY <1>4, UnitsShape DEF UnitAt, OnFinish, BackwardKinds
  <1>5. CASE Kind(r) = "summon" /\ OnSummon(op, Pos(r))
    BY <1>5, UnitsShape DEF UnitAt, OnSummon, BackwardKinds
  <1>6. QED  BY <1>1, <1>2, <1>3, <1>4, <1>5

\* After unshard() the rank is past it, and its unit gathered.
LEMMA GatherPlace ==
  ASSUME NEW r \in Ranks, Types, UnitsInv(r), Alternates(plan), At(r, "gather")
  PROVE  LET u == UnitAt(r)
             l == AfterGather(r)
         IN  /\ Located(config, step[r], l) /\ l # Return
             /\ Gathered(config, step[r], l) = Gathered(config, step[r], at[r]) \cup {u}
             /\ \A v \in Units :
                    Awaited(config, step[r], l, v) = Awaited(config, step[r], at[r], v)
  <1> DEFINE k == step[r]
             n == Pos(r)
             u == UnitAt(r)
             l == AfterGather(r)
  <1>1. /\ at[r] # Return /\ at[r] = <<"gather", n>> /\ n \in Nat
        /\ k \in DOMAIN plan /\ plan \in Seq(StepKinds) /\ k \in Nat
        /\ config[1] = plan /\ Kind(r) = plan[k]
        /\ \/ Kind(r) \in {"forward", "eval"} /\ OnForward("gather", n)
           \/ Kind(r) \in BackwardKinds /\ OnBackward(config, Kind(r), "gather", n)
           \/ Kind(r) = "summon" /\ OnSummon("gather", n)
    BY Within DEF OnFinish
  <1>2. u \in Units
    BY AtUnit
  <1>3. CASE Kind(r) \in {"forward", "eval"} /\ OnForward("gather", n)
    <2>1. Kind(r) \notin BackwardKinds /\ Kind(r) # "summon"
      BY <1>3 DEF BackwardKinds
    <2>2. l = <<"arm", n>> /\ l # Return
      BY <2>1 DEF AfterGather, Return
    <2>3. Located(config, k, l)
      BY <1>1, <1>3, <2>2, UnitsShape DEF Located, OnForward
    <2>4. u = IF n = 0 THEN Root ELSE n
      BY <2>1 DEF UnitAt
    <2>5. \A kept : InForward(kept, "arm", n) = InForward(kept, "gather", n) \cup {u}
      <3>1. CASE n = 0
        <4>1. \A v \in Units : v # 0
          BY UnitsShape
        <4>2. QED  BY <1>2, <2>4, <3>1, <4>1 DEF InForward
      <3>2. CASE n # 0
        <4>1. n > 0
          BY <1>1, <3>2
        <4>2. QED  BY <1>2, <2>4, <3>2, <4>1 DEF InForward
      <3>3. QED  BY <3>1, <3>2
    <2>6. Gathered(config, k, l) = Gathered(config, k, at[r]) \cup {u}
      BY <1>1, <1>3, <2>2, <2>5 DEF Gathered
    <2>7. \A v : ArmedAt("arm", n, v) <=> ArmedAt("gather", n, v)
      BY DEF ArmedAt
    <2>8. \A v \in Units : Awaited(config, k, l, v) = Awaited(config, k, at[r], v)
      BY <1>1, <1>3, <2>1, <2>2, <2>7 DEF Awaited
    <2>9. QED  BY <2>2, <2>3, <2>6, <2>8
  <1>4. CASE Kind(r) \in BackwardKinds /\ OnBackward(config, Kind(r), "gather", n)
    <2>1. Kind(r) \notin {"forward", "eval", "finish", "summon"}
      BY <1>4 DEF BackwardKinds
    <2>2. Gathered(config, k, at[r]) = InBackward(config, "gather", n)
      BY <1>1, <1>4, <2>1 DEF Gathered
    <2>3. \A v \in Units : Awaited(config, k, at[r], v) = Cardinality(Remaining("gather", n, v))
      BY <1>1, <1>4, <2>1 DEF Awaited
    <2>4. CASE n = 0
      <3>1. l = Reached(1) /\ u = Root /\ 1 \in Params
        BY <1>4, <2>1, <2>4, UnitsShape DEF AfterGather, UnitAt
      <3>2. l # Return
        BY <3>1, UnitsShape DEF Reached, Return
      <3>3. ~Open(plan, k)
        <4>1. k - 1 \in Nat /\ (k - 1) + 1 = k
          BY <1>1
        <4>2. QED  BY <4>1, <1>1, <1>4, OpenStep
      <3>4. /\ Located(config, k, l)
            /\ \A v \in Units :
                  /\ v \in Gathered(config, k, l) <=> v \in InBackward(config, "gather", 1)
                  /\ Awaited(config, k, l, v) = Cardinality(Remaining("gather", 1, v))
        BY <1>1, <1>4, <3>1, <3>3, UnitsShape, Arriving
      <3>5. \A v \in Units : ParamsOf(v) \subseteq Nat \ {0} /\ ParamsOf(v) # {}
        <4>1. Params \subseteq Nat \ {0}
          BY UnitsShape
        <4>2. QED  BY <4>1, UnitParams
      <3>6. InBackward(config, "gather", 1) = InBackward(config, "gather", 0) \cup {u}
        BY <1>2, <3>1, <3>5 DEF InBackward
      <3>7. \A v \in Units : Remaining("gather", 1, v) = Remaining("gather", 0, v)
        BY <3>5 DEF Remaining
      <3>8. Gathered(config, k, l) \subseteq Units
        BY <1>1, <1>4, <2>1, <3>2 DEF Gathered, InBackward
      <3>9. Gathered(config, k, l) = InBackward(config, "gather", 1)
        BY <3>4, <3>8 DEF InBackward
      <3>10. QED  BY <2>2, <2>3, <2>4, <3>2, <3>4, <3>6, <3>7, <3>9
    <2>5. CASE n # 0
      <3>1. l = <<"grad", n>> /\ u = Order[n] /\ n \in Params /\ l # Return
        BY <1>4, <2>1, <2>5 DEF AfterGather, UnitAt, OnBackward, Return
      <3>2. Located(config, k, l)
        BY <1>1, <1>4, <3>1 DEF Located, OnBackward
      <3>3. n \in ParamsOf(u) /\ n \in Nat
        BY <3>1, <1>1 DEF ParamsOf
      <3>4. \A v \in Units : v # u => n \notin ParamsOf(v)
        BY <3>1 DEF ParamsOf
      <3>5. InBackward(config, "grad", n) = InBackward(config, "gather", n) \cup {u}
        BY <1>2, <3>3, <3>4 DEF InBackward
      <3>6. \A v \in Units : Remaining("grad", n, v) = Remaining("gather", n, v)
        BY DEF Remaining
      <3>7. Gathered(config, k, l) = InBackward(config, "grad", n)
        BY <1>1, <1>4, <2>1, <3>1 DEF Gathered
      <3>8. \A v \in Units : Awaited(config, k, l, v) = Cardinality(Remaining("grad", n, v))
        BY <1>1, <1>4, <2>1, <3>1 DEF Awaited
      <3>9. QED  BY <2>2, <2>3, <3>1, <3>2, <3>5, <3>6, <3>7, <3>8
    <2>6. QED  BY <2>4, <2>5
  <1>5. CASE Kind(r) = "summon" /\ OnSummon("gather", n)
    <2>1. n \in Units /\ n \in 1 .. LastUnit /\ Kind(r) \notin BackwardKinds /\ u = n
      BY <1>5, UnitsShape DEF OnSummon, BackwardKinds, UnitAt
    <2>2. l = IF n < LastUnit THEN <<"gather", n + 1>> ELSE <<"use", 1>>
      BY <1>5 DEF AfterGather
    <2>3. l # Return
      BY <2>2 DEF Return
    <2>4. Located(config, k, l)
      <3>1. l[1] \in {"gather", "use"} /\ l[2] \in Units
        BY <2>1, <2>2, UnitsShape
      <3>2. QED  BY <1>1, <1>5, <3>1 DEF Located, OnSummon
    <2>5. \A kept : InSummon(kept, l[1], l[2]) = InSummon(kept, "gather", n) \cup {n}
      <3>1. CASE n < LastUnit
        <4>1. l[1] = "gather" /\ l[2] = n + 1
          BY <2>2, <3>1
        <4>2. \A v \in Units : v < n + 1 <=> v < n \/ v = n
          BY <2>1, UnitsShape
        <4>3. QED  BY <2>1, <4>1, <4>2 DEF InSummon
      <3>2. CASE ~(n < LastUnit)
        <4>1. l[1] = "use"
          BY <2>2, <3>2
        <4>2. \A v \in Units : v < n \/ v = n
          BY <2>1, <3>2, UnitsShape
        <4>3. QED  BY <2>1, <4>1, <4>2 DEF InSummon
      <3>3. QED  BY <3>1, <3>2
    <2>6. Gathered(config, k, l) = Gathered(config, k, at[r]) \cup {u}
      BY <1>1, <1>5, <2>1, <2>3, <2>5 DEF Gathered
    <2>7. \A v \in Units : Awaited(config, k, l, v) = Awaited(config, k, at[r], v)
      BY <1>1, <1>5, <2>1, <2>3 DEF Awaited
    <2>8. QED  BY <2>3, <2>4, <2>6, <2>7
  <1>6. QED  BY <1>1, <1>3, <1>4, <1>5

\* A step inside a step of the plan that leaves restore alone, once its new
\* place is known to say what it left gathered and awaited.
LEMMA PlaceSays ==
  ASSUME NEW r \in Ranks, UnitsInv(r), at[r] # Return, NEW l,
         config' = config, step'[r] = step[r], restore'[r] = restore[r], at'[r] = l,
         Located(config, step[r], l),
         \A u \in Units : full'[r][u] # {} <=> u \in Gathered(config, step[r], l),
         \A u \in Units : pending'[r][u] = Awaited(config, step[r], l, u)
  PROVE  UnitsInv(r)'
  <1>1. plan' = plan
    BY DEF config
  <1>2. QED  BY <1>1 DEF UnitsInv, Unsharded

LEMMA SkipGatherUnits ==
  ASSUME NEW r \in Ranks, Types, UnitsInv(r), Alternates(plan), SkipGather(r)
  PROVE  UnitsInv(r)'
  <1> DEFINE l == AfterGather(r)
  <1>1. /\ At(r, "gather") /\ Unsharded(r, UnitAt(r)) /\ UnitAt(r) \in Units
        /\ config' = config /\ step'[r] = step[r] /\ restore'[r] = restore[r] /\ at'[r] = l
        /\ full'[r] = full[r] /\ pending'[r] = pending[r] /\ at[r] # Return
    BY AtUnit, Within DEF SkipGather, Continue, Types, config
  <1>2. /\ Located(config, step[r], l) /\ l # Return
        /\ Gathered(config, step[r], l) = Gathered(config, step[r], at[r]) \cup {UnitAt(r)}
        /\ \A v \in Units : Awaited(config, step[r], l, v) = Awaited(config, step[r], at[r], v)
    BY <1>1, GatherPlace
  <1>3. UnitAt(r) \in Gathered(config, step[r], at[r])
    BY <1>1 DEF UnitsInv
  <1>4. \A v \in Units : /\ full'[r][v] # {} <=> v \in Gathered(config, step[r], l)
                         /\ pending'[r][v] = Awaited(config, step[r], l, v)
    BY <1>1, <1>2, <1>3 DEF UnitsInv, Unsharded
  <1>5. QED  BY <1>1, <1>2, <1>4, PlaceSays

LEMMA AllGatherUnits ==
  ASSUME NEW r \in Ranks, Types, UnitsInv(r), Alternates(plan), NEW u \in Units, AllGather(u)
  PROVE  UnitsInv(r)'
  <1> DEFINE l == AfterGather(r)
  <1>1. /\ At(r, "gather") /\ u = UnitAt(r)
        /\ config' = config /\ step'[r] = step[r] /\ restore'[r] = restore[r] /\ at'[r] = l
        /\ full'[r] = [full[r] EXCEPT ![u] = {version[s] : s \in Ranks}]
        /\ pending'[r] = pending[r] /\ at[r] # Return
    BY Within DEF AllGather, config
  <1>2. /\ Located(config, step[r], l) /\ l # Return
        /\ Gathered(config, step[r], l) = Gathered(config, step[r], at[r]) \cup {u}
        /\ \A v \in Units : Awaited(config, step[r], l, v) = Awaited(config, step[r], at[r], v)
    BY <1>1, GatherPlace
  <1>3. \A v \in Units : full'[r][v] = IF v = u THEN {version[s] : s \in Ranks} ELSE full[r][v]
    BY <1>1 DEF Types
  <1>4. {version[s] : s \in Ranks} # {}
    OBVIOUS
  <1>5. \A v \in Units : full'[r][v] # {} <=> v \in Gathered(config, step[r], l)
    BY <1>2, <1>3, <1>4 DEF UnitsInv, Unsharded
  <1>6. \A v \in Units : pending'[r][v] = Awaited(config, step[r], l, v)
    BY <1>1, <1>2 DEF UnitsInv
  <1>7. QED  BY <1>1, <1>2, <1>5, <1>6, PlaceSays

LEMMA ArmUnits ==
  ASSUME NEW r \in Ranks, Types, UnitsInv(r), Alternates(plan), Arm(r)
  PROVE  UnitsInv(r)'
  <1> DEFINE k == step[r]
             n == Pos(r)
             u == UnitAt(r)
             l == <<"use", n>>
  <1>1. /\ at[r] # Return /\ at[r] = <<"arm", n>> /\ n \in Nat
        /\ k \in DOMAIN plan /\ plan \in Seq(StepKinds) /\ k \in Nat
        /\ config[1] = plan /\ Kind(r) = plan[k]
        /\ Kind(r) \in {"forward", "eval"} /\ OnForward("arm", n)
    BY Within DEF Arm, OnBackward, OnFinish, OnSummon
  <1>2. u \in Units
    BY AtUnit DEF Arm
  <1>3. Kind(r) \notin BackwardKinds /\ Kind(r) # "summon" /\ l # Return
    BY <1>1 DEF BackwardKinds, Return
  <1>4. /\ config' = config /\ step'[r] = step[r] /\ restore'[r] = restore[r] /\ at'[r] = l
        /\ full'[r] = full[r]
        /\ \A v \in Units : pending'[r][v] =
               IF Kind(r) = "forward" /\ v = u THEN NumParams(u) ELSE pending[r][v]
    BY <1>2 DEF Arm, Continue, Types, config, Armed
  <1>5. Located(config, k, l)
    BY <1>1, <1>3 DEF Located, OnForward
  <1>6. \A kept : InForward(kept, "use", n) = InForward(kept, "arm", n)
    BY DEF InForward
  <1>7. Gathered(config, k, l) = Gathered(config, k, at[r])
    BY <1>1, <1>3, <1>6 DEF Gathered
  <1>8. \A v \in Units : ArmedAt("use", n, v) <=> ArmedAt("arm", n, v) \/ v = u
    <2>1. u = IF n = 0 THEN Root ELSE n
      BY <1>3 DEF UnitAt
    <2>2. CASE n = 0
      <3>1. \A v \in Units : v # 0 /\ ~(v < 0)
        BY UnitsShape
      <3>2. QED  BY <2>1, <2>2, <3>1 DEF ArmedAt
    <2>3. CASE n # 0
      <3>1. n > 0
        BY <1>1, <2>3
      <3>2. QED  BY <2>1, <2>3, <3>1 DEF ArmedAt
    <2>4. QED  BY <2>2, <2>3
  <1>9. \A v \in Units : pending'[r][v] = Awaited(config, k, l, v)
    BY <1>1, <1>2, <1>3, <1>4, <1>8 DEF Awaited, UnitsInv
  <1>10. \A v \in Units : full'[r][v] # {} <=> v \in Gathered(config, k, l)
    BY <1>4, <1>7 DEF UnitsInv, Unsharded
  <1>11. QED  BY <1>1, <1>4, <1>5, <1>9, <1>10, PlaceSays

\* Where a forward goes on after a module.
LEMMA NextModule ==
  ASSUME NEW k, k \in DOMAIN plan, plan[k] \in {"forward", "eval"},
         Open(plan, k) <=> plan[k] = "forward", NEW n \in 1 .. Root
  PROVE  /\ Located(config, k, Module(n))
         /\ \A u \in Units :
               /\ u \in Gathered(config, k, Module(n)) <=>
                      \/ u = Root /\ Module(n) # Return
                      \/ u < n /\ plan[k] = "forward" /\ Keeps(config, u)
               /\ Awaited(config, k, Module(n), u) =
                      IF plan[k] = "forward" /\ (u < n \/ u = Root) THEN NumParams(u) ELSE 0
  <1> DEFINE l == Module(n)
  <1>0. /\ config[1] = plan /\ n \in Nat /\ n > 0 /\ plan[k] \notin BackwardKinds
        /\ plan[k] # "summon" /\ \A u \in Units : u \in 1 .. Root
    BY KeepsFlag, UnitsShape DEF BackwardKinds
  <1>1. CASE n < Root
    <2>1. l = <<"gather", n>> /\ l # Return
      BY <1>1 DEF Module, Return
    <2>2. Located(config, k, l)
      BY <1>0, <1>1, <2>1, UnitsShape DEF Located, OnForward
    <2>3. \A kept : \A u \in Units : u \in InForward(kept, "gather", n) <=> u = Root \/ (u < n /\ u \in kept)
      BY <1>0 DEF InForward
    <2>4. \A u \in Units : ArmedAt("gather", n, u) <=> u < n \/ u = Root
      BY <1>0 DEF ArmedAt
    <2>5. \A u \in Units : Awaited(config, k, l, u) =
              IF plan[k] = "forward" /\ (u < n \/ u = Root) THEN NumParams(u) ELSE 0
      BY <1>0, <2>1, <2>4 DEF Awaited
    <2>6. QED  BY <1>0, <2>1, <2>2, <2>3, <2>5 DEF Gathered, KeptUnits
  <1>2. CASE n = Root /\ Root \in Units
    <2>1. l = <<"use", Root>> /\ l # Return
      BY <1>2, UnitsShape DEF Module, Return
    <2>2. Located(config, k, l)
      BY <1>0, <1>2, <2>1, UnitsShape DEF Located, OnForward
    <2>3. \A kept : \A u \in Units : u \in InForward(kept, "use", Root) <=> u = Root \/ (u < n /\ u \in kept)
      BY <1>0, <1>2 DEF InForward
    <2>4. \A u \in Units : ArmedAt("use", Root, u) <=> u < n \/ u = Root
      BY <1>0, <1>2 DEF ArmedAt
    <2>5. \A u \in Units : Awaited(config, k, l, u) =
              IF plan[k] = "forward" /\ (u < n \/ u = Root) THEN NumParams(u) ELSE 0
      BY <1>0, <2>1, <2>4 DEF Awaited
    <2>6. QED  BY <1>0, <2>1, <2>2, <2>3, <2>5 DEF Gathered, KeptUnits
  <1>3. CASE n = Root /\ Root \notin Units
    <2>1. l = Return
      BY <1>3, UnitsShape DEF Module
    <2>2. \A u \in Units : u # Root /\ u < n
      BY <1>0, <1>3, UnitsShape
    <2>3. \A u \in Units : u \in Gathered(config, k, l) <=> plan[k] = "forward" /\ Keeps(config, u)
      BY <1>0, <2>1 DEF Gathered, Kept, KeptUnits
    <2>4. \A u \in Units : Awaited(config, k, l, u) = IF plan[k] = "forward" THEN NumParams(u) ELSE 0
      BY <1>0, <2>1 DEF Awaited
    <2>5. QED  BY <2>1, <2>2, <2>3, <2>4 DEF Located
  <1>4. QED  BY <1>0, <1>1, <1>2, <1>3, UnitsShape

\* A forward under way awaits its backward, an evaluation does not.
LEMMA OpenWithin ==
  ASSUME NEW k \in Nat, k \in DOMAIN plan, plan \in Seq(StepKinds), Alternates(plan)
  PROVE  /\ plan[k] = "forward" => Open(plan, k)
         /\ plan[k] = "eval" \/ plan[k] \in BackwardKinds => ~Open(plan, k)
         /\ plan[k] \notin BackwardKinds \cup {"forward"} => (Open(plan, k) <=> Open(plan, k - 1))
  <1>1. k - 1 \in Nat /\ (k - 1) + 1 = k
    OBVIOUS
  <1>2. QED  BY <1>1, OpenStep DEF Alternates, BackwardKinds

LEMMA UseUnits ==
  ASSUME NEW r \in Ranks, Types, UnitsInv(r), Alternates(plan), Use(r)
  PROVE  UnitsInv(r)'
  <1> DEFINE k == step[r]
             n == Pos(r)
             l == IF Kind(r) = "summon"
                  THEN IF n < LastUnit THEN <<"use", n + 1>> ELSE <<"restore", 1>>
                  ELSE IF n = 0 THEN Module(1) ELSE <<"post", n>>
  <1>1. /\ at[r] # Return /\ at[r] = <<"use", n>> /\ n \in Nat
        /\ k \in DOMAIN plan /\ plan \in Seq(StepKinds) /\ k \in Nat
        /\ config[1] = plan /\ Kind(r) = plan[k]
        /\ \/ Kind(r) \in {"forward", "eval"} /\ OnForward("use", n)
           \/ Kind(r) = "summon" /\ OnSummon("use", n)
    BY Within DEF Use, OnBackward, OnFinish
  <1>2. /\ config' = config /\ step'[r] = step[r] /\ restore'[r] = restore[r] /\ at'[r] = l
        /\ full'[r] = full[r] /\ pending'[r] = pending[r]
    BY DEF Use, Continue, Types, config
  <1>3. /\ Located(config, k, l)
        /\ \A u \in Units : /\ u \in Gathered(config, k, l) <=> u \in Gathered(config, k, at[r])
                            /\ Awaited(config, k, l, u) = Awaited(config, k, at[r], u)
    <2>1. CASE Kind(r) \in {"forward", "eval"} /\ OnForward("use", n) /\ n # 0
      <3>1. l = <<"post", n>> /\ l # Return /\ Kind(r) \notin BackwardKinds
        BY <2>1 DEF Return, BackwardKinds
      <3>2. Located(config, k, l)
        BY <1>1, <2>1, <3>1 DEF Located, OnForward
      <3>3. \A kept : InForward(kept, "post", n) = InForward(kept, "use", n)
        BY DEF InForward
      <3>4. n > 0
        BY <1>1, <2>1
      <3>5. \A u : ArmedAt("post", n, u) <=> ArmedAt("use", n, u)
        BY <3>4 DEF ArmedAt
      <3>6. \A u \in Units : Awaited(config, k, l, u) = Awaited(config, k, at[r], u)
        <4>1. <<"post", n>> # Return /\ <<"use", n>> # Return /\ config[1][k] \notin BackwardKinds
          BY <1>1, <3>1
        <4>2. \A u : Awaited(config, k, <<"post", n>>, u) = Awaited(config, k, <<"use", n>>, u)
          BY <3>5, <4>1, SameAwaited
        <4>3. l = <<"post", n>> /\ at[r] = <<"use", n>>
          BY <1>1, <3>1
        <4> HIDE DEF l
        <4>4. QED  BY <4>2, <4>3
      <3>7. Gathered(config, k, l) = Gathered(config, k, at[r])
        <4>1. l[1] = "post" /\ l[2] = n /\ at[r][1] = "use" /\ at[r][2] = n
          BY <1>1, <3>1
        <4>2. l # Return /\ at[r] # Return /\ config[1][k] \in {"forward", "eval"}
          BY <1>1, <2>1, <3>1
        <4> HIDE DEF l
        <4>3. QED  BY <3>3, <4>1, <4>2 DEF Gathered
      <3>8. QED  BY <3>2, <3>6, <3>7
    <2>2. CASE Kind(r) \in {"forward", "eval"} /\ OnForward("use", n) /\ n = 0
      <3>1. l = Module(1) /\ 1 \in 1 .. Root /\ Root \in Units /\ Module(1) # Return
        BY <2>2, UnitsShape DEF OnForward, Module, Return
      <3>2. /\ Located(config, k, l)
            /\ \A u \in Units :
                  /\ u \in Gathered(config, k, l) <=>
                        u = Root \/ (u < 1 /\ plan[k] = "forward" /\ Keeps(config, u))
                  /\ Awaited(config, k, l, u) =
                        IF plan[k] = "forward" /\ (u < 1 \/ u = Root) THEN NumParams(u) ELSE 0
        BY <1>1, <2>2, <3>1, NextModule, OpenWithin
      <3>3. \A u \in Units : ~(u < 1) /\ ~(u < 0) /\ u # 0
        BY UnitsShape
      <3>4. \A u \in Units : u \in Gathered(config, k, at[r]) <=> u = Root
        BY <1>1, <2>2, <3>3 DEF Gathered, InForward
      <3>5. \A u \in Units : ArmedAt("use", 0, u) <=> u = Root
        BY <3>3 DEF ArmedAt
      <3>6. plan[k] = "eval" => ~Open(plan, k)
        BY <1>1, OpenWithin
      <3>7. \A u \in Units : Awaited(config, k, at[r], u) =
                IF plan[k] = "forward" /\ u = Root THEN NumParams(u) ELSE 0
        BY <1>1, <2>2, <3>5, <3>6 DEF Awaited, BackwardKinds
      <3>8. QED  BY <3>2, <3>3, <3>4, <3>7
    <2>3. CASE Kind(r) = "summon" /\ OnSummon("use", n)
      <3>1. l = (IF n < LastUnit THEN <<"use", n + 1>> ELSE <<"restore", 1>>) /\ l # Return
        BY <2>3 DEF Return
      <3>2. l[1] \in {"use", "restore"} /\ l[2] \in Units
        BY <2>3, <3>1, UnitsShape DEF OnSummon
      <3>3. Located(config, k, l)
        BY <1>1, <2>3, <3>1, <3>2 DEF Located, OnSummon
      <3>4. \A kept : InSummon(kept, l[1], l[2]) = Units
        <4>1. \A u \in Units : u >= 1
          BY UnitsShape
        <4>2. QED  BY <3>1, <4>1 DEF InSummon
      <3>5. \A kept : InSummon(kept, "use", n) = Units
        BY DEF InSummon
      <3>6. QED  BY <1>1, <2>3, <3>1, <3>3, <3>4, <3>5 DEF Gathered, Awaited, BackwardKinds
    <2>4. QED  BY <1>1, <2>1, <2>2, <2>3
  <1>4. \A u \in Units : /\ full'[r][u] # {} <=> u \in Gathered(config, k, l)
                         /\ pending'[r][u] = Awaited(config, k, l, u)
    BY <1>2, <1>3 DEF UnitsInv, Unsharded
  <1>5. QED  BY <1>1, <1>2, <1>3, <1>4, PlaceSays

\* What remains after reshard() under a condition.
LEMMA ReshardLeaves ==
  ASSUME NEW r \in Ranks, NEW u \in Units, Types, NEW condition \in BOOLEAN,
         Reshard(r, u, condition)
  PROVE  \A v \in Units : full'[r][v] # {} <=> Unsharded(r, v) /\ ~(v = u /\ condition)
  <1>1. CASE condition
    BY <1>1 DEF Reshard, Types, Unsharded
  <1>2. CASE ~condition
    BY <1>2 DEF Reshard, Types, Unsharded
  <1>3. QED  BY <1>1, <1>2

LEMMA PostForwardUnits ==
  ASSUME NEW r \in Ranks, Types, UnitsInv(r), Alternates(plan), PostForward(r)
  PROVE  UnitsInv(r)'
  <1> DEFINE k == step[r]
             n == Pos(r)
             u == UnitAt(r)
             graded == Kind(r) = "forward"
             l == IF n = Root THEN Return ELSE Module(n + 1)
  <1>1. /\ at[r] # Return /\ at[r] = <<"post", n>> /\ n \in Nat
        /\ k \in DOMAIN plan /\ plan \in Seq(StepKinds) /\ k \in Nat
        /\ config[1] = plan /\ Kind(r) = plan[k]
        /\ Kind(r) \in {"forward", "eval"} /\ OnForward("post", n)
    BY Within DEF PostForward, OnBackward, OnFinish, OnSummon
  <1>2. n \in Units /\ n # 0 /\ u = n
    <2>1. u \in Units
      BY AtUnit DEF PostForward
    <2>2. n # 0 /\ Kind(r) \notin BackwardKinds
      BY <1>1 DEF OnForward, BackwardKinds
    <2>3. QED  BY <2>1, <2>2 DEF UnitAt
  <1>3. /\ config' = config /\ step'[r] = step[r] /\ restore'[r] = restore[r] /\ at'[r] = l
        /\ pending'[r] = pending[r]
        /\ Reshard(r, u, FreedAfterForward(u, graded))
    BY DEF PostForward, Continue, Types, config
  <1>4. FreedAfterForward(u, graded) <=> ~Keeps(config, u) \/ ~graded
    BY KeepsFlag DEF FreedAfterForward
  <1>5. \A v \in Units : full'[r][v] # {} <=> Unsharded(r, v) /\ (v = u => Keeps(config, u) /\ graded)
    <2>1. FreedAfterForward(u, graded) \in BOOLEAN
      BY DEF FreedAfterForward, ReshardsAfterForward, Types
    <2>2. QED  BY <1>2, <1>3, <1>4, <2>1, ReshardLeaves
  <1>6. \A v \in Units : Unsharded(r, v) <=> \/ v < n /\ graded /\ Keeps(config, v)
                                             \/ v = n
                                             \/ v = Root
    <2>1. n > 0
      BY <1>1, <1>2
    <2>2. \A kept : \A v \in Units : v \in InForward(kept, "post", n) <=>
              (v < n /\ v \in kept) \/ v = n \/ v = Root
      BY <2>1 DEF InForward
    <2>3. Gathered(config, k, at[r]) = InForward(IF graded THEN KeptUnits(config) ELSE {}, "post", n)
      BY <1>1 DEF Gathered
    <2>4. QED  BY <2>2, <2>3 DEF UnitsInv, KeptUnits
  <1>7. \A v \in Units : pending[r][v] =
            IF graded /\ (v < n \/ v = n \/ v = Root) THEN NumParams(v) ELSE 0
    <2>1. n > 0
      BY <1>1, <1>2
    <2>2. \A v \in Units : ArmedAt("post", n, v) <=> v < n \/ v = n \/ v = Root
      BY <2>1 DEF ArmedAt
    <2>3. ~graded => ~Open(plan, k) /\ Kind(r) \notin BackwardKinds
      BY <1>1, OpenWithin DEF BackwardKinds
    <2>4. QED  BY <1>1, <2>2, <2>3 DEF UnitsInv, Awaited
  <1>8. Open(plan, k) <=> graded
    BY <1>1, OpenWithin
  <1>9. /\ Located(config, k, l)
        /\ \A v \in Units : /\ full'[r][v] # {} <=> v \in Gathered(config, k, l)
                            /\ pending[r][v] = Awaited(config, k, l, v)
    <2>1. CASE n = Root
      <3>1. \A v \in Units : v < n \/ v = n
        BY <2>1, UnitsShape
      <3>2. QED  BY <1>1, <1>2, <1>5, <1>6, <1>7, <1>8, <2>1, <3>1
                 DEF Located, Gathered, Awaited, Kept, KeptUnits
    <2>2. CASE n # Root
      <3>1. l = Module(n + 1) /\ n + 1 \in 1 .. Root
        BY <1>1, <1>2, <2>2, UnitsShape
      <3>2. Root \in Units => l # Return
        BY <3>1, UnitsShape DEF Module, Return
      <3>3. /\ Located(config, k, l)
            /\ \A v \in Units :
                  /\ v \in Gathered(config, k, l) <=>
                         \/ v = Root /\ l # Return
                         \/ v < n + 1 /\ graded /\ Keeps(config, v)
                  /\ Awaited(config, k, l, v) =
                         IF graded /\ (v < n + 1 \/ v = Root) THEN NumParams(v) ELSE 0
        BY <1>1, <1>8, <3>1, NextModule
      <3>4. \A v \in Units : v < n + 1 <=> v < n \/ v = n
        BY <1>1, UnitsShape
      <3>5. QED  BY <1>2, <1>5, <1>6, <1>7, <2>2, <3>2, <3>3, <3>4
    <2>3. QED  BY <2>1, <2>2
  <1>10. QED  BY <1>1, <1>3, <1>9, PlaceSays

\* A place of a backward other than its end.
LEMMA BackwardPlace ==
  ASSUME NEW k, NEW h, NEW i, plan[k] \in BackwardKinds, <<h, i>> # Return
  PROVE  /\ Gathered(config, k, <<h, i>>) = InBackward(config, h, i)
         /\ \A u : Awaited(config, k, <<h, i>>, u) = Cardinality(Remaining(h, i, u))
         /\ k \in DOMAIN plan /\ OnBackward(config, plan[k], h, i) => Located(config, k, <<h, i>>)
  <1>1. config[1] = plan /\ plan[k] \notin {"forward", "eval", "finish", "summon"}
    BY KeepsFlag DEF BackwardKinds
  <1>2. QED  BY <1>1 DEF Gathered, Awaited, Located

\* A rank in a backward, at a parameter.
LEMMA AtParam ==
  ASSUME NEW r \in Ranks, Types, UnitsInv(r), Alternates(plan), NEW op,
         op \in {"grad", "reduce", "free"}, At(r, op), Kind(r) \in BackwardKinds
  PROVE  /\ at[r] # Return /\ at[r] = <<op, Pos(r)>> /\ Pos(r) \in Params /\ Pos(r) \in Nat \ {0}
         /\ step[r] \in DOMAIN plan /\ plan[step[r]] = Kind(r) /\ ~Open(plan, step[r])
         /\ UnitAt(r) = Order[Pos(r)] /\ UnitAt(r) \in Units /\ Pos(r) \in ParamsOf(UnitAt(r))
         /\ \A v \in Units : v # UnitAt(r) => Pos(r) \notin ParamsOf(v)
         /\ \A v \in Units : \A j \in ParamsOf(v) : j \in Nat
         /\ op # "grad" => \A j \in ParamsOf(UnitAt(r)) : j <= Pos(r)
         /\ op = "reduce" => Kind(r) = "backward"
         /\ \A v \in Units :
                /\ Unsharded(r, v) <=> v \in InBackward(config, op, Pos(r))
                /\ pending[r][v] = Cardinality(Remaining(op, Pos(r), v))
  <1>1. /\ at[r] # Return /\ at[r] = <<op, Pos(r)>> /\ Pos(r) \in Nat
        /\ step[r] \in DOMAIN plan /\ plan \in Seq(StepKinds) /\ step[r] \in Nat
        /\ Kind(r) = plan[step[r]] /\ OnBackward(config, Kind(r), op, Pos(r))
    BY Within DEF BackwardKinds
  <1>2. /\ Pos(r) \in Params /\ (op # "grad" => \A j \in ParamsOf(Order[Pos(r)]) : j <= Pos(r))
        /\ op = "reduce" => Kind(r) = "backward"
    BY <1>1 DEF OnBackward
  <1>3. Pos(r) \in Nat \ {0} /\ UnitAt(r) = Order[Pos(r)] /\ UnitAt(r) \in Units
    BY <1>2, UnitsShape DEF UnitAt
  <1>4. /\ Pos(r) \in ParamsOf(UnitAt(r))
        /\ \A v \in Units : v # UnitAt(r) => Pos(r) \notin ParamsOf(v)
    BY <1>2, <1>3 DEF ParamsOf
  <1>5. \A v \in Units : \A j \in ParamsOf(v) : j \in Nat
    BY UnitParams, UnitsShape
  <1>6. ~Open(plan, step[r])
    BY <1>1, OpenWithin
  <1>7. \A v \in Units : /\ Unsharded(r, v) <=> v \in InBackward(config, op, Pos(r))
                         /\ pending[r][v] = Cardinality(Remaining(op, Pos(r), v))
    BY <1>1, BackwardPlace DEF UnitsInv
  <1>8. QED  BY <1>1, <1>2, <1>3, <1>4, <1>5, <1>6, <1>7

\* Past a parameter, the backward is where it arrives at the next one.
LEMMA Onward ==
  ASSUME NEW u \in Units, NEW i \in Nat \ {0}, NEW h \in {"grad", "reduce", "free"},
         \A v \in Units : \A j \in ParamsOf(v) : j \in Nat,
         i \in ParamsOf(u), \A v \in Units : v # u => i \notin ParamsOf(v)
  PROVE  /\ \A v \in Units : Remaining("gather", i + 1, v) = Remaining("free", i, v)
         /\ \A v \in Units : v # u =>
                (v \in InBackward(config, "gather", i + 1) <=> v \in InBackward(config, h, i))
         /\ (\E j \in ParamsOf(u) : j > i) => u \in InBackward(config, "gather", i + 1)
         /\ (\A j \in ParamsOf(u) : j <= i) => u \notin InBackward(config, "gather", i + 1)
         /\ u \in InBackward(config, h, i)
  <1>1. \A v \in Units : \A j \in ParamsOf(v) :
            /\ j > i + 1 \/ j = i + 1 <=> j > i
            /\ j >= i + 1 <=> j > i
            /\ j < i + 1 <=> j < i \/ j = i
            /\ j >= i <=> j > i \/ j = i
            /\ j > i <=> ~(j <= i)
    OBVIOUS
  <1>2. i > 0 /\ i + 1 > 0
    OBVIOUS
  <1>3. \A v \in Units : Remaining("gather", i + 1, v) = Remaining("free", i, v)
    BY <1>1 DEF Remaining
  <1>4. ASSUME NEW v \in Units, v # u
        PROVE  v \in InBackward(config, "gather", i + 1) <=> v \in InBackward(config, h, i)
    BY <1>1, <1>2, <1>4 DEF InBackward
  <1>5. ASSUME NEW j \in ParamsOf(u), j > i
        PROVE  u \in InBackward(config, "gather", i + 1)
    BY <1>1, <1>5 DEF InBackward
  <1>6. (\A j \in ParamsOf(u) : j <= i) => u \notin InBackward(config, "gather", i + 1)
    BY <1>1 DEF InBackward
  <1>7. u \in InBackward(config, h, i)
    BY <1>1 DEF InBackward
  <1>8. QED  BY <1>3, <1>4, <1>5, <1>6, <1>7

LEMMA GradReadyUnits ==
  ASSUME NEW r \in Ranks, Types, UnitsInv(r), Alternates(plan), GradReady(r)
  PROVE  UnitsInv(r)'
  <1> DEFINE k == step[r]
             i == Pos(r)
             u == UnitAt(r)
             rest == Remaining("free", i, u)
             l == IF pending[r][u] - 1 > 0 THEN Reached(i + 1)
                  ELSE IF Kind(r) = "backward" THEN <<"reduce", i>> ELSE <<"free", i>>
  <1>0. At(r, "grad") /\ Kind(r) \in BackwardKinds
    BY Within DEF GradReady, OnForward, OnFinish, OnSummon
  <1>1. /\ at[r] # Return /\ at[r] = <<"grad", i>> /\ i \in Params /\ i \in Nat \ {0}
        /\ k \in DOMAIN plan /\ plan[k] = Kind(r) /\ ~Open(plan, k)
        /\ u = Order[i] /\ u \in Units /\ i \in ParamsOf(u)
        /\ \A v \in Units : v # u => i \notin ParamsOf(v)
        /\ \A v \in Units : \A j \in ParamsOf(v) : j \in Nat
        /\ \A v \in Units : /\ Unsharded(r, v) <=> v \in InBackward(config, "grad", i)
                            /\ pending[r][v] = Cardinality(Remaining("grad", i, v))
    BY <1>0, AtParam
  <1>2. /\ config' = config /\ step'[r] = step[r] /\ restore'[r] = restore[r] /\ at'[r] = l
        /\ full'[r] = full[r]
        /\ \A v \in Units : pending'[r][v] = IF v = u THEN pending[r][u] - 1 ELSE pending[r][v]
    BY <1>1 DEF GradReady, Continue, Types, config
  <1>3. Remaining("grad", i, u) = rest \cup {i} /\ i \notin rest /\ IsFiniteSet(rest)
    <2>1. Remaining("grad", i, u) = rest \cup {i} /\ i \notin rest
      BY <1>1 DEF Remaining
    <2>2. IsFiniteSet(rest)
      BY <1>1, RemainingCount
    <2>3. QED  BY <2>1, <2>2
  <1>4. pending[r][u] - 1 = Cardinality(rest) /\ Cardinality(rest) \in Nat
    <2>1. Cardinality(rest) \in Nat
      BY <1>3, FS_CardinalityType
    <2>2. Cardinality(rest \cup {i}) = Cardinality(rest) + 1
      BY <1>3, FS_AddElement
    <2>3. pending[r][u] = Cardinality(rest \cup {i})
      BY <1>1, <1>3
    <2> HIDE DEF rest
    <2>4. QED  BY <2>1, <2>2, <2>3
  <1>5. \A v \in Units : v # u => Remaining("grad", i, v) = Remaining("free", i, v)
    BY <1>1 DEF Remaining
  <1>6. \A v \in Units : pending'[r][v] = Cardinality(Remaining("free", i, v))
    BY <1>1, <1>2, <1>4, <1>5
  <1>7. /\ \A v \in Units : Remaining("gather", i + 1, v) = Remaining("free", i, v)
        /\ \A v \in Units : v # u =>
              (v \in InBackward(config, "gather", i + 1) <=> v \in InBackward(config, "grad", i))
        /\ (\E j \in ParamsOf(u) : j > i) => u \in InBackward(config, "gather", i + 1)
        /\ u \in InBackward(config, "grad", i)
    BY <1>1, Onward
  <1>8. CASE pending[r][u] - 1 > 0
    <2>1. l = Reached(i + 1)
      BY <1>8
    <2>2. rest # {}
      BY <1>4, <1>8, FS_EmptySet
    <2>3. PICK j \in ParamsOf(u) : j > i
      BY <1>1, <2>2 DEF Remaining
    <2>4. i + 1 \in 1 .. Len(Order) + 1
      BY <1>1, UnitsShape
    <2>5. /\ Located(config, k, l)
          /\ \A v \in Units :
                /\ v \in Gathered(config, k, l) <=> v \in InBackward(config, "gather", i + 1)
                /\ Awaited(config, k, l, v) = Cardinality(Remaining("gather", i + 1, v))
      BY <1>0, <1>1, <2>1, <2>4, Arriving
    <2>6. \A v \in Units : /\ full'[r][v] # {} <=> v \in Gathered(config, k, l)
                           /\ pending'[r][v] = Awaited(config, k, l, v)
      BY <1>1, <1>2, <1>6, <1>7, <2>3, <2>5 DEF Unsharded
    <2>7. /\ at[r] # Return /\ Located(config, k, l)
          /\ config' = config /\ step'[r] = k /\ restore'[r] = restore[r] /\ at'[r] = l
      BY <1>1, <1>2, <2>5
    <2> HIDE DEF l
    <2>8. QED  BY <2>6, <2>7, PlaceSays
  <1>9. CASE ~(pending[r][u] - 1 > 0)
    <2>1. \A j \in ParamsOf(u) : j <= i
      <3>1. rest = {}
        BY <1>3, <1>4, <1>9, FS_EmptySet
      <3>2. QED  BY <1>1, <3>1 DEF Remaining
    <2>2. PICK h \in {"reduce", "free"} :
              l = <<h, i>> /\ (h = "reduce" => Kind(r) = "backward")
      BY <1>9
    <2>3. l # Return
      BY <2>2 DEF Return
    <2>4. OnBackward(config, plan[k], h, i)
      BY <1>1, <2>1, <2>2 DEF OnBackward
    <2>5. /\ Located(config, k, l) /\ Gathered(config, k, l) = InBackward(config, h, i)
          /\ \A v \in Units : Awaited(config, k, l, v) = Cardinality(Remaining(h, i, v))
      BY <1>0, <1>1, <2>2, <2>3, <2>4, BackwardPlace
    <2>6. InBackward(config, h, i) = InBackward(config, "grad", i)
      BY <2>2 DEF InBackward
    <2>7. \A v \in Units : Remaining(h, i, v) = Remaining("free", i, v)
      BY <2>2 DEF Remaining
    <2>8. \A v \in Units : /\ full'[r][v] # {} <=> v \in Gathered(config, k, l)
                           /\ pending'[r][v] = Awaited(config, k, l, v)
      BY <1>1, <1>2, <1>6, <2>5, <2>6, <2>7 DEF Unsharded
    <2>9. /\ at[r] # Return /\ Located(config, k, l)
          /\ config' = config /\ step'[r] = k /\ restore'[r] = restore[r] /\ at'[r] = l
      BY <1>1, <1>2, <2>5
    <2> HIDE DEF l
    <2>10. QED  BY <2>8, <2>9, PlaceSays
  <1>10. QED  BY <1>8, <1>9

\* A rank in finish_gradient_sync: nothing is gathered or awaited there.
LEMMA FinishPlace ==
  ASSUME NEW k, NEW l, plan[k] = "finish", k \in DOMAIN plan,
         l = Return \/ OnFinish(l[1], l[2])
  PROVE  /\ Gathered(config, k, l) = Kept(config, k) /\ Located(config, k, l)
         /\ \A u : Awaited(config, k, l, u) = IF Open(plan, k) THEN NumParams(u) ELSE 0
  BY KeepsFlag DEF Gathered, Awaited, Located, BackwardKinds

LEMMA FlushUnits ==
  ASSUME NEW r \in Ranks, Types, UnitsInv(r), Alternates(plan), Flush(r)
  PROVE  UnitsInv(r)'
  <1> DEFINE k == step[r]
             u == Pos(r)
             l == IF \A i \in ParamsOf(u) : grad[r][i] = NoGrad
                  THEN EachUnit("flush", u + 1) ELSE <<"reduce", u>>
  <1>1. /\ at[r] # Return /\ at[r] = <<"flush", u>> /\ u \in Nat /\ k \in DOMAIN plan
        /\ plan[k] = "finish" /\ OnFinish("flush", u)
    BY Within DEF Flush, OnForward, OnBackward, OnSummon
  <1>2. /\ config' = config /\ step'[r] = step[r] /\ restore'[r] = restore[r] /\ at'[r] = l
        /\ full'[r] = full[r] /\ pending'[r] = pending[r]
    BY DEF Flush, Continue, Types, config
  <1>3. l = Return \/ OnFinish(l[1], l[2])
    <2>1. CASE l = EachUnit("flush", u + 1)
      BY <1>1, <2>1, UnitsShape DEF EachUnit, OnFinish
    <2>2. CASE l = <<"reduce", u>>
      BY <1>1, <2>2 DEF OnFinish
    <2>3. QED  BY <2>1, <2>2
  <1> HIDE DEF l
  <1>4. /\ Gathered(config, k, l) = Gathered(config, k, at[r]) /\ Located(config, k, l)
        /\ \A v : Awaited(config, k, l, v) = Awaited(config, k, at[r], v)
    <2>1. OnFinish(at[r][1], at[r][2])
      BY <1>1
    <2>2. QED  BY <1>1, <1>3, <2>1, FinishPlace
  <1>5. \A v \in Units : /\ full'[r][v] # {} <=> v \in Gathered(config, k, l)
                         /\ pending'[r][v] = Awaited(config, k, l, v)
    BY <1>2, <1>4 DEF UnitsInv, Unsharded
  <1>6. QED  BY <1>1, <1>2, <1>4, <1>5, PlaceSays

LEMMA ReduceScatterUnits ==
  ASSUME NEW r \in Ranks, Types, UnitsInv(r), Alternates(plan), NEW u \in Units, ReduceScatter(u)
  PROVE  UnitsInv(r)'
  <1> DEFINE k == step[r]
             i == Pos(r)
             l == <<"free", i>>
  <1>1. /\ At(r, "reduce") /\ at[r] # Return /\ at[r] = <<"reduce", i>> /\ k \in DOMAIN plan
        /\ Kind(r) = plan[k] /\ l # Return
        /\ Kind(r) \in BackwardKinds \/ (Kind(r) = "finish" /\ OnFinish("reduce", i))
    BY Within DEF ReduceScatter, OnForward, OnSummon, Return
  <1>2. /\ config' = config /\ step'[r] = step[r] /\ restore'[r] = restore[r] /\ at'[r] = l
        /\ full'[r] = full[r] /\ pending'[r] = pending[r]
    BY DEF ReduceScatter, config
  <1>3. /\ Located(config, k, l)
        /\ \A v \in Units : /\ v \in Gathered(config, k, l) <=> v \in Gathered(config, k, at[r])
                            /\ Awaited(config, k, l, v) = Awaited(config, k, at[r], v)
    <2>1. CASE Kind(r) \in BackwardKinds
      <3>1. i \in Params /\ \A j \in ParamsOf(Order[i]) : j <= i
        BY <1>1, <2>1, AtParam
      <3>2. OnBackward(config, plan[k], "free", i)
        BY <3>1 DEF OnBackward
      <3>3. InBackward(config, "free", i) = InBackward(config, "reduce", i)
        BY DEF InBackward
      <3>4. \A v : Remaining("free", i, v) = Remaining("reduce", i, v)
        BY DEF Remaining
      <3>5. QED  BY <1>1, <2>1, <3>2, <3>3, <3>4, BackwardPlace
    <2>2. CASE Kind(r) = "finish" /\ OnFinish("reduce", i)
      <3>1. OnFinish("free", i)
        BY <2>2 DEF OnFinish
      <3>2. OnFinish(at[r][1], at[r][2]) /\ OnFinish(l[1], l[2])
        BY <1>1, <2>2, <3>1
      <3> HIDE DEF l
      <3>3. QED  BY <1>1, <2>2, <3>2, FinishPlace
    <2>3. QED  BY <1>1, <2>1, <2>2
  <1>4. \A v \in Units : /\ full'[r][v] # {} <=> v \in Gathered(config, k, l)
                         /\ pending'[r][v] = Awaited(config, k, l, v)
    BY <1>2, <1>3 DEF UnitsInv, Unsharded
  <1>5. QED  BY <1>1, <1>2, <1>3, <1>4, PlaceSays

LEMMA FreeReducedUnits ==
  ASSUME NEW r \in Ranks, Types, UnitsInv(r), Alternates(plan), FreeReduced(r)
  PROVE  UnitsInv(r)'
  <1> DEFINE k == step[r]
             i == Pos(r)
             u == UnitAt(r)
             l == IF Kind(r) \in BackwardKinds THEN Reached(i + 1) ELSE EachUnit("flush", i + 1)
  <1>1. /\ At(r, "free") /\ at[r] # Return /\ at[r] = <<"free", i>> /\ k \in DOMAIN plan
        /\ Kind(r) = plan[k] /\ plan \in Seq(StepKinds) /\ i \in Nat /\ u \in Units
        /\ Kind(r) \in BackwardKinds \/ (Kind(r) = "finish" /\ OnFinish("free", i))
    BY Within, AtUnit DEF FreeReduced, OnForward, OnSummon
  <1>2. /\ config' = config /\ step'[r] = step[r] /\ restore'[r] = restore[r] /\ at'[r] = l
        /\ pending'[r] = pending[r] /\ Reshard(r, u, FreedAfterReduce(r, u))
    BY DEF FreeReduced, Continue, Types, config
  <1>3. FreedAfterReduce(r, u) <=> Kind(r) \in BackwardKinds \/ ~Keeps(config, u)
    BY KeepsFlag DEF FreedAfterReduce
  <1>4. \A v \in Units : full'[r][v] # {} <=>
            Unsharded(r, v) /\ ~(v = u /\ (Kind(r) \in BackwardKinds \/ ~Keeps(config, u)))
    <2>1. FreedAfterReduce(r, u) \in BOOLEAN
      BY DEF FreedAfterReduce, ReshardsAfterForward, Types
    <2>2. QED  BY <1>1, <1>2, <1>3, <2>1, ReshardLeaves
  <1> HIDE DEF l
  <1>5. /\ Located(config, k, l)
        /\ \A v \in Units : /\ full'[r][v] # {} <=> v \in Gathered(config, k, l)
                            /\ pending'[r][v] = Awaited(config, k, l, v)
    <2>1. CASE Kind(r) \in BackwardKinds
      <3>1. /\ i \in Params /\ i \in Nat \ {0} /\ ~Open(plan, k)
            /\ u = Order[i] /\ i \in ParamsOf(u) /\ \A j \in ParamsOf(u) : j <= i
            /\ \A v \in Units : v # u => i \notin ParamsOf(v)
            /\ \A v \in Units : \A j \in ParamsOf(v) : j \in Nat
            /\ \A v \in Units : /\ Unsharded(r, v) <=> v \in InBackward(config, "free", i)
                                /\ pending[r][v] = Cardinality(Remaining("free", i, v))
        BY <1>1, <2>1, AtParam
      <3>2. /\ \A v \in Units : Remaining("gather", i + 1, v) = Remaining("free", i, v)
            /\ \A v \in Units : v # u =>
                  (v \in InBackward(config, "gather", i + 1) <=> v \in InBackward(config, "free", i))
            /\ u \notin InBackward(config, "gather", i + 1)
        BY <1>1, <3>1, Onward
      <3>3. l = Reached(i + 1) /\ i + 1 \in 1 .. Len(Order) + 1
        BY <2>1, <3>1, UnitsShape DEF l
      <3>4. /\ Located(config, k, l)
            /\ \A v \in Units :
                  /\ v \in Gathered(config, k, l) <=> v \in InBackward(config, "gather", i + 1)
                  /\ Awaited(config, k, l, v) = Cardinality(Remaining("gather", i + 1, v))
        BY <1>1, <2>1, <3>1, <3>3, Arriving
      <3>5. QED  BY <1>2, <1>4, <2>1, <3>1, <3>2, <3>4
    <2>2. CASE Kind(r) = "finish" /\ OnFinish("free", i)
      <3>1. l = EachUnit("flush", i + 1)
        BY <2>2 DEF l, BackwardKinds
      <3>2. (l = Return \/ OnFinish(l[1], l[2])) /\ OnFinish(at[r][1], at[r][2])
        BY <1>1, <2>2, <3>1, UnitsShape DEF EachUnit, OnFinish
      <3>3. /\ Gathered(config, k, l) = Kept(config, k) /\ Located(config, k, l)
            /\ Gathered(config, k, at[r]) = Kept(config, k)
            /\ \A v : Awaited(config, k, l, v) = Awaited(config, k, at[r], v)
        BY <1>1, <2>2, <3>2, FinishPlace
      <3>4. \A v \in Kept(config, k) : Keeps(config, v)
        BY DEF Kept, KeptUnits
      <3>5. Kind(r) \notin BackwardKinds
        BY <2>2 DEF BackwardKinds
      <3>6. \A v \in Units : /\ Unsharded(r, v) <=> v \in Kept(config, k)
                             /\ pending'[r][v] = Awaited(config, k, at[r], v)
        BY <1>2, <3>3 DEF UnitsInv
      <3>7. QED  BY <1>4, <3>3, <3>4, <3>5, <3>6
    <2>3. QED  BY <1>1, <2>1, <2>2
  <1>6. QED  BY <1>1, <1>2, <1>5, PlaceSays

LEMMA RestoreUnits ==
  ASSUME NEW r \in Ranks, Types, UnitsInv(r), Alternates(plan), Restore(r)
  PROVE  UnitsInv(r)'
  <1> DEFINE k == step[r]
             u == Pos(r)
             l == EachUnit("restore", u + 1)
  <1>1. /\ at[r] # Return /\ at[r] = <<"restore", u>> /\ k \in DOMAIN plan
        /\ plan[k] = "summon" /\ u \in Units /\ config[1] = plan
    BY Within DEF Restore, OnForward, OnBackward, OnFinish, OnSummon
  <1>2. /\ config' = config /\ step'[r] = step[r] /\ restore'[r] = restore[r] /\ at'[r] = l
        /\ pending'[r] = pending[r] /\ Reshard(r, u, u \in restore[r])
    BY DEF Restore, Continue, Types, config
  <1>3. restore[r] = Units \ Kept(config, k)
    BY <1>1 DEF UnitsInv
  <1>4. \A v \in Units : full'[r][v] # {} <=> Unsharded(r, v) /\ ~(v = u /\ v \notin Kept(config, k))
    <2>1. full' = IF u \in restore[r] THEN [full EXCEPT ![r][u] = {}] ELSE full
      BY <1>2 DEF Reshard
    <2>2. CASE u \in restore[r]
      BY <1>1, <1>3, <2>1, <2>2 DEF Types, Unsharded
    <2>3. CASE u \notin restore[r]
      BY <1>1, <1>3, <2>1, <2>3 DEF Types, Unsharded
    <2>4. QED  BY <2>2, <2>3
  <1>5. \A v \in Units : Unsharded(r, v) <=> v \in Kept(config, k) \/ v >= u
    BY <1>1 DEF UnitsInv, Gathered, InSummon, BackwardKinds
  <1>6. Located(config, k, l)
    <2>1. l = Return \/ (l[1] = "restore" /\ l[2] \in Units)
      BY <1>1, UnitsShape DEF EachUnit
    <2>2. QED  BY <1>1, <2>1 DEF Located, OnSummon
  <1>7. \A v \in Units : v \in Gathered(config, k, l) <=> v \in Kept(config, k) \/ v > u
    <2>1. CASE u + 1 <= LastUnit
      <3>1. l = <<"restore", u + 1>> /\ l # Return
        BY <2>1 DEF EachUnit, Return
      <3>2. \A v \in Units : v >= u + 1 <=> v > u
        BY <1>1, UnitsShape
      <3>3. Gathered(config, k, l) = InSummon(Kept(config, k), "restore", u + 1)
        BY <1>1, <3>1 DEF Gathered, BackwardKinds
      <3>4. QED  BY <3>2, <3>3 DEF InSummon
    <2>2. CASE ~(u + 1 <= LastUnit)
      <3>1. l = Return
        BY <2>2 DEF EachUnit
      <3>2. \A v \in Units : ~(v > u)
        BY <1>1, <2>2, UnitsShape
      <3>3. QED  BY <3>1, <3>2 DEF Gathered
    <2>3. QED  BY <2>1, <2>2
  <1>8. \A v \in Units : v > u <=> v >= u /\ v # u
    BY <1>1, UnitsShape
  <1>9. \A v \in Units : Awaited(config, k, l, v) = Awaited(config, k, at[r], v)
    BY <1>1 DEF Awaited, BackwardKinds
  <1>10. \A v \in Units : /\ full'[r][v] # {} <=> v \in Gathered(config, k, l)
                          /\ pending'[r][v] = Awaited(config, k, l, v)
    <2>1. \A v \in Units : pending'[r][v] = Awaited(config, k, l, v)
      BY <1>2, <1>9 DEF UnitsInv
    <2>2. QED  BY <1>4, <1>5, <1>7, <1>8, <2>1
  <1> HIDE DEF l
  <1>11. QED  BY <1>1, <1>2, <1>6, <1>10, PlaceSays

-----------------------------------------------------------------------------
(* All ranks, and the types. *)

\* What a rank's own step leaves alone.
LEMMA OwnStep ==
  ASSUME Types, NEW r \in Ranks, RankStep(r)
  PROVE  /\ config' = config
         /\ \A s \in Ranks \ {r} :
               /\ step'[s] = step[s] /\ at'[s] = at[s] /\ restore'[s] = restore[s]
               /\ full'[s] = full[s] /\ pending'[s] = pending[s] /\ grad'[s] = grad[s]
               /\ shardGrad'[s] = shardGrad[s] /\ version'[s] = version[s]
  <1> USE DEF Types, config
  <1>1. CASE Forward(r) \/ Evaluate(r) \/ Backward(r) \/ FinishGradientSync(r)
    BY <1>1 DEF Forward, Evaluate, Backward, FinishGradientSync, Begin
  <1>2. CASE SummonFullParams(r) \/ OptStep(r)
    BY <1>2 DEF SummonFullParams, OptStep, Begin
  <1>3. CASE SkipGather(r) \/ Arm(r) \/ Use(r)
    BY <1>3 DEF SkipGather, Arm, Use, Continue
  <1>4. CASE GradReady(r) \/ Flush(r)
    BY <1>4 DEF GradReady, Flush, Continue
  <1>5. CASE PostForward(r) \/ FreeReduced(r) \/ Restore(r)
    BY <1>5 DEF PostForward, FreeReduced, Restore, Reshard, Continue
  <1>6. QED  BY <1>1, <1>2, <1>3, <1>4, <1>5 DEF RankStep

LEMMA UnitsNext ==
  ASSUME LocalInv, Alternates(plan), [Next]_vars
  PROVE  \A r \in Ranks : UnitsInv(r)'
  <1> USE DEF LocalInv
  <1>1. ASSUME NEW r \in Ranks, RankStep(r) PROVE UnitsInv(r)'
    BY <1>1, ForwardUnits, BackwardUnits, FinishUnits, SummonUnits, OptUnits, SkipGatherUnits,
       ArmUnits, UseUnits, PostForwardUnits, GradReadyUnits, FlushUnits, FreeReducedUnits,
       RestoreUnits
    DEF RankStep
  <1>2. ASSUME NEW r \in Ranks, RankStep(r) PROVE \A s \in Ranks : UnitsInv(s)'
    BY <1>1, <1>2, OwnStep, UnitsFrame
  <1>3. ASSUME NEW u \in Units, AllGather(u) \/ ReduceScatter(u) PROVE \A s \in Ranks : UnitsInv(s)'
    BY <1>3, AllGatherUnits, ReduceScatterUnits
  <1>4. ASSUME UNCHANGED vars PROVE \A s \in Ranks : UnitsInv(s)'
    BY <1>4, UnitsFrame DEF vars
  <1>5. QED  BY <1>2, <1>3, <1>4 DEF Next, Terminating

\* Where a rank may be sent has the type of a place.
LEMMA PlaceTypes ==
  /\ Return \in Hooks \X Nat
  /\ \A n \in Nat : \A op \in Hooks : <<op, n>> \in Hooks \X Nat /\ EachUnit(op, n) \in Hooks \X Nat
  /\ \A n \in Nat : Module(n) \in Hooks \X Nat /\ Reached(n) \in Hooks \X Nat
  /\ FirstModule \in Hooks \X Nat /\ FirstReached \in Hooks \X Nat
  <1>1. /\ Return \in Hooks \X Nat
        /\ \A n \in Nat : \A op \in Hooks : <<op, n>> \in Hooks \X Nat /\ EachUnit(op, n) \in Hooks \X Nat
    BY DEF Return, Hooks, EachUnit
  <1>2. \A n \in Nat : Module(n) \in Hooks \X Nat /\ Reached(n) \in Hooks \X Nat
    BY <1>1, UnitsShape DEF Module, Reached, Hooks
  <1>3. FirstModule \in Hooks \X Nat /\ FirstReached \in Hooks \X Nat
    BY <1>2 DEF FirstModule, FirstReached, Hooks
  <1>4. QED  BY <1>1, <1>2, <1>3

LEMMA CallerTypes ==
  ASSUME Types, NEW r \in Ranks,
         \/ Forward(r) \/ Evaluate(r) \/ Backward(r)
         \/ FinishGradientSync(r) \/ SummonFullParams(r) \/ OptStep(r)
  PROVE  Types'
  <1>1. plan \in Seq(StepKinds) /\ Len(plan) <= MaxSteps /\ Len(plan) \in Nat /\ MaxSteps \in Nat
    BY PlansAssumption DEF Types
  <1>2. ASSUME step[r] < Len(plan), step' = [step EXCEPT ![r] = @ + 1]
        PROVE  step' \in [Ranks -> 0 .. MaxSteps] /\ \A s \in Ranks : step'[s] <= Len(plan)
    BY <1>1, <1>2 DEF Types
  <1>3. ASSUME NEW kind, NEW l \in Hooks \X Nat, Begin(r, kind, l),
               restore' \in [Ranks -> SUBSET Units]
        PROVE  Types'
    <2>1. step' \in [Ranks -> 0 .. MaxSteps] /\ \A s \in Ranks : step'[s] <= Len(plan)
      BY <1>2, <1>3 DEF Begin, NextIs
    <2>2. at' \in [Ranks -> Hooks \X Nat]
      BY <1>3 DEF Begin, Types
    <2>3. QED  BY <1>3, <2>1, <2>2 DEF Begin, Types, config
  <1>4. CASE Forward(r) \/ Evaluate(r) \/ Backward(r)
    BY <1>3, <1>4, PlaceTypes DEF Forward, Evaluate, Backward, Types
  <1>5. CASE FinishGradientSync(r)
    <2>1. (IF Cardinality(Ranks) = 1 THEN Return ELSE EachUnit("flush", 1)) \in Hooks \X Nat
      BY PlaceTypes DEF Hooks
    <2>2. QED  BY <1>3, <1>5, <2>1 DEF FinishGradientSync, Types
  <1>6. CASE SummonFullParams(r)
    <2>1. EachUnit("gather", 1) \in Hooks \X Nat
      BY PlaceTypes DEF Hooks
    <2>2. restore' \in [Ranks -> SUBSET Units]
      BY <1>6 DEF SummonFullParams, Restored, Types
    <2>3. QED  BY <1>3, <1>6, <2>1, <2>2 DEF SummonFullParams
  <1>7. CASE OptStep(r)
    <2>1. step' \in [Ranks -> 0 .. MaxSteps] /\ \A s \in Ranks : step'[s] <= Len(plan)
      BY <1>2, <1>7 DEF OptStep, NextIs
    <2>2. version' \in [Ranks -> Nat]
      BY <1>7 DEF OptStep, Types
    <2>3. shardGrad' \in [Ranks -> [Params -> [Ranks -> [Steps -> Nat]]]]
      BY <1>7 DEF OptStep, Types, NoShardGrad, NoGrad
    <2>4. QED  BY <1>7, <2>1, <2>2, <2>3 DEF OptStep, Types, config
  <1>8. QED  BY <1>4, <1>5, <1>6, <1>7

\* A step of a hook changes at most what is gathered or awaited, and moves on.
LEMMA MoveTypes ==
  ASSUME Types, NEW r \in Ranks, NEW l \in Hooks \X Nat, Continue(r, l),
         config' = config, step' = step, restore' = restore, shardGrad' = shardGrad,
         version' = version, full' \in [Ranks -> [Units -> SUBSET Nat]],
         pending' \in [Ranks -> [Units -> Int]], grad' \in [Ranks -> [Params -> [Steps -> Nat]]]
  PROVE  Types'
  <1>1. at' \in [Ranks -> Hooks \X Nat]
    BY DEF Types, Continue
  <1>2. plan' = plan /\ reshardBlocks' = reshardBlocks /\ reshardRoot' = reshardRoot
    BY DEF config
  <1>3. QED  BY <1>1, <1>2 DEF Types

LEMMA AfterGatherType ==
  ASSUME Types, NEW r \in Ranks
  PROVE  AfterGather(r) \in Hooks \X Nat
  <1>1. Pos(r) \in Nat /\ 1 \in Nat /\ Pos(r) + 1 \in Nat
    BY DEF Types, Pos
  <1>2. {"gather", "use", "grad", "arm"} \subseteq Hooks
    BY DEF Hooks
  <1>3. QED  BY <1>1, <1>2, PlaceTypes DEF AfterGather

LEMMA ReshardType ==
  ASSUME Types, NEW r \in Ranks, NEW u, NEW condition, Reshard(r, u, condition)
  PROVE  full' \in [Ranks -> [Units -> SUBSET Nat]]
  BY DEF Types, Reshard

LEMMA HookTypes ==
  ASSUME Types, NEW r \in Ranks, UnitsInv(r),
         \/ SkipGather(r) \/ Arm(r) \/ Use(r) \/ PostForward(r)
         \/ GradReady(r) \/ Flush(r) \/ FreeReduced(r) \/ Restore(r)
  PROVE  Types'
  <1>1. Pos(r) \in Nat /\ Pos(r) + 1 \in Nat /\ 1 \in Nat
    BY DEF Types, Pos
  <1>2. {"use", "restore", "post", "reduce", "free", "flush"} \subseteq Hooks
    BY DEF Hooks
  <1>3. /\ full \in [Ranks -> [Units -> SUBSET Nat]] /\ pending \in [Ranks -> [Units -> Int]]
        /\ grad \in [Ranks -> [Params -> [Steps -> Nat]]]
    BY DEF Types
  <1>4. CASE SkipGather(r)
    BY <1>3, <1>4, AfterGatherType, MoveTypes DEF SkipGather
  <1>5. CASE Arm(r)
    <2>1. UnitAt(r) \in Units
      BY <1>5, AtUnit DEF Arm
    <2>2. Armed(UnitAt(r)) \in Int
      BY <2>1, UnitParams DEF Armed
    <2>3. pending' \in [Ranks -> [Units -> Int]]
      BY <1>3, <1>5, <2>2 DEF Arm
    <2>4. <<"use", Pos(r)>> \in Hooks \X Nat
      BY <1>1, <1>2
    <2>5. QED  BY <1>3, <1>5, <2>3, <2>4, MoveTypes DEF Arm
  <1>6. CASE Use(r)
    <2>1. (IF Kind(r) = "summon"
           THEN IF Pos(r) < LastUnit THEN <<"use", Pos(r) + 1>> ELSE <<"restore", 1>>
           ELSE IF Pos(r) = 0 THEN Module(1) ELSE <<"post", Pos(r)>>) \in Hooks \X Nat
      BY <1>1, <1>2, PlaceTypes
    <2>2. QED  BY <1>3, <1>6, <2>1, MoveTypes DEF Use
  <1>7. CASE PostForward(r)
    <2>1. (IF Pos(r) = Root THEN Return ELSE Module(Pos(r) + 1)) \in Hooks \X Nat
      BY <1>1, PlaceTypes
    <2>2. full' \in [Ranks -> [Units -> SUBSET Nat]]
      BY <1>7, ReshardType DEF PostForward
    <2>3. QED  BY <1>3, <1>7, <2>1, <2>2, MoveTypes DEF PostForward
  <1>8. CASE GradReady(r)
    <2>1. Kind(r) \in BackwardKinds /\ Pos(r) \in Params /\ UnitAt(r) \in Units
      BY <1>8, Within, AtUnit DEF GradReady, OnForward, OnBackward, OnFinish, OnSummon
    <2>2. pending[r][UnitAt(r)] - 1 \in Int
      BY <1>3, <2>1
    <2>3. pending' \in [Ranks -> [Units -> Int]]
      BY <1>3, <1>8, <2>2 DEF GradReady
    <2>4. grad[r][Pos(r)] \in [Steps -> Nat]
      BY <1>3, <2>1
    <2>5. [grad[r][Pos(r)] EXCEPT ![step[r]] = @ + 1] \in [Steps -> Nat]
      <3>1. step[r] \in DOMAIN plan /\ plan \in Seq(StepKinds)
        BY <1>8, Within DEF GradReady
      <3>2. step[r] \in Steps
        BY <3>1, PlansAssumption DEF Steps, Types
      <3>3. QED  BY <2>4, <3>2
    <2>6. grad' \in [Ranks -> [Params -> [Steps -> Nat]]]
      BY <1>3, <1>8, <2>5 DEF GradReady
    <2>7. (IF pending[r][UnitAt(r)] - 1 > 0 THEN Reached(Pos(r) + 1)
           ELSE IF Kind(r) = "backward" THEN <<"reduce", Pos(r)>> ELSE <<"free", Pos(r)>>)
              \in Hooks \X Nat
      BY <1>1, <1>2, PlaceTypes
    <2>8. QED  BY <1>3, <1>8, <2>3, <2>6, <2>7, MoveTypes DEF GradReady
  <1>9. CASE Flush(r)
    <2>1. (IF \A i \in ParamsOf(Pos(r)) : grad[r][i] = NoGrad
           THEN EachUnit("flush", Pos(r) + 1) ELSE <<"reduce", Pos(r)>>) \in Hooks \X Nat
      BY <1>1, <1>2, PlaceTypes
    <2>2. QED  BY <1>3, <1>9, <2>1, MoveTypes DEF Flush
  <1>10. CASE FreeReduced(r)
    <2>1. (IF Kind(r) \in BackwardKinds THEN Reached(Pos(r) + 1)
           ELSE EachUnit("flush", Pos(r) + 1)) \in Hooks \X Nat
      BY <1>1, <1>2, PlaceTypes
    <2>2. full' \in [Ranks -> [Units -> SUBSET Nat]]
      BY <1>10, ReshardType DEF FreeReduced
    <2>3. QED  BY <1>3, <1>10, <2>1, <2>2, MoveTypes DEF FreeReduced
  <1>11. CASE Restore(r)
    <2>1. EachUnit("restore", Pos(r) + 1) \in Hooks \X Nat
      BY <1>1, <1>2, PlaceTypes
    <2>2. full' \in [Ranks -> [Units -> SUBSET Nat]]
      BY <1>11, ReshardType DEF Restore
    <2>3. QED  BY <1>3, <1>11, <2>1, <2>2, MoveTypes DEF Restore
  <1>12. QED  BY <1>4, <1>5, <1>6, <1>7, <1>8, <1>9, <1>10, <1>11

LEMMA CollectiveTypes ==
  ASSUME Types, NEW u \in Units, AllGather(u) \/ ReduceScatter(u)
  PROVE  Types'
  <1>1. CASE AllGather(u)
    <2>1. at' \in [Ranks -> Hooks \X Nat]
      BY <1>1, AfterGatherType DEF AllGather
    <2>2. {version[s] : s \in Ranks} \subseteq Nat
      BY DEF Types
    <2>3. full' \in [Ranks -> [Units -> SUBSET Nat]]
      BY <1>1, <2>2 DEF AllGather, Types
    <2>4. QED  BY <1>1, <2>1, <2>3 DEF AllGather, Types, config
  <1>2. CASE ReduceScatter(u)
    <2>1. \A r \in Ranks : Pos(r) \in Nat
      BY DEF Types, Pos
    <2>2. at' \in [Ranks -> Hooks \X Nat]
      BY <1>2, <2>1 DEF ReduceScatter, Hooks
    <2>3. \A r \in Ranks : Left(r, u) \in [Params -> [Steps -> Nat]]
      BY DEF Left, NoGrad, Types
    <2>4. \A r \in Ranks : Added(r, u) \in [Params -> [Ranks -> [Steps -> Nat]]]
      <3>1. ASSUME NEW r \in Ranks, NEW s \in Ranks, NEW i \in Params, NEW k \in Steps
            PROVE  shardGrad[r][i][s][k] + grad[s][i][k] \in Nat
        <4>1. grad[s] \in [Params -> [Steps -> Nat]]
              /\ shardGrad[r] \in [Params -> [Ranks -> [Steps -> Nat]]]
          BY DEF Types
        <4>2. grad[s][i] \in [Steps -> Nat] /\ shardGrad[r][i] \in [Ranks -> [Steps -> Nat]]
          BY <4>1
        <4>3. grad[s][i][k] \in Nat /\ shardGrad[r][i][s][k] \in Nat
          BY <4>2
        <4>4. QED  BY <4>3
      <3>2. \A r \in Ranks : \A i \in Params : shardGrad[r][i] \in [Ranks -> [Steps -> Nat]]
        BY DEF Types
      <3>3. QED  BY <3>1, <3>2 DEF Added
    <2>5. QED  BY <1>2, <2>2, <2>3, <2>4 DEF ReduceScatter, Types, config
  <1>3. QED  BY <1>1, <1>2

LEMMA LocalInit ==
  ASSUME Init
  PROVE  LocalInv
  <1>1. Types
    <2>1. 0 \in 0 .. MaxSteps /\ plan \in Seq(StepKinds)
      BY PlansAssumption DEF Init
    <2>2. grad \in [Ranks -> [Params -> [Steps -> Nat]]]
          /\ shardGrad \in [Ranks -> [Params -> [Ranks -> [Steps -> Nat]]]]
      BY DEF Init, NoShardGrad, NoGrad
    <2>3. /\ step \in [Ranks -> 0 .. MaxSteps] /\ \A r \in Ranks : step[r] <= Len(plan)
          /\ at \in [Ranks -> Hooks \X Nat] /\ restore \in [Ranks -> SUBSET Units]
      BY <2>1, PlaceTypes DEF Init
    <2>4. /\ full \in [Ranks -> [Units -> SUBSET Nat]] /\ pending \in [Ranks -> [Units -> Int]]
          /\ version \in [Ranks -> Nat]
      BY DEF Init
    <2>5. QED  BY <2>2, <2>3, <2>4 DEF Init, Types
  <1>2. ASSUME NEW r \in Ranks PROVE UnitsInv(r)
    <2>1. step[r] = 0 /\ at[r] = Return
          /\ \A u \in Units : ~Unsharded(r, u) /\ pending[r][u] = 0
      BY DEF Init, Unsharded
    <2>2. ~Open(plan, 0)
      BY DEF Open
    <2>3. QED  BY <2>1, <2>2, KeepsFlag DEF UnitsInv, Located, Gathered, Awaited, Kept
  <1>3. QED  BY <1>1, <1>2 DEF LocalInv

LEMMA LocalNext ==
  ASSUME LocalInv, Alternates(plan), [Next]_vars
  PROVE  LocalInv'
  <1>1. Types'
    <2>1. CASE \E r \in Ranks : RankStep(r)
      BY <2>1, CallerTypes, HookTypes DEF RankStep, LocalInv
    <2>2. CASE \E u \in Units : AllGather(u) \/ ReduceScatter(u)
      BY <2>2, CollectiveTypes DEF LocalInv
    <2>3. CASE UNCHANGED vars
      BY <2>3 DEF vars, config, LocalInv, Types
    <2>4. QED  BY <2>1, <2>2, <2>3 DEF Next, Terminating
  <1>2. QED  BY <1>1, UnitsNext DEF LocalInv

-----------------------------------------------------------------------------
(* What follows from a rank's place. *)

\* The plans are such that forwards and backwards alternate.
Alternating == \A p \in Plans : Alternates(p)

LEMMA LocalAlways == Alternating => (Spec => []LocalInv)
  <1>1. SUFFICES ASSUME Alternating PROVE Spec => []LocalInv
    OBVIOUS
  <1>2. LocalInv => Alternates(plan)
    BY <1>1 DEF Alternating, LocalInv, Types
  <1>3. Init => LocalInv
    BY LocalInit
  <1>4. LocalInv /\ [Next]_vars => LocalInv'
    BY <1>2, LocalNext
  <1>5. QED  BY <1>3, <1>4, PTL DEF Spec

\* Every variable keeps its type, and a unit never awaits fewer gradients
\* than none or more than it has parameters.
THEOREM FsdpTypes == Alternating => (Spec => []TypeOK)
  <1>1. LocalInv => TypeOK
    <2>1. SUFFICES ASSUME LocalInv PROVE TypeOK
      OBVIOUS
    <2>2. ASSUME NEW r \in Ranks, NEW u \in Units
          PROVE  pending[r][u] \in Nat /\ pending[r][u] <= NumParams(u)
      <3>1. pending[r][u] = Awaited(config, step[r], at[r], u)
        BY <2>1 DEF LocalInv, UnitsInv
      <3>2. QED  BY <3>1, AwaitedBounds, UnitParams
    <2>3. pending \in [Ranks -> [Units -> Nat]]
      BY <2>1, <2>2 DEF LocalInv, Types
    <2>4. QED  BY <2>1, <2>2, <2>3 DEF LocalInv, Types, TypeOK
  <1>2. QED  BY <1>1, LocalAlways, PTL

\* Between steps with no forward awaiting its backward nothing is gathered.
THEOREM AllFreed == Alternating => (Spec => []FreedBetweenPasses)
  <1>1. LocalInv => FreedBetweenPasses
    BY KeepsFlag DEF LocalInv, UnitsInv, Gathered, Kept, FreedBetweenPasses, Idle
  <1>2. QED  BY <1>1, LocalAlways, PTL

\* With reshard_after_forward no two blocks are gathered at once, outside
\* summon_full_params.
THEOREM OneBlock == Alternating => (Spec => []OneBlockGathered)
  <1>1. LocalInv => OneBlockGathered
    <2>1. SUFFICES ASSUME LocalInv, NEW r \in Ranks, reshardBlocks, step[r] > 0,
                          plan[step[r]] # "summon",
                          NEW b \in Blocks, NEW d \in Blocks, Unsharded(r, b), Unsharded(r, d)
                   PROVE  b = d
      BY DEF OneBlockGathered
    <2> DEFINE k == step[r]
               h == at[r][1]
               n == at[r][2]
    <2>2. b \in Units /\ d \in Units /\ b # Root /\ d # Root
      BY <2>1, UnitsShape
    <2>3. \A u \in {b, d} : u \in Gathered(config, k, at[r]) /\ u \notin KeptUnits(config)
                             /\ ~Keeps(config, u)
      BY <2>1, <2>2, KeepsFlag DEF LocalInv, UnitsInv, KeptUnits, ReshardsAfterForward
    <2>4. at[r] # Return /\ plan[k] # "finish" /\ Located(config, k, at[r])
      BY <2>1, <2>3, KeepsFlag DEF Gathered, Kept, LocalInv, UnitsInv, BackwardKinds
    <2>5. CASE plan[k] \in {"forward", "eval"}
      <3>1. \E kept \in {KeptUnits(config), {}} : {b, d} \subseteq InForward(kept, h, n)
        BY <2>3, <2>4, <2>5, KeepsFlag DEF Gathered
      <3>2. b = n /\ d = n
        BY <2>2, <2>3, <3>1 DEF InForward
      <3>3. QED  BY <3>2
    <2>6. CASE plan[k] \in BackwardKinds
      <3>1. {b, d} \subseteq InBackward(config, h, n)
        BY <2>3, <2>4, <2>6, KeepsFlag DEF Gathered, BackwardKinds
      <3>2. n \in Nat /\ \A u \in Units : \A j \in ParamsOf(u) : j \in Nat /\ j \in Params /\ Order[j] = u
        <4>1. n \in Nat
          BY <2>1 DEF LocalInv, Types
        <4>2. QED  BY <4>1, UnitParams, UnitsShape DEF ParamsOf
      <3>3. PICK b1 \in ParamsOf(b) : b1 <= n
        BY <2>2, <2>3, <3>1, <3>2 DEF InBackward
      <3>4. PICK b2 \in ParamsOf(b) : b2 >= n
        BY <3>1 DEF InBackward
      <3>5. PICK d1 \in ParamsOf(d) : d1 <= n
        BY <2>2, <2>3, <3>1, <3>2 DEF InBackward
      <3>6. PICK d2 \in ParamsOf(d) : d2 >= n
        BY <3>1 DEF InBackward
      <3>7. d <= b
        <4>1. b1 < d2 \/ b1 = d2
          BY <2>2, <3>2, <3>3, <3>6
        <4>2. b1 \in Params /\ d2 \in Params /\ Order[b1] = b /\ Order[d2] = d
          BY <2>2, <3>2
        <4>3. CASE b1 < d2
          BY <4>2, <4>3, UnitsAssumption
        <4>4. CASE b1 = d2
          BY <2>2, <4>2, <4>4, UnitsShape
        <4>5. QED  BY <4>1, <4>3, <4>4
      <3>8. b <= d
        <4>1. d1 < b2 \/ d1 = b2
          BY <2>2, <3>2, <3>4, <3>5
        <4>2. d1 \in Params /\ b2 \in Params /\ Order[d1] = d /\ Order[b2] = b
          BY <2>2, <3>2
        <4>3. CASE d1 < b2
          BY <4>2, <4>3, UnitsAssumption
        <4>4. CASE d1 = b2
          BY <2>2, <4>2, <4>4, UnitsShape
        <4>5. QED  BY <4>1, <4>3, <4>4
      <3>9. QED  BY <2>2, <3>7, <3>8, UnitsShape
    <2>7. QED  BY <2>1, <2>4, <2>5, <2>6, KeepsFlag DEF Located
  <1>2. QED  BY <1>1, LocalAlways, PTL

-----------------------------------------------------------------------------
(* The gradients at each place. *)

\* The passes a rank has accumulated under no_sync and not reduced.
ReducingKinds == {"backward", "finish"}
Accumulated(p, k) ==
    {j \in 1 .. k : p[j] = "no_sync" /\ \A i \in j + 1 .. k : p[i] \notin ReducingKinds}

\* The passes since the last optimizer step.
Since(p, k) == {j \in 1 .. k : p[j] \in BackwardKinds /\ \A i \in j .. k : p[i] # "opt"}

\* The parameter's gradient has been computed in the backward under way, and
\* it has been reduced in the step under way.
Received(l, m) == m < l[2] \/ (m = l[2] /\ l[1] \in {"reduce", "free"})

Reduced(c, k, l, m) ==
    IF c[1][k] = "finish" THEN Order[m] < l[2] \/ (Order[m] = l[2] /\ l[1] = "free")
    ELSE /\ c[1][k] = "backward"
         /\ \A j \in ParamsOf(Order[m]) : j < l[2] \/ (j = l[2] /\ l[1] = "free")

\* The passes in a parameter's gradient and those in its shard.
Gradless(c, k, l) == l = Return \/ c[1][k] \notin {"backward", "no_sync", "finish"}

InGrad(c, k, l, m) ==
    IF Gradless(c, k, l) THEN Accumulated(c[1], k)
    ELSE IF Reduced(c, k, l, m) THEN {}
    ELSE Accumulated(c[1], k - 1)
         \cup (IF c[1][k] # "finish" /\ Received(l, m) THEN {k} ELSE {})

InShard(c, k, l, m) ==
    IF Gradless(c, k, l) THEN Since(c[1], k) \ Accumulated(c[1], k)
    ELSE IF Reduced(c, k, l, m) THEN Since(c[1], k)
    ELSE Since(c[1], k - 1) \ Accumulated(c[1], k - 1)

Count(passes) == [j \in Steps |-> IF j \in passes THEN 1 ELSE 0]

GradInv(r) == \A m \in Params : grad[r][m] = Count(InGrad(config, step[r], at[r], m))

ShardInv(r) ==
    \A s \in Ranks : \A m \in Params :
        shardGrad[r][m][s] = Count(InShard(config, step[r], at[r], m))

\* How a step of the plan changes what is accumulated.
LEMMA PassesStep ==
  ASSUME NEW p \in Seq(StepKinds), NEW k \in Nat, k + 1 \in DOMAIN p
  PROVE  /\ Accumulated(p, k) \subseteq 1 .. k /\ Since(p, k) \subseteq 1 .. k
         /\ p[k + 1] \in ReducingKinds => Accumulated(p, k + 1) = {}
         /\ p[k + 1] = "no_sync" => Accumulated(p, k + 1) = Accumulated(p, k) \cup {k + 1}
         /\ p[k + 1] \notin ReducingKinds \cup {"no_sync"} => Accumulated(p, k + 1) = Accumulated(p, k)
         /\ p[k + 1] \in BackwardKinds => Since(p, k + 1) = Since(p, k) \cup {k + 1}
         /\ p[k + 1] = "opt" => Since(p, k + 1) = {}
         /\ p[k + 1] \notin BackwardKinds \cup {"opt"} => Since(p, k + 1) = Since(p, k)
  <1>1. Accumulated(p, k) \subseteq 1 .. k /\ Since(p, k) \subseteq 1 .. k
    BY DEF Accumulated, Since
  <1>2. ASSUME p[k + 1] \in ReducingKinds PROVE Accumulated(p, k + 1) = {}
    <2>1. p[k + 1] # "no_sync"
      BY <1>2 DEF ReducingKinds
    <2>2. \A j \in 1 .. k + 1 : j # k + 1 => k + 1 \in j + 1 .. k + 1
      OBVIOUS
    <2>3. QED  BY <1>2, <2>1, <2>2 DEF Accumulated
  <1>3. ASSUME p[k + 1] \notin ReducingKinds, NEW j \in 1 .. k
        PROVE  j \in Accumulated(p, k + 1) <=> j \in Accumulated(p, k)
    <2>1. j + 1 .. k + 1 = (j + 1 .. k) \cup {k + 1} /\ j \in 1 .. k + 1
      OBVIOUS
    <2>2. QED  BY <1>3, <2>1 DEF Accumulated
  <1>4. k + 1 \in Accumulated(p, k + 1) <=> p[k + 1] = "no_sync"
    BY DEF Accumulated
  <1>5. Accumulated(p, k + 1) \subseteq 1 .. k + 1 /\ Since(p, k + 1) \subseteq 1 .. k + 1
    BY DEF Accumulated, Since
  <1>6. 1 .. k + 1 = (1 .. k) \cup {k + 1}
    OBVIOUS
  <1>7. ASSUME p[k + 1] # "opt", NEW j \in 1 .. k
        PROVE  j \in Since(p, k + 1) <=> j \in Since(p, k)
    <2>1. j .. k + 1 = (j .. k) \cup {k + 1} /\ j \in 1 .. k + 1
      OBVIOUS
    <2>2. QED  BY <1>7, <2>1 DEF Since
  <1>8. p[k + 1] # "opt" => (k + 1 \in Since(p, k + 1) <=> p[k + 1] \in BackwardKinds)
    BY DEF Since
  <1>9. p[k + 1] = "opt" => Since(p, k + 1) = {}
    <2>1. \A j \in 1 .. k + 1 : k + 1 \in j .. k + 1
      OBVIOUS
    <2>2. QED  BY <2>1 DEF Since
  <1>10. p[k + 1] = "no_sync" => p[k + 1] \notin ReducingKinds
    BY DEF ReducingKinds
  <1>11. p[k + 1] \in BackwardKinds => p[k + 1] # "opt"
    BY DEF BackwardKinds
  <1>12. p[k + 1] = "no_sync" => Accumulated(p, k + 1) = Accumulated(p, k) \cup {k + 1}
    BY <1>1, <1>3, <1>4, <1>5, <1>6, <1>10
  <1>13. p[k + 1] \notin ReducingKinds \cup {"no_sync"} => Accumulated(p, k + 1) = Accumulated(p, k)
    BY <1>1, <1>3, <1>4, <1>5, <1>6
  <1>14. p[k + 1] \in BackwardKinds => Since(p, k + 1) = Since(p, k) \cup {k + 1}
    BY <1>1, <1>5, <1>6, <1>7, <1>8, <1>11
  <1>15. p[k + 1] \notin BackwardKinds \cup {"opt"} => Since(p, k + 1) = Since(p, k)
    BY <1>1, <1>5, <1>6, <1>7, <1>8
  <1>16. QED  BY <1>1, <1>2, <1>9, <1>12, <1>13, <1>14, <1>15

\* Two places say the same of gradients and shards.
SameGrads(k1, l1, k2, l2) ==
    \A m \in Params : /\ InGrad(config, k2, l2, m) = InGrad(config, k1, l1, m)
                      /\ InShard(config, k2, l2, m) = InShard(config, k1, l1, m)

LEMMA GradKept ==
  ASSUME NEW r \in Ranks, GradInv(r), config' = config, grad'[r] = grad[r],
         SameGrads(step[r], at[r], step'[r], at'[r])
  PROVE  GradInv(r)'
  BY DEF GradInv, SameGrads

LEMMA ShardKept ==
  ASSUME NEW r \in Ranks, ShardInv(r), config' = config, shardGrad'[r] = shardGrad[r],
         SameGrads(step[r], at[r], step'[r], at'[r])
  PROVE  ShardInv(r)'
  BY DEF ShardInv, SameGrads

LEMMA OnStanding ==
  ASSUME NEW k, NEW l1, NEW l2, l1 # Return, l2 # Return,
         \/ plan[k] \notin {"backward", "no_sync", "finish"}
         \/ \A m \in Params : /\ Reduced(config, k, l1, m) <=> Reduced(config, k, l2, m)
                              /\ plan[k] # "finish" => (Received(l1, m) <=> Received(l2, m))
  PROVE  SameGrads(k, l1, k, l2)
  BY KeepsFlag DEF SameGrads, InGrad, InShard, Gradless

LEMMA BeginStanding ==
  ASSUME NEW k \in Nat, k + 1 \in DOMAIN plan, plan \in Seq(StepKinds), plan[k + 1] # "opt", NEW l,
         \/ plan[k + 1] \notin {"backward", "no_sync", "finish"}
         \/ /\ l # Return
            /\ \A m \in Params : /\ ~Reduced(config, k + 1, l, m)
                                 /\ plan[k + 1] # "finish" => ~Received(l, m)
  PROVE  SameGrads(k, Return, k + 1, l)
  <1>1. (k + 1) - 1 = k
    OBVIOUS
  <1>2. CASE plan[k + 1] \notin {"backward", "no_sync", "finish"}
    <2>1. Accumulated(plan, k + 1) = Accumulated(plan, k) /\ Since(plan, k + 1) = Since(plan, k)
      BY <1>2, PassesStep DEF ReducingKinds, BackwardKinds
    <2>2. QED  BY <1>2, <2>1, KeepsFlag DEF SameGrads, InGrad, InShard, Gradless
  <1>3. CASE /\ plan[k + 1] \in {"backward", "no_sync", "finish"} /\ l # Return
             /\ \A m \in Params : /\ ~Reduced(config, k + 1, l, m)
                                  /\ plan[k + 1] # "finish" => ~Received(l, m)
    BY <1>1, <1>3, KeepsFlag DEF SameGrads, InGrad, InShard, Gradless
  <1>4. QED  BY <1>2, <1>3

LEMMA EndStanding ==
  ASSUME NEW k \in Nat, k \in DOMAIN plan, plan \in Seq(StepKinds), NEW l, l # Return,
         \A m \in Params : \/ Gradless(config, k, l)
                           \/ plan[k] \in ReducingKinds /\ Reduced(config, k, l, m)
                           \/ plan[k] = "finish" /\ Accumulated(plan, k - 1) = {}
                           \/ plan[k] = "no_sync" /\ Received(l, m)
  PROVE  SameGrads(k, l, k, Return)
  <1>1. k - 1 \in Nat /\ (k - 1) + 1 = k
    OBVIOUS
  <1>2. Accumulated(plan, k - 1) \subseteq 1 .. k - 1 /\ Since(plan, k - 1) \subseteq 1 .. k - 1
    BY <1>1, PassesStep
  <1>3. ASSUME NEW m \in Params, Gradless(config, k, l)
        PROVE  /\ InGrad(config, k, Return, m) = InGrad(config, k, l, m)
               /\ InShard(config, k, Return, m) = InShard(config, k, l, m)
    BY <1>3 DEF InGrad, InShard, Gradless
  <1>4. ASSUME NEW m \in Params, ~Gradless(config, k, l), plan[k] \in ReducingKinds, Reduced(config, k, l, m)
        PROVE  /\ InGrad(config, k, Return, m) = InGrad(config, k, l, m)
               /\ InShard(config, k, Return, m) = InShard(config, k, l, m)
    <2>1. Accumulated(plan, k) = {}
      BY <1>1, <1>4, PassesStep
    <2>2. QED  BY <1>4, <2>1, KeepsFlag DEF InGrad, InShard, Gradless
  <1>5. ASSUME NEW m \in Params, plan[k] = "finish", ~Gradless(config, k, l),
               Accumulated(plan, k - 1) = {}
        PROVE  /\ InGrad(config, k, Return, m) = InGrad(config, k, l, m)
               /\ InShard(config, k, Return, m) = InShard(config, k, l, m)
    <2>1. Accumulated(plan, k) = {} /\ Since(plan, k) = Since(plan, k - 1)
      BY <1>1, <1>5, PassesStep DEF ReducingKinds, BackwardKinds
    <2>2. QED  BY <1>5, <2>1, KeepsFlag DEF InGrad, InShard, Gradless
  <1>6. ASSUME NEW m \in Params, ~Gradless(config, k, l), plan[k] = "no_sync", Received(l, m)
        PROVE  /\ InGrad(config, k, Return, m) = InGrad(config, k, l, m)
               /\ InShard(config, k, Return, m) = InShard(config, k, l, m)
    <2>1. /\ Accumulated(plan, k) = Accumulated(plan, k - 1) \cup {k}
          /\ Since(plan, k) = Since(plan, k - 1) \cup {k}
      BY <1>1, <1>6, PassesStep DEF BackwardKinds
    <2>2. ~Reduced(config, k, l, m)
      BY <1>6, KeepsFlag DEF Reduced
    <2>3. k \notin Since(plan, k - 1)
      BY <1>2
    <2>4. Since(plan, k) \ Accumulated(plan, k) = Since(plan, k - 1) \ Accumulated(plan, k - 1)
      BY <2>1, <2>3
    <2>5. QED  BY <1>6, <2>1, <2>2, <2>4, KeepsFlag DEF InGrad, InShard, Gradless
  <1>7. QED  BY <1>3, <1>4, <1>5, <1>6 DEF SameGrads

\* Where a backward arrives, exactly what comes before has been received.
LEMMA ArrivingStanding ==
  ASSUME NEW k \in Nat, k \in DOMAIN plan, plan \in Seq(StepKinds), plan[k] \in BackwardKinds,
         NEW l, l # Return, NEW i \in 1 .. Len(Order) + 1,
         \A m \in Params : /\ Received(l, m) <=> m < i
                           /\ Reduced(config, k, l, m) <=>
                                  plan[k] = "backward" /\ \A j \in ParamsOf(Order[m]) : j < i
  PROVE  SameGrads(k, l, k, Reached(i))
  <1>1. CASE i = Len(Order) + 1
    <2>1. Reached(i) = Return
      BY <1>1, UnitsShape DEF Reached
    <2>2. \A m \in Params : m < i /\ \A j \in ParamsOf(Order[m]) : j < i
      <3>1. \A m \in Params : m < i
        BY <1>1, UnitsShape
      <3>2. \A m \in Params : ParamsOf(Order[m]) \subseteq Params
        BY DEF ParamsOf
      <3>3. QED  BY <3>1, <3>2
    <2>3. QED  BY <2>1, <2>2, EndStanding DEF BackwardKinds, ReducingKinds
  <1>2. CASE i \in Params
    <2>1. Reached(i) \in {<<"gather", i>>, <<"grad", i>>}
      BY <1>2, UnitsShape DEF Reached
    <2>2. PICK h \in {"gather", "grad"} : Reached(i) = <<h, i>>
      BY <2>1
    <2>3. <<h, i>> # Return
      BY DEF Return
    <2>4. \A m : Received(<<h, i>>, m) <=> m < i
      BY <2>2 DEF Received
    <2>5. \A m : Reduced(config, k, <<h, i>>, m) <=>
                     plan[k] = "backward" /\ \A j \in ParamsOf(Order[m]) : j < i
      BY <2>2, KeepsFlag DEF Reduced, BackwardKinds
    <2>6. QED  BY <2>2, <2>3, <2>4, <2>5, OnStanding
  <1>3. QED  BY <1>1, <1>2, UnitsShape

LEMMA CallerStanding ==
  ASSUME NEW r \in Ranks, Types, UnitsInv(r), Alternates(plan), Cardinality(Ranks) # 1,
         \/ Forward(r) \/ Evaluate(r) \/ Backward(r)
         \/ FinishGradientSync(r) \/ SummonFullParams(r)
  PROVE  SameGrads(step[r], at[r], step'[r], at'[r])
  <1> DEFINE k == step[r]
             kind == plan[k + 1]
             l == at'[r]
  <1>1. /\ NextIs(r, kind) /\ step'[r] = k + 1 /\ at[r] = Return
        /\ \/ kind \in {"forward", "eval", "summon"}
           \/ kind \in BackwardKinds /\ l = FirstReached
           \/ kind = "finish" /\ l = EachUnit("flush", 1)
    BY DEF Types, Forward, Evaluate, Backward, FinishGradientSync, SummonFullParams, Begin, NextIs,
           Idle
  <1>2. plan \in Seq(StepKinds) /\ k \in Nat /\ k + 1 \in DOMAIN plan
    BY <1>1, Beginning
  <1>3. CASE kind \in {"forward", "eval", "summon"}
    BY <1>1, <1>2, <1>3, BeginStanding
  <1>4. CASE kind \in BackwardKinds /\ l = FirstReached
    <2>1. PICK h \in {"gather", "grad"}, n \in {0, 1} : l = <<h, n>>
      BY <1>4, UnitsShape DEF FirstReached, Reached
    <2>2. l # Return
      BY <2>1 DEF Return
    <2>3. \A m \in Params : m \in Nat \ {0} /\ Order[m] \in Units
      BY UnitsShape
    <2>4. \A m \in Params : m \in ParamsOf(Order[m]) /\ ~(m < n)
      BY <2>1, <2>3 DEF ParamsOf
    <2>5. \A m \in Params : ~Received(l, m)
      BY <2>1, <2>4 DEF Received
    <2>6. kind # "finish"
      BY <1>4 DEF BackwardKinds
    <2>7. l[1] # "free" /\ l[2] = n
      BY <2>1
    <2>8. \A m \in Params : ~Reduced(config, k + 1, l, m)
      BY <2>4, <2>6, <2>7, KeepsFlag DEF Reduced
    <2>9. kind # "opt"
      BY <1>4 DEF BackwardKinds
    <2> HIDE DEF l
    <2>10. QED  BY <1>1, <1>2, <2>2, <2>5, <2>8, <2>9, BeginStanding DEF l
  <1>5. CASE kind = "finish" /\ l = EachUnit("flush", 1)
    <2>1. l = <<"flush", 1>> /\ l # Return
      BY <1>5, UnitsShape DEF EachUnit, Return
    <2>2. \A m \in Params : Order[m] >= 1 /\ Order[m] \in Nat
      BY UnitsShape
    <2>3. \A m \in Params : ~Reduced(config, k + 1, l, m)
      BY <1>5, <2>1, <2>2, KeepsFlag DEF Reduced
    <2>4. QED  BY <1>1, <1>2, <1>5, <2>1, <2>3, BeginStanding
  <1>6. QED  BY <1>1, <1>3, <1>4, <1>5

LEMMA GatherStanding ==
  ASSUME NEW r \in Ranks, Types, UnitsInv(r), Alternates(plan), At(r, "gather")
  PROVE  SameGrads(step[r], at[r], step[r], AfterGather(r))
  <1> DEFINE k == step[r]
             n == Pos(r)
             l == AfterGather(r)
  <1>1. /\ at[r] # Return /\ at[r] = <<"gather", n>> /\ n \in Nat
        /\ k \in DOMAIN plan /\ plan \in Seq(StepKinds) /\ k \in Nat /\ Kind(r) = plan[k]
        /\ \/ Kind(r) \in {"forward", "eval", "summon"}
           \/ Kind(r) \in BackwardKinds /\ OnBackward(config, Kind(r), "gather", n)
    BY Within DEF OnFinish
  <1>2. CASE Kind(r) \in {"forward", "eval", "summon"}
    <2>1. l # Return
      BY GatherPlace, <1>1
    <2>2. QED  BY <1>1, <1>2, <2>1, OnStanding
  <1>3. CASE Kind(r) \in BackwardKinds /\ n = 0
    <2>1. l = Reached(1) /\ 1 \in 1 .. Len(Order) + 1
      BY <1>3, UnitsShape DEF AfterGather, BackwardKinds
    <2>2. \A m \in Params : m \in Nat /\ ~(m < 0) /\ m # 0 /\ ~(m < 1) /\ m \in ParamsOf(Order[m])
      BY UnitsShape DEF ParamsOf
    <2>3. \A m \in Params : Received(at[r], m) <=> m < 1
      BY <1>1, <1>3, <2>2 DEF Received
    <2>4. \A m \in Params : /\ ~Reduced(config, k, at[r], m)
                            /\ ~(\A j \in ParamsOf(Order[m]) : j < 1)
      BY <1>1, <1>3, <2>2, KeepsFlag DEF Reduced, BackwardKinds
    <2>5. QED  BY <1>1, <1>3, <2>1, <2>3, <2>4, ArrivingStanding
  <1>4. CASE Kind(r) \in BackwardKinds /\ n # 0
    <2>1. l = <<"grad", n>> /\ l # Return
      BY <1>4 DEF AfterGather, BackwardKinds, Return
    <2>2. \A m : Received(at[r], m) <=> Received(<<"grad", n>>, m)
      BY <1>1 DEF Received
    <2>3. \A m : Reduced(config, k, at[r], m) <=> Reduced(config, k, <<"grad", n>>, m)
      BY <1>1 DEF Reduced
    <2>4. QED  BY <1>1, <2>1, <2>2, <2>3, OnStanding
  <1>5. QED  BY <1>1, <1>2, <1>3, <1>4

LEMMA WalkStanding ==
  ASSUME NEW r \in Ranks, Types, UnitsInv(r), Alternates(plan),
         Arm(r) \/ Use(r) \/ PostForward(r) \/ Restore(r)
  PROVE  SameGrads(step[r], at[r], step'[r], at'[r])
  <1>1. /\ at[r] # Return /\ step'[r] = step[r] /\ step[r] \in DOMAIN plan /\ step[r] \in Nat
        /\ plan \in Seq(StepKinds) /\ plan[step[r]] \in {"forward", "eval", "summon"}
    <2>1. PICK op \in {"arm", "use", "post", "restore"} : At(r, op) /\ step' = step
      BY DEF Arm, Use, PostForward, Restore
    <2>2. ~OnBackward(config, Kind(r), op, Pos(r)) /\ ~OnFinish(op, Pos(r))
      BY <2>1 DEF OnBackward, OnFinish
    <2>3. QED  BY <2>1, <2>2, Within
  <1>2. CASE at'[r] = Return
    BY <1>1, <1>2, KeepsFlag, EndStanding DEF Gradless
  <1>3. CASE at'[r] # Return
    BY <1>1, <1>3, OnStanding
  <1>4. QED  BY <1>2, <1>3

LEMMA FreeStanding ==
  ASSUME NEW r \in Ranks, Types, UnitsInv(r), Alternates(plan), FreeReduced(r)
  PROVE  SameGrads(step[r], at[r], step'[r], at'[r])
  <1> DEFINE k == step[r]
             i == Pos(r)
  <1>1. /\ At(r, "free") /\ at[r] # Return /\ at[r] = <<"free", i>> /\ k \in DOMAIN plan
        /\ Kind(r) = plan[k] /\ plan \in Seq(StepKinds) /\ i \in Nat /\ k \in Nat
        /\ Kind(r) \in BackwardKinds \/ (Kind(r) = "finish" /\ OnFinish("free", i))
        /\ step'[r] = k
    BY Within DEF FreeReduced, OnForward, OnSummon
  <1>2. CASE Kind(r) \in BackwardKinds
    <2>1. i \in Params /\ i \in Nat /\ \A v \in Units : \A j \in ParamsOf(v) : j \in Nat
      BY <1>1, <1>2, AtParam
    <2>2. at'[r] = Reached(i + 1) /\ i + 1 \in 1 .. Len(Order) + 1
      BY <1>2, <2>1, UnitsShape DEF FreeReduced, Continue, Types
    <2>3. \A m \in Params : m \in Nat /\ Order[m] \in Units
      BY UnitsShape
    <2>4. \A m \in Params : Received(at[r], m) <=> m < i + 1
      BY <1>1, <2>1, <2>3 DEF Received
    <2>5. \A m \in Params : Reduced(config, k, at[r], m) <=>
              plan[k] = "backward" /\ \A j \in ParamsOf(Order[m]) : j < i + 1
      <3>1. \A m \in Params : \A j \in ParamsOf(Order[m]) : j < i \/ j = i <=> j < i + 1
        BY <2>1, <2>3
      <3>2. plan[k] # "finish"
        BY <1>1, <1>2 DEF BackwardKinds
      <3>3. QED  BY <1>1, <3>1, <3>2, KeepsFlag DEF Reduced
    <2>6. QED  BY <1>1, <1>2, <2>2, <2>4, <2>5, ArrivingStanding
  <1>3. CASE Kind(r) = "finish" /\ OnFinish("free", i)
    <2>1. at'[r] = EachUnit("flush", i + 1)
      BY <1>3 DEF FreeReduced, Continue, Types, BackwardKinds
    <2>2. \A m \in Params : Order[m] \in Units /\ Order[m] \in Nat
      BY UnitsShape
    <2>3. CASE i + 1 <= LastUnit
      <3>1. at'[r] = <<"flush", i + 1>> /\ at'[r] # Return
        BY <2>1, <2>3 DEF EachUnit, Return
      <3>2. \A m \in Params : Order[m] < i \/ Order[m] = i <=> Order[m] < i + 1
        BY <1>1, <2>2
      <3>3. plan[k] = "finish"
        BY <1>1, <1>3
      <3>4. \A m \in Params : Reduced(config, k, <<"free", i>>, m) <=> Reduced(config, k, <<"flush", i + 1>>, m)
        BY <3>2, <3>3, KeepsFlag DEF Reduced
      <3>5. QED  BY <1>1, <3>1, <3>3, <3>4, OnStanding
    <2>4. CASE ~(i + 1 <= LastUnit)
      <3>1. at'[r] = Return
        BY <2>1, <2>4 DEF EachUnit
      <3>2. \A m \in Params : Order[m] < i \/ Order[m] = i
        BY <1>1, <2>2, <2>4, UnitsShape
      <3>3. plan[k] = "finish"
        BY <1>1, <1>3
      <3>4. \A m \in Params : Reduced(config, k, <<"free", i>>, m)
        BY <3>2, <3>3, KeepsFlag DEF Reduced
      <3>5. QED  BY <1>1, <3>1, <3>3, <3>4, EndStanding DEF ReducingKinds
    <2>5. QED  BY <2>3, <2>4
  <1>4. QED  BY <1>1, <1>2, <1>3

\* A flush that finds no gradients: nothing is accumulated.
LEMMA FlushStanding ==
  ASSUME NEW r \in Ranks, Types, UnitsInv(r), Alternates(plan), GradInv(r), Flush(r)
  PROVE  /\ SameGrads(step[r], at[r], step'[r], at'[r])
         /\ (\A i \in ParamsOf(Pos(r)) : grad[r][i] = NoGrad) <=> Accumulated(plan, step[r] - 1) = {}
  <1> DEFINE k == step[r]
             u == Pos(r)
  <1>1. /\ at[r] # Return /\ at[r] = <<"flush", u>> /\ u \in Nat /\ u \in Units /\ k \in DOMAIN plan
        /\ plan[k] = "finish" /\ k \in Nat /\ plan \in Seq(StepKinds) /\ step'[r] = k
    BY Within DEF Flush, OnForward, OnBackward, OnSummon, OnFinish
  <1>2. \A m \in Params : Order[m] \in Units /\ Order[m] \in Nat
    BY UnitsShape
  <1>3. \A i \in ParamsOf(u) : i \in Params /\ Order[i] = u
    BY DEF ParamsOf
  <1>4. \A i \in ParamsOf(u) : grad[r][i] = Count(Accumulated(plan, k - 1))
    <2>1. ASSUME NEW i \in ParamsOf(u) PROVE ~Reduced(config, k, at[r], i)
      BY <1>1, <1>3, KeepsFlag DEF Reduced
    <2>2. ASSUME NEW i \in ParamsOf(u)
          PROVE  InGrad(config, k, at[r], i) = Accumulated(plan, k - 1)
      BY <1>1, <2>1, KeepsFlag DEF InGrad, Gradless
    <2>3. QED  BY <1>3, <2>2 DEF GradInv
  <1>5. (\A i \in ParamsOf(u) : grad[r][i] = NoGrad) <=> Accumulated(plan, k - 1) = {}
    <2>1. Accumulated(plan, k - 1) \subseteq Steps
      <3>1. k - 1 \in Nat /\ (k - 1) + 1 = k /\ 1 .. k - 1 \subseteq Steps
        BY <1>1, PlansAssumption DEF Steps, Types
      <3>2. Accumulated(plan, k - 1) \subseteq 1 .. k - 1
        BY <1>1, <3>1, PassesStep
      <3>3. QED  BY <3>1, <3>2
    <2>2. PICK i \in ParamsOf(u) : TRUE
      BY <1>1, UnitParams
    <2>3. \A passes \in SUBSET Steps : Count(passes) = NoGrad => passes = {}
      <3>1. ASSUME NEW passes \in SUBSET Steps, Count(passes) = NoGrad, NEW j \in passes PROVE FALSE
        <4>1. Count(passes)[j] = 1 /\ NoGrad[j] = 0
          BY <3>1 DEF Count, NoGrad
        <4>2. QED  BY <3>1, <4>1
      <3>2. QED  BY <3>1
    <2>4. Count({}) = NoGrad
      BY DEF Count, NoGrad
    <2>5. QED  BY <1>4, <2>1, <2>2, <2>3, <2>4
  <1>6. SameGrads(k, at[r], k, at'[r])
    <2>1. at'[r] = IF Accumulated(plan, k - 1) = {} THEN EachUnit("flush", u + 1) ELSE <<"reduce", u>>
      BY <1>5 DEF Flush, Continue, Types
    <2>2. CASE Accumulated(plan, k - 1) # {}
      <3>1. at'[r] = <<"reduce", u>> /\ at'[r] # Return
        BY <2>1, <2>2 DEF Return
      <3>2. \A m \in Params : Reduced(config, k, at[r], m) <=> Reduced(config, k, <<"reduce", u>>, m)
        BY <1>1, KeepsFlag DEF Reduced
      <3>3. QED  BY <1>1, <3>1, <3>2, OnStanding
    <2>3. CASE Accumulated(plan, k - 1) = {} /\ ~(u + 1 <= LastUnit)
      <3>1. at'[r] = Return
        BY <2>1, <2>3 DEF EachUnit
      <3>2. QED  BY <1>1, <2>3, <3>1, EndStanding
    <2>4. CASE Accumulated(plan, k - 1) = {} /\ u + 1 <= LastUnit
      <3>1. at'[r] = <<"flush", u + 1>> /\ at'[r] # Return
        BY <2>1, <2>4 DEF EachUnit, Return
      <3>2. Since(plan, k) = Since(plan, k - 1)
        <4>1. k - 1 \in Nat /\ (k - 1) + 1 = k
          BY <1>1
        <4>2. QED  BY <1>1, <4>1, PassesStep DEF BackwardKinds
      <3>3. \A l, m : l # Return => /\ InGrad(config, k, l, m) = {}
                                    /\ InShard(config, k, l, m) = Since(plan, k)
        BY <1>1, <2>4, <3>2, KeepsFlag DEF InGrad, InShard, Gradless
      <3>4. QED  BY <1>1, <3>1, <3>3 DEF SameGrads
    <2>5. QED  BY <2>2, <2>3, <2>4
  <1>7. QED  BY <1>1, <1>5, <1>6

LEMMA CountAdd ==
  ASSUME NEW passes, NEW k \in Steps, k \notin passes
  PROVE  [Count(passes) EXCEPT ![k] = @ + 1] = Count(passes \cup {k})
  <1>1. Count(passes)[k] = 0 /\ 0 + 1 = 1
    BY DEF Count
  <1>2. [Count(passes) EXCEPT ![k] = @ + 1] = [j \in Steps |-> IF j = k THEN 1 ELSE Count(passes)[j]]
    BY <1>1 DEF Count
  <1>3. \A j \in Steps : (IF j = k THEN 1 ELSE Count(passes)[j]) = IF j \in passes \cup {k} THEN 1 ELSE 0
    BY DEF Count
  <1>4. QED  BY <1>2, <1>3 DEF Count

\* A gradient adds the pass under way to one parameter.
LEMMA GradReadyStanding ==
  ASSUME NEW r \in Ranks, Types, UnitsInv(r), Alternates(plan), GradReady(r)
  PROVE  /\ Pos(r) \in Params /\ step[r] \in Steps /\ step'[r] = step[r]
         /\ \A m \in Params :
               /\ InShard(config, step[r], at'[r], m) = InShard(config, step[r], at[r], m)
               /\ m # Pos(r) => InGrad(config, step[r], at'[r], m) = InGrad(config, step[r], at[r], m)
         /\ step[r] \notin InGrad(config, step[r], at[r], Pos(r))
         /\ InGrad(config, step[r], at'[r], Pos(r)) =
                InGrad(config, step[r], at[r], Pos(r)) \cup {step[r]}
  <1> DEFINE k == step[r]
             i == Pos(r)
             u == UnitAt(r)
  <1>0. At(r, "grad") /\ Kind(r) \in BackwardKinds /\ k \in Nat /\ plan \in Seq(StepKinds)
    BY Within DEF GradReady, OnForward, OnFinish, OnSummon
  <1>1. /\ at[r] # Return /\ at[r] = <<"grad", i>> /\ i \in Params /\ i \in Nat \ {0}
        /\ k \in DOMAIN plan /\ plan[k] = Kind(r)
        /\ u = Order[i] /\ u \in Units /\ i \in ParamsOf(u)
        /\ \A v \in Units : v # u => i \notin ParamsOf(v)
        /\ \A v \in Units : \A j \in ParamsOf(v) : j \in Nat
        /\ pending[r][u] = Cardinality(Remaining("grad", i, u))
    BY <1>0, AtParam
  <1>2. \A m \in Params : m \in Nat /\ Order[m] \in Units /\ m \in ParamsOf(Order[m])
    BY UnitsShape DEF ParamsOf
  <1>3. k \in Steps /\ k - 1 \in Nat /\ (k - 1) + 1 = k
    <2>1. MaxSteps \in Nat /\ k \in 0 .. MaxSteps /\ k \in 1 .. Len(plan)
      BY <1>0, <1>1, PlansAssumption DEF Types
    <2>2. QED  BY <2>1 DEF Steps
  <1>4. k \notin Accumulated(plan, k - 1)
    <2>1. Accumulated(plan, k - 1) \subseteq 1 .. k - 1
      BY <1>0, <1>1, <1>3, PassesStep
    <2>2. QED  BY <2>1, <1>3
  <1>5. plan[k] # "finish"
    BY <1>0, <1>1 DEF BackwardKinds
  <1>6. \A m \in Params : Reduced(config, k, at[r], m) <=>
            plan[k] = "backward" /\ \A j \in ParamsOf(Order[m]) : j < i
    BY <1>1, <1>5, KeepsFlag DEF Reduced
  <1>7. \A m \in Params : Order[m] # u => \A j \in ParamsOf(Order[m]) : j \in Nat /\ j # i
    BY <1>1, <1>2
  <1>8. /\ at'[r] # Return
        /\ \A m \in Params : /\ Received(at'[r], m) <=> m < i \/ m = i
                             /\ Reduced(config, k, at'[r], m) <=> Reduced(config, k, at[r], m)
    <2>1. at'[r] = IF pending[r][u] - 1 > 0 THEN Reached(i + 1)
                   ELSE IF Kind(r) = "backward" THEN <<"reduce", i>> ELSE <<"free", i>>
      BY DEF GradReady, Continue, Types
    <2>2. CASE pending[r][u] - 1 > 0
      <3>1. PICK j \in ParamsOf(u) : j > i
        <4>1. Remaining("grad", i, u) = Remaining("free", i, u) \cup {i}
          BY <1>1 DEF Remaining
        <4>2. CASE Remaining("free", i, u) = {}
          <5>1. Remaining("grad", i, u) = {i}
            BY <4>1, <4>2
          <5>2. Cardinality({i}) = 1
            BY FS_Singleton
          <5>3. pending[r][u] = 1
            BY <1>1, <5>1, <5>2
          <5>4. QED  BY <2>2, <5>3
        <4>3. CASE Remaining("free", i, u) # {}
          BY <1>1, <4>3 DEF Remaining
        <4>4. QED  BY <4>2, <4>3
      <3>2. i + 1 <= Len(Order) /\ j \in Params /\ Order[j] = u
        BY <1>1, <3>1, UnitsShape DEF ParamsOf
      <3>3. PICK h \in {"gather", "grad"} : at'[r] = <<h, i + 1>>
        BY <1>1, <2>1, <2>2, <3>2, UnitsShape DEF Reached
      <3>4. \A m \in Params : m < i + 1 <=> m < i \/ m = i
        BY <1>1, <1>2
      <3>5. \A m \in Params : Received(<<h, i + 1>>, m) <=> m < i \/ m = i
        BY <3>4 DEF Received
      <3>6. \A m \in Params : (\A p \in ParamsOf(Order[m]) : p < i + 1) <=>
                                  \A p \in ParamsOf(Order[m]) : p < i
        <4>1. ~(j < i) /\ ~(j < i + 1)
          BY <1>1, <3>1
        <4>2. ASSUME NEW m \in Params, Order[m] # u, NEW p \in ParamsOf(Order[m])
              PROVE  p < i + 1 <=> p < i
          <5>1. p \in Nat /\ p # i
            BY <1>7, <4>2
          <5>2. QED  BY <1>1, <5>1
        <4>3. QED  BY <3>1, <4>1, <4>2
      <3>7. \A m \in Params : Reduced(config, k, <<h, i + 1>>, m) <=>
                plan[k] = "backward" /\ \A p \in ParamsOf(Order[m]) : p < i + 1
        BY <1>5, KeepsFlag DEF Reduced
      <3>8. <<h, i + 1>> # Return
        BY DEF Return
      <3>9. QED  BY <1>6, <3>3, <3>5, <3>6, <3>7, <3>8
    <2>3. CASE ~(pending[r][u] - 1 > 0)
      <3>1. PICK h \in {"reduce", "free"} :
                at'[r] = <<h, i>> /\ (h = "free" => plan[k] # "backward")
        BY <1>1, <2>1, <2>3
      <3>2. \A m \in Params : Received(<<h, i>>, m) <=> m < i \/ m = i
        BY DEF Received
      <3>3. \A m \in Params : Reduced(config, k, <<h, i>>, m) <=>
                plan[k] = "backward" /\ \A p \in ParamsOf(Order[m]) : p < i
        BY <1>5, <3>1, KeepsFlag DEF Reduced
      <3>4. <<h, i>> # Return
        BY DEF Return
      <3>5. QED  BY <1>6, <3>1, <3>2, <3>3, <3>4
    <2>4. QED  BY <2>2, <2>3
  <1>9. ~Reduced(config, k, at[r], i)
    BY <1>1, <1>6
  <1>10. \A m \in Params : Received(at[r], m) <=> m < i
    BY <1>1 DEF Received
  <1>11. ~Gradless(config, k, at[r]) /\ ~Gradless(config, k, at'[r])
    BY <1>0, <1>1, <1>8, KeepsFlag DEF Gradless, BackwardKinds
  <1>12. \A m \in Params :
            /\ InShard(config, k, at'[r], m) = InShard(config, k, at[r], m)
            /\ m # i => InGrad(config, k, at'[r], m) = InGrad(config, k, at[r], m)
    BY <1>8, <1>10, <1>11 DEF InShard, InGrad
  <1>13. InGrad(config, k, at[r], i) = Accumulated(plan, k - 1)
    BY <1>1, <1>9, <1>10, <1>11, KeepsFlag DEF InGrad
  <1>14. InGrad(config, k, at'[r], i) = Accumulated(plan, k - 1) \cup {k}
    BY <1>1, <1>5, <1>8, <1>9, <1>11, KeepsFlag DEF InGrad
  <1>15. step'[r] = k
    BY DEF GradReady
  <1>16. QED  BY <1>1, <1>3, <1>4, <1>12, <1>13, <1>14, <1>15

LEMMA GradReadyGrads ==
  ASSUME NEW r \in Ranks, Types, UnitsInv(r), Alternates(plan), GradReady(r)
  PROVE  /\ GradInv(r) => GradInv(r)'
         /\ ShardInv(r) => ShardInv(r)'
  <1> DEFINE k == step[r]
             i == Pos(r)
  <1>1. /\ i \in Params /\ k \in Steps /\ step'[r] = k
        /\ \A m \in Params :
              /\ InShard(config, k, at'[r], m) = InShard(config, k, at[r], m)
              /\ m # i => InGrad(config, k, at'[r], m) = InGrad(config, k, at[r], m)
        /\ k \notin InGrad(config, k, at[r], i)
        /\ InGrad(config, k, at'[r], i) = InGrad(config, k, at[r], i) \cup {k}
    BY GradReadyStanding
  <1>2. config' = config /\ shardGrad' = shardGrad
    BY DEF GradReady, config
  <1>3. grad'[r] = [grad[r] EXCEPT ![i][k] = @ + 1]
    BY DEF GradReady, Types
  <1>4. ASSUME GradInv(r) PROVE GradInv(r)'
    <2>1. \A m \in Params : grad[r][m] = Count(InGrad(config, k, at[r], m))
      BY <1>4 DEF GradInv
    <2>2. grad'[r][i] = [grad[r][i] EXCEPT ![k] = @ + 1]
      BY <1>1, <1>3 DEF Types
    <2>3. \A m \in Params : m # i => grad'[r][m] = grad[r][m]
      BY <1>3 DEF Types
    <2>4. grad'[r][i] = Count(InGrad(config, k, at'[r], i))
      BY <1>1, <2>1, <2>2, CountAdd
    <2>5. \A m \in Params : grad'[r][m] = Count(InGrad(config, k, at'[r], m))
      BY <1>1, <2>1, <2>3, <2>4
    <2>6. QED  BY <1>1, <1>2, <2>5 DEF GradInv
  <1>5. ASSUME ShardInv(r) PROVE ShardInv(r)'
    BY <1>1, <1>2, <1>5 DEF ShardInv
  <1>6. QED  BY <1>4, <1>5

\* The optimizer step empties the shards.
LEMMA OptGrads ==
  ASSUME NEW r \in Ranks, Types, UnitsInv(r), Alternates(plan), OptStep(r)
  PROVE  /\ GradInv(r) => GradInv(r)'
         /\ ShardInv(r)'
  <1> DEFINE k == step[r]
  <1>1. /\ NextIs(r, "opt") /\ step'[r] = k + 1 /\ at'[r] = at[r] /\ at[r] = Return
        /\ config' = config /\ grad' = grad
        /\ shardGrad'[r] = [i \in Params |-> NoShardGrad]
    BY DEF OptStep, Types, NextIs, Idle, config
  <1>2. /\ plan \in Seq(StepKinds) /\ k \in Nat /\ k + 1 \in DOMAIN plan /\ plan[k + 1] = "opt"
        /\ config[1] = plan
    BY <1>1, Beginning
  <1>3. Accumulated(plan, k + 1) = Accumulated(plan, k) /\ Since(plan, k + 1) = {}
    BY <1>2, PassesStep DEF ReducingKinds
  <1>4. \A m : /\ InGrad(config, k + 1, Return, m) = InGrad(config, k, Return, m)
               /\ InShard(config, k + 1, Return, m) = {}
    BY <1>2, <1>3 DEF InGrad, InShard, Gradless
  <1>5. ASSUME NEW m \in Params, NEW s \in Ranks
        PROVE  shardGrad'[r][m][s] = Count({})
    BY <1>1 DEF Count, NoShardGrad, NoGrad
  <1>6. ShardInv(r)'
    BY <1>1, <1>4, <1>5 DEF ShardInv
  <1>7. ASSUME GradInv(r) PROVE GradInv(r)'
    BY <1>1, <1>4, <1>7 DEF GradInv
  <1>8. QED  BY <1>6, <1>7

\* What is accumulated, no optimizer step has passed over.
LEMMA AccumulatedSince ==
  ASSUME NEW p \in Seq(StepKinds), FlushedBeforeStep(p), NEW k \in Nat, k <= Len(p)
  PROVE  Accumulated(p, k) \subseteq Since(p, k)
  <1>1. SUFFICES ASSUME NEW j \in Accumulated(p, k) PROVE j \in Since(p, k)
    OBVIOUS
  <1>2. j \in 1 .. k /\ p[j] = "no_sync" /\ \A i \in j + 1 .. k : p[i] \notin ReducingKinds
    BY <1>1 DEF Accumulated
  <1>3. ASSUME NEW i \in j .. k, p[i] = "opt" PROVE FALSE
    <2>1. i # j /\ j < i /\ i \in DOMAIN p /\ j \in DOMAIN p
      BY <1>2, <1>3
    <2>2. PICK n \in j + 1 .. i - 1 : p[n] \in {"backward", "finish"}
      BY <1>2, <1>3, <2>1 DEF FlushedBeforeStep
    <2>3. n \in j + 1 .. k
      BY <1>2, <1>3, <2>1
    <2>4. QED  BY <1>2, <2>2, <2>3 DEF ReducingKinds
  <1>4. QED  BY <1>2, <1>3 DEF Since, BackwardKinds

\* What the shards contain before their reduction.
Scattered(p, k) == Since(p, k) \ Accumulated(p, k)

\* A unit's gradients and shard before and after the reduction.
ToReduce(c, k, l, u) ==
    \A m \in Params : Order[m] = u =>
        /\ InGrad(c, k, l, m) =
              Accumulated(c[1], k - 1) \cup (IF c[1][k] = "backward" THEN {k} ELSE {})
        /\ InShard(c, k, l, m) = Scattered(c[1], k - 1)

IsReduced(c, k, l, u) ==
    \A m \in Params : Order[m] = u =>
        InGrad(c, k, l, m) = {} /\ InShard(c, k, l, m) = Since(c[1], k)

SameElsewhere(c, k, l1, l2, u) ==
    \A m \in Params : Order[m] # u =>
        /\ InGrad(c, k, l2, m) = InGrad(c, k, l1, m)
        /\ InShard(c, k, l2, m) = InShard(c, k, l1, m)

LEMMA ReduceStanding ==
  ASSUME NEW r \in Ranks, Types, UnitsInv(r), Alternates(plan), NEW u \in Units,
         At(r, "reduce"), UnitAt(r) = u, NEW k, k = step[r], NEW l, l = <<"free", Pos(r)>>
  PROVE  /\ k \in Nat /\ k \in DOMAIN plan /\ plan \in Seq(StepKinds) /\ plan[k] \in ReducingKinds
         /\ ToReduce(config, k, at[r], u) /\ IsReduced(config, k, l, u)
         /\ SameElsewhere(config, k, at[r], l, u)
  <1> DEFINE i == Pos(r)
  <1>1. /\ at[r] # Return /\ at[r] = <<"reduce", i>> /\ i \in Nat
        /\ k \in DOMAIN plan /\ plan \in Seq(StepKinds) /\ k \in Nat /\ Kind(r) = plan[k]
        /\ Kind(r) \in BackwardKinds \/ (Kind(r) = "finish" /\ i \in Units)
    BY Within DEF OnForward, OnSummon, OnFinish
  <1>2. l # Return
    BY DEF Return
  <1>3. \A m : Received(at[r], m) <=> Received(l, m)
    BY <1>1 DEF Received
  <1>4. \A m \in Params : Order[m] \in Units /\ Order[m] \in Nat /\ m \in ParamsOf(Order[m])
    BY UnitsShape DEF ParamsOf
  <1>5. CASE Kind(r) \in BackwardKinds
    <2>1. /\ Order[i] = u /\ i \in ParamsOf(u) /\ plan[k] = "backward"
          /\ \A j \in ParamsOf(u) : j <= i
          /\ \A v \in Units : v # u => i \notin ParamsOf(v)
          /\ \A v \in Units : \A j \in ParamsOf(v) : j \in Nat
      BY <1>1, <1>5, AtParam
    <2>2. ASSUME NEW m \in Params, Order[m] # u
          PROVE  Reduced(config, k, l, m) <=> Reduced(config, k, at[r], m)
      BY <1>1, <1>4, <2>1, <2>2, KeepsFlag DEF Reduced
    <2>3. ASSUME NEW m \in Params, Order[m] = u
          PROVE  /\ ~Reduced(config, k, at[r], m) /\ Reduced(config, k, l, m)
                 /\ Received(at[r], m)
      <3>1. \A j \in ParamsOf(u) : j < i \/ j = i
        BY <1>1, <2>1
      <3>2. ~(i < i)
        BY <1>1
      <3>3. ~Reduced(config, k, at[r], m)
        BY <1>1, <2>1, <2>3, <3>2, KeepsFlag DEF Reduced
      <3>4. Reduced(config, k, l, m)
        BY <2>1, <2>3, <3>1, KeepsFlag DEF Reduced
      <3>5. Received(at[r], m)
        BY <1>1, <1>4, <2>3, <3>1 DEF Received
      <3>6. QED  BY <3>3, <3>4, <3>5
    <2>4. QED  BY <1>1, <1>2, <1>3, <2>1, <2>2, <2>3, KeepsFlag
               DEF InGrad, InShard, Gradless, ReducingKinds, Scattered,
                   ToReduce, IsReduced, SameElsewhere
  <1>6. CASE Kind(r) = "finish" /\ i \in Units
    <2>1. i = u /\ plan[k] = "finish"
      BY <1>1, <1>6, UnitsShape DEF UnitAt, BackwardKinds
    <2>2. ASSUME NEW m \in Params, Order[m] # u
          PROVE  Reduced(config, k, l, m) <=> Reduced(config, k, at[r], m)
      BY <1>1, <2>1, <2>2, KeepsFlag DEF Reduced
    <2>3. ASSUME NEW m \in Params, Order[m] = u
          PROVE  ~Reduced(config, k, at[r], m) /\ Reduced(config, k, l, m)
      BY <1>1, <1>4, <2>1, <2>3, KeepsFlag DEF Reduced
    <2>4. QED  BY <1>1, <1>2, <1>3, <2>1, <2>2, <2>3, KeepsFlag
               DEF InGrad, InShard, Gradless, ReducingKinds, Scattered,
                   ToReduce, IsReduced, SameElsewhere
  <1>7. QED  BY <1>1, <1>5, <1>6

\* All ranks are at one place, as they are in a collective.
SamePlace == \A r, s \in Ranks : step[r] = step[s] /\ at[r] = at[s]

LEMMA ReduceGrads ==
  ASSUME Types, \A r \in Ranks : UnitsInv(r) /\ GradInv(r), Alternates(plan),
         SamePlace, NEW u \in Units, ReduceScatter(u)
  PROVE  /\ \A r \in Ranks : GradInv(r)'
         /\ FlushedBeforeStep(plan) /\ (\A r \in Ranks : ShardInv(r)) => \A r \in Ranks : ShardInv(r)'
  <1>1. /\ config' = config /\ step' = step
        /\ \A r \in Ranks : /\ At(r, "reduce") /\ UnitAt(r) = u
                            /\ at'[r] = <<"free", Pos(r)>>
                            /\ grad'[r] = Left(r, u) /\ shardGrad'[r] = Added(r, u)
    BY DEF ReduceScatter, config
  <1>2. ASSUME NEW r \in Ranks
        PROVE  /\ step[r] \in Nat /\ step[r] \in DOMAIN plan /\ plan \in Seq(StepKinds)
               /\ plan[step[r]] \in ReducingKinds
               /\ ToReduce(config, step[r], at[r], u) /\ IsReduced(config, step[r], at'[r], u)
               /\ SameElsewhere(config, step[r], at[r], at'[r], u)
    <2>1. At(r, "reduce") /\ UnitAt(r) = u /\ UnitsInv(r) /\ at'[r] = <<"free", Pos(r)>>
      BY <1>1
    <2>2. QED  BY <2>1, ReduceStanding
  <1>3. ASSUME NEW r \in Ranks PROVE GradInv(r)'
    <2>1. ASSUME NEW m \in Params, Order[m] = u
          PROVE  grad'[r][m] = Count(InGrad(config, step[r], at'[r], m))
      <3>1. grad'[r][m] = NoGrad
        BY <1>1, <2>1 DEF Left
      <3>2. Count({}) = NoGrad
        BY DEF Count, NoGrad
      <3>3. InGrad(config, step[r], at'[r], m) = {}
        BY <1>2, <2>1 DEF IsReduced
      <3>4. QED  BY <3>1, <3>2, <3>3
    <2>2. ASSUME NEW m \in Params, Order[m] # u
          PROVE  grad'[r][m] = Count(InGrad(config, step[r], at'[r], m))
      <3>1. grad'[r][m] = grad[r][m]
        BY <1>1, <2>2 DEF Left
      <3>2. grad[r][m] = Count(InGrad(config, step[r], at[r], m))
        BY DEF GradInv
      <3>3. QED  BY <1>2, <2>2, <3>1, <3>2 DEF SameElsewhere
    <2>3. QED  BY <1>1, <2>1, <2>2 DEF GradInv
  <1>4. ASSUME FlushedBeforeStep(plan), \A r \in Ranks : ShardInv(r), NEW r \in Ranks
        PROVE  ShardInv(r)'
    <2> DEFINE k == step[r]
               old == Scattered(plan, k - 1)
               new == Accumulated(plan, k - 1) \cup (IF plan[k] = "backward" THEN {k} ELSE {})
    <2>1. k \in Nat /\ k \in DOMAIN plan /\ plan \in Seq(StepKinds) /\ plan[k] \in ReducingKinds
      BY <1>2
    <2>2. k - 1 \in Nat /\ (k - 1) + 1 = k /\ k - 1 <= Len(plan)
      BY <2>1
    <2>3. Accumulated(plan, k - 1) \subseteq Since(plan, k - 1) /\ Since(plan, k - 1) \subseteq 1 .. k - 1
      BY <1>4, <2>1, <2>2, AccumulatedSince, PassesStep
    <2>4. Since(plan, k) = Since(plan, k - 1) \cup (IF plan[k] = "backward" THEN {k} ELSE {})
      BY <2>1, <2>2, PassesStep DEF ReducingKinds, BackwardKinds
    <2>5. k \notin Since(plan, k - 1)
      BY <2>2, <2>3
    <2>6. old \cap new = {} /\ old \cup new = Since(plan, k)
      BY <2>3, <2>4, <2>5 DEF Scattered
    <2> HIDE DEF old, new
    <2>7. \A j \in Steps : Count(old)[j] + Count(new)[j] = Count(Since(plan, k))[j]
      BY <2>6 DEF Count
    <2>8. ASSUME NEW s \in Ranks, NEW m \in Params, Order[m] = u
          PROVE  shardGrad'[r][m][s] = Count(InShard(config, k, at'[r], m))
      <3>1. shardGrad'[r][m][s] = [j \in Steps |-> shardGrad[r][m][s][j] + grad[s][m][j]]
        <4>1. shardGrad'[r] = Added(r, u)
          BY <1>1
        <4>2. Added(r, u)[m][s] = [j \in Steps |-> shardGrad[r][m][s][j] + grad[s][m][j]]
          BY <2>8 DEF Added
        <4>3. QED  BY <4>1, <4>2
      <3>2. step[s] = k
        BY DEF SamePlace
      <3>3. InGrad(config, k, at[s], m) = new
        BY <1>2, <2>8, <3>2, KeepsFlag DEF new, ToReduce
      <3>4. InShard(config, k, at[r], m) = old
        BY <1>2, <2>8, KeepsFlag DEF old, ToReduce
      <3>5. grad[s][m] = Count(new)
        BY <3>2, <3>3 DEF GradInv
      <3>6. shardGrad[r][m][s] = Count(old)
        BY <1>4, <3>4 DEF ShardInv
      <3>7. shardGrad'[r][m][s] = Count(Since(plan, k))
        BY <2>7, <3>1, <3>5, <3>6 DEF Count
      <3>8. QED  BY <1>2, <2>8, <3>7, KeepsFlag DEF IsReduced
    <2>9. ASSUME NEW s \in Ranks, NEW m \in Params, Order[m] # u
          PROVE  shardGrad'[r][m][s] = Count(InShard(config, k, at'[r], m))
      <3>1. shardGrad'[r][m] = shardGrad[r][m]
        <4>1. shardGrad'[r] = Added(r, u)
          BY <1>1
        <4>2. Added(r, u)[m] = shardGrad[r][m]
          BY <2>9 DEF Added
        <4>3. QED  BY <4>1, <4>2
      <3>2. shardGrad[r][m][s] = Count(InShard(config, k, at[r], m))
        BY <1>4 DEF ShardInv
      <3>3. QED  BY <1>2, <2>9, <3>1, <3>2 DEF SameElsewhere
    <2>10. QED  BY <1>1, <2>8, <2>9 DEF ShardInv
  <1>5. QED  BY <1>3, <1>4

-----------------------------------------------------------------------------
(* Collectives are called in lockstep. *)

\* The unit a place is about.
UnitOf(c, k, l) ==
    IF l[2] = 0 THEN Root ELSE IF c[1][k] \in BackwardKinds THEN Order[l[2]] ELSE l[2]

\* The places at which a rank calls a collective.
Collective(c, k, l) ==
    /\ l # Return /\ Located(c, k, l)
    /\ \/ l[1] = "gather" /\ UnitOf(c, k, l) \notin Gathered(c, k, l)
       \/ l[1] = "reduce" /\ (c[1][k] = "finish" => Accumulated(c[1], k - 1) # {})

\* Places are triples, in the order in which a rank comes to them.
HookOrder ==
    [gather |-> 1, flush |-> 1, arm |-> 2, grad |-> 2, use |-> 3, post |-> 4,
     reduce |-> 5, free |-> 6, restore |-> 7]

Place(c, k, l) ==
    IF l = Return THEN <<k + 1, 0, 0>>
    ELSE IF c[1][k] = "summon" THEN <<k, HookOrder[l[1]], l[2]>>
    ELSE <<k, l[2], HookOrder[l[1]]>>

Before(a, b) ==
    \/ a[1] < b[1]
    \/ a[1] = b[1] /\ a[2] < b[2]
    \/ a[1] = b[1] /\ a[2] = b[2] /\ a[3] < b[3]

\* Two places have the same collectives before them.
SamePassed(c, p1, p2) ==
    \A k \in DOMAIN c[1] : \A l \in Hooks \X Nat :
        Collective(c, k, l) => (Before(Place(c, k, l), p1) <=> Before(Place(c, k, l), p2))

PlaceOf(r) == Place(config, step[r], at[r])

\* No rank is past a collective another rank has not called.
Lockstep == \A r, s \in Ranks : SamePassed(config, PlaceOf(r), PlaceOf(s))

\* The places of a step, and the one after it.
InStep(k) == {<<k, a, b>> : a \in Nat, b \in Nat} \cup {<<k + 1, 0, 0>>}

\* The collectives of a step, by its kind.
CollectiveAt(k, l) ==
    \/ /\ plan[k] \in {"forward", "eval"}
       /\ \E n \in 0 .. Root - 1 : /\ l = <<"gather", n>> /\ (n = 0 => Root \in Units)
                                   /\ Place(config, k, l) = <<k, n, 1>>
    \/ /\ plan[k] \in BackwardKinds
       /\ \/ Root \in Units /\ reshardRoot /\ l = <<"gather", 0>> /\ Place(config, k, l) = <<k, 0, 1>>
          \/ \E i \in Params : /\ l = <<"gather", i>> /\ ReachedFirst(i)
                               /\ ReshardsAfterForward(Order[i]) /\ Place(config, k, l) = <<k, i, 1>>
          \/ \E i \in Params : /\ l = <<"reduce", i>> /\ plan[k] = "backward"
                               /\ \A j \in ParamsOf(Order[i]) : j <= i
                               /\ Place(config, k, l) = <<k, i, 5>>
    \/ /\ plan[k] = "finish" /\ Accumulated(plan, k - 1) # {} /\ Cardinality(Ranks) # 1
       /\ \E n \in Units : l = <<"reduce", n>> /\ Place(config, k, l) = <<k, n, 5>>
    \/ /\ plan[k] = "summon"
       /\ \E n \in Units : l = <<"gather", n>> /\ Place(config, k, l) = <<k, 1, n>>

LEMMA PlaceIs ==
  ASSUME NEW k, NEW h, NEW n, <<h, n>> # Return
  PROVE  /\ plan[k] = "summon" => Place(config, k, <<h, n>>) = <<k, HookOrder[h], n>>
         /\ plan[k] # "summon" => Place(config, k, <<h, n>>) = <<k, n, HookOrder[h]>>
         /\ HookOrder["gather"] = 1 /\ HookOrder["flush"] = 1 /\ HookOrder["arm"] = 2
         /\ HookOrder["grad"] = 2 /\ HookOrder["use"] = 3 /\ HookOrder["post"] = 4
         /\ HookOrder["reduce"] = 5 /\ HookOrder["free"] = 6 /\ HookOrder["restore"] = 7
         /\ Place(config, k, Return) = <<k + 1, 0, 0>>
  <1>1. HookOrder["gather"] = 1 /\ HookOrder["flush"] = 1 /\ HookOrder["arm"] = 2
        /\ HookOrder["grad"] = 2 /\ HookOrder["use"] = 3 /\ HookOrder["post"] = 4
        /\ HookOrder["reduce"] = 5 /\ HookOrder["free"] = 6 /\ HookOrder["restore"] = 7
    BY DEF HookOrder
  <1>2. /\ plan[k] = "summon" => Place(config, k, <<h, n>>) = <<k, HookOrder[h], n>>
        /\ plan[k] # "summon" => Place(config, k, <<h, n>>) = <<k, n, HookOrder[h]>>
        /\ Place(config, k, Return) = <<k + 1, 0, 0>>
    BY KeepsFlag DEF Place
  <1>3. QED  BY <1>1, <1>2

LEMMA CollectivePlaces ==
  ASSUME NEW k \in DOMAIN plan, NEW l \in Hooks \X Nat, Collective(config, k, l)
  PROVE  CollectiveAt(k, l)
  <1>1. /\ l # Return /\ Located(config, k, l) /\ l[1] \in {"gather", "reduce"}
        /\ l[1] = "reduce" /\ plan[k] = "finish" => Accumulated(plan, k - 1) # {}
    BY KeepsFlag DEF Collective
  <1>2. PICK h \in {"gather", "reduce"}, n \in Nat : l = <<h, n>>
    BY <1>1
  <1>3. \/ plan[k] \in {"forward", "eval"} /\ OnForward(h, n)
        \/ plan[k] \in BackwardKinds /\ OnBackward(config, plan[k], h, n)
        \/ plan[k] = "finish" /\ OnFinish(h, n)
        \/ plan[k] = "summon" /\ OnSummon(h, n)
    BY <1>1, <1>2, KeepsFlag DEF Located
  <1>4. /\ plan[k] = "summon" => Place(config, k, l) = <<k, HookOrder[h], n>>
        /\ plan[k] # "summon" => Place(config, k, l) = <<k, n, HookOrder[h]>>
        /\ HookOrder["gather"] = 1 /\ HookOrder["reduce"] = 5
    BY <1>1, <1>2, PlaceIs
  <1>5. CASE plan[k] \in {"forward", "eval"} /\ OnForward(h, n)
    <2>1. h = "gather" /\ n \in 0 .. Root - 1 /\ (n = 0 => Root \in Units)
      BY <1>5, UnitsShape DEF OnForward
    <2>2. QED  BY <1>2, <1>4, <1>5, <2>1 DEF CollectiveAt
  <1>6. CASE plan[k] \in BackwardKinds /\ OnBackward(config, plan[k], h, n)
    BY <1>2, <1>4, <1>6, KeepsFlag DEF OnBackward, CollectiveAt, BackwardKinds
  <1>7. CASE plan[k] = "finish" /\ OnFinish(h, n)
    BY <1>1, <1>2, <1>4, <1>7 DEF OnFinish, CollectiveAt
  <1>8. CASE plan[k] = "summon" /\ OnSummon(h, n)
    BY <1>2, <1>4, <1>8 DEF OnSummon, CollectiveAt
  <1>9. QED  BY <1>3, <1>5, <1>6, <1>7, <1>8

\* It is enough to look at the collectives of the step under way.
LEMMA WithinStep ==
  ASSUME plan \in Seq(StepKinds), NEW k \in Nat, NEW p1 \in InStep(k), NEW p2 \in InStep(k),
         k \in DOMAIN plan =>
            \A l \in Hooks \X Nat : CollectiveAt(k, l) =>
                (Before(Place(config, k, l), p1) <=> Before(Place(config, k, l), p2))
  PROVE  SamePassed(config, p1, p2)
  <1>1. SUFFICES ASSUME NEW j \in DOMAIN plan, NEW l \in Hooks \X Nat, Collective(config, j, l)
                 PROVE  Before(Place(config, j, l), p1) <=> Before(Place(config, j, l), p2)
    BY KeepsFlag DEF SamePassed
  <1>2. j \in Nat /\ CollectiveAt(j, l)
    BY <1>1, CollectivePlaces
  <1>3. PICK a \in Nat, b \in Nat : Place(config, j, l) = <<j, a, b>>
    BY <1>2, UnitsShape DEF CollectiveAt
  <1>4. CASE j = k
    BY <1>1, <1>2, <1>4
  <1>5. CASE j # k
    <2>1. ASSUME NEW p \in InStep(k) PROVE Before(<<j, a, b>>, p) <=> j < k
      <3>1. CASE p = <<k + 1, 0, 0>>
        BY <1>2, <1>3, <1>5, <3>1 DEF Before
      <3>2. CASE p # <<k + 1, 0, 0>>
        <4>1. PICK x \in Nat, y \in Nat : p = <<k, x, y>>
          BY <3>2 DEF InStep
        <4>2. QED  BY <1>2, <1>5, <4>1 DEF Before
      <3>3. QED  BY <3>1, <3>2
    <2>2. QED  BY <1>3, <2>1
  <1>6. QED  BY <1>4, <1>5

LEMMA ForwardPassed ==
  ASSUME plan \in Seq(StepKinds), NEW k \in Nat, plan[k] \in {"forward", "eval"},
         NEW p1 \in InStep(k), NEW p2 \in InStep(k),
         \A n \in 0 .. Root - 1 : (n = 0 => Root \in Units) =>
            (Before(<<k, n, 1>>, p1) <=> Before(<<k, n, 1>>, p2))
  PROVE  SamePassed(config, p1, p2)
  <1>1. \A l : CollectiveAt(k, l) =>
            (Before(Place(config, k, l), p1) <=> Before(Place(config, k, l), p2))
    BY DEF CollectiveAt, BackwardKinds
  <1>2. QED  BY <1>1, WithinStep

LEMMA BackwardPassed ==
  ASSUME plan \in Seq(StepKinds), NEW k \in Nat, plan[k] \in BackwardKinds,
         NEW p1 \in InStep(k), NEW p2 \in InStep(k),
         Root \in Units /\ reshardRoot => (Before(<<k, 0, 1>>, p1) <=> Before(<<k, 0, 1>>, p2)),
         \A i \in Params :
            /\ ReachedFirst(i) /\ ReshardsAfterForward(Order[i]) =>
                  (Before(<<k, i, 1>>, p1) <=> Before(<<k, i, 1>>, p2))
            /\ plan[k] = "backward" /\ (\A j \in ParamsOf(Order[i]) : j <= i) =>
                  (Before(<<k, i, 5>>, p1) <=> Before(<<k, i, 5>>, p2))
  PROVE  SamePassed(config, p1, p2)
  <1>1. \A l : CollectiveAt(k, l) =>
            (Before(Place(config, k, l), p1) <=> Before(Place(config, k, l), p2))
    BY DEF CollectiveAt, BackwardKinds
  <1>2. QED  BY <1>1, WithinStep

LEMMA FinishPassed ==
  ASSUME plan \in Seq(StepKinds), NEW k \in Nat, plan[k] = "finish",
         NEW p1 \in InStep(k), NEW p2 \in InStep(k),
         Accumulated(plan, k - 1) # {} /\ Cardinality(Ranks) # 1 =>
            \A n \in Units : Before(<<k, n, 5>>, p1) <=> Before(<<k, n, 5>>, p2)
  PROVE  SamePassed(config, p1, p2)
  <1>1. \A l : CollectiveAt(k, l) =>
            (Before(Place(config, k, l), p1) <=> Before(Place(config, k, l), p2))
    BY DEF CollectiveAt, BackwardKinds
  <1>2. QED  BY <1>1, WithinStep

LEMMA SummonPassed ==
  ASSUME plan \in Seq(StepKinds), NEW k \in Nat, plan[k] = "summon",
         NEW p1 \in InStep(k), NEW p2 \in InStep(k),
         \A n \in Units : Before(<<k, 1, n>>, p1) <=> Before(<<k, 1, n>>, p2)
  PROVE  SamePassed(config, p1, p2)
  <1>1. \A l : CollectiveAt(k, l) =>
            (Before(Place(config, k, l), p1) <=> Before(Place(config, k, l), p2))
    BY DEF CollectiveAt, BackwardKinds
  <1>2. QED  BY <1>1, WithinStep

\* Where a backward arrives, the collectives of what comes before are past.
LEMMA ArrivingPassed ==
  ASSUME plan \in Seq(StepKinds), NEW k \in Nat, plan[k] \in BackwardKinds,
         NEW i \in 1 .. Len(Order) + 1, NEW p \in InStep(k),
         Root \in Units /\ reshardRoot => Before(<<k, 0, 1>>, p),
         \A j \in Params : /\ Before(<<k, j, 1>>, p) <=> j < i
                           /\ (\A m \in ParamsOf(Order[j]) : m <= j) /\ plan[k] = "backward" =>
                                 (Before(<<k, j, 5>>, p) <=> j < i)
  PROVE  SamePassed(config, p, Place(config, k, Reached(i)))
  <1>1. CASE i = Len(Order) + 1
    <2>1. Place(config, k, Reached(i)) = <<k + 1, 0, 0>>
      BY <1>1, UnitsShape DEF Reached, Place
    <2>2. \A j \in Params : j < i /\ j \in Nat
      BY <1>1, UnitsShape
    <2>3. \A a \in Nat, b \in Nat : Before(<<k, a, b>>, <<k + 1, 0, 0>>)
      BY DEF Before
    <2>4. <<k + 1, 0, 0>> \in InStep(k)
      BY DEF InStep
    <2>5. QED  BY <2>1, <2>2, <2>3, <2>4, BackwardPassed
  <1>2. CASE i \in Params
    <2>1. /\ i \in Nat \ {0} /\ \A j \in Params : j \in Nat
          /\ \A j \in ParamsOf(Order[i]) : j \in Nat
      BY <1>2, UnitsShape DEF ParamsOf
    <2>2. PICK h \in {"gather", "grad"} :
              /\ Reached(i) = <<h, i>>
              /\ ReachedFirst(i) /\ ReshardsAfterForward(Order[i]) => h = "gather"
      BY <1>2, <2>1, UnitsShape DEF Reached
    <2>3. PICK b \in {1, 2} :
              /\ Place(config, k, Reached(i)) = <<k, i, b>>
              /\ ReachedFirst(i) /\ ReshardsAfterForward(Order[i]) => b = 1
      <3>1. <<h, i>> # Return
        BY DEF Return
      <3>2. plan[k] # "summon"
        BY DEF BackwardKinds
      <3>3. Place(config, k, <<h, i>>) = <<k, i, HookOrder[h]>>
        BY <3>1, <3>2, PlaceIs
      <3>4. HookOrder["gather"] = 1 /\ HookOrder["grad"] = 2
        BY DEF HookOrder
      <3>5. QED  BY <2>2, <3>3, <3>4
    <2>4. <<k, i, b>> \in InStep(k)
      BY <2>1 DEF InStep
    <2>5. Before(<<k, 0, 1>>, <<k, i, b>>)
      BY <2>1 DEF Before
    <2>6. ASSUME NEW j \in Params
          PROVE  /\ ReachedFirst(j) /\ ReshardsAfterForward(Order[j]) =>
                       (Before(<<k, j, 1>>, <<k, i, b>>) <=> j < i)
                 /\ Before(<<k, j, 5>>, <<k, i, b>>) <=> j < i
      BY <2>1, <2>3 DEF Before
    <2>7. QED  BY <2>3, <2>4, <2>5, <2>6, BackwardPassed
  <1>3. QED  BY <1>1, <1>2, UnitsShape

LEMMA CallerPassed ==
  ASSUME NEW r \in Ranks, Types, UnitsInv(r), Alternates(plan),
         \/ Forward(r) \/ Evaluate(r) \/ Backward(r)
         \/ FinishGradientSync(r) \/ SummonFullParams(r) \/ OptStep(r)
  PROVE  SamePassed(config, PlaceOf(r), Place(config, step'[r], at'[r]))
  <1>1. PICK k : k = step[r] + 1
    OBVIOUS
  <1>2. /\ NextIs(r, plan[k]) /\ step'[r] = k /\ at[r] = Return
        /\ \/ plan[k] \in {"forward", "eval"} /\ at'[r] = FirstModule
           \/ plan[k] \in BackwardKinds /\ at'[r] = FirstReached
           \/ plan[k] = "finish" /\ at'[r] = IF Cardinality(Ranks) = 1 THEN Return ELSE EachUnit("flush", 1)
           \/ plan[k] = "summon" /\ at'[r] = EachUnit("gather", 1)
           \/ plan[k] = "opt" /\ at'[r] = Return
    BY <1>1 DEF Types, Forward, Evaluate, Backward, FinishGradientSync, SummonFullParams, OptStep,
                Begin, NextIs, Idle
  <1>3. plan \in Seq(StepKinds) /\ step[r] \in Nat /\ k \in Nat /\ k \in DOMAIN plan
    BY <1>1, <1>2, Beginning
  <1>4. /\ PlaceOf(r) = <<k, 0, 0>> /\ <<k, 0, 0>> \in InStep(k)
        /\ <<k, 0, 1>> \in InStep(k) /\ <<k, 1, 1>> \in InStep(k) /\ <<k + 1, 0, 0>> \in InStep(k)
    BY <1>1, <1>2 DEF PlaceOf, Place, InStep
  <1>5. \A a \in Nat, b \in Nat : ~Before(<<k, a, b>>, <<k, 0, 0>>)
    BY <1>3 DEF Before
  <1>6. HookOrder["gather"] = 1 /\ HookOrder["flush"] = 1
    BY DEF HookOrder
  <1>7. \A n : <<"gather", n>> # Return /\ <<"flush", n>> # Return
    BY DEF Return
  <1>8. CASE plan[k] \in {"forward", "eval"} /\ at'[r] = FirstModule
    <2>1. PICK n \in {0, 1} : at'[r] = <<"gather", n>> /\ (Root \in Units => n = 0)
      BY <1>8, UnitsShape DEF FirstModule, Module, Blocks
    <2>2. Place(config, k, at'[r]) = <<k, n, 1>>
      BY <1>6, <1>7, <1>8, <2>1, KeepsFlag DEF Place
    <2>3. \A m \in 0 .. Root - 1 : (m = 0 => Root \in Units) => ~Before(<<k, m, 1>>, <<k, n, 1>>)
      BY <1>3, <2>1, UnitsShape DEF Before
    <2>4. \A m \in 0 .. Root - 1 : m \in Nat
      OBVIOUS
    <2>5. <<k, n, 1>> \in InStep(k)
      BY <1>4, <2>1
    <2>6. QED  BY <1>2, <1>3, <1>4, <1>5, <1>8, <2>2, <2>3, <2>4, <2>5, ForwardPassed
  <1>9. CASE plan[k] \in BackwardKinds /\ at'[r] = FirstReached
    <2>1. \A j \in Params : j \in Nat \ {0}
      BY UnitsShape
    <2>2. CASE Root \in Units /\ reshardRoot
      <3>1. at'[r] = <<"gather", 0>>
        BY <1>9, <2>2 DEF FirstReached
      <3>2. Place(config, k, at'[r]) = <<k, 0, 1>>
        BY <1>6, <1>7, <1>9, <3>1, KeepsFlag DEF Place, BackwardKinds
      <3>3. ~Before(<<k, 0, 1>>, <<k, 0, 1>>) /\ ~Before(<<k, 0, 1>>, <<k, 0, 0>>)
        BY <1>3 DEF Before
      <3>4. \A j \in Params : ~Before(<<k, j, 1>>, <<k, 0, 1>>) /\ ~Before(<<k, j, 5>>, <<k, 0, 1>>)
        BY <1>3, <2>1 DEF Before
      <3>5. \A j \in Params : ~Before(<<k, j, 1>>, <<k, 0, 0>>) /\ ~Before(<<k, j, 5>>, <<k, 0, 0>>)
        BY <1>5, <2>1
      <3>6. SamePassed(config, <<k, 0, 0>>, <<k, 0, 1>>)
        BY <1>3, <1>4, <1>9, <3>3, <3>4, <3>5, BackwardPassed
      <3>7. QED  BY <1>2, <1>4, <3>2, <3>6
    <2>3. CASE ~(Root \in Units /\ reshardRoot)
      <3>1. at'[r] = Reached(1) /\ 1 \in 1 .. Len(Order) + 1
        BY <1>9, <2>3, UnitsShape DEF FirstReached
      <3>2. \A j \in Params : ~(j < 1) /\ \A b \in Nat : ~Before(<<k, j, b>>, <<k, 0, 0>>)
        BY <1>5, <2>1
      <3>3. QED  BY <1>2, <1>3, <1>4, <1>9, <2>3, <3>1, <3>2, ArrivingPassed
    <2>4. QED  BY <2>2, <2>3
  <1>10. CASE plan[k] = "finish" /\ at'[r] = IF Cardinality(Ranks) = 1 THEN Return ELSE EachUnit("flush", 1)
    <2>1. \A n \in Units : n \in Nat \ {0}
      BY UnitsShape
    <2>2. CASE Cardinality(Ranks) = 1
      <3>1. Place(config, k, at'[r]) = <<k + 1, 0, 0>>
        BY <1>10, <2>2 DEF Place
      <3>2. QED  BY <1>2, <1>3, <1>4, <1>10, <2>2, <3>1, FinishPassed
    <2>3. CASE Cardinality(Ranks) # 1
      <3>1. at'[r] = <<"flush", 1>>
        BY <1>10, <2>3, UnitsShape DEF EachUnit
      <3>2. Place(config, k, at'[r]) = <<k, 1, 1>>
        BY <1>6, <1>7, <1>10, <3>1, KeepsFlag DEF Place
      <3>3. \A n \in Units : ~Before(<<k, n, 5>>, <<k, 1, 1>>) /\ ~Before(<<k, n, 5>>, <<k, 0, 0>>)
        BY <1>3, <2>1 DEF Before
      <3>4. QED  BY <1>2, <1>3, <1>4, <1>10, <3>2, <3>3, FinishPassed
    <2>4. QED  BY <2>2, <2>3
  <1>11. CASE plan[k] = "summon" /\ at'[r] = EachUnit("gather", 1)
    <2>1. \A n \in Units : n \in Nat \ {0}
      BY UnitsShape
    <2>2. at'[r] = <<"gather", 1>>
      BY <1>11, UnitsShape DEF EachUnit
    <2>3. Place(config, k, at'[r]) = <<k, 1, 1>>
      BY <1>6, <1>7, <1>11, <2>2, KeepsFlag DEF Place
    <2>4. \A n \in Units : ~Before(<<k, 1, n>>, <<k, 1, 1>>) /\ ~Before(<<k, 1, n>>, <<k, 0, 0>>)
      BY <1>3, <2>1 DEF Before
    <2>5. QED  BY <1>2, <1>3, <1>4, <1>11, <2>3, <2>4, SummonPassed
  <1>12. CASE plan[k] = "opt" /\ at'[r] = Return
    <2>1. Place(config, k, at'[r]) = <<k + 1, 0, 0>>
      BY <1>12 DEF Place
    <2>2. \A l : ~CollectiveAt(k, l)
      BY <1>12 DEF CollectiveAt, BackwardKinds
    <2>3. QED  BY <1>2, <1>3, <1>4, <2>1, <2>2, WithinStep
  <1>13. QED  BY <1>2, <1>8, <1>9, <1>10, <1>11, <1>12

\* A gather that is skipped is no collective.
LEMMA SkipPassed ==
  ASSUME NEW r \in Ranks, Types, UnitsInv(r), Alternates(plan), SkipGather(r)
  PROVE  SamePassed(config, PlaceOf(r), Place(config, step'[r], at'[r]))
  <1> DEFINE k == step[r]
             n == Pos(r)
  <1>1. /\ at[r] # Return /\ at[r] = <<"gather", n>> /\ n \in Nat
        /\ k \in DOMAIN plan /\ plan \in Seq(StepKinds) /\ k \in Nat /\ Kind(r) = plan[k]
        /\ \/ Kind(r) \in {"forward", "eval"} /\ OnForward("gather", n)
           \/ Kind(r) \in BackwardKinds /\ OnBackward(config, Kind(r), "gather", n)
           \/ Kind(r) = "summon" /\ OnSummon("gather", n)
        /\ step'[r] = k /\ at'[r] = AfterGather(r)
    BY Within DEF SkipGather, Continue, Types, OnFinish
  <1>2. ~Collective(config, k, at[r])
    <2>1. UnitAt(r) \in Units /\ Unsharded(r, UnitAt(r))
      <3>1. Unsharded(r, UnitAt(r))
        BY DEF SkipGather
      <3>2. UnitAt(r) \in Units
        <4>1. CASE Kind(r) \in {"forward", "eval"} /\ OnForward("gather", n)
          <5>1. Kind(r) \notin BackwardKinds
            BY <4>1 DEF BackwardKinds
          <5>2. n = 0 \/ n \in Blocks
            BY <4>1, UnitsAssumption DEF OnForward, Root, Blocks
          <5>3. QED  BY <4>1, <5>1, <5>2, UnitsShape DEF UnitAt, OnForward
        <4>2. CASE Kind(r) \in BackwardKinds /\ OnBackward(config, Kind(r), "gather", n)
          BY <4>2, UnitsShape DEF UnitAt, OnBackward
        <4>3. CASE Kind(r) = "summon" /\ OnSummon("gather", n)
          BY <4>3, UnitsShape DEF UnitAt, OnSummon, BackwardKinds
        <4>4. QED  BY <1>1, <4>1, <4>2, <4>3
      <3>3. QED  BY <3>1, <3>2
    <2>2. UnitAt(r) \in Gathered(config, k, at[r])
      BY <2>1 DEF UnitsInv
    <2>3. UnitOf(config, k, at[r]) = UnitAt(r)
      BY <1>1, KeepsFlag DEF UnitOf, UnitAt, Pos
    <2>4. at[r][1] = "gather" /\ at[r][1] # "reduce"
      BY <1>1
    <2>5. QED  BY <2>2, <2>3, <2>4 DEF Collective
  <1>3. PICK a \in Nat, b \in Nat :
            /\ PlaceOf(r) = <<k, a, b>>
            /\ plan[k] = "summon" => a = 1 /\ b = n
            /\ plan[k] # "summon" => a = n /\ b = 1
    <2>1. HookOrder["gather"] = 1
      BY DEF HookOrder
    <2>2. /\ plan[k] = "summon" => PlaceOf(r) = <<k, 1, n>>
          /\ plan[k] # "summon" => PlaceOf(r) = <<k, n, 1>>
      BY <1>1, <2>1, KeepsFlag DEF PlaceOf, Place
    <2>3. QED  BY <1>1, <2>2
  <1>4. <<k, a, b>> \in InStep(k) /\ <<k, a, b + 1>> \in InStep(k)
    BY DEF InStep
  <1>5. SamePassed(config, <<k, a, b>>, <<k, a, b + 1>>)
    <2>1. SUFFICES ASSUME NEW j \in DOMAIN plan, NEW l \in Hooks \X Nat, Collective(config, j, l)
                   PROVE  Before(Place(config, j, l), <<k, a, b>>) <=>
                              Before(Place(config, j, l), <<k, a, b + 1>>)
      BY KeepsFlag DEF SamePassed
    <2>2. j \in Nat /\ CollectiveAt(j, l)
      BY <1>1, <2>1, CollectivePlaces
    <2>3. PICK x \in Nat, y \in Nat : Place(config, j, l) = <<j, x, y>>
      BY <2>2, UnitsShape DEF CollectiveAt
    <2>4. Place(config, j, l) # <<k, a, b>>
      <3>1. SUFFICES ASSUME Place(config, j, l) = <<k, a, b>> PROVE FALSE
        OBVIOUS
      <3>2. j = k
        BY <2>3, <3>1
      <3>3. CASE plan[k] = "summon"
        <4>1. CollectiveAt(k, l) /\ Collective(config, k, l) /\ Place(config, k, l) = <<k, 1, n>>
          BY <1>3, <2>1, <2>2, <3>1, <3>2, <3>3
        <4>2. PICK m \in Units : l = <<"gather", m>> /\ Place(config, k, l) = <<k, 1, m>>
          BY <3>3, <4>1 DEF CollectiveAt, BackwardKinds
        <4>3. l = at[r]
          BY <1>1, <4>1, <4>2
        <4>4. QED  BY <1>2, <4>1, <4>3
      <3>4. CASE plan[k] # "summon"
        BY <1>1, <1>2, <1>3, <2>1, <2>2, <3>1, <3>2, <3>4 DEF CollectiveAt
      <3>5. QED  BY <3>3, <3>4
    <2>5. QED  BY <1>1, <2>2, <2>3, <2>4 DEF Before
  <1>6. SamePassed(config, <<k, a, b + 1>>, Place(config, k, AfterGather(r)))
    <2>1. HookOrder["gather"] = 1 /\ HookOrder["arm"] = 2 /\ HookOrder["grad"] = 2 /\ HookOrder["use"] = 3
      BY DEF HookOrder
    <2>2. ASSUME NEW p, p = <<k, a, b + 1>> PROVE SamePassed(config, p, p)
      BY DEF SamePassed
    <2>3. CASE Kind(r) \in {"forward", "eval"}
      <3>1. AfterGather(r) = <<"arm", n>> /\ <<"arm", n>> # Return
        BY <2>3 DEF AfterGather, BackwardKinds, Return
      <3>2. Place(config, k, AfterGather(r)) = <<k, a, b + 1>>
        BY <1>1, <1>3, <2>1, <2>3, <3>1, KeepsFlag DEF Place
      <3>3. QED  BY <2>2, <3>2
    <2>4. CASE Kind(r) \in BackwardKinds /\ n # 0
      <3>1. AfterGather(r) = <<"grad", n>> /\ <<"grad", n>> # Return
        BY <2>4 DEF AfterGather, BackwardKinds, Return
      <3>2. Place(config, k, AfterGather(r)) = <<k, a, b + 1>>
        BY <1>1, <1>3, <2>1, <2>4, <3>1, KeepsFlag DEF Place, BackwardKinds
      <3>3. QED  BY <2>2, <3>2
    <2>5. CASE Kind(r) \in BackwardKinds /\ n = 0
      <3>1. AfterGather(r) = Reached(1) /\ 1 \in 1 .. Len(Order) + 1
        BY <2>5, UnitsShape DEF AfterGather, BackwardKinds
      <3>2. a = 0 /\ b = 1
        BY <1>1, <1>3, <2>5 DEF BackwardKinds
      <3>3. Before(<<k, 0, 1>>, <<k, a, b + 1>>)
        BY <1>1, <3>2 DEF Before
      <3>4. \A j \in Params : j \in Nat \ {0} /\ ~(j < 1)
        BY UnitsShape
      <3>5. \A j \in Params : ~Before(<<k, j, 1>>, <<k, a, b + 1>>) /\ ~Before(<<k, j, 5>>, <<k, a, b + 1>>)
        BY <1>1, <3>2, <3>4 DEF Before
      <3>6. QED  BY <1>1, <1>4, <2>5, <3>1, <3>3, <3>4, <3>5, ArrivingPassed
    <2>6. CASE Kind(r) = "summon"
      <3>1. n \in Units /\ a = 1 /\ b = n /\ \A m \in Units : m \in Nat
        BY <1>1, <1>3, <2>6, UnitsShape DEF OnSummon, BackwardKinds
      <3>2. CASE n < LastUnit
        <4>1. AfterGather(r) = <<"gather", n + 1>> /\ <<"gather", n + 1>> # Return
          BY <2>6, <3>2 DEF AfterGather, Return
        <4>2. plan[k] = "summon"
          BY <1>1, <2>6
        <4>3. Place(config, k, <<"gather", n + 1>>) = <<k, 1, n + 1>>
          BY <4>1, <4>2, PlaceIs
        <4>4. Place(config, k, AfterGather(r)) = <<k, a, b + 1>>
          BY <3>1, <4>1, <4>3
        <4>5. QED  BY <2>2, <4>4
      <3>3. CASE ~(n < LastUnit)
        <4>1. AfterGather(r) = <<"use", 1>> /\ <<"use", 1>> # Return
          BY <2>6, <3>3 DEF AfterGather, Return
        <4>2. Place(config, k, AfterGather(r)) = <<k, 3, 1>>
          <5>1. plan[k] = "summon"
            BY <1>1, <2>6
          <5>2. Place(config, k, <<"use", 1>>) = <<k, 3, 1>>
            BY <4>1, <5>1, PlaceIs
          <5>3. QED  BY <4>1, <5>2
        <4>3. \A m \in Units : m < n + 1
          BY <1>1, <3>1, <3>3, UnitsShape
        <4>4. \A m \in Units : Before(<<k, 1, m>>, <<k, 1, n + 1>>) /\ Before(<<k, 1, m>>, <<k, 3, 1>>)
          BY <1>1, <3>1, <4>3 DEF Before
        <4>5. <<k, 3, 1>> \in InStep(k)
          BY DEF InStep
        <4>6. QED  BY <1>1, <1>4, <2>6, <3>1, <4>2, <4>4, <4>5, SummonPassed
      <3>4. QED  BY <3>2, <3>3
    <2>7. QED  BY <1>1, <2>3, <2>4, <2>5, <2>6
  <1>7. QED  BY <1>1, <1>3, <1>5, <1>6 DEF SamePassed

LEMMA WalkForwardPassed ==
  ASSUME NEW r \in Ranks, Types, UnitsInv(r), Alternates(plan),
         Arm(r) \/ Use(r) \/ PostForward(r), Kind(r) # "summon"
  PROVE  SamePassed(config, PlaceOf(r), Place(config, step'[r], at'[r]))
  <1> DEFINE k == step[r]
             n == Pos(r)
  <1>1. PICK op \in {"arm", "use", "post"} :
            /\ At(r, op) /\ step' = step
            /\ op = "arm" => at'[r] = <<"use", n>>
            /\ op = "use" => at'[r] = IF n = 0 THEN Module(1) ELSE <<"post", n>>
            /\ op = "post" => at'[r] = IF n = Root THEN Return ELSE Module(n + 1)
    BY DEF Arm, Use, PostForward, Continue, Types
  <1>2. /\ at[r] # Return /\ at[r] = <<op, n>> /\ n \in Nat
        /\ plan \in Seq(StepKinds) /\ k \in Nat /\ Kind(r) = plan[k]
        /\ plan[k] \in {"forward", "eval"} /\ OnForward(op, n)
    <2>1. ~OnBackward(config, Kind(r), op, n) /\ ~OnFinish(op, n)
      BY <1>1 DEF OnBackward, OnFinish
    <2>2. QED  BY <1>1, <2>1, Within
  <1>3. plan[k] # "summon" /\ step'[r] = k
    BY <1>1, <1>2 DEF Types
  <1>4. \A h, m : <<h, m>> # Return => Place(config, k, <<h, m>>) = <<k, m, HookOrder[h]>>
    BY <1>3, PlaceIs
  <1>5. \A m : \A h \in {"gather", "arm", "use", "post"} : <<h, m>> # Return
    BY DEF Return
  <1>6. /\ HookOrder["gather"] = 1 /\ HookOrder["arm"] = 2
        /\ HookOrder["use"] = 3 /\ HookOrder["post"] = 4
    BY DEF HookOrder
  <1>7. PlaceOf(r) = <<k, n, HookOrder[op]>> /\ HookOrder[op] \in {2, 3, 4}
    BY <1>1, <1>2, <1>4, <1>6 DEF PlaceOf
  <1>8. ASSUME NEW m \in 0 .. Root - 1, NEW x \in Nat, NEW b \in {2, 3, 4}
        PROVE  Before(<<k, m, 1>>, <<k, x, b>>) <=> m <= x
    BY <1>2 DEF Before
  <1>9. \A x \in Nat, b \in Nat : <<k, x, b>> \in InStep(k)
    BY DEF InStep
  <1>10. \A m \in 0 .. Root - 1 : m \in Nat
    BY UnitsShape
  <1>11. CASE at'[r] = <<"use", n>> \/ at'[r] = <<"post", n>>
    <2>1. PICK b \in {3, 4} : Place(config, k, at'[r]) = <<k, n, b>>
      BY <1>4, <1>5, <1>6, <1>11
    <2>2. \A m \in 0 .. Root - 1 : Before(<<k, m, 1>>, <<k, n, HookOrder[op]>>) <=> Before(<<k, m, 1>>, <<k, n, b>>)
      BY <1>2, <1>7, <1>8
    <2>3. QED  BY <1>2, <1>3, <1>7, <1>9, <2>1, <2>2, ForwardPassed
  <1>12. CASE at'[r] # <<"use", n>> /\ at'[r] # <<"post", n>>
    <2>1. /\ n \in 0 .. Root
          /\ at'[r] = IF n = Root THEN Return ELSE Module(n + 1)
      <3>1. Root # 0
        BY UnitsShape
      <3>2. n = 0 => n + 1 = 1
        OBVIOUS
      <3>3. QED  BY <1>1, <1>2, <1>12, <3>1, <3>2 DEF OnForward
    <2>2. CASE n + 1 < Root
      <3>1. at'[r] = <<"gather", n + 1>>
        BY <1>2, <2>1, <2>2, UnitsShape DEF Module
      <3>2. Place(config, k, at'[r]) = <<k, n + 1, 1>>
        BY <1>4, <1>5, <1>6, <3>1
      <3>3. \A m \in 0 .. Root - 1 : Before(<<k, m, 1>>, <<k, n + 1, 1>>) <=> m <= n
        BY <1>2, <1>10 DEF Before
      <3>4. \A m \in 0 .. Root - 1 : Before(<<k, m, 1>>, <<k, n, HookOrder[op]>>) <=> m <= n
        BY <1>2, <1>7, <1>8
      <3>5. <<k, n + 1, 1>> \in InStep(k) /\ <<k, n, HookOrder[op]>> \in InStep(k)
        BY <1>2, <1>7, <1>9
      <3>6. SamePassed(config, <<k, n, HookOrder[op]>>, <<k, n + 1, 1>>)
        BY <1>2, <3>3, <3>4, <3>5, ForwardPassed
      <3>7. QED  BY <1>3, <1>7, <3>2, <3>6
    <2>3. CASE ~(n + 1 < Root)
      <3>1. \A m \in 0 .. Root - 1 : m <= n
        BY <1>2, <2>3, UnitsShape
      <3>2. at'[r] = Return \/ (at'[r] = <<"use", Root>> /\ n + 1 = Root)
        BY <2>1, <2>3, UnitsShape DEF Module
      <3>3. CASE at'[r] = Return
        <4>1. Place(config, k, at'[r]) = <<k + 1, 0, 0>>
          BY <3>3 DEF Place
        <4>2. \A m \in 0 .. Root - 1 : Before(<<k, m, 1>>, <<k + 1, 0, 0>>)
          BY <1>2 DEF Before
        <4>3. <<k + 1, 0, 0>> \in InStep(k)
          BY DEF InStep
        <4>4. QED  BY <1>2, <1>3, <1>7, <1>8, <1>9, <3>1, <4>1, <4>2, <4>3, ForwardPassed
      <3>4. CASE at'[r] = <<"use", Root>> /\ n + 1 = Root
        <4>1. Place(config, k, at'[r]) = <<k, Root, 3>>
          BY <1>4, <1>5, <1>6, <3>4
        <4>2. \A m \in 0 .. Root - 1 : m <= Root
          BY UnitsShape
        <4>3. \A m \in 0 .. Root - 1 : Before(<<k, m, 1>>, <<k, Root, 3>>)
          BY <1>8, <4>2, UnitsShape
        <4>4. QED  BY <1>2, <1>3, <1>7, <1>8, <1>9, <3>1, <4>1, <4>3, UnitsShape, ForwardPassed
      <3>5. QED  BY <3>2, <3>3, <3>4
    <2>4. QED  BY <2>2, <2>3
  <1>13. QED  BY <1>11, <1>12

LEMMA WalkSummonPassed ==
  ASSUME NEW r \in Ranks, Types, UnitsInv(r), Alternates(plan),
         (Use(r) /\ Kind(r) = "summon") \/ Restore(r)
  PROVE  SamePassed(config, PlaceOf(r), Place(config, step'[r], at'[r]))
  <1> DEFINE k == step[r]
             n == Pos(r)
  <1>1. PICK op \in {"use", "restore"} :
            /\ At(r, op) /\ step' = step /\ (op = "use" => Kind(r) = "summon")
            /\ at'[r] \in {<<"use", n + 1>>, <<"restore", 1>>, <<"restore", n + 1>>, Return}
    BY DEF Use, Restore, Continue, Types, EachUnit
  <1>2. /\ at[r] # Return /\ at[r] = <<op, n>> /\ n \in Nat
        /\ plan \in Seq(StepKinds) /\ k \in Nat /\ plan[k] = "summon" /\ n \in Units
    <2>1. /\ ~OnBackward(config, Kind(r), op, n) /\ ~OnFinish(op, n)
          /\ op = "use" \/ ~OnForward(op, n)
      BY <1>1 DEF OnBackward, OnFinish, OnForward
    <2>2. /\ at[r] # Return /\ at[r] = <<op, n>> /\ n \in Nat
          /\ plan \in Seq(StepKinds) /\ k \in Nat /\ Kind(r) = plan[k]
          /\ \/ Kind(r) \in {"forward", "eval"} /\ OnForward(op, n)
             \/ Kind(r) = "summon" /\ OnSummon(op, n)
      BY <1>1, <2>1, Within
    <2>3. Kind(r) = "summon" /\ OnSummon(op, n)
      BY <1>1, <2>1, <2>2
    <2>4. QED  BY <2>2, <2>3 DEF OnSummon
  <1>3. step'[r] = k
    BY <1>1
  <1>4. \A h, m : <<h, m>> # Return => Place(config, k, <<h, m>>) = <<k, HookOrder[h], m>>
    BY <1>2, PlaceIs
  <1>5. HookOrder["use"] = 3 /\ HookOrder["restore"] = 7
    BY DEF HookOrder
  <1>6. \A m : <<"use", m>> # Return /\ <<"restore", m>> # Return
    BY DEF Return
  <1>7. \A x \in {3, 7}, y \in Nat : <<k, x, y>> \in InStep(k)
    BY DEF InStep
  <1>8. \A m \in Units : m \in Nat
    BY UnitsShape
  <1>9. \A m \in Units : \A x \in {3, 7}, y \in Nat : Before(<<k, 1, m>>, <<k, x, y>>)
    BY <1>2, <1>8 DEF Before
  <1>10. PICK x \in {3, 7} : PlaceOf(r) = <<k, x, n>>
    BY <1>1, <1>2, <1>4, <1>5 DEF PlaceOf
  <1>11. CASE at'[r] = Return
    <2>1. Place(config, k, at'[r]) = <<k + 1, 0, 0>>
      BY <1>11 DEF Place
    <2>2. \A m \in Units : Before(<<k, 1, m>>, <<k + 1, 0, 0>>)
      BY <1>2 DEF Before
    <2>3. <<k + 1, 0, 0>> \in InStep(k)
      BY DEF InStep
    <2>4. QED  BY <1>2, <1>3, <1>7, <1>9, <1>10, <2>1, <2>2, <2>3, SummonPassed
  <1>12. CASE at'[r] # Return
    <2>1. PICK y \in {3, 7}, m \in Nat : Place(config, k, at'[r]) = <<k, y, m>>
      <3>1. PICK h \in {"use", "restore"}, m \in Nat : at'[r] = <<h, m>>
        BY <1>1, <1>2, <1>12
      <3>2. Place(config, k, at'[r]) = <<k, HookOrder[h], m>>
        BY <1>4, <1>6, <3>1
      <3>3. QED  BY <1>5, <3>1, <3>2
    <2>2. QED  BY <1>2, <1>3, <1>7, <1>9, <1>10, <2>1, SummonPassed
  <1>13. QED  BY <1>11, <1>12

LEMMA GradReadyPassed ==
  ASSUME NEW r \in Ranks, Types, UnitsInv(r), Alternates(plan), GradReady(r)
  PROVE  SamePassed(config, PlaceOf(r), Place(config, step'[r], at'[r]))
  <1> DEFINE k == step[r]
             i == Pos(r)
             u == UnitAt(r)
  <1>0. At(r, "grad") /\ Kind(r) \in BackwardKinds /\ k \in Nat /\ plan \in Seq(StepKinds)
    BY Within DEF GradReady, OnForward, OnFinish, OnSummon
  <1>1. /\ at[r] # Return /\ at[r] = <<"grad", i>> /\ i \in Params /\ i \in Nat \ {0}
        /\ plan[k] = Kind(r) /\ u = Order[i] /\ u \in Units /\ i \in ParamsOf(u)
        /\ \A v \in Units : \A j \in ParamsOf(v) : j \in Nat
        /\ pending[r][u] = Cardinality(Remaining("grad", i, u))
    BY <1>0, AtParam
  <1>2. \A m \in Params : m \in Nat
    BY UnitsShape
  <1>3. plan[k] # "summon" /\ plan[k] \in BackwardKinds /\ step'[r] = k
    BY <1>0, <1>1 DEF BackwardKinds, GradReady
  <1>4. PlaceOf(r) = <<k, i, 2>> /\ <<k, i, 2>> \in InStep(k)
    <2>1. Place(config, k, <<"grad", i>>) = <<k, i, 2>>
      BY <1>1, <1>3, PlaceIs
    <2>2. QED  BY <1>1, <2>1 DEF PlaceOf, InStep
  <1>5. \A j \in Params : /\ Before(<<k, j, 1>>, <<k, i, 2>>) <=> j <= i
                          /\ Before(<<k, j, 5>>, <<k, i, 2>>) <=> j < i
    BY <1>0, <1>1, <1>2 DEF Before
  <1>6. Before(<<k, 0, 1>>, <<k, i, 2>>)
    BY <1>0, <1>1 DEF Before
  <1>7. at'[r] = IF pending[r][u] - 1 > 0 THEN Reached(i + 1)
                 ELSE IF Kind(r) = "backward" THEN <<"reduce", i>> ELSE <<"free", i>>
    BY DEF GradReady, Continue, Types
  <1>8. CASE pending[r][u] - 1 > 0
    <2>1. PICK m \in ParamsOf(u) : m > i
      <3>1. Remaining("grad", i, u) = Remaining("free", i, u) \cup {i}
        BY <1>1 DEF Remaining
      <3>2. CASE Remaining("free", i, u) = {}
        <4>1. Remaining("grad", i, u) = {i}
          BY <3>1, <3>2
        <4>2. Cardinality({i}) = 1
          BY FS_Singleton
        <4>3. pending[r][u] = 1
          BY <1>1, <4>1, <4>2
        <4>4. QED  BY <1>8, <4>3
      <3>3. CASE Remaining("free", i, u) # {}
        BY <1>1, <3>3 DEF Remaining
      <3>4. QED  BY <3>2, <3>3
    <2>2. at'[r] = Reached(i + 1) /\ i + 1 \in 1 .. Len(Order) + 1
      BY <1>1, <1>7, <1>8, UnitsShape
    <2>3. ~(m <= i) /\ m \in ParamsOf(Order[i])
      BY <1>1, <2>1
    <2>4. ASSUME NEW j \in Params
          PROVE  /\ Before(<<k, j, 1>>, <<k, i, 2>>) <=> j < i + 1
                 /\ (\A p \in ParamsOf(Order[j]) : p <= j) /\ plan[k] = "backward" =>
                       (Before(<<k, j, 5>>, <<k, i, 2>>) <=> j < i + 1)
      <3>1. j <= i <=> j < i + 1
        BY <1>1, <1>2
      <3>2. j # i => (j < i <=> j < i + 1)
        BY <1>1, <1>2
      <3>3. QED  BY <1>5, <2>3, <3>1, <3>2
    <2>5. SamePassed(config, <<k, i, 2>>, Place(config, k, Reached(i + 1)))
      BY <1>0, <1>3, <1>4, <1>6, <2>2, <2>4, ArrivingPassed
    <2>6. QED  BY <1>3, <1>4, <2>2, <2>5
  <1>9. CASE ~(pending[r][u] - 1 > 0)
    <2>1. PICK h \in {"reduce", "free"} : at'[r] = <<h, i>> /\ (h = "free" => plan[k] # "backward")
      BY <1>1, <1>7, <1>9
    <2>2. PICK b \in {5, 6} : Place(config, k, at'[r]) = <<k, i, b>> /\ (b = 6 => plan[k] # "backward")
      <3>1. <<h, i>> # Return
        BY DEF Return
      <3>2. Place(config, k, <<h, i>>) = <<k, i, HookOrder[h]>>
        BY <1>3, <3>1, PlaceIs
      <3>3. HookOrder["reduce"] = 5 /\ HookOrder["free"] = 6
        BY DEF HookOrder
      <3>4. QED  BY <2>1, <3>2, <3>3
    <2>3. /\ Before(<<k, 0, 1>>, <<k, i, b>>) /\ <<k, i, b>> \in InStep(k)
          /\ \A j \in Params : /\ Before(<<k, j, 1>>, <<k, i, b>>) <=> j <= i
                               /\ b = 5 => (Before(<<k, j, 5>>, <<k, i, b>>) <=> j < i)
      BY <1>0, <1>1, <1>2 DEF Before, InStep
    <2>4. plan[k] = "backward" => b = 5
      BY <2>2
    <2>5. SamePassed(config, <<k, i, 2>>, <<k, i, b>>)
      BY <1>0, <1>3, <1>4, <1>5, <1>6, <2>3, <2>4, BackwardPassed
    <2>6. QED  BY <1>3, <1>4, <2>2, <2>5
  <1>10. QED  BY <1>8, <1>9

\* A flush passes a unit by only if no rank reduces it.
LEMMA FlushPassed ==
  ASSUME NEW r \in Ranks, Types, UnitsInv(r), Alternates(plan), GradInv(r), Flush(r)
  PROVE  SamePassed(config, PlaceOf(r), Place(config, step'[r], at'[r]))
  <1> DEFINE k == step[r]
             u == Pos(r)
  <1>1. /\ at[r] # Return /\ at[r] = <<"flush", u>> /\ u \in Nat /\ u \in Units
        /\ plan[k] = "finish" /\ k \in Nat /\ plan \in Seq(StepKinds) /\ step'[r] = k
    BY Within DEF Flush, OnForward, OnBackward, OnSummon, OnFinish
  <1>2. at'[r] = IF Accumulated(plan, k - 1) = {} THEN EachUnit("flush", u + 1) ELSE <<"reduce", u>>
    BY FlushStanding DEF Flush, Continue, Types
  <1>3. PlaceOf(r) = <<k, u, 1>> /\ <<k, u, 1>> \in InStep(k)
    <2>1. Place(config, k, <<"flush", u>>) = <<k, u, 1>>
      BY <1>1, PlaceIs
    <2>2. QED  BY <1>1, <2>1 DEF PlaceOf, InStep
  <1>4. \A n \in Units : n \in Nat
    BY UnitsShape
  <1>5. CASE Accumulated(plan, k - 1) # {}
    <2>1. at'[r] = <<"reduce", u>> /\ at'[r] # Return
      BY <1>2, <1>5 DEF Return
    <2>2. Place(config, k, at'[r]) = <<k, u, 5>>
      BY <1>1, <2>1, PlaceIs
    <2>3. <<k, u, 5>> \in InStep(k)
      BY <1>1 DEF InStep
    <2>4. \A n \in Units : Before(<<k, n, 5>>, <<k, u, 1>>) <=> Before(<<k, n, 5>>, <<k, u, 5>>)
      BY <1>1, <1>4 DEF Before
    <2>5. QED  BY <1>1, <1>3, <2>2, <2>3, <2>4, FinishPassed
  <1>6. CASE Accumulated(plan, k - 1) = {}
    <2>1. Place(config, k, at'[r]) \in InStep(k)
      <3>1. CASE u + 1 <= LastUnit
        <4>1. at'[r] = <<"flush", u + 1>> /\ <<"flush", u + 1>> # Return
          BY <1>2, <1>6, <3>1 DEF EachUnit, Return
        <4>2. Place(config, k, <<"flush", u + 1>>) = <<k, u + 1, 1>>
          <5>1. plan[k] # "summon"
            BY <1>1
          <5>2. QED  BY <4>1, <5>1, PlaceIs
        <4>3. QED  BY <1>1, <4>1, <4>2 DEF InStep
      <3>2. CASE ~(u + 1 <= LastUnit)
        <4>1. at'[r] = Return
          BY <1>2, <1>6, <3>2 DEF EachUnit
        <4>2. QED  BY <4>1 DEF Place, InStep
      <3>3. QED  BY <3>1, <3>2
    <2>2. QED  BY <1>1, <1>3, <1>6, <2>1, FinishPassed
  <1>7. QED  BY <1>5, <1>6

LEMMA FreePassed ==
  ASSUME NEW r \in Ranks, Types, UnitsInv(r), Alternates(plan), FreeReduced(r)
  PROVE  SamePassed(config, PlaceOf(r), Place(config, step'[r], at'[r]))
  <1> DEFINE k == step[r]
             i == Pos(r)
  <1>1. /\ At(r, "free") /\ at[r] # Return /\ at[r] = <<"free", i>>
        /\ Kind(r) = plan[k] /\ plan \in Seq(StepKinds) /\ i \in Nat /\ k \in Nat
        /\ Kind(r) \in BackwardKinds \/ (Kind(r) = "finish" /\ OnFinish("free", i))
        /\ step'[r] = k
    BY Within DEF FreeReduced, OnForward, OnSummon
  <1>2. plan[k] # "summon"
    BY <1>1 DEF BackwardKinds
  <1>3. PlaceOf(r) = <<k, i, 6>> /\ <<k, i, 6>> \in InStep(k)
    <2>1. Place(config, k, <<"free", i>>) = <<k, i, 6>>
      BY <1>1, <1>2, PlaceIs
    <2>2. QED  BY <1>1, <2>1 DEF PlaceOf, InStep
  <1>4. CASE Kind(r) \in BackwardKinds
    <2>1. i \in Params /\ i \in Nat \ {0}
      BY <1>1, <1>4, AtParam
    <2>2. at'[r] = Reached(i + 1) /\ i + 1 \in 1 .. Len(Order) + 1
      BY <1>4, <2>1, UnitsShape DEF FreeReduced, Continue, Types
    <2>3. \A j \in Params : j \in Nat
      BY UnitsShape
    <2>4. /\ Before(<<k, 0, 1>>, <<k, i, 6>>)
          /\ \A j \in Params : /\ Before(<<k, j, 1>>, <<k, i, 6>>) <=> j < i + 1
                               /\ Before(<<k, j, 5>>, <<k, i, 6>>) <=> j < i + 1
      BY <1>1, <2>1, <2>3 DEF Before
    <2>5. SamePassed(config, <<k, i, 6>>, Place(config, k, Reached(i + 1)))
      BY <1>1, <1>3, <1>4, <2>2, <2>4, ArrivingPassed
    <2>6. QED  BY <1>1, <1>3, <2>2, <2>5
  <1>5. CASE Kind(r) = "finish" /\ OnFinish("free", i)
    <2>1. at'[r] = EachUnit("flush", i + 1)
      BY <1>5 DEF FreeReduced, Continue, Types, BackwardKinds
    <2>2. \A n \in Units : n \in Nat
      BY UnitsShape
    <2>3. \A n \in Units : Before(<<k, n, 5>>, <<k, i, 6>>) <=> n <= i
      BY <1>1, <2>2 DEF Before
    <2>4. CASE i + 1 <= LastUnit
      <3>1. at'[r] = <<"flush", i + 1>> /\ at'[r] # Return
        BY <2>1, <2>4 DEF EachUnit, Return
      <3>2. Place(config, k, at'[r]) = <<k, i + 1, 1>>
        BY <1>2, <3>1, PlaceIs
      <3>3. \A n \in Units : Before(<<k, n, 5>>, <<k, i + 1, 1>>) <=> n <= i
        BY <1>1, <2>2 DEF Before
      <3>4. <<k, i + 1, 1>> \in InStep(k)
        BY <1>1 DEF InStep
      <3>5. QED  BY <1>1, <1>3, <1>5, <2>3, <3>2, <3>3, <3>4, FinishPassed
    <2>5. CASE ~(i + 1 <= LastUnit)
      <3>1. at'[r] = Return
        BY <2>1, <2>5 DEF EachUnit
      <3>2. Place(config, k, at'[r]) = <<k + 1, 0, 0>> /\ <<k + 1, 0, 0>> \in InStep(k)
        BY <3>1 DEF Place, InStep
      <3>3. \A n \in Units : n <= i
        BY <1>1, <2>2, <2>5, UnitsShape
      <3>4. \A n \in Units : Before(<<k, n, 5>>, <<k + 1, 0, 0>>)
        BY <1>1 DEF Before
      <3>5. QED  BY <1>1, <1>3, <1>5, <2>3, <3>2, <3>3, <3>4, FinishPassed
    <2>6. QED  BY <2>4, <2>5
  <1>6. QED  BY <1>1, <1>4, <1>5

\* A step of its own takes a rank past no collective.
LEMMA OwnPassed ==
  ASSUME NEW r \in Ranks, Types, UnitsInv(r), Alternates(plan), RankStep(r),
         Flush(r) => GradInv(r)
  PROVE  SamePassed(config, PlaceOf(r), Place(config, step'[r], at'[r]))
  <1>1. CASE \/ Forward(r) \/ Evaluate(r) \/ Backward(r)
             \/ FinishGradientSync(r) \/ SummonFullParams(r) \/ OptStep(r)
    BY <1>1, CallerPassed
  <1>2. CASE SkipGather(r) \/ GradReady(r) \/ FreeReduced(r)
    BY <1>2, SkipPassed, GradReadyPassed, FreePassed
  <1>3. CASE Flush(r)
    BY <1>3, FlushPassed
  <1>4. CASE Arm(r) \/ PostForward(r) \/ (Use(r) /\ Kind(r) # "summon")
    <2>1. Arm(r) \/ PostForward(r) => Kind(r) # "summon"
      <3>1. ASSUME NEW op \in {"arm", "post"}, At(r, op) PROVE Kind(r) # "summon"
        BY <3>1, Within DEF OnSummon, OnForward, OnBackward, OnFinish
      <3>2. QED  BY <3>1 DEF Arm, PostForward
    <2>2. QED  BY <1>4, <2>1, WalkForwardPassed
  <1>5. CASE Restore(r) \/ (Use(r) /\ Kind(r) = "summon")
    BY <1>5, WalkSummonPassed
  <1>6. QED  BY <1>1, <1>2, <1>3, <1>4, <1>5 DEF RankStep

\* Ranks that call one collective are at the same place.
LEMMA CalledTogether ==
  ASSUME LocalInv, Lockstep, NEW op, op \in {"gather", "reduce"},
         \A r \in Ranks : at[r][1] = op /\ Collective(config, step[r], at[r])
  PROVE  SamePlace
  <1>1. SUFFICES ASSUME NEW r \in Ranks, NEW s \in Ranks PROVE step[r] = step[s] /\ at[r] = at[s]
    BY DEF SamePlace
  <1>2. ASSUME NEW q \in Ranks
        PROVE  /\ at[q] # Return /\ at[q] \in Hooks \X Nat /\ step[q] \in DOMAIN plan /\ step[q] \in Nat
               /\ at[q] = <<op, at[q][2]>> /\ at[q][2] \in Nat
    <2>1. /\ at[q] # Return /\ at[q] \in Hooks \X Nat /\ At(q, op) /\ op # "idle"
          /\ UnitsInv(q) /\ Types
      BY DEF Collective, LocalInv, Types, At
    <2>2. step[q] \in DOMAIN plan /\ step[q] \in Nat
      BY <2>1, Within
    <2>3. QED  BY <2>1, <2>2 DEF At
  <1>3. PICK o \in Nat : HookOrder[op] = o
    BY DEF HookOrder
  <1>4. ASSUME NEW q \in Ranks
        PROVE  /\ plan[step[q]] = "summon" => PlaceOf(q) = <<step[q], o, at[q][2]>>
               /\ plan[step[q]] # "summon" => PlaceOf(q) = <<step[q], at[q][2], o>>
    <2>1. PICK n : n = at[q][2]
      OBVIOUS
    <2>2. at[q] = <<op, n>> /\ <<op, n>> # Return
      BY <1>2, <2>1
    <2>3. /\ plan[step[q]] = "summon" => Place(config, step[q], <<op, n>>) = <<step[q], HookOrder[op], n>>
          /\ plan[step[q]] # "summon" => Place(config, step[q], <<op, n>>) = <<step[q], n, HookOrder[op]>>
      BY <2>2, PlaceIs
    <2>4. QED  BY <1>3, <2>1, <2>2, <2>3 DEF PlaceOf
  <1>5. ASSUME NEW p \in Ranks, NEW q \in Ranks PROVE ~Before(PlaceOf(p), PlaceOf(q))
    <2>1. SamePassed(config, PlaceOf(p), PlaceOf(q))
      BY DEF Lockstep
    <2>2. /\ Collective(config, step[p], at[p]) /\ step[p] \in DOMAIN config[1]
          /\ at[p] \in Hooks \X Nat
      BY <1>2, KeepsFlag
    <2>3. Before(PlaceOf(p), PlaceOf(p)) <=> Before(PlaceOf(p), PlaceOf(q))
      BY <2>1, <2>2 DEF SamePassed, PlaceOf
    <2>4. ~Before(PlaceOf(p), PlaceOf(p))
      <3>1. PICK x \in Nat, y \in Nat, z \in Nat : PlaceOf(p) = <<x, y, z>>
        BY <1>2, <1>3, <1>4
      <3>2. QED  BY <3>1 DEF Before
    <2>5. QED  BY <2>3, <2>4
  <1>6. PICK x1 \in Nat, y1 \in Nat, x2 \in Nat, y2 \in Nat :
            /\ PlaceOf(r) = <<step[r], x1, y1>> /\ PlaceOf(s) = <<step[s], x2, y2>>
            /\ plan[step[r]] = "summon" => y1 = at[r][2]
            /\ plan[step[r]] # "summon" => x1 = at[r][2]
            /\ plan[step[s]] = "summon" => y2 = at[s][2]
            /\ plan[step[s]] # "summon" => x2 = at[s][2]
    BY <1>2, <1>3, <1>4
  <1>7. step[r] = step[s] /\ x1 = x2 /\ y1 = y2
    <2>1. ~Before(<<step[r], x1, y1>>, <<step[s], x2, y2>>)
          /\ ~Before(<<step[s], x2, y2>>, <<step[r], x1, y1>>)
      BY <1>5, <1>6
    <2>2. step[r] \in Nat /\ step[s] \in Nat
      BY <1>2
    <2>3. QED  BY <2>1, <2>2 DEF Before
  <1>8. at[r][2] = at[s][2]
    BY <1>6, <1>7
  <1>9. QED  BY <1>2, <1>7, <1>8

\* A rank about to reduce a unit in finish_gradient_sync has gradients.
Flushing(r) ==
    at[r][1] = "reduce" /\ plan[step[r]] = "finish" => Accumulated(plan, step[r] - 1) # {}

LEMMA GatheredTogether ==
  ASSUME LocalInv, Lockstep, NEW u \in Units, AllGather(u)
  PROVE  SamePlace
  <1>1. ASSUME NEW r \in Ranks PROVE at[r][1] = "gather" /\ Collective(config, step[r], at[r])
    <2>1. /\ At(r, "gather") /\ UnitAt(r) = u /\ ~Unsharded(r, u) /\ UnitsInv(r) /\ Types
      BY DEF AllGather, LocalInv
    <2>2. at[r] # Return /\ at[r][1] = "gather" /\ Located(config, step[r], at[r])
      BY <2>1, Within DEF UnitsInv, At
    <2>3. u \notin Gathered(config, step[r], at[r])
      BY <2>1 DEF UnitsInv
    <2>4. UnitOf(config, step[r], at[r]) = u
      BY <2>1, KeepsFlag DEF UnitOf, UnitAt, Pos, Kind
    <2>5. QED  BY <2>2, <2>3, <2>4 DEF Collective
  <1>2. QED  BY <1>1, CalledTogether

LEMMA ReducedTogether ==
  ASSUME LocalInv, Lockstep, \A r \in Ranks : Flushing(r), NEW u \in Units, ReduceScatter(u)
  PROVE  SamePlace
  <1>1. ASSUME NEW r \in Ranks PROVE at[r][1] = "reduce" /\ Collective(config, step[r], at[r])
    <2>1. At(r, "reduce") /\ UnitsInv(r) /\ Types
      BY DEF ReduceScatter, LocalInv
    <2>2. at[r] # Return /\ at[r][1] = "reduce" /\ Located(config, step[r], at[r])
      BY <2>1, Within DEF UnitsInv, At
    <2>3. QED  BY <2>2, KeepsFlag DEF Collective, Flushing
  <1>2. QED  BY <1>1, CalledTogether

LEMMA LockstepOwn ==
  ASSUME LocalInv, Alternates(plan), Lockstep, NEW q \in Ranks, RankStep(q),
         Cardinality(Ranks) = 1 \/ \A r \in Ranks : GradInv(r)
  PROVE  Lockstep'
  <1>1. CASE Cardinality(Ranks) = 1
    <2>1. PICK x : Ranks = {x}
      BY <1>1, RanksAssumption, FS_Singleton
    <2>2. QED  BY <2>1 DEF Lockstep, SamePassed
  <1>2. CASE \A r \in Ranks : GradInv(r)
    <2>1. /\ config' = config
          /\ \A s \in Ranks : s # q => step'[s] = step[s] /\ at'[s] = at[s]
      BY OwnStep DEF LocalInv
    <2>2. SamePassed(config, PlaceOf(q), Place(config, step'[q], at'[q]))
      BY <1>2, OwnPassed DEF LocalInv
    <2>3. ASSUME NEW s \in Ranks
          PROVE  SamePassed(config, PlaceOf(s), Place(config, step'[s], at'[s]))
      <3>1. CASE s = q
        BY <2>2, <3>1
      <3>2. CASE s # q
        BY <2>1, <3>2 DEF PlaceOf, SamePassed
      <3>3. QED  BY <3>1, <3>2
    <2>4. ASSUME NEW s \in Ranks, NEW t \in Ranks
          PROVE  SamePassed(config, Place(config, step'[s], at'[s]), Place(config, step'[t], at'[t]))
      <3>1. /\ SamePassed(config, PlaceOf(s), Place(config, step'[s], at'[s]))
            /\ SamePassed(config, PlaceOf(t), Place(config, step'[t], at'[t]))
            /\ SamePassed(config, PlaceOf(s), PlaceOf(t))
        BY <2>3 DEF Lockstep
      <3>2. QED  BY <3>1 DEF SamePassed
    <2>5. QED  BY <2>1, <2>4 DEF Lockstep, PlaceOf
  <1>3. QED  BY <1>1, <1>2

\* A collective takes all ranks from one place to one place.
LEMMA LockstepCollective ==
  ASSUME LocalInv, SamePlace, NEW u \in Units, AllGather(u) \/ ReduceScatter(u)
  PROVE  Lockstep'
  <1>1. ASSUME NEW r \in Ranks, NEW s \in Ranks PROVE step'[r] = step'[s] /\ at'[r] = at'[s]
    <2>1. step[r] = step[s] /\ at[r] = at[s]
      BY DEF SamePlace
    <2>2. Kind(r) = Kind(s) /\ Pos(r) = Pos(s)
      BY <2>1 DEF Kind, Pos
    <2>3. AfterGather(r) = AfterGather(s)
      BY <2>2 DEF AfterGather
    <2>4. step' = step
      BY DEF AllGather, ReduceScatter
    <2>5. at'[r] = at'[s]
      BY <2>2, <2>3 DEF AllGather, ReduceScatter
    <2>6. QED  BY <2>1, <2>4, <2>5
  <1>2. ASSUME NEW r \in Ranks, NEW s \in Ranks PROVE PlaceOf(r)' = PlaceOf(s)'
    BY <1>1 DEF PlaceOf
  <1>3. QED  BY <1>2 DEF Lockstep, SamePassed

-----------------------------------------------------------------------------
(* All ranks together. *)

LEMMA NotReducing ==
  /\ Return[1] # "reduce" /\ FirstModule[1] # "reduce" /\ FirstReached[1] # "reduce"
  /\ \A n : Module(n)[1] # "reduce" /\ Reached(n)[1] # "reduce"
  /\ \A n : \A op \in {"gather", "flush", "restore"} : EachUnit(op, n)[1] # "reduce"
  <1>1. Return[1] # "reduce" /\ \A n : Module(n)[1] # "reduce" /\ Reached(n)[1] # "reduce"
    BY DEF Return, Module, Reached
  <1>2. \A n : \A op \in {"gather", "flush", "restore"} : EachUnit(op, n)[1] # "reduce"
    BY DEF Return, EachUnit
  <1>3. QED  BY <1>1, <1>2 DEF FirstModule, FirstReached

LEMMA FlushingOwn ==
  ASSUME NEW r \in Ranks, Types, UnitsInv(r), Alternates(plan), RankStep(r), Flushing(r), GradInv(r)
  PROVE  Flushing(r)'
  <1>1. plan' = plan
    BY OwnStep DEF config
  <1>2. CASE \/ Forward(r) \/ Evaluate(r) \/ Backward(r)
             \/ FinishGradientSync(r) \/ SummonFullParams(r)
    <2>1. at'[r] \in {FirstModule, FirstReached, Return, EachUnit("flush", 1), EachUnit("gather", 1)}
      BY <1>2 DEF Types, Forward, Evaluate, Backward, FinishGradientSync, SummonFullParams, Begin
    <2>2. QED  BY <2>1, NotReducing DEF Flushing
  <1>3. CASE OptStep(r)
    <2>1. at'[r] = Return
      BY <1>3 DEF OptStep, NextIs, Idle
    <2>2. QED  BY <2>1, NotReducing DEF Flushing
  <1>4. CASE SkipGather(r)
    <2>1. at'[r] = AfterGather(r)
      BY <1>4 DEF SkipGather, Continue, Types
    <2>2. \A n : <<"gather", n>>[1] # "reduce" /\ <<"use", n>>[1] # "reduce"
                 /\ <<"grad", n>>[1] # "reduce" /\ <<"arm", n>>[1] # "reduce"
      OBVIOUS
    <2>3. AfterGather(r)[1] # "reduce"
      BY <2>2, NotReducing DEF AfterGather
    <2>4. QED  BY <2>1, <2>3 DEF Flushing
  <1>5. CASE Arm(r) \/ Use(r) \/ PostForward(r)
    <2>1. \/ \E n : at'[r] \in {<<"use", n>>, <<"restore", n>>, <<"post", n>>, Module(n)}
          \/ at'[r] = Return
      BY <1>5 DEF Arm, Use, PostForward, Continue, Types
    <2>2. \A n : <<"use", n>>[1] # "reduce" /\ <<"restore", n>>[1] # "reduce"
                 /\ <<"post", n>>[1] # "reduce"
      OBVIOUS
    <2>3. QED  BY <2>1, <2>2, NotReducing DEF Flushing
  <1>6. CASE FreeReduced(r) \/ Restore(r)
    <2>1. \E n : at'[r] \in {Reached(n), EachUnit("flush", n), EachUnit("restore", n)}
      BY <1>6 DEF FreeReduced, Restore, Continue, Types
    <2>2. QED  BY <2>1, NotReducing DEF Flushing
  <1>7. CASE GradReady(r)
    <2>1. plan[step[r]] # "finish" /\ step' = step
      BY <1>7, Within DEF GradReady, OnForward, OnFinish, OnSummon, BackwardKinds
    <2>2. QED  BY <1>1, <2>1 DEF Flushing
  <1>8. CASE Flush(r)
    <2>1. step' = step /\ at'[r] = IF Accumulated(plan, step[r] - 1) = {}
                                   THEN EachUnit("flush", Pos(r) + 1) ELSE <<"reduce", Pos(r)>>
      BY <1>8, FlushStanding DEF Flush, Continue, Types
    <2>2. QED  BY <1>1, <2>1, NotReducing DEF Flushing
  <1>9. QED  BY <1>2, <1>3, <1>4, <1>5, <1>6, <1>7, <1>8 DEF RankStep

LEMMA GradsOwn ==
  ASSUME NEW r \in Ranks, Types, UnitsInv(r), Alternates(plan), Cardinality(Ranks) # 1,
         RankStep(r), GradInv(r)
  PROVE  GradInv(r)' /\ (ShardInv(r) => ShardInv(r)')
  <1>1. config' = config
    BY OwnStep
  <1>2. CASE GradReady(r) \/ OptStep(r)
    BY <1>2, GradReadyGrads, OptGrads
  <1>3. CASE ~(GradReady(r) \/ OptStep(r))
    <2>1. grad' = grad /\ shardGrad' = shardGrad
      BY <1>3 DEF RankStep, Forward, Evaluate, Backward, FinishGradientSync, SummonFullParams, Begin,
                  SkipGather, Arm, Use, PostForward, Flush, FreeReduced, Restore
    <2>2. SameGrads(step[r], at[r], step'[r], at'[r])
      <3>1. CASE \/ Forward(r) \/ Evaluate(r) \/ Backward(r)
                 \/ FinishGradientSync(r) \/ SummonFullParams(r)
        BY <3>1, CallerStanding
      <3>2. CASE SkipGather(r)
        <4>1. At(r, "gather") /\ step'[r] = step[r] /\ at'[r] = AfterGather(r)
          BY <3>2 DEF SkipGather, Continue, Types
        <4>2. QED  BY <4>1, GatherStanding
      <3>3. CASE Arm(r) \/ Use(r) \/ PostForward(r) \/ Restore(r)
        BY <3>3, WalkStanding
      <3>4. CASE Flush(r) \/ FreeReduced(r)
        BY <3>4, FlushStanding, FreeStanding
      <3>5. QED  BY <1>3, <3>1, <3>2, <3>3, <3>4 DEF RankStep
    <2>3. QED  BY <1>1, <2>1, <2>2, GradKept, ShardKept
  <1>4. QED  BY <1>2, <1>3

\* What the gradients and shards contain is as the ranks' places say.
GradsInv ==
    Cardinality(Ranks) # 1 =>
        /\ \A r \in Ranks : GradInv(r) /\ Flushing(r)
        /\ FlushedBeforeStep(plan) => \A r \in Ranks : ShardInv(r)

LEMMA GradsNext ==
  ASSUME LocalInv, Alternates(plan), Lockstep, GradsInv, [Next]_vars
  PROVE  GradsInv'
  <1>1. SUFFICES ASSUME Cardinality(Ranks) # 1
                 PROVE  /\ \A r \in Ranks : GradInv(r)' /\ Flushing(r)'
                        /\ FlushedBeforeStep(plan)' => \A r \in Ranks : ShardInv(r)'
    BY DEF GradsInv
  <1>2. /\ Types /\ \A r \in Ranks : UnitsInv(r) /\ GradInv(r) /\ Flushing(r)
        /\ FlushedBeforeStep(plan) => \A r \in Ranks : ShardInv(r)
    BY <1>1 DEF GradsInv, LocalInv
  <1>3. CASE \E q \in Ranks : RankStep(q)
    <2>1. PICK q \in Ranks : RankStep(q)
      BY <1>3
    <2>2. config' = config /\ plan' = plan
      BY <1>2, <2>1, OwnStep DEF config
    <2>3. GradInv(q)' /\ Flushing(q)' /\ (ShardInv(q) => ShardInv(q)')
      BY <1>1, <1>2, <2>1, GradsOwn, FlushingOwn
    <2>4. ASSUME NEW r \in Ranks, r # q
          PROVE  GradInv(r)' /\ Flushing(r)' /\ (ShardInv(r) => ShardInv(r)')
      <3>1. /\ step'[r] = step[r] /\ at'[r] = at[r] /\ grad'[r] = grad[r]
            /\ shardGrad'[r] = shardGrad[r]
        BY <1>2, <2>1, <2>4, OwnStep
      <3>2. Flushing(r)'
        BY <1>2, <2>2, <3>1 DEF Flushing
      <3>3. SameGrads(step[r], at[r], step'[r], at'[r])
        BY <3>1 DEF SameGrads
      <3>4. GradInv(r) /\ config' = config
        BY <1>2, <2>2
      <3>5. QED  BY <3>1, <3>2, <3>3, <3>4, GradKept, ShardKept
    <2>5. QED  BY <1>2, <2>2, <2>3, <2>4
  <1>4. CASE \E u \in Units : AllGather(u)
    <2>1. PICK u \in Units : AllGather(u)
      BY <1>4
    <2>2. /\ config' = config /\ plan' = plan /\ grad' = grad /\ shardGrad' = shardGrad /\ step' = step
          /\ \A r \in Ranks : At(r, "gather") /\ at'[r] = AfterGather(r)
      BY <2>1 DEF AllGather, config
    <2>3. ASSUME NEW r \in Ranks PROVE GradInv(r)' /\ Flushing(r)' /\ (ShardInv(r) => ShardInv(r)')
      <3>1. SameGrads(step[r], at[r], step'[r], at'[r])
        BY <1>2, <2>2, GatherStanding
      <3>2. \A n : <<"gather", n>>[1] # "reduce" /\ <<"use", n>>[1] # "reduce"
                   /\ <<"grad", n>>[1] # "reduce" /\ <<"arm", n>>[1] # "reduce"
        OBVIOUS
      <3>3. AfterGather(r)[1] # "reduce"
        BY <3>2, NotReducing DEF AfterGather
      <3>4. Flushing(r)'
        BY <2>2, <3>3 DEF Flushing
      <3>5. GradInv(r) /\ config' = config
        BY <1>2, <2>2
      <3>6. QED  BY <2>2, <3>1, <3>4, <3>5, GradKept, ShardKept
    <2>4. QED  BY <1>2, <2>2, <2>3
  <1>5. CASE \E u \in Units : ReduceScatter(u)
    <2>1. PICK u \in Units : ReduceScatter(u)
      BY <1>5
    <2>2. SamePlace
      BY <1>2, <2>1, ReducedTogether
    <2>3. /\ \A r \in Ranks : GradInv(r)'
          /\ FlushedBeforeStep(plan) /\ (\A r \in Ranks : ShardInv(r)) => \A r \in Ranks : ShardInv(r)'
      BY <1>2, <2>1, <2>2, ReduceGrads
    <2>4. plan' = plan /\ \A r \in Ranks : at'[r][1] = "free"
      BY <2>1 DEF ReduceScatter, config
    <2>5. \A r \in Ranks : Flushing(r)'
      BY <2>4 DEF Flushing
    <2>6. QED  BY <1>2, <2>3, <2>4, <2>5
  <1>6. CASE UNCHANGED vars
    <2>1. /\ config' = config /\ plan' = plan /\ step' = step /\ at' = at
          /\ grad' = grad /\ shardGrad' = shardGrad
      BY <1>6 DEF vars, config
    <2>2. \A r \in Ranks : SameGrads(step[r], at[r], step'[r], at'[r])
      BY <2>1 DEF SameGrads
    <2>3. \A r \in Ranks : GradInv(r)' /\ Flushing(r)' /\ (ShardInv(r) => ShardInv(r)')
      BY <1>2, <2>1 DEF GradInv, ShardInv, Flushing
    <2>4. QED  BY <1>2, <2>1, <2>3
  <1>7. QED  BY <1>3, <1>4, <1>5, <1>6 DEF Next, Terminating

LEMMA LockstepNext ==
  ASSUME LocalInv, Alternates(plan), Lockstep, GradsInv, [Next]_vars
  PROVE  Lockstep'
  <1>1. ASSUME NEW r \in Ranks, RankStep(r) PROVE Lockstep'
    BY <1>1, LockstepOwn DEF GradsInv
  <1>2. ASSUME NEW u \in Units, AllGather(u) PROVE Lockstep'
    BY <1>2, GatheredTogether, LockstepCollective
  <1>3. ASSUME NEW u \in Units, ReduceScatter(u) PROVE Lockstep'
    <2>1. CASE Cardinality(Ranks) = 1
      <3>1. PICK x : Ranks = {x}
        BY <2>1, RanksAssumption, FS_Singleton
      <3>2. QED  BY <3>1 DEF Lockstep, SamePassed
    <2>2. CASE Cardinality(Ranks) # 1
      BY <1>3, <2>2, ReducedTogether, LockstepCollective DEF GradsInv
    <2>3. QED  BY <2>1, <2>2
  <1>4. ASSUME UNCHANGED vars PROVE Lockstep'
    BY <1>4 DEF vars, config, Lockstep, PlaceOf
  <1>5. QED  BY <1>1, <1>2, <1>3, <1>4 DEF Next, Terminating

\* The optimizer steps among the first k of a plan.
Updates(p, k) == Cardinality({j \in 1 .. k : p[j] = "opt"})

\* A rank's shards are as old as its place says, and what is gathered is as
\* they are.
FreshInv(r) ==
    /\ version[r] = Updates(plan, step[r])
    /\ \A u \in Units : Unsharded(r, u) => full[r][u] = {version[r]}

LEMMA UpdatesStep ==
  ASSUME NEW p, NEW k \in Nat
  PROVE  /\ Updates(p, 0) = 0 /\ Updates(p, k) \in Nat
         /\ p[k + 1] = "opt" => Updates(p, k + 1) = Updates(p, k) + 1
         /\ p[k + 1] # "opt" => Updates(p, k + 1) = Updates(p, k)
  <1> DEFINE before == {j \in 1 .. k : p[j] = "opt"}
  <1>1. Updates(p, 0) = 0
    <2>1. {j \in 1 .. 0 : p[j] = "opt"} = {}
      OBVIOUS
    <2>2. QED  BY <2>1, FS_EmptySet DEF Updates
  <1>2. IsFiniteSet(before)
    <2>1. IsFiniteSet(1 .. k) /\ before \subseteq 1 .. k
      BY FS_Interval
    <2>2. QED  BY <2>1, FS_Subset
  <1>3. 1 .. k + 1 = (1 .. k) \cup {k + 1} /\ k + 1 \notin 1 .. k
    OBVIOUS
  <1>4. p[k + 1] = "opt" => {j \in 1 .. k + 1 : p[j] = "opt"} = before \cup {k + 1}
    BY <1>3
  <1>5. p[k + 1] # "opt" => {j \in 1 .. k + 1 : p[j] = "opt"} = before
    BY <1>3
  <1>6. k + 1 \notin before
    BY <1>3
  <1> HIDE DEF before
  <1>7. Cardinality(before) \in Nat /\ Cardinality(before \cup {k + 1}) = Cardinality(before) + 1
    BY <1>2, <1>6, FS_CardinalityType, FS_AddElement
  <1>8. Updates(p, k) = Cardinality(before)
    BY DEF Updates, before
  <1>9. QED  BY <1>1, <1>4, <1>5, <1>7, <1>8 DEF Updates

\* The optimizer updates shards no gathered buffer was made from.
LEMMA FreshOpt ==
  ASSUME NEW r \in Ranks, Types, UnitsInv(r), Alternates(plan), FreshInv(r), OptStep(r)
  PROVE  FreshInv(r)'
  <1> DEFINE k == step[r]
  <1>1. /\ NextIs(r, "opt") /\ step'[r] = k + 1 /\ version'[r] = version[r] + 1
        /\ full' = full /\ plan' = plan
    BY DEF OptStep, Types, config
  <1>2. /\ plan \in Seq(StepKinds) /\ k \in Nat /\ k + 1 \in DOMAIN plan /\ plan[k + 1] = "opt"
        /\ config[1] = plan /\ \A u \in Units : Unsharded(r, u) <=> u \in Kept(config, k)
    BY <1>1, Beginning
  <1>3. ~Open(plan, k)
    <2>1. (k + 1) - 1 = k
      BY <1>2
    <2>2. QED  BY <1>2, <2>1 DEF Alternates
  <1>4. \A u \in Units : full[r][u] = {}
    BY <1>2, <1>3 DEF Kept, Unsharded
  <1>5. version'[r] = Updates(plan, k + 1)
    BY <1>1, <1>2, UpdatesStep DEF FreshInv
  <1>6. QED  BY <1>1, <1>4, <1>5 DEF FreshInv, Unsharded

LEMMA FreshOwn ==
  ASSUME NEW r \in Ranks, Types, UnitsInv(r), Alternates(plan), FreshInv(r), RankStep(r)
  PROVE  FreshInv(r)'
  <1>1. CASE \/ Forward(r) \/ Evaluate(r) \/ Backward(r)
             \/ FinishGradientSync(r) \/ SummonFullParams(r)
    <2>1. PICK kind : /\ NextIs(r, kind) /\ kind # "opt" /\ step'[r] = step[r] + 1
                      /\ version' = version /\ full' = full /\ plan' = plan
      BY <1>1 DEF Types, Forward, Evaluate, Backward, FinishGradientSync, SummonFullParams, Begin,
                  config, BackwardKinds
    <2>2. plan[step[r] + 1] # "opt" /\ step[r] \in Nat
      BY <2>1, Beginning
    <2>3. Updates(plan, step[r] + 1) = Updates(plan, step[r])
      BY <2>2, UpdatesStep
    <2>4. QED  BY <2>1, <2>3 DEF FreshInv, Unsharded
  <1>2. CASE OptStep(r)
    BY <1>2, FreshOpt
  <1>3. CASE SkipGather(r) \/ Arm(r) \/ Use(r) \/ GradReady(r) \/ Flush(r)
    <2>1. step' = step /\ version' = version /\ full' = full /\ plan' = plan
      BY <1>3 DEF SkipGather, Arm, Use, GradReady, Flush, config
    <2>2. QED  BY <2>1 DEF FreshInv, Unsharded
  <1>4. CASE PostForward(r) \/ FreeReduced(r) \/ Restore(r)
    <2>1. step' = step /\ version' = version /\ plan' = plan
      BY <1>4 DEF PostForward, FreeReduced, Restore, config
    <2>2. \A u \in Units : full'[r][u] \in {full[r][u], {}}
      <3>1. \E v : full' \in {full, [full EXCEPT ![r][v] = {}]}
        BY <1>4 DEF PostForward, FreeReduced, Restore, Reshard
      <3>2. full \in [Ranks -> [Units -> SUBSET Nat]]
        BY DEF Types
      <3>3. QED  BY <3>1, <3>2
    <2>3. QED  BY <2>1, <2>2 DEF FreshInv, Unsharded
  <1>5. QED  BY <1>1, <1>2, <1>3, <1>4 DEF RankStep

\* What is gathered is gathered from shards of one age.
LEMMA FreshGather ==
  ASSUME Types, SamePlace, \A r \in Ranks : FreshInv(r), NEW u \in Units, AllGather(u)
  PROVE  \A r \in Ranks : FreshInv(r)'
  <1>1. SUFFICES ASSUME NEW r \in Ranks PROVE FreshInv(r)'
    OBVIOUS
  <1>2. /\ full'[r] = [full[r] EXCEPT ![u] = {version[s] : s \in Ranks}]
        /\ step' = step /\ version' = version /\ plan' = plan
    BY DEF AllGather, config
  <1>3. \A s \in Ranks : version[s] = version[r]
    <2>1. ASSUME NEW s \in Ranks PROVE version[s] = version[r]
      <3>1. step[s] = step[r]
        BY DEF SamePlace
      <3>2. version[s] = Updates(plan, step[s]) /\ version[r] = Updates(plan, step[r])
        BY DEF FreshInv
      <3>3. QED  BY <3>1, <3>2
    <2>2. QED  BY <2>1
  <1>4. {version[s] : s \in Ranks} = {version[r]}
    BY <1>3
  <1>5. \A v \in Units : full'[r][v] = IF v = u THEN {version[r]} ELSE full[r][v]
    BY <1>2, <1>4 DEF Types
  <1>6. QED  BY <1>2, <1>5 DEF FreshInv, Unsharded

LEMMA FreshNext ==
  ASSUME LocalInv, Alternates(plan), Lockstep, \A r \in Ranks : FreshInv(r), [Next]_vars
  PROVE  \A r \in Ranks : FreshInv(r)'
  <1>1. Types /\ \A r \in Ranks : UnitsInv(r)
    BY DEF LocalInv
  <1>2. ASSUME NEW q \in Ranks, RankStep(q) PROVE \A r \in Ranks : FreshInv(r)'
    <2>1. FreshInv(q)'
      BY <1>1, <1>2, FreshOwn
    <2>2. ASSUME NEW r \in Ranks, r # q PROVE FreshInv(r)'
      <3>1. /\ step'[r] = step[r] /\ full'[r] = full[r] /\ version'[r] = version[r]
            /\ plan' = plan
        BY <1>1, <1>2, <2>2, OwnStep DEF config
      <3>2. FreshInv(r)
        OBVIOUS
      <3>3. QED  BY <3>1, <3>2 DEF FreshInv, Unsharded
    <2>3. QED  BY <2>1, <2>2
  <1>3. ASSUME NEW u \in Units, AllGather(u) PROVE \A r \in Ranks : FreshInv(r)'
    BY <1>1, <1>3, GatheredTogether, FreshGather
  <1>4. ASSUME NEW u \in Units, ReduceScatter(u) PROVE \A r \in Ranks : FreshInv(r)'
    BY <1>4 DEF ReduceScatter, FreshInv, Unsharded, config
  <1>5. ASSUME UNCHANGED vars PROVE \A r \in Ranks : FreshInv(r)'
    BY <1>5 DEF vars, config, FreshInv, Unsharded
  <1>6. QED  BY <1>2, <1>3, <1>4, <1>5 DEF Next, Terminating

FsdpInv == LocalInv /\ Lockstep /\ GradsInv /\ \A r \in Ranks : FreshInv(r)

LEMMA FsdpInvInit ==
  ASSUME Init
  PROVE  FsdpInv
  <1>1. LocalInv
    BY LocalInit
  <1>2. \A r \in Ranks : step[r] = 0 /\ at[r] = Return
    BY DEF Init
  <1>3. Lockstep
    BY <1>2 DEF Lockstep, SamePassed, PlaceOf
  <1>4. \A m \in Params : /\ InGrad(config, 0, Return, m) = {}
                          /\ InShard(config, 0, Return, m) = {}
    <2>1. \A p : Accumulated(p, 0) = {} /\ Since(p, 0) = {}
      BY DEF Accumulated, Since
    <2>2. QED  BY <2>1 DEF InGrad, InShard, Gradless
  <1>5. Count({}) = NoGrad
    BY DEF Count, NoGrad
  <1>6. GradsInv
    <2>1. \A r \in Ranks : GradInv(r) /\ ShardInv(r)
      BY <1>2, <1>4, <1>5 DEF Init, GradInv, ShardInv, NoShardGrad
    <2>2. \A r \in Ranks : Flushing(r)
      BY <1>2, NotReducing DEF Flushing
    <2>3. QED  BY <2>1, <2>2 DEF GradsInv
  <1>7. \A r \in Ranks : FreshInv(r)
    <2>1. \A p : Updates(p, 0) = 0
      BY UpdatesStep
    <2>2. QED  BY <1>2, <2>1 DEF Init, FreshInv, Unsharded
  <1>8. QED  BY <1>1, <1>3, <1>6, <1>7 DEF FsdpInv

LEMMA FsdpInvAlways == Alternating => (Spec => []FsdpInv)
  <1>1. SUFFICES ASSUME Alternating PROVE Spec => []FsdpInv
    OBVIOUS
  <1>2. FsdpInv => Alternates(plan)
    BY <1>1 DEF Alternating, FsdpInv, LocalInv, Types
  <1>3. Init => FsdpInv
    BY FsdpInvInit
  <1>4. FsdpInv /\ [Next]_vars => FsdpInv'
    <2>1. SUFFICES ASSUME FsdpInv, [Next]_vars PROVE FsdpInv'
      OBVIOUS
    <2>2. /\ LocalInv /\ Lockstep /\ GradsInv /\ Alternates(plan)
          /\ \A r \in Ranks : FreshInv(r)
      BY <1>2, <2>1 DEF FsdpInv
    <2>3. LocalInv'
      BY <2>1, <2>2, LocalNext
    <2>4. Lockstep'
      BY <2>1, <2>2, LockstepNext
    <2>5. GradsInv'
      BY <2>1, <2>2, GradsNext
    <2>6. \A r \in Ranks : FreshInv(r)'
      BY <2>1, <2>2, FreshNext
    <2>7. QED  BY <2>3, <2>4, <2>5, <2>6 DEF FsdpInv
  <1>5. QED  BY <1>3, <1>4, PTL DEF Spec

\* Where a unit's parameters are read, they are gathered, on every rank from
\* shards that have had the same optimizer steps.
THEOREM FreshParams == Alternating => (Spec => []ParamsFresh)
  <1>1. FsdpInv => ParamsFresh
    <2>1. SUFFICES ASSUME FsdpInv, NEW r \in Ranks, At(r, "use") \/ At(r, "grad")
                   PROVE  full[r][UnitAt(r)] = {version[r]}
      BY DEF ParamsFresh
    <2>2. Types /\ UnitsInv(r) /\ FreshInv(r)
      BY <2>1 DEF FsdpInv, LocalInv
    <2>3. UnitAt(r) \in Units
      BY <2>1, <2>2, AtUnit
    <2>4. UnitAt(r) \in Gathered(config, step[r], at[r])
      <3>1. PICK op \in {"use", "grad"} : At(r, op)
        BY <2>1
      <3>2. /\ at[r] # Return /\ at[r] = <<op, Pos(r)>> /\ Pos(r) \in Nat
            /\ config[1] = plan /\ Kind(r) = plan[step[r]]
            /\ \/ Kind(r) \in {"forward", "eval"} /\ OnForward(op, Pos(r))
               \/ Kind(r) \in BackwardKinds /\ OnBackward(config, Kind(r), op, Pos(r))
               \/ Kind(r) = "summon" /\ OnSummon(op, Pos(r))
        BY <2>2, <3>1, Within DEF OnFinish
      <3>3. CASE Kind(r) \in {"forward", "eval"} /\ OnForward(op, Pos(r))
        <4>1. op = "use" /\ UnitAt(r) = IF Pos(r) = 0 THEN Root ELSE Pos(r)
          BY <3>3 DEF OnForward, UnitAt, BackwardKinds
        <4>2. \A kept : UnitAt(r) \in InForward(kept, op, Pos(r))
          BY <2>3, <4>1 DEF InForward
        <4>3. QED  BY <3>2, <3>3, <4>2 DEF Gathered
      <3>4. CASE Kind(r) \in BackwardKinds /\ OnBackward(config, Kind(r), op, Pos(r))
        <4>1. op = "grad" /\ Pos(r) \in Params
          BY <3>1, <3>4 DEF OnBackward
        <4>2. UnitAt(r) = Order[Pos(r)] /\ Pos(r) >= Pos(r)
          BY <3>2, <3>4, <4>1, UnitsShape DEF UnitAt
        <4>3. Pos(r) \in ParamsOf(UnitAt(r))
          BY <4>1, <4>2 DEF ParamsOf
        <4>4. UnitAt(r) \in InBackward(config, op, Pos(r))
          BY <2>3, <4>1, <4>2, <4>3 DEF InBackward
        <4>5. QED  BY <3>2, <3>4, <4>4 DEF Gathered, BackwardKinds
      <3>5. CASE Kind(r) = "summon" /\ OnSummon(op, Pos(r))
        <4>1. op = "use"
          BY <3>5 DEF OnSummon
        <4>2. \A kept : UnitAt(r) \in InSummon(kept, op, Pos(r))
          BY <2>3, <4>1 DEF InSummon
        <4>3. QED  BY <3>2, <3>5, <4>2 DEF Gathered, BackwardKinds
      <3>6. QED  BY <3>2, <3>3, <3>4, <3>5
    <2>5. QED  BY <2>2, <2>3, <2>4 DEF UnitsInv, FreshInv
  <1>2. QED  BY <1>1, FsdpInvAlways, PTL

\* After a reducing step every shard holds each pass since the last optimizer
\* step of each rank exactly once, and no gradient is left, if what is
\* accumulated is reduced before the optimizer steps.
THEOREM ShardsHoldMean ==
    Alternating /\ (\A p \in Plans : FlushedBeforeStep(p)) /\ Cardinality(Ranks) # 1 =>
        (Spec => []ShardGradIsMean)
  <1>1. SUFFICES ASSUME Alternating, \A p \in Plans : FlushedBeforeStep(p), Cardinality(Ranks) # 1
                 PROVE  Spec => []ShardGradIsMean
    OBVIOUS
  <1>2. FsdpInv => ShardGradIsMean
    <2>1. SUFFICES ASSUME FsdpInv, NEW r \in Ranks, Idle(r), step[r] > 0,
                          plan[step[r]] \in {"backward", "finish"}, NEW i \in Params
                   PROVE  /\ grad[r][i] = NoGrad
                          /\ shardGrad[r][i] = [s \in Ranks |-> [k \in Steps |->
                                    IF k \in Window(step[r]) THEN 1 ELSE 0]]
      BY DEF ShardGradIsMean
    <2> DEFINE k == step[r]
    <2>2. Types /\ GradInv(r) /\ ShardInv(r)
      <3>1. FlushedBeforeStep(plan)
        BY <1>1, <2>1 DEF FsdpInv, LocalInv, Types
      <3>2. QED  BY <1>1, <2>1, <3>1 DEF FsdpInv, LocalInv, GradsInv
    <2>3. /\ plan \in Seq(StepKinds) /\ k - 1 \in Nat /\ (k - 1) + 1 = k /\ k \in DOMAIN plan
          /\ config[1] = plan
      BY <2>1, <2>2, PlansAssumption, KeepsFlag DEF Types
    <2>4. Accumulated(plan, k) = {}
      BY <2>1, <2>3, PassesStep DEF ReducingKinds
    <2>5. InGrad(config, k, at[r], i) = {} /\ InShard(config, k, at[r], i) = Window(k)
      BY <2>1, <2>3, <2>4 DEF InGrad, InShard, Gradless, Idle, Window, Since
    <2>6. grad[r][i] = NoGrad
      BY <2>2, <2>5 DEF GradInv, Count, NoGrad
    <2>7. \A s \in Ranks : shardGrad[r][i][s] = Count(Window(k))
      BY <2>2, <2>5 DEF ShardInv
    <2>8. shardGrad[r][i] = [s \in Ranks |-> Count(Window(k))]
      BY <2>2, <2>7 DEF Types
    <2>9. QED  BY <2>6, <2>8 DEF Count
  <1>3. QED  BY <1>1, <1>2, FsdpInvAlways, PTL
=============================================================================
