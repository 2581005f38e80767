--------------------------- MODULE PipelineProofs ---------------------------
(***************************************************************************)
(* Proofs about Pipeline, for every number of stages, microbatches and     *)
(* steps, both schedules and both kinds of sends.                          *)
(***************************************************************************)
EXTENDS Pipeline, TLAPS

(* The order of microbatches over all steps. *)

\* The tag of the n-th microbatch of step k; after the last one comes the
\* first of the next step.
Pos(k, n) == IF n = M THEN <<k + 1, 0>> ELSE <<k, n>>

NextTag(t) == Pos(t[1], t[2] + 1)

(* What a link holds. *)

\* The tag of the i-th message, and after the last one that of the message
\* to be sent next.
TagAt(s, i, to) == IF i <= Len(s) THEN s[i].tag ELSE to

\* h headers and then the payloads of the microbatches from "from" up to,
\* but not including, "to".
Stream(s, h, from, to) ==
    /\ h <= Len(s)
    /\ \A i \in 1 .. Len(s) : s[i].header <=> i <= h
    /\ TagAt(s, h + 1, to) = from
    /\ \A i \in h + 1 .. Len(s) : TagAt(s, i + 1, to) = NextTag(s[i].tag)

Key(l) == IF l[1] < l[2] THEN "act" ELSE "grad"
OpOf(key) == IF key = "act" THEN "forward" ELSE "backward"
Count(key, p) == IF key = "act" THEN fwd[p] ELSE bwd[p]

\* The receiver has taken a tensor off the link and not used it yet.
Held(key, p) == IF inbox[p] # << >> /\ NextOp(p) = OpOf(key) THEN 1 ELSE 0

\* The first microbatch not yet sent on a link, and not yet received.
Sent(l) == Pos(step[l[1]], Count(Key(l), l[1]))
Received(l) == Pos(step[l[2]], Count(Key(l), l[2]) + Held(Key(l), l[2]))

HeaderSent(l) == Key(l) \in sendKnown[l[1]]
HeaderRead(l) == recvKnown[l[2]][Key(l)] # Unknown
HeaderDue(l) == IF HeaderSent(l) /\ ~HeaderRead(l) THEN 1 ELSE 0

(* The inductive invariant. *)

\* A link holds what the sender has sent and the receiver not received, in
\* the order of the microbatches; its first message ever is the header.
LinkInv(l) ==
    /\ ~HeaderSent(l) => link[l] = << >> /\ ~HeaderRead(l)
    /\ Stream(link[l], HeaderDue(l), Received(l), Sent(l))

\* A received tensor is of the microbatch the next operation is for.
InboxInv(p) ==
    inbox[p] # << >> =>
        /\ Receives(p)
        /\ inbox[p] = <<<<step[p], Count(Source(p)[2], p)>>>>

\* A stage runs the schedule: never more forwards ahead than the warm-up
\* and the one of the steady state.
StageInv(p) ==
    /\ fwd[p] - bwd[p] <= Warmup(p) + 1
    /\ Len(inflight[p]) = fwd[p] - bwd[p]
    /\ \A i \in 1 .. Len(inflight[p]) : inflight[p][i] = <<step[p], bwd[p] + i - 1>>
    /\ Len(passes[p]) = bwd[p]
    /\ \A i \in 1 .. Len(passes[p]) :
          passes[p][i] = <<<<step[p], i - 1>>, <<step[p], i - 1>>>>

IInv ==
    /\ TypeOK
    /\ \A p \in Stages : StageInv(p) /\ InboxInv(p)
    /\ \A l \in Links : LinkInv(l)

-----------------------------------------------------------------------------
(* Lemmas about streams. *)

\* A new link carries nothing.
LEMMA StreamEmpty == ASSUME NEW t PROVE Stream(<< >>, 0, t, t)
  BY DEF Stream, TagAt

\* What taking the first message off a sequence does.
LEMMA TailProperties ==
  ASSUME NEW S, NEW s \in Seq(S), s # << >>
  PROVE  /\ Head(s) = s[1] /\ Head(s) \in S
         /\ Tail(s) \in Seq(S)
         /\ Len(s) \in Nat /\ Len(s) > 0 /\ Len(Tail(s)) = Len(s) - 1
         /\ \A i \in 1 .. Len(s) - 1 : Tail(s)[i] = s[i + 1]
  OBVIOUS

\* What appending to a sequence does.
LEMMA AppendProperties ==
  ASSUME NEW S, NEW s \in Seq(S), NEW x \in S
  PROVE  /\ Append(s, x) \in Seq(S)
         /\ Len(s) \in Nat /\ Len(Append(s, x)) = Len(s) + 1
         /\ Append(s, x)[Len(s) + 1] = x
         /\ \A i \in 1 .. Len(s) : Append(s, x)[i] = s[i]
  OBVIOUS

\* The receiver that expects a header takes one, and then expects the same
\* microbatch.
LEMMA StreamHeader ==
  ASSUME NEW s \in Seq(Messages), NEW from, NEW to, Stream(s, 1, from, to)
  PROVE  /\ s # << >> /\ Head(s).header
         /\ Stream(Tail(s), 0, from, to)
  <1>1. Len(s) \in Nat /\ 1 <= Len(s) /\ s # << >>
    BY DEF Stream
  <1>2. /\ Head(s) = s[1] /\ Len(Tail(s)) = Len(s) - 1
        /\ \A i \in 1 .. Len(s) - 1 : Tail(s)[i] = s[i + 1]
    BY <1>1, TailProperties
  <1>3. Head(s).header
    BY <1>1, <1>2 DEF Stream
  <1>4. \A i \in 1 .. Len(Tail(s)) : ~Tail(s)[i].header
    <2> SUFFICES ASSUME NEW i \in 1 .. Len(Tail(s)) PROVE ~Tail(s)[i].header
      OBVIOUS
    <2>1. i + 1 \in 1 .. Len(s) /\ Tail(s)[i] = s[i + 1] /\ ~(i + 1 <= 1)
      BY <1>1, <1>2
    <2> QED
      BY <2>1 DEF Stream
  <1>5. \A i \in Nat \ {0} : TagAt(Tail(s), i, to) = TagAt(s, i + 1, to)
    BY <1>1, <1>2 DEF TagAt
  <1>6. TagAt(Tail(s), 0 + 1, to) = from
    BY <1>5 DEF Stream
  <1>7. \A i \in 0 + 1 .. Len(Tail(s)) : TagAt(Tail(s), i + 1, to) = NextTag(Tail(s)[i].tag)
    <2> SUFFICES ASSUME NEW i \in 0 + 1 .. Len(Tail(s))
                 PROVE  TagAt(Tail(s), i + 1, to) = NextTag(Tail(s)[i].tag)
      OBVIOUS
    <2>1. i + 1 \in 1 + 1 .. Len(s) /\ Tail(s)[i] = s[i + 1]
      BY <1>1, <1>2
    <2>2. TagAt(s, (i + 1) + 1, to) = NextTag(s[i + 1].tag)
      BY <2>1 DEF Stream
    <2> QED
      BY <1>5, <2>1, <2>2
  <1>8. Len(Tail(s)) \in Nat
    BY <1>1, <1>2
  <1> QED
    BY <1>1, <1>3, <1>4, <1>6, <1>7, <1>8 DEF Stream

\* The receiver that expects a payload takes that of the microbatch it
\* expects.
LEMMA StreamPayload ==
  ASSUME NEW s \in Seq(Messages), s # << >>, NEW from, NEW to, Stream(s, 0, from, to)
  PROVE  /\ ~Head(s).header /\ Head(s).tag = from
         /\ Stream(Tail(s), 0, NextTag(from), to)
  <1>1. Len(s) \in Nat /\ 1 <= Len(s)
    OBVIOUS
  <1>2. /\ Head(s) = s[1] /\ Len(Tail(s)) = Len(s) - 1
        /\ \A i \in 1 .. Len(s) - 1 : Tail(s)[i] = s[i + 1]
    BY TailProperties
  <1>3. ~Head(s).header /\ Head(s).tag = from
    BY <1>1, <1>2 DEF Stream, TagAt
  <1>4. \A i \in 1 .. Len(Tail(s)) : ~Tail(s)[i].header
    <2> SUFFICES ASSUME NEW i \in 1 .. Len(Tail(s)) PROVE ~Tail(s)[i].header
      OBVIOUS
    <2>1. i + 1 \in 1 .. Len(s) /\ Tail(s)[i] = s[i + 1] /\ ~(i + 1 <= 0)
      BY <1>1, <1>2
    <2> QED
      BY <2>1 DEF Stream
  <1>5. \A i \in Nat \ {0} : TagAt(Tail(s), i, to) = TagAt(s, i + 1, to)
    BY <1>1, <1>2 DEF TagAt
  <1>6. TagAt(Tail(s), 0 + 1, to) = NextTag(from)
    <2>1. TagAt(s, 1 + 1, to) = NextTag(s[1].tag)
      BY <1>1 DEF Stream
    <2> QED
      BY <1>2, <1>3, <1>5, <2>1
  <1>7. \A i \in 0 + 1 .. Len(Tail(s)) : TagAt(Tail(s), i + 1, to) = NextTag(Tail(s)[i].tag)
    <2> SUFFICES ASSUME NEW i \in 0 + 1 .. Len(Tail(s))
                 PROVE  TagAt(Tail(s), i + 1, to) = NextTag(Tail(s)[i].tag)
      OBVIOUS
    <2>1. i + 1 \in 0 + 1 .. Len(s) /\ Tail(s)[i] = s[i + 1]
      BY <1>1, <1>2
    <2>2. TagAt(s, (i + 1) + 1, to) = NextTag(s[i + 1].tag)
      BY <2>1 DEF Stream
    <2> QED
      BY <1>5, <2>1, <2>2
  <1>8. Len(Tail(s)) \in Nat
    BY <1>1, <1>2
  <1> QED
    BY <1>3, <1>4, <1>6, <1>7, <1>8 DEF Stream

\* A payload of the microbatch due extends the stream by that microbatch.
LEMMA StreamSend ==
  ASSUME NEW s \in Seq(Messages), NEW h \in {0, 1}, NEW from, NEW m \in Messages,
         ~m.header, Stream(s, h, from, m.tag)
  PROVE  Stream(Append(s, m), h, from, NextTag(m.tag))
  <1> DEFINE s1 == Append(s, m)
  <1>1. /\ Len(s) \in Nat /\ Len(s1) = Len(s) + 1 /\ s1[Len(s) + 1] = m
        /\ \A i \in 1 .. Len(s) : s1[i] = s[i]
    OBVIOUS
  <1>2. h <= Len(s)
    BY DEF Stream
  <1>3. \A i \in 1 .. Len(s1) : s1[i].header <=> i <= h
    BY <1>1, <1>2 DEF Stream
  <1>4. \A i \in 1 .. Len(s) + 1 : TagAt(s1, i, NextTag(m.tag)) = TagAt(s, i, m.tag)
    BY <1>1 DEF TagAt
  <1>5. TagAt(s1, h + 1, NextTag(m.tag)) = from
    <2>1. h + 1 \in 1 .. Len(s) + 1
      BY <1>1, <1>2
    <2> QED
      BY <1>4, <2>1 DEF Stream
  <1>6. \A i \in h + 1 .. Len(s1) : TagAt(s1, i + 1, NextTag(m.tag)) = NextTag(s1[i].tag)
    <2> SUFFICES ASSUME NEW i \in h + 1 .. Len(s1)
                 PROVE  TagAt(s1, i + 1, NextTag(m.tag)) = NextTag(s1[i].tag)
      OBVIOUS
    <2>1. CASE i = Len(s) + 1
      BY <1>1, <2>1 DEF TagAt
    <2>2. CASE i # Len(s) + 1
      <3>1. i \in h + 1 .. Len(s) /\ i \in 1 .. Len(s) /\ i + 1 \in 1 .. Len(s) + 1
        BY <1>1, <2>2
      <3>2. TagAt(s, i + 1, m.tag) = NextTag(s[i].tag)
        BY <3>1 DEF Stream
      <3> QED
        BY <1>1, <1>4, <3>1, <3>2
    <2> QED
      BY <2>1, <2>2
  <1> HIDE DEF s1
  <1>7. h <= Len(s1)
    BY <1>1, <1>2
  <1>8. Stream(s1, h, from, NextTag(m.tag))
    BY <1>3, <1>5, <1>6, <1>7 DEF Stream
  <1> QED
    BY <1>8 DEF s1

\* The first send of a key puts the header before the payload.
LEMMA StreamFirst ==
  ASSUME NEW hd \in Messages, NEW m \in Messages, hd.header, ~m.header
  PROVE  Stream(<<hd, m>>, 1, m.tag, NextTag(m.tag))
  <1> DEFINE s == <<hd, m>>
  <1>1. Len(s) = 2 /\ s[1] = hd /\ s[2] = m
    OBVIOUS
  <1>2. \A i \in 1 .. 2 : i = 1 \/ i = 2
    OBVIOUS
  <1> HIDE DEF s
  <1>3. \A i \in 1 .. Len(s) : s[i].header <=> i <= 1
    BY <1>1, <1>2
  <1>4. TagAt(s, 1 + 1, NextTag(m.tag)) = m.tag
    BY <1>1 DEF TagAt
  <1>5. \A i \in 1 + 1 .. Len(s) : TagAt(s, i + 1, NextTag(m.tag)) = NextTag(s[i].tag)
    BY <1>1 DEF TagAt
  <1>6. Stream(s, 1, m.tag, NextTag(m.tag))
    BY <1>1, <1>3, <1>4, <1>5 DEF Stream
  <1> QED
    BY <1>6 DEF s

-----------------------------------------------------------------------------
(* Lemmas about links and stages. *)

LEMMA LinkOf ==
  ASSUME NEW l \in Links
  PROVE  /\ l[1] \in Stages /\ l[2] \in Stages /\ l = <<l[1], l[2]>>
         /\ Key(l) \in Keys
         /\ Key(l) = "act" => l[2] = l[1] + 1
         /\ Key(l) = "grad" => l[2] = l[1] - 1
  <1>1. l \in Stages \X Stages /\ l[1] - l[2] \in {-1, 1}
    BY DEF Links
  <1>2. /\ l[1] \in Stages /\ l[2] \in Stages /\ l = <<l[1], l[2]>>
        /\ l[1] \in Int /\ l[2] \in Int
    BY <1>1, PipelineAssumption DEF Stages
  <1> QED
    BY <1>1, <1>2 DEF Key, Keys

LEMMA LinkTo ==
  ASSUME NEW p \in Stages, NEW q \in Stages
  PROVE  /\ q = p + 1 => <<p, q>> \in Links /\ Key(<<p, q>>) = "act"
         /\ q = p - 1 => <<p, q>> \in Links /\ Key(<<p, q>>) = "grad"
  <1>1. p \in Int /\ q \in Int
    BY PipelineAssumption DEF Stages
  <1>2. <<p, q>> \in Stages \X Stages /\ <<p, q>>[1] = p /\ <<p, q>>[2] = q
    OBVIOUS
  <1>3. q = p + 1 => p - q = -1 /\ p < q
    BY <1>1
  <1>4. q = p - 1 => p - q = 1 /\ ~(p < q)
    BY <1>1
  <1> QED
    BY <1>2, <1>3, <1>4 DEF Links, Key

\* The links of a stage in one direction have different keys.
LEMMA LinkOfKey ==
  ASSUME NEW l \in Links, NEW m \in Links, Key(l) = Key(m),
         l[1] = m[1] \/ l[2] = m[2]
  PROVE  l = m
  <1>1. /\ l = <<l[1], l[2]>> /\ m = <<m[1], m[2]>>
        /\ l[1] \in Int /\ l[2] \in Int /\ m[1] \in Int /\ m[2] \in Int
    BY LinkOf, PipelineAssumption DEF Stages
  <1>2. l[1] = m[1] /\ l[2] = m[2]
    BY <1>1, LinkOf DEF Keys
  <1> QED
    BY <1>1, <1>2

\* A microbatch's successor.
LEMMA NextTagOf ==
  ASSUME NEW k \in Nat, NEW n \in 0 .. M - 1
  PROVE  /\ Pos(k, n) = <<k, n>>
         /\ NextTag(<<k, n>>) = Pos(k, n + 1)
         /\ Pos(k, M) = Pos(k + 1, 0)
  BY PipelineAssumption DEF Pos, NextTag

\* What the schedule's next operation says of the stage's progress.
LEMMA OpFacts ==
  ASSUME TypeOK, NEW p \in Stages
  PROVE  /\ fwd[p] \in 0 .. M /\ bwd[p] \in 0 .. M /\ Warmup(p) \in Int
         /\ NextOp(p) = "forward" => fwd[p] < M /\ fwd[p] - bwd[p] <= Warmup(p)
         /\ NextOp(p) = "backward" => bwd[p] < M
         /\ NextOp(p) = "drain" => bwd[p] = M
         /\ NextOp(p) \in {"forward", "backward", "drain"}
         /\ M \in Nat \ {0} /\ P \in Nat \ {0} /\ p \in Nat /\ p < P
  <1>1. /\ fwd[p] \in 0 .. M /\ bwd[p] \in 0 .. M
        /\ M \in Nat \ {0} /\ P \in Nat \ {0} /\ p \in Nat /\ p < P
    <2>1. fwd \in [Stages -> 0 .. M] /\ bwd \in [Stages -> 0 .. M]
      BY DEF TypeOK
    <2> QED
      BY <2>1, PipelineAssumption DEF Stages
  <1>2. Warmup(p) \in Int
    BY <1>1 DEF Warmup
  <1> QED
    BY <1>1, <1>2 DEF NextOp

\* The link and the microbatch a stage receives next.
LEMMA SourceLink ==
  ASSUME TypeOK, NEW p \in Stages, Receives(p)
  PROVE  /\ <<Source(p)[1], p>> \in Links
         /\ Key(<<Source(p)[1], p>>) = Source(p)[2]
         /\ Source(p)[2] \in Keys
         /\ NextOp(p) = OpOf(Source(p)[2])
         /\ Count(Source(p)[2], p) \in 0 .. M - 1
         /\ step[p] \in Steps
  <1>1. CASE Running(p, "forward") /\ ~IsFirst(p)
    <2>1. Source(p) = <<p - 1, "act">> /\ p - 1 \in Stages /\ (p - 1) + 1 = p
      BY <1>1, OpFacts DEF Running, Source, IsFirst, Stages
    <2>2. fwd[p] \in 0 .. M - 1
      BY <1>1, OpFacts DEF Running
    <2> QED
      BY <1>1, <2>1, <2>2, LinkTo DEF Running, OpOf, Count, Keys
  <1>2. CASE Running(p, "backward") /\ ~IsLast(p)
    <2>1. Source(p) = <<p + 1, "grad">> /\ p + 1 \in Stages /\ (p + 1) - 1 = p
      BY <1>2, OpFacts DEF Running, Source, IsLast, Stages
    <2>2. bwd[p] \in 0 .. M - 1
      BY <1>2, OpFacts DEF Running
    <2> QED
      BY <1>2, <2>1, <2>2, LinkTo DEF Running, OpOf, Count, Keys
  <1> QED
    BY <1>1, <1>2 DEF Receives

\* LinkInv speaks of what is on the link and of how far its ends are.
LEMMA LinkFrame ==
  ASSUME NEW l \in Links, LinkInv(l), link'[l] = link[l],
         HeaderSent(l)' = HeaderSent(l), HeaderRead(l)' = HeaderRead(l),
         Received(l)' = Received(l), Sent(l)' = Sent(l)
  PROVE  LinkInv(l)'
  <1>1. HeaderDue(l)' = HeaderDue(l)
    BY DEF HeaderDue
  <1> QED
    BY <1>1 DEF LinkInv

LEMMA InboxFrame ==
  ASSUME NEW p \in Stages, InboxInv(p), sched' = sched, step'[p] = step[p],
         fwd'[p] = fwd[p], bwd'[p] = bwd[p], inbox'[p] = inbox[p]
  PROVE  InboxInv(p)' /\ NextOp(p)' = NextOp(p)
  <1>1. NextOp(p)' = NextOp(p)
    BY DEF NextOp, Warmup
  <1>2. Receives(p)' = Receives(p) /\ Source(p)' = Source(p)
    BY <1>1 DEF Receives, Running, Source
  <1>3. Count(Source(p)[2], p)' = Count(Source(p)[2], p)
    BY <1>2 DEF Count
  <1> QED
    BY <1>1, <1>2, <1>3 DEF InboxInv

LEMMA StageFrame ==
  ASSUME NEW p \in Stages, StageInv(p), sched' = sched, step'[p] = step[p],
         fwd'[p] = fwd[p], bwd'[p] = bwd[p], inflight'[p] = inflight[p],
         passes'[p] = passes[p]
  PROVE  StageInv(p)'
  BY DEF StageInv, Warmup

\* An operation of stage p that uses up a tensor of one key: the link it came
\* in by has been received as far as before, and the link it goes out by is
\* sent one microbatch further.
LEMMA Advance ==
  ASSUME TypeOK, NEW key \in Keys, NEW p \in Stages,
         NextOp(p) = OpOf(key), Count(key, p) < M,
         \A l \in Links : l[2] = p /\ Key(l) = key => inbox[p] # << >>,
         step' = step, sched' = sched,
         inbox' = [inbox EXCEPT ![p] = << >>],
         IF key = "act" THEN fwd' = [fwd EXCEPT ![p] = @ + 1] /\ bwd' = bwd
         ELSE bwd' = [bwd EXCEPT ![p] = @ + 1] /\ fwd' = fwd
  PROVE  \A l \in Links :
            /\ Received(l)' = Received(l)
            /\ Sent(l)' = IF l[1] = p /\ Key(l) = key THEN NextTag(Sent(l)) ELSE Sent(l)
  <1> SUFFICES ASSUME NEW l \in Links
               PROVE  /\ Received(l)' = Received(l)
                      /\ Sent(l)' = IF l[1] = p /\ Key(l) = key THEN NextTag(Sent(l))
                                    ELSE Sent(l)
    OBVIOUS
  <1>1. /\ l[1] \in Stages /\ l[2] \in Stages /\ Key(l) \in Keys
    BY LinkOf
  <1>2. /\ fwd \in [Stages -> 0 .. M] /\ bwd \in [Stages -> 0 .. M]
        /\ step \in [Stages -> 1 .. NumSteps + 1]
        /\ inbox \in [Stages -> Seq(Tags)]
    BY DEF TypeOK
  <1>3. /\ \A q \in Stages, j \in Keys : q # p \/ j # key => Count(j, q)' = Count(j, q)
        /\ Count(key, p)' = Count(key, p) + 1
        /\ \A q \in Stages, j \in Keys : Count(j, q) \in 0 .. M
    BY <1>2 DEF Count, Keys
  <1>4. Received(l)' = Received(l)
    <2>1. CASE l[2] # p
      <3>1. NextOp(l[2])' = NextOp(l[2])
        BY <1>1, <1>2, <2>1 DEF NextOp, Warmup
      <3>2. inbox'[l[2]] = inbox[l[2]]
        BY <1>1, <1>2, <2>1
      <3>3. Held(Key(l), l[2])' = Held(Key(l), l[2])
        BY <3>1, <3>2 DEF Held
      <3> QED
        BY <1>1, <1>3, <2>1, <3>3 DEF Received
    <2>2. CASE l[2] = p /\ Key(l) = key
      <3>1. Held(key, p) = 1
        BY <2>2 DEF Held
      <3>2. Held(key, p)' = 0
        BY <1>2 DEF Held
      <3>3. Count(key, p)' + 0 = Count(key, p) + 1
        BY <1>1, <1>3
      <3> QED
        BY <2>2, <3>1, <3>2, <3>3 DEF Received
    <2>3. CASE l[2] = p /\ Key(l) # key
      <3>1. Held(Key(l), p) = 0
        BY <1>1, <2>3 DEF Held, OpOf, Keys
      <3>2. Held(Key(l), p)' = 0
        BY <1>2 DEF Held
      <3> QED
        BY <1>1, <1>3, <2>3, <3>1, <3>2 DEF Received
    <2> QED
      BY <2>1, <2>2, <2>3
  <1>5. ~(l[1] = p /\ Key(l) = key) => Sent(l)' = Sent(l)
    BY <1>1, <1>3 DEF Sent
  <1>6. ASSUME l[1] = p, Key(l) = key PROVE Sent(l)' = NextTag(Sent(l))
    <2>1. step[p] \in Nat /\ Count(key, p) \in 0 .. M - 1
      BY <1>2, <1>3, PipelineAssumption
    <2>2. Sent(l) = <<step[p], Count(key, p)>>
      BY <1>6, <2>1, NextTagOf DEF Sent
    <2> QED
      BY <1>3, <1>6, <2>1, <2>2, NextTagOf DEF Sent
  <1> QED
    BY <1>4, <1>5, <1>6

\* send() puts the next microbatch on its link, the first time after the
\* header, and touches no other link.
LEMMA SendLink ==
  ASSUME TypeOK, NEW l \in Links, LinkInv(l), NEW tag \in Tags, tag = Sent(l),
         Send(l[1], l[2], Key(l), tag)
  PROVE  /\ link' \in [Links -> Seq(Messages)]
         /\ sendKnown' \in [Stages -> SUBSET Keys]
         /\ HeaderSent(l)'
         /\ Stream(link'[l], IF HeaderRead(l) THEN 0 ELSE 1, Received(l), NextTag(Sent(l)))
         /\ \A m \in Links \ {l} : link'[m] = link[m] /\ HeaderSent(m)' = HeaderSent(m)
  <1> DEFINE header == [header |-> TRUE, tag |-> tag, shape |-> ShapeOf[tag[1]]]
             tensor == [header EXCEPT !.header = FALSE]
  <1>1. /\ l[1] \in Stages /\ l[2] \in Stages /\ l = <<l[1], l[2]>> /\ Key(l) \in Keys
        /\ link \in [Links -> Seq(Messages)] /\ sendKnown \in [Stages -> SUBSET Keys]
    BY LinkOf DEF TypeOK
  <1>2. tag[1] \in Steps /\ ShapeOf[tag[1]] \in Shapes
    BY DEF Tags, Shapes
  <1>3. /\ header \in Messages /\ tensor \in Messages
        /\ header.header /\ ~tensor.header /\ tensor.tag = tag
    BY <1>2 DEF Messages
  <1> HIDE DEF header, tensor
  <1>4. /\ link' = [link EXCEPT ![l] = link[l] \o
                       (IF HeaderSent(l) THEN <<tensor>> ELSE <<header, tensor>>)]
        /\ sendKnown' = [sendKnown EXCEPT ![l[1]] = sendKnown[l[1]] \cup {Key(l)}]
    BY <1>1 DEF Send, Described, HeaderSent, header, tensor
  <1>5. link' \in [Links -> Seq(Messages)]
    <2>1. link[l] \o (IF HeaderSent(l) THEN <<tensor>> ELSE <<header, tensor>>) \in Seq(Messages)
      BY <1>1, <1>3
    <2> QED
      BY <1>1, <1>4, <2>1
  <1>6. sendKnown' \in [Stages -> SUBSET Keys]
    BY <1>1, <1>4
  <1>7. HeaderSent(l)'
    BY <1>1, <1>4 DEF HeaderSent
  <1>8. Stream(link'[l], IF HeaderRead(l) THEN 0 ELSE 1, Received(l), NextTag(Sent(l)))
    <2>1. CASE HeaderSent(l)
      <3>1. link'[l] = Append(link[l], tensor)
        BY <1>1, <1>3, <1>4, <2>1
      <3>2. /\ HeaderDue(l) = IF HeaderRead(l) THEN 0 ELSE 1
            /\ HeaderDue(l) \in {0, 1}
        BY <2>1 DEF HeaderDue
      <3>3. link[l] \in Seq(Messages) /\ Stream(link[l], HeaderDue(l), Received(l), tensor.tag)
        BY <1>1, <1>3 DEF LinkInv
      <3>4. Stream(Append(link[l], tensor), HeaderDue(l), Received(l), NextTag(tensor.tag))
        BY <1>3, <3>2, <3>3, StreamSend
      <3> QED
        BY <1>3, <3>1, <3>2, <3>4
    <2>2. CASE ~HeaderSent(l)
      <3>1. link[l] = << >> /\ ~HeaderRead(l) /\ HeaderDue(l) = 0
        BY <2>2 DEF LinkInv, HeaderDue
      <3>2. link'[l] = <<header, tensor>>
        BY <1>1, <1>4, <2>2, <3>1
      <3>3. Received(l) = tag
        BY <3>1 DEF LinkInv, Stream, TagAt
      <3> QED
        BY <1>3, <3>1, <3>2, <3>3, StreamFirst
    <2> QED
      BY <2>1, <2>2
  <1>9. ASSUME NEW m \in Links \ {l} PROVE link'[m] = link[m] /\ HeaderSent(m)' = HeaderSent(m)
    <2>1. link'[m] = link[m] /\ m[1] \in Stages
      BY <1>1, <1>4, LinkOf
    <2>2. CASE m[1] = l[1]
      <3>1. Key(m) # Key(l)
        BY <2>2, LinkOfKey
      <3> QED
        BY <1>1, <1>4, <2>1, <2>2, <3>1 DEF HeaderSent
    <2>3. CASE m[1] # l[1]
      BY <1>1, <1>4, <2>1, <2>3 DEF HeaderSent
    <2> QED
      BY <2>1, <2>2, <2>3
  <1> QED
    BY <1>5, <1>6, <1>7, <1>8, <1>9

-----------------------------------------------------------------------------
(* Each operation preserves the invariant. *)

LEMMA InitInv == Init => IInv
  <1> SUFFICES ASSUME Init PROVE IInv
    OBVIOUS
  <1> USE PipelineAssumption
  <1>1. TypeOK
    BY DEF Init, TypeOK
  <1>2. ASSUME NEW p \in Stages PROVE StageInv(p) /\ InboxInv(p)
    <2>1. Warmup(p) + 1 >= 0
      BY DEF Warmup, Stages
    <2> QED
      BY <2>1 DEF Init, StageInv, InboxInv
  <1>3. ASSUME NEW l \in Links PROVE LinkInv(l)
    <2>1. l[1] \in Stages /\ l[2] \in Stages /\ Key(l) \in Keys
      BY LinkOf
    <2>2. ~HeaderSent(l) /\ ~HeaderRead(l) /\ link[l] = << >>
      BY <2>1 DEF Init, HeaderSent, HeaderRead
    <2>3. Received(l) = Pos(1, 0) /\ Sent(l) = Pos(1, 0) /\ HeaderDue(l) = 0
      BY <2>1, <2>2 DEF Init, Received, Sent, Held, Count, HeaderDue
    <2> QED
      BY <2>2, <2>3, StreamEmpty DEF LinkInv
  <1> QED
    BY <1>1, <1>2, <1>3 DEF IInv

\* The first message of a key is its header.
LEMMA RecvHeaderInv ==
  ASSUME IInv, NEW p \in Stages, RecvHeader(p)
  PROVE  IInv' /\ fits'[p] /\ \A q \in Stages \ {p} : fits'[q] = fits[q]
  <1>0. PICK l \in Links : l = <<Source(p)[1], p>> /\ l[2] = p /\ Key(l) = Source(p)[2]
    BY SourceLink DEF IInv, RecvHeader
  <1> DEFINE key == Key(l)
  <1>1. /\ TypeOK /\ Receives(p) /\ link[l] # << >>
        /\ recvKnown[p][key] = Unknown
        /\ recvKnown' = [recvKnown EXCEPT ![p][key] = Head(link[l]).shape]
        /\ fits' = [fits EXCEPT ![p] = Head(link[l]).header]
        /\ link' = [link EXCEPT ![l] = Tail(link[l])]
        /\ UNCHANGED <<sched, eager, step, fwd, bwd, inflight, passes, inbox, sendKnown>>
    BY <1>0 DEF IInv, RecvHeader, config, progress
  <1>2. l \in Links /\ Key(l) = key /\ key \in Keys /\ l[2] = p
    BY <1>0, LinkOf
  <1> HIDE DEF key
  <1>3. /\ link \in [Links -> Seq(Messages)]
        /\ recvKnown \in [Stages -> [Keys -> Shapes \cup {Unknown}]]
        /\ fits \in [Stages -> BOOLEAN]
        /\ LinkInv(l)
    BY <1>1, <1>2 DEF IInv, TypeOK
  <1>4. link[l] \in Seq(Messages)
    BY <1>2, <1>3
  <1>5. /\ Head(link[l]) \in Messages /\ Tail(link[l]) \in Seq(Messages)
        /\ Head(link[l]).header \in BOOLEAN
        /\ Head(link[l]).shape \in Shapes /\ Head(link[l]).shape # Unknown
    <2>1. Head(link[l]) \in Messages /\ Tail(link[l]) \in Seq(Messages)
      BY <1>1, <1>4, TailProperties
    <2>2. \A x \in Shapes : x # Unknown
      BY PipelineAssumption DEF Shapes
    <2> QED
      BY <2>1, <2>2 DEF Messages
  <1>6. HeaderSent(l) /\ ~HeaderRead(l) /\ HeaderDue(l) = 1
    BY <1>1, <1>2, <1>3 DEF LinkInv, HeaderRead, HeaderDue
  <1>7. /\ Head(link[l]).header
        /\ Stream(Tail(link[l]), 0, Received(l), Sent(l))
    BY <1>3, <1>4, <1>6, StreamHeader DEF LinkInv
  <1>8. TypeOK'
    <2>1. link' \in [Links -> Seq(Messages)]
      BY <1>1, <1>2, <1>3, <1>5
    <2>2. recvKnown' \in [Stages -> [Keys -> Shapes \cup {Unknown}]]
      BY <1>1, <1>2, <1>3, <1>5
    <2>3. fits' \in [Stages -> BOOLEAN]
      BY <1>1, <1>3, <1>5
    <2> QED
      BY <1>1, <2>1, <2>2, <2>3 DEF TypeOK
  <1>9. ASSUME NEW q \in Stages PROVE StageInv(q)' /\ InboxInv(q)'
    BY <1>1, StageFrame, InboxFrame DEF IInv
  <1>10. \A m \in Links : /\ Received(m)' = Received(m) /\ Sent(m)' = Sent(m)
                          /\ HeaderSent(m)' = HeaderSent(m)
    BY <1>1 DEF Received, Sent, Count, Held, NextOp, Warmup, HeaderSent
  <1>11. ASSUME NEW m \in Links PROVE LinkInv(m)'
    <2>1. LinkInv(m) /\ m[2] \in Stages /\ Key(m) \in Keys
      BY LinkOf DEF IInv
    <2>2. CASE m = l
      <3>1. link'[l] = Tail(link[l]) /\ HeaderRead(l)'
        BY <1>1, <1>2, <1>3, <1>5 DEF HeaderRead
      <3>2. HeaderDue(l)' = 0 /\ HeaderSent(l)'
        BY <1>2, <1>6, <1>10, <3>1 DEF HeaderDue
      <3> QED
        BY <1>2, <1>7, <1>10, <2>2, <3>1, <3>2 DEF LinkInv
    <2>3. CASE m # l
      <3>1. link'[m] = link[m]
        BY <1>1, <1>3, <2>3
      <3>2. m[2] # p \/ Key(m) # key
        BY <1>2, <2>3, LinkOfKey
      <3>3. HeaderRead(m)' = HeaderRead(m)
        BY <1>1, <1>2, <1>3, <2>1, <3>2 DEF HeaderRead
      <3> QED
        BY <1>10, <2>1, <3>1, <3>3, LinkFrame
    <2> QED
      BY <2>2, <2>3
  <1> QED
    BY <1>1, <1>3, <1>7, <1>8, <1>9, <1>11 DEF IInv

\* After the header every message of a key is a payload, of the microbatch
\* the receiver's next operation is for.
LEMMA RecvPayloadInv ==
  ASSUME IInv, NEW p \in Stages, RecvPayload(p)
  PROVE  IInv'
  <1>0. PICK l \in Links : l = <<Source(p)[1], p>> /\ l[2] = p /\ Key(l) = Source(p)[2]
    BY SourceLink DEF IInv, RecvPayload
  <1> DEFINE key == Key(l)
  <1>1. /\ TypeOK /\ Receives(p) /\ link[l] # << >>
        /\ recvKnown[p][key] # Unknown /\ inbox[p] = << >>
        /\ inbox' = [inbox EXCEPT ![p] = <<Head(link[l]).tag>>]
        /\ link' = [link EXCEPT ![l] = Tail(link[l])]
        /\ UNCHANGED <<sched, eager, step, fwd, bwd, inflight, passes, sendKnown, recvKnown>>
    BY <1>0 DEF IInv, RecvPayload, config, progress
  <1>f. fits' = [fits EXCEPT ![p] = ~Head(link[l]).header
                                    /\ Head(link[l]).shape = recvKnown[p][key]]
    BY <1>0 DEF RecvPayload
  <1>2. /\ l \in Links /\ Key(l) = key /\ key \in Keys /\ l[2] = p
        /\ NextOp(p) = OpOf(key) /\ Count(key, p) \in 0 .. M - 1 /\ step[p] \in Steps
    BY <1>0, <1>1, SourceLink
  <1>k. key = Source(p)[2]
    BY <1>0
  <1> HIDE DEF key
  <1>3. /\ link \in [Links -> Seq(Messages)]
        /\ inbox \in [Stages -> Seq(Tags)]
        /\ fits \in [Stages -> BOOLEAN]
        /\ LinkInv(l)
    BY <1>1, <1>2 DEF IInv, TypeOK
  <1>4. link[l] \in Seq(Messages)
    BY <1>2, <1>3
  <1>5. /\ Head(link[l]) \in Messages /\ Tail(link[l]) \in Seq(Messages)
        /\ Head(link[l]).tag \in Tags
    <2>1. Head(link[l]) \in Messages /\ Tail(link[l]) \in Seq(Messages)
      BY <1>1, <1>4, TailProperties
    <2> QED
      BY <2>1 DEF Messages
  <1>6. HeaderRead(l) /\ HeaderDue(l) = 0 /\ Held(key, p) = 0
    BY <1>1, <1>2 DEF HeaderRead, HeaderDue, Held
  <1>7. Received(l) = <<step[p], Count(key, p)>>
    <2>1. step[p] \in Nat /\ Count(key, p) + 0 = Count(key, p)
      BY <1>2, PipelineAssumption DEF Steps
    <2>2. Received(l) = Pos(step[p], Count(key, p))
      BY <1>2, <1>6, <2>1 DEF Received
    <2> QED
      BY <1>2, <2>1, <2>2, NextTagOf
  <1>8. /\ ~Head(link[l]).header
        /\ Head(link[l]).tag = <<step[p], Count(key, p)>>
        /\ Stream(Tail(link[l]), 0, NextTag(Received(l)), Sent(l))
    BY <1>1, <1>3, <1>4, <1>6, <1>7, StreamPayload DEF LinkInv
  <1>9. TypeOK'
    <2>1. link' \in [Links -> Seq(Messages)]
      BY <1>1, <1>2, <1>3, <1>5
    <2>2. inbox' \in [Stages -> Seq(Tags)]
      BY <1>1, <1>3, <1>5
    <2>3. fits' \in [Stages -> BOOLEAN]
      BY <1>f, <1>3
    <2> QED
      BY <1>1, <2>1, <2>2, <2>3 DEF TypeOK
  <1>10. \A q \in Stages : NextOp(q)' = NextOp(q)
    BY <1>1 DEF NextOp, Warmup
  <1>11. ASSUME NEW q \in Stages PROVE StageInv(q)' /\ InboxInv(q)'
    <2>1. StageInv(q)'
      BY <1>1, StageFrame DEF IInv
    <2>2. CASE q # p
      <3>1. inbox'[q] = inbox[q]
        BY <1>1, <1>3, <2>2
      <3> QED
        BY <1>1, <2>1, <3>1, InboxFrame DEF IInv
    <2>3. CASE q = p
      <3>1. inbox'[p] = <<<<step[p], Count(key, p)>>>>
        BY <1>1, <1>3, <1>8
      <3>2. Receives(p)' /\ Source(p)' = Source(p)
        BY <1>1, <1>10 DEF Receives, Running, Source
      <3>3. Count(Source(p)[2], p)' = Count(key, p)
        BY <1>1, <1>k, <3>2 DEF Count
      <3> QED
        BY <1>1, <2>1, <2>3, <3>1, <3>2, <3>3 DEF InboxInv
    <2> QED
      BY <2>2, <2>3
  <1>12. \A m \in Links : /\ Sent(m)' = Sent(m) /\ HeaderSent(m)' = HeaderSent(m)
                          /\ HeaderRead(m)' = HeaderRead(m)
    BY <1>1 DEF Sent, Count, HeaderSent, HeaderRead
  <1>13. ASSUME NEW m \in Links PROVE LinkInv(m)'
    <2>1. LinkInv(m) /\ m[2] \in Stages /\ Key(m) \in Keys
      BY LinkOf DEF IInv
    <2>2. CASE m = l
      <3>1. link'[l] = Tail(link[l]) /\ inbox'[p] # << >>
        BY <1>1, <1>2, <1>3
      <3>2. HeaderDue(l)' = 0 /\ HeaderSent(l)'
        BY <1>2, <1>3, <1>6, <1>12 DEF HeaderDue, LinkInv
      <3>3. Held(key, p)' = 1 /\ Count(key, p)' = Count(key, p)
        BY <1>1, <1>2, <1>10, <3>1 DEF Held, Count
      <3>4. Received(l)' = NextTag(Received(l))
        <4>1. step[p] \in Nat
          BY <1>2, PipelineAssumption DEF Steps
        <4> QED
          BY <1>1, <1>2, <1>7, <3>3, <4>1, NextTagOf DEF Received
      <3> QED
        BY <1>2, <1>8, <1>12, <2>2, <3>1, <3>2, <3>4 DEF LinkInv
    <2>3. CASE m # l
      <3>1. link'[m] = link[m]
        BY <1>1, <1>3, <2>3
      <3>2. m[2] # p \/ Key(m) # key
        BY <1>2, <2>3, LinkOfKey
      <3>3. Held(Key(m), m[2])' = Held(Key(m), m[2])
        <4>1. CASE m[2] # p
          BY <1>1, <1>3, <1>10, <2>1, <4>1 DEF Held
        <4>2. CASE m[2] = p /\ Key(m) # key
          <5>1. NextOp(p) # OpOf(Key(m))
            BY <1>2, <2>1, <4>2 DEF OpOf, Keys
          <5> QED
            BY <1>10, <4>2, <5>1 DEF Held
        <4> QED
          BY <3>2, <4>1, <4>2
      <3>4. Received(m)' = Received(m)
        BY <1>1, <3>3 DEF Received, Count
      <3> QED
        BY <1>12, <2>1, <3>1, <3>4, LinkFrame
    <2> QED
      BY <2>2, <2>3
  <1> QED
    BY <1>9, <1>11, <1>13 DEF IInv

\* What sending the microbatch an operation was for makes of the links.
LEMMA SendInv ==
  ASSUME IInv, NEW key \in Keys, NEW p \in Stages,
         NEW tag \in Tags, \A l \in Links : l[1] = p /\ Key(l) = key => tag = Sent(l),
         \/ (\A l \in Links : l[1] = p => Key(l) # key) /\ UNCHANGED <<link, sendKnown>>
         \/ \E l \in Links : l[1] = p /\ Key(l) = key /\ Send(p, l[2], key, tag),
         recvKnown' = recvKnown,
         \A l \in Links :
            /\ Received(l)' = Received(l)
            /\ Sent(l)' = IF l[1] = p /\ Key(l) = key THEN NextTag(Sent(l)) ELSE Sent(l)
  PROVE  /\ link' \in [Links -> Seq(Messages)]
         /\ sendKnown' \in [Stages -> SUBSET Keys]
         /\ \A l \in Links : LinkInv(l)'
  <1>1. /\ TypeOK /\ \A l \in Links : LinkInv(l)
        /\ \A l \in Links : HeaderRead(l)' = HeaderRead(l)
    BY DEF IInv, HeaderRead
  <1>2. CASE (\A l \in Links : l[1] = p => Key(l) # key) /\ UNCHANGED <<link, sendKnown>>
    <2>1. \A l \in Links : Sent(l)' = Sent(l) /\ HeaderSent(l)' = HeaderSent(l)
      BY <1>2 DEF HeaderSent
    <2>2. \A l \in Links : LinkInv(l)'
      BY <1>1, <1>2, <2>1, LinkFrame
    <2> QED
      BY <1>1, <1>2, <2>2 DEF TypeOK
  <1>3. ASSUME NEW l \in Links, l[1] = p, Key(l) = key, Send(p, l[2], key, tag)
        PROVE  /\ link' \in [Links -> Seq(Messages)]
               /\ sendKnown' \in [Stages -> SUBSET Keys]
               /\ \A m \in Links : LinkInv(m)'
    <2>1. /\ link' \in [Links -> Seq(Messages)]
          /\ sendKnown' \in [Stages -> SUBSET Keys]
          /\ HeaderSent(l)'
          /\ Stream(link'[l], IF HeaderRead(l) THEN 0 ELSE 1, Received(l), NextTag(Sent(l)))
          /\ \A m \in Links \ {l} : link'[m] = link[m] /\ HeaderSent(m)' = HeaderSent(m)
      BY <1>1, <1>3, SendLink
    <2>2. LinkInv(l)'
      <3>1. HeaderDue(l)' = IF HeaderRead(l) THEN 0 ELSE 1
        BY <1>1, <2>1 DEF HeaderDue
      <3> QED
        BY <1>3, <2>1, <3>1 DEF LinkInv
    <2>3. ASSUME NEW m \in Links \ {l} PROVE LinkInv(m)'
      <3>1. ~(m[1] = p /\ Key(m) = key)
        BY <1>3, <2>3, LinkOfKey
      <3> QED
        BY <1>1, <2>1, <3>1, LinkFrame
    <2> QED
      BY <2>1, <2>2, <2>3
  <1> QED
    BY <1>2, <1>3

\* A forward is of the next microbatch, first come first served.
LEMMA ForwardInv ==
  ASSUME IInv, NEW p \in Stages, Forward(p)
  PROVE  IInv'
  <1> DEFINE tag == IF IsFirst(p) THEN <<step[p], fwd[p]>> ELSE inbox[p][1]
  <1>0. TypeOK /\ StageInv(p) /\ InboxInv(p)
    BY DEF IInv
  <1>1. /\ Running(p, "forward")
        /\ IsFirst(p) \/ inbox[p] # << >>
        /\ inbox' = [inbox EXCEPT ![p] = << >>]
        /\ fwd' = [fwd EXCEPT ![p] = @ + 1]
        /\ inflight' = [inflight EXCEPT ![p] = Append(@, tag)]
        /\ IF IsLast(p) THEN UNCHANGED <<link, sendKnown>> ELSE Send(p, p + 1, "act", tag)
        /\ UNCHANGED <<sched, eager, step, bwd, passes, recvKnown, fits>>
    BY DEF Forward, config
  <1>2. /\ fwd[p] \in 0 .. M - 1 /\ bwd[p] \in 0 .. M /\ step[p] \in Steps
        /\ NextOp(p) = "forward" /\ fwd[p] - bwd[p] <= Warmup(p) /\ Warmup(p) \in Int
        /\ p \in Nat /\ P \in Nat \ {0} /\ p < P /\ M \in Nat \ {0}
    <2>1. NextOp(p) = "forward" /\ step[p] \in Steps
      BY <1>1 DEF Running
    <2> QED
      BY <1>0, <2>1, OpFacts
  <1>3. tag = <<step[p], fwd[p]>> /\ tag \in Tags
    <2>1. CASE IsFirst(p)
      BY <1>2, <2>1 DEF Tags
    <2>2. CASE ~IsFirst(p)
      <3>1. Source(p)[2] = "act" /\ Count("act", p) = fwd[p]
        BY <1>2 DEF Source, Count
      <3>2. inbox[p] = <<<<step[p], fwd[p]>>>>
        BY <1>0, <1>1, <2>2, <3>1 DEF InboxInv
      <3> QED
        BY <1>2, <2>2, <3>2 DEF Tags
    <2> QED
      BY <2>1, <2>2
  <1> HIDE DEF tag
  <1>4. /\ inbox \in [Stages -> Seq(Tags)] /\ fwd \in [Stages -> 0 .. M]
        /\ inflight \in [Stages -> Seq(Tags)] /\ inflight[p] \in Seq(Tags)
    BY <1>0 DEF TypeOK
  <1>5. \A l \in Links :
            /\ Received(l)' = Received(l)
            /\ Sent(l)' = IF l[1] = p /\ Key(l) = "act" THEN NextTag(Sent(l)) ELSE Sent(l)
    <2>1. NextOp(p) = OpOf("act") /\ Count("act", p) < M /\ "act" \in Keys
      <3>1. /\ OpOf("act") = "forward"
            /\ Count("act", p) = fwd[p] /\ "act" \in Keys
        BY DEF OpOf, Count, Keys
      <3> QED
        BY <1>2, <3>1
    <2>2. ASSUME NEW l \in Links, l[2] = p, Key(l) = "act" PROVE inbox[p] # << >>
      <3>1. l[1] \in Nat /\ p = l[1] + 1
        BY <2>2, LinkOf DEF Stages
      <3> QED
        BY <1>1, <3>1 DEF IsFirst
    <2> QED
      BY <1>0, <1>1, <2>1, <2>2, Advance
  <1>6. ASSUME NEW l \in Links, l[1] = p, Key(l) = "act" PROVE tag = Sent(l)
    <2>1. step[p] \in Nat
      BY <1>2 DEF Steps
    <2>2. Sent(l) = Pos(step[p], fwd[p])
      BY <1>6 DEF Sent, Count
    <2> QED
      BY <1>2, <1>3, <2>1, <2>2, NextTagOf
  <1>7. \/ (\A l \in Links : l[1] = p => Key(l) # "act") /\ UNCHANGED <<link, sendKnown>>
        \/ \E l \in Links : l[1] = p /\ Key(l) = "act" /\ Send(p, l[2], "act", tag)
    <2>1. CASE IsLast(p)
      <3>1. ASSUME NEW l \in Links, l[1] = p, Key(l) = "act" PROVE FALSE
        BY <2>1, <3>1, LinkOf, PipelineAssumption DEF IsLast, Stages
      <3> QED
        BY <1>1, <2>1, <3>1
    <2>2. CASE ~IsLast(p)
      <3>1. p + 1 \in Stages
        BY <1>2, <2>2 DEF IsLast, Stages
      <3>2. <<p, p + 1>> \in Links /\ Key(<<p, p + 1>>) = "act"
        BY <3>1, LinkTo
      <3> QED
        BY <1>1, <2>2, <3>2
    <2> QED
      BY <2>1, <2>2
  <1>8. /\ link' \in [Links -> Seq(Messages)]
        /\ sendKnown' \in [Stages -> SUBSET Keys]
        /\ \A l \in Links : LinkInv(l)'
    <2>1. "act" \in Keys
      BY DEF Keys
    <2> QED
      BY <1>1, <1>3, <1>5, <1>6, <1>7, <2>1, SendInv
  <1>9. TypeOK'
    <2>1. /\ inbox' \in [Stages -> Seq(Tags)] /\ inflight' \in [Stages -> Seq(Tags)]
      BY <1>1, <1>3, <1>4
    <2>2. fwd' \in [Stages -> 0 .. M]
      <3>1. fwd[p] + 1 \in 0 .. M
        BY <1>2
      <3> QED
        BY <1>1, <1>4, <3>1
    <2> QED
      BY <1>0, <1>1, <1>8, <2>1, <2>2 DEF TypeOK
  <1>10. StageInv(p)'
    <2>1. fwd'[p] = fwd[p] + 1 /\ Warmup(p)' = Warmup(p) /\ inflight'[p] = Append(inflight[p], tag)
      BY <1>1, <1>4 DEF Warmup
    <2>2. /\ Len(inflight[p]) = fwd[p] - bwd[p]
          /\ \A i \in 1 .. Len(inflight[p]) : inflight[p][i] = <<step[p], bwd[p] + i - 1>>
      BY <1>0 DEF StageInv
    <2>3. /\ Len(inflight'[p]) = fwd[p] + 1 - bwd[p]
          /\ inflight'[p][fwd[p] + 1 - bwd[p]] = tag
          /\ \A i \in 1 .. fwd[p] - bwd[p] : inflight'[p][i] = inflight[p][i]
      <3>1. fwd[p] + 1 - bwd[p] = Len(inflight[p]) + 1
        BY <1>2, <2>2
      <3>2. /\ Len(inflight'[p]) = Len(inflight[p]) + 1
            /\ inflight'[p][Len(inflight[p]) + 1] = tag
            /\ \A i \in 1 .. Len(inflight[p]) : inflight'[p][i] = inflight[p][i]
        BY <1>3, <1>4, <2>1, AppendProperties
      <3> QED
        BY <2>2, <3>1, <3>2
    <2>4. \A i \in 1 .. Len(inflight'[p]) : inflight'[p][i] = <<step[p], bwd[p] + i - 1>>
      <3> SUFFICES ASSUME NEW i \in 1 .. Len(inflight'[p])
                   PROVE  inflight'[p][i] = <<step[p], bwd[p] + i - 1>>
        OBVIOUS
      <3>1. CASE i = fwd[p] + 1 - bwd[p]
        <4>1. bwd[p] + i - 1 = fwd[p]
          <5>1. fwd[p] \in Int /\ bwd[p] \in Int
            BY <1>2
          <5> QED
            BY <3>1, <5>1
        <4> QED
          BY <1>3, <2>3, <3>1, <4>1
      <3>2. CASE i # fwd[p] + 1 - bwd[p]
        <4>1. i \in 1 .. fwd[p] - bwd[p]
          <5>1. i \in Int /\ 1 <= i /\ i <= fwd[p] + 1 - bwd[p]
            BY <1>2, <2>3
          <5>2. fwd[p] \in Int /\ bwd[p] \in Int
            BY <1>2
          <5> QED
            BY <3>2, <5>1, <5>2
        <4> QED
          BY <2>2, <2>3, <4>1
      <3> QED
        BY <3>1, <3>2
    <2>5. fwd'[p] - bwd[p] <= Warmup(p) + 1 /\ Len(inflight'[p]) = fwd'[p] - bwd[p]
      <3>1. fwd[p] \in Int /\ bwd[p] \in Int /\ Warmup(p) \in Int
            /\ fwd[p] - bwd[p] <= Warmup(p)
        BY <1>2
      <3>2. fwd[p] + 1 - bwd[p] <= Warmup(p) + 1
        BY <3>1
      <3>3. fwd'[p] = fwd[p] + 1
        BY <2>1
      <3>4. Len(inflight'[p]) = fwd[p] + 1 - bwd[p]
        BY <2>3
      <3>5. fwd'[p] - bwd[p] <= Warmup(p) + 1
        BY <3>1, <3>2, <3>3
      <3>6. Len(inflight'[p]) = fwd'[p] - bwd[p]
        BY <3>1, <3>3, <3>4
      <3> QED
        BY <3>5, <3>6
    <2>6. /\ Len(passes[p]) = bwd[p]
          /\ \A i \in 1 .. Len(passes[p]) :
                passes[p][i] = <<<<step[p], i - 1>>, <<step[p], i - 1>>>>
      BY <1>0 DEF StageInv
    <2> QED
      BY <1>1, <2>1, <2>4, <2>5, <2>6 DEF StageInv
  <1>11. ASSUME NEW q \in Stages PROVE StageInv(q)' /\ InboxInv(q)'
    <2>1. CASE q = p
      <3>1. inbox'[p] = << >>
        BY <1>1, <1>4
      <3> QED
        BY <1>10, <2>1, <3>1 DEF InboxInv
    <2>2. CASE q # p
      <3>1. fwd'[q] = fwd[q] /\ inbox'[q] = inbox[q] /\ inflight'[q] = inflight[q]
        BY <1>1, <1>4, <2>2
      <3> QED
        BY <1>1, <3>1, StageFrame, InboxFrame DEF IInv
    <2> QED
      BY <2>1, <2>2
  <1> QED
    BY <1>8, <1>9, <1>11 DEF IInv

\* A backward is of the oldest microbatch in flight, with its gradient.
LEMMA BackwardInv ==
  ASSUME IInv, NEW p \in Stages, Backward(p)
  PROVE  IInv'
  <1> DEFINE act == Head(inflight[p])
             grad == IF IsLast(p) THEN act ELSE inbox[p][1]
  <1>0. TypeOK /\ StageInv(p) /\ InboxInv(p)
    BY DEF IInv
  <1>1. /\ Running(p, "backward")
        /\ IsLast(p) \/ inbox[p] # << >>
        /\ inflight[p] # << >>
        /\ inbox' = [inbox EXCEPT ![p] = << >>]
        /\ bwd' = [bwd EXCEPT ![p] = @ + 1]
        /\ inflight' = [inflight EXCEPT ![p] = Tail(@)]
        /\ passes' = [passes EXCEPT ![p] = Append(@, <<act, grad>>)]
        /\ IF IsFirst(p) THEN UNCHANGED <<link, sendKnown>> ELSE Send(p, p - 1, "grad", act)
        /\ UNCHANGED <<sched, eager, step, fwd, recvKnown, fits>>
    BY DEF Backward, Popped, Left, config
  <1>2. /\ bwd[p] \in 0 .. M - 1 /\ fwd[p] \in 0 .. M /\ step[p] \in Steps
        /\ NextOp(p) = "backward" /\ Warmup(p) \in Int
        /\ p \in Nat /\ P \in Nat \ {0} /\ p < P /\ M \in Nat \ {0}
    <2>1. NextOp(p) = "backward" /\ step[p] \in Steps
      BY <1>1 DEF Running
    <2> QED
      BY <1>0, <2>1, OpFacts
  <1>4. /\ inbox \in [Stages -> Seq(Tags)] /\ bwd \in [Stages -> 0 .. M]
        /\ inflight \in [Stages -> Seq(Tags)] /\ inflight[p] \in Seq(Tags)
        /\ passes \in [Stages -> Seq(Tags \X Tags)] /\ passes[p] \in Seq(Tags \X Tags)
    BY <1>0 DEF TypeOK
  <1>3. act = <<step[p], bwd[p]>> /\ grad = <<step[p], bwd[p]>> /\ act \in Tags
    <2>1. act = <<step[p], bwd[p]>>
      <3>1. /\ Len(inflight[p]) \in Nat /\ 1 <= Len(inflight[p])
            /\ act = inflight[p][1]
        BY <1>1, <1>4
      <3>2. act = <<step[p], bwd[p] + 1 - 1>>
        BY <1>0, <3>1 DEF StageInv
      <3>3. bwd[p] + 1 - 1 = bwd[p]
        BY <1>2
      <3> QED
        BY <3>2, <3>3
    <2>2. CASE IsLast(p)
      <3>1. <<step[p], bwd[p]>> \in Tags
        BY <1>2 DEF Tags
      <3> QED
        BY <2>1, <2>2, <3>1 DEF grad
    <2>3. CASE ~IsLast(p)
      <3>1. Source(p)[2] = "grad" /\ Count("grad", p) = bwd[p]
        BY <1>2 DEF Source, Count
      <3>2. inbox[p] = <<<<step[p], bwd[p]>>>>
        BY <1>0, <1>1, <2>3, <3>1 DEF InboxInv
      <3> QED
        BY <1>2, <2>1, <2>3, <3>2 DEF Tags
    <2> QED
      BY <2>2, <2>3
  <1> HIDE DEF act, grad
  <1>5. \A l \in Links :
            /\ Received(l)' = Received(l)
            /\ Sent(l)' = IF l[1] = p /\ Key(l) = "grad" THEN NextTag(Sent(l)) ELSE Sent(l)
    <2>1. NextOp(p) = OpOf("grad") /\ Count("grad", p) < M /\ "grad" \in Keys
      <3>1. /\ OpOf("grad") = "backward"
            /\ Count("grad", p) = bwd[p] /\ "grad" \in Keys
        BY DEF OpOf, Count, Keys
      <3> QED
        BY <1>2, <3>1
    <2>2. ASSUME NEW l \in Links, l[2] = p, Key(l) = "grad" PROVE inbox[p] # << >>
      <3>1. l[1] \in Nat /\ l[1] < P /\ p = l[1] - 1
        BY <2>2, LinkOf, PipelineAssumption DEF Stages
      <3> QED
        BY <1>1, <1>2, <3>1 DEF IsLast
    <2> QED
      BY <1>0, <1>1, <2>1, <2>2, Advance
  <1>6. ASSUME NEW l \in Links, l[1] = p, Key(l) = "grad" PROVE act = Sent(l)
    <2>1. step[p] \in Nat
      BY <1>2 DEF Steps
    <2>2. Sent(l) = Pos(step[p], bwd[p])
      BY <1>6 DEF Sent, Count
    <2> QED
      BY <1>2, <1>3, <2>1, <2>2, NextTagOf
  <1>7. \/ (\A l \in Links : l[1] = p => Key(l) # "grad") /\ UNCHANGED <<link, sendKnown>>
        \/ \E l \in Links : l[1] = p /\ Key(l) = "grad" /\ Send(p, l[2], "grad", act)
    <2>1. CASE IsFirst(p)
      <3>1. ASSUME NEW l \in Links, l[1] = p, Key(l) = "grad" PROVE FALSE
        BY <2>1, <3>1, LinkOf, PipelineAssumption DEF IsFirst, Stages
      <3> QED
        BY <1>1, <2>1, <3>1
    <2>2. CASE ~IsFirst(p)
      <3>1. p - 1 \in Stages
        BY <1>2, <2>2 DEF IsFirst, Stages
      <3>2. <<p, p - 1>> \in Links /\ Key(<<p, p - 1>>) = "grad"
        BY <3>1, LinkTo
      <3> QED
        BY <1>1, <2>2, <3>2
    <2> QED
      BY <2>1, <2>2
  <1>8. /\ link' \in [Links -> Seq(Messages)]
        /\ sendKnown' \in [Stages -> SUBSET Keys]
        /\ \A l \in Links : LinkInv(l)'
    <2>1. "grad" \in Keys
      BY DEF Keys
    <2> QED
      BY <1>1, <1>3, <1>5, <1>6, <1>7, <2>1, SendInv
  <1>9. TypeOK'
    <2>1. /\ inbox' \in [Stages -> Seq(Tags)] /\ inflight' \in [Stages -> Seq(Tags)]
      BY <1>1, <1>4
    <2>2. bwd' \in [Stages -> 0 .. M]
      <3>1. bwd[p] + 1 \in 0 .. M
        BY <1>2
      <3> QED
        BY <1>1, <1>4, <3>1
    <2>3. passes' \in [Stages -> Seq(Tags \X Tags)]
      <3>1. <<act, grad>> \in Tags \X Tags
        BY <1>3
      <3>2. Append(passes[p], <<act, grad>>) \in Seq(Tags \X Tags)
        BY <1>4, <3>1
      <3> QED
        BY <1>1, <1>4, <3>2
    <2> QED
      BY <1>0, <1>1, <1>8, <2>1, <2>2, <2>3 DEF TypeOK
  <1>10. StageInv(p)'
    <2>1. /\ bwd'[p] = bwd[p] + 1 /\ Warmup(p)' = Warmup(p)
          /\ inflight'[p] = Tail(inflight[p]) /\ passes'[p] = Append(passes[p], <<act, grad>>)
      BY <1>1, <1>4 DEF Warmup
    <2>2. /\ Len(inflight[p]) = fwd[p] - bwd[p] /\ fwd[p] - bwd[p] <= Warmup(p) + 1
          /\ \A i \in 1 .. Len(inflight[p]) : inflight[p][i] = <<step[p], bwd[p] + i - 1>>
          /\ Len(passes[p]) = bwd[p]
          /\ \A i \in 1 .. Len(passes[p]) :
                passes[p][i] = <<<<step[p], i - 1>>, <<step[p], i - 1>>>>
      BY <1>0 DEF StageInv
    <2>3. /\ Len(inflight'[p]) = fwd[p] - (bwd[p] + 1)
          /\ \A i \in 1 .. Len(inflight'[p]) : inflight'[p][i] = inflight[p][i + 1]
      <3>1. /\ Len(inflight'[p]) = Len(inflight[p]) - 1
            /\ \A i \in 1 .. Len(inflight[p]) - 1 : inflight'[p][i] = inflight[p][i + 1]
        BY <1>1, <1>4, <2>1, TailProperties
      <3>2. Len(inflight[p]) - 1 = fwd[p] - (bwd[p] + 1)
        BY <1>2, <2>2
      <3> QED
        BY <3>1, <3>2
    <2>4. \A i \in 1 .. Len(inflight'[p]) : inflight'[p][i] = <<step[p], (bwd[p] + 1) + i - 1>>
      <3> SUFFICES ASSUME NEW i \in 1 .. Len(inflight'[p])
                   PROVE  inflight'[p][i] = <<step[p], (bwd[p] + 1) + i - 1>>
        OBVIOUS
      <3>1. i + 1 \in 1 .. Len(inflight[p]) /\ bwd[p] + (i + 1) - 1 = (bwd[p] + 1) + i - 1
        <4>1. /\ i \in Int /\ 1 <= i /\ i <= fwd[p] - (bwd[p] + 1)
              /\ Len(inflight[p]) = fwd[p] - bwd[p]
          BY <1>2, <2>2, <2>3
        <4>2. fwd[p] \in Int /\ bwd[p] \in Int
          BY <1>2
        <4> QED
          BY <4>1, <4>2
      <3>2. inflight[p][i + 1] = <<step[p], bwd[p] + (i + 1) - 1>>
        BY <2>2, <3>1
      <3> QED
        BY <2>3, <3>1, <3>2
    <2>5. /\ fwd[p] - bwd'[p] <= Warmup(p) + 1 /\ Len(inflight'[p]) = fwd[p] - bwd'[p]
      BY <1>2, <2>1, <2>2, <2>3
    <2>6. /\ Len(passes'[p]) = bwd[p] + 1
          /\ passes'[p][bwd[p] + 1] = <<act, grad>>
          /\ \A i \in 1 .. bwd[p] : passes'[p][i] = passes[p][i]
      <3>1. <<act, grad>> \in Tags \X Tags
        BY <1>3
      <3>2. /\ Len(passes'[p]) = Len(passes[p]) + 1
            /\ passes'[p][Len(passes[p]) + 1] = <<act, grad>>
            /\ \A i \in 1 .. Len(passes[p]) : passes'[p][i] = passes[p][i]
        BY <1>4, <2>1, <3>1, AppendProperties
      <3> QED
        BY <2>2, <3>2
    <2>7. \A i \in 1 .. Len(passes'[p]) :
              passes'[p][i] = <<<<step[p], i - 1>>, <<step[p], i - 1>>>>
      <3> SUFFICES ASSUME NEW i \in 1 .. Len(passes'[p])
                   PROVE  passes'[p][i] = <<<<step[p], i - 1>>, <<step[p], i - 1>>>>
        OBVIOUS
      <3>1. CASE i = bwd[p] + 1
        <4>1. i - 1 = bwd[p]
          BY <1>2, <3>1
        <4> QED
          BY <1>3, <2>6, <3>1, <4>1
      <3>2. CASE i # bwd[p] + 1
        <4>1. i \in 1 .. bwd[p]
          BY <1>2, <2>6, <3>2
        <4> QED
          BY <2>2, <2>6, <4>1
      <3> QED
        BY <3>1, <3>2
    <2> QED
      BY <1>1, <2>1, <2>4, <2>5, <2>6, <2>7 DEF StageInv
  <1>11. ASSUME NEW q \in Stages PROVE StageInv(q)' /\ InboxInv(q)'
    <2>1. CASE q = p
      <3>1. inbox'[p] = << >>
        BY <1>1, <1>4
      <3> QED
        BY <1>10, <2>1, <3>1 DEF InboxInv
    <2>2. CASE q # p
      <3>1. /\ bwd'[q] = bwd[q] /\ inbox'[q] = inbox[q] /\ inflight'[q] = inflight[q]
            /\ passes'[q] = passes[q]
        BY <1>1, <1>4, <2>2
      <3> QED
        BY <1>1, <3>1, StageFrame, InboxFrame DEF IInv
    <2> QED
      BY <2>1, <2>2
  <1> QED
    BY <1>8, <1>9, <1>11 DEF IInv

\* The first microbatch of the next step follows the last one of this step,
\* so the links do not see where a step ends.
LEMMA DrainInv ==
  ASSUME IInv, NEW p \in Stages, Drain(p)
  PROVE  IInv'
  <1>0. TypeOK /\ StageInv(p) /\ InboxInv(p)
    BY DEF IInv
  <1>1. /\ Running(p, "drain")
        /\ step' = [step EXCEPT ![p] = @ + 1]
        /\ fwd' = [fwd EXCEPT ![p] = 0] /\ bwd' = [bwd EXCEPT ![p] = 0]
        /\ inflight' = [inflight EXCEPT ![p] = << >>]
        /\ passes' = [passes EXCEPT ![p] = << >>]
        /\ UNCHANGED <<sched, eager, inbox, link, sendKnown, recvKnown, fits>>
    BY DEF Drain, config, transport
  <1>2. /\ step \in [Stages -> 1 .. NumSteps + 1] /\ fwd \in [Stages -> 0 .. M]
        /\ bwd \in [Stages -> 0 .. M] /\ inflight \in [Stages -> Seq(Tags)]
        /\ passes \in [Stages -> Seq(Tags \X Tags)]
        /\ step[p] \in Steps /\ step[p] \in Nat /\ NextOp(p) = "drain" /\ M \in Nat \ {0}
    <2>1. step[p] \in Steps /\ NextOp(p) = "drain" /\ M \in Nat \ {0}
      BY <1>1, PipelineAssumption DEF Running
    <2>2. step[p] \in Nat
      BY <2>1, PipelineAssumption DEF Steps
    <2> QED
      BY <1>0, <2>1, <2>2 DEF TypeOK
  <1>3. fwd[p] = M /\ bwd[p] = M
    <2>1. Len(inflight[p]) \in Nat /\ Len(inflight[p]) = fwd[p] - bwd[p]
      BY <1>0, <1>2 DEF StageInv
    <2>2. bwd[p] = M /\ fwd[p] \in 0 .. M
      BY <1>0, <1>2, OpFacts
    <2> QED
      BY <1>2, <2>1, <2>2
  <1>4. inbox[p] = << >>
    BY <1>0, <1>2 DEF InboxInv, Receives, Running
  <1>5. TypeOK'
    <2>1. step' \in [Stages -> 1 .. NumSteps + 1]
      BY <1>1, <1>2, PipelineAssumption DEF Steps
    <2>2. fwd' \in [Stages -> 0 .. M] /\ bwd' \in [Stages -> 0 .. M]
      BY <1>1, <1>2
    <2>3. inflight' \in [Stages -> Seq(Tags)] /\ passes' \in [Stages -> Seq(Tags \X Tags)]
      <3>1. << >> \in Seq(Tags) /\ << >> \in Seq(Tags \X Tags)
        OBVIOUS
      <3> QED
        BY <1>1, <1>2, <3>1
    <2> QED
      BY <1>0, <1>1, <2>1, <2>2, <2>3 DEF TypeOK
  <1>6. ASSUME NEW q \in Stages PROVE StageInv(q)' /\ InboxInv(q)'
    <2>1. CASE q = p
      <3>1. /\ fwd'[p] = 0 /\ bwd'[p] = 0 /\ inflight'[p] = << >> /\ passes'[p] = << >>
            /\ inbox'[p] = << >>
        BY <1>1, <1>2, <1>4
      <3>2. 0 - 0 <= Warmup(p)' + 1
        BY <1>1, PipelineAssumption DEF Warmup, Stages
      <3> QED
        BY <2>1, <3>1, <3>2 DEF StageInv, InboxInv
    <2>2. CASE q # p
      <3>1. /\ step'[q] = step[q] /\ fwd'[q] = fwd[q] /\ bwd'[q] = bwd[q]
            /\ inflight'[q] = inflight[q] /\ passes'[q] = passes[q]
        BY <1>1, <1>2, <2>2
      <3> QED
        BY <1>1, <3>1, StageFrame, InboxFrame DEF IInv
    <2> QED
      BY <2>1, <2>2
  <1>7. ASSUME NEW l \in Links PROVE LinkInv(l)'
    <2>1. LinkInv(l) /\ l[1] \in Stages /\ l[2] \in Stages /\ Key(l) \in Keys
      BY LinkOf DEF IInv
    <2>2. HeaderSent(l)' = HeaderSent(l) /\ HeaderRead(l)' = HeaderRead(l)
      BY <1>1 DEF HeaderSent, HeaderRead
    <2>3. Pos(step[p] + 1, 0) = Pos(step[p], M)
      BY <1>2 DEF Pos
    <2>4. /\ step'[p] = step[p] + 1
          /\ \A key \in Keys : Count(key, p)' = 0 /\ Count(key, p) = M
      BY <1>1, <1>2, <1>3 DEF Count
    <2>5. ASSUME NEW q \in Stages, q # p
          PROVE  /\ step'[q] = step[q]
                 /\ \A key \in Keys : /\ Count(key, q)' = Count(key, q)
                                      /\ Held(key, q)' = Held(key, q)
      BY <1>1, <1>2, <2>5 DEF Count, Held, NextOp, Warmup
    <2>6. Sent(l)' = Sent(l)
      <3>1. CASE l[1] = p
        BY <2>1, <2>3, <2>4, <3>1 DEF Sent
      <3>2. CASE l[1] # p
        BY <2>1, <2>5, <3>2 DEF Sent
      <3> QED
        BY <3>1, <3>2
    <2>7. Received(l)' = Received(l)
      <3>1. CASE l[2] = p
        <4>1. Held(Key(l), p) = 0 /\ Held(Key(l), p)' = 0
          BY <1>1, <1>4 DEF Held
        <4>2. /\ Count(Key(l), p)' + Held(Key(l), p)' = 0
              /\ Count(Key(l), p) + Held(Key(l), p) = M
          <5>1. Count(Key(l), p)' = 0 /\ Count(Key(l), p) = M
            BY <2>1, <2>4
          <5> QED
            BY <1>2, <4>1, <5>1
        <4> QED
          BY <2>3, <2>4, <3>1, <4>2 DEF Received
      <3>2. CASE l[2] # p
        BY <2>1, <2>5, <3>2 DEF Received
      <3> QED
        BY <3>1, <3>2
    <2> QED
      BY <1>1, <2>1, <2>2, <2>6, <2>7, LinkFrame
  <1> QED
    BY <1>5, <1>6, <1>7 DEF IInv

LEMMA NextInv == IInv /\ [Next]_vars => IInv'
  <1> SUFFICES ASSUME IInv, [Next]_vars PROVE IInv'
    OBVIOUS
  <1>1. CASE UNCHANGED vars
    <2>1. /\ UNCHANGED <<sched, eager, step, fwd, bwd, inflight, passes>>
          /\ UNCHANGED <<inbox, link, sendKnown, recvKnown, fits>>
      BY <1>1 DEF vars, config, progress, transport
    <2>2. TypeOK'
      BY <2>1 DEF IInv, TypeOK
    <2>3. \A p \in Stages : StageInv(p)' /\ InboxInv(p)'
      BY <2>1, StageFrame, InboxFrame DEF IInv
    <2>4. \A l \in Links : LinkInv(l)'
      <3>1. \A l \in Links : /\ HeaderSent(l)' = HeaderSent(l)
                             /\ HeaderRead(l)' = HeaderRead(l)
        BY <2>1 DEF HeaderSent, HeaderRead
      <3>2. \A l \in Links : Received(l)' = Received(l) /\ Sent(l)' = Sent(l)
        BY <2>1 DEF Received, Sent, Count, Held, NextOp, Warmup
      <3> QED
        BY <2>1, <3>1, <3>2, LinkFrame DEF IInv
    <2> QED
      BY <2>2, <2>3, <2>4 DEF IInv
  <1>2. ASSUME NEW p \in Stages, StageStep(p) PROVE IInv'
    <2>1. CASE RecvHeader(p)
      BY <2>1, RecvHeaderInv
    <2>2. CASE RecvPayload(p)
      BY <2>2, RecvPayloadInv
    <2>3. CASE Forward(p)
      BY <2>3, ForwardInv
    <2>4. CASE Backward(p)
      BY <2>4, BackwardInv
    <2>5. CASE Drain(p)
      BY <2>5, DrainInv
    <2> QED
      BY <1>2, <2>1, <2>2, <2>3, <2>4, <2>5 DEF StageStep
  <1> QED
    BY <1>1, <1>2 DEF Next, Terminating

LEMMA Invariance == Spec => []IInv
  BY InitInv, NextInv, PTL DEF Spec

-----------------------------------------------------------------------------
(* Theorems *)

\* Every variable has its type: no stage runs a forward or a backward more
\* than num_microbatches times in a step.
THEOREM PipelineTypes == Spec => []TypeOK
  BY Invariance, PTL DEF IInv

\* Whatever phases and steps the stages are in, each stage's _in_flight
\* holds the microbatches of its current step it has run forward and not yet
\* backward, oldest first.
THEOREM InOrder == Spec => []InFlightInOrder
  <1>1. IInv => InFlightInOrder
    BY DEF IInv, StageInv, InFlightInOrder
  <1> QED
    BY <1>1, Invariance, PTL

\* _backward_one pairs the activation it pops with the gradient of the same
\* microbatch, and a step's backwards run over the microbatches in order.
THEOREM BackwardsPair == Spec => []BackwardPairs
  <1>1. IInv => BackwardPairs
    BY DEF IInv, StageInv, BackwardPairs
  <1> QED
    BY <1>1, Invariance, PTL

\* The memory bounds of the module docstring: P - stage_rank activations in
\* 1F1B, all M in GPipe.
THEOREM Bounded == Spec => []ActivationBound
  <1>1. ASSUME IInv, NEW p \in Stages
        PROVE  Len(inflight[p]) <= M /\ (sched = "1f1b" => Len(inflight[p]) <= P - p)
    <2>1. /\ fwd[p] \in 0 .. M /\ bwd[p] \in 0 .. M
          /\ M \in Nat \ {0} /\ P \in Nat \ {0} /\ p \in Nat /\ p < P
      BY <1>1, OpFacts DEF IInv
    <2>2. Len(inflight[p]) = fwd[p] - bwd[p] /\ fwd[p] - bwd[p] <= Warmup(p) + 1
      BY <1>1 DEF IInv, StageInv
    <2>3. Len(inflight[p]) <= M
      BY <2>1, <2>2
    <2>4. ASSUME sched = "1f1b" PROVE Warmup(p) + 1 <= P - p \/ M <= P - 1 - p
      BY <2>1, <2>4 DEF Warmup
    <2>5. ASSUME sched = "1f1b" PROVE Len(inflight[p]) <= P - p
      <3>1. Warmup(p) \in Int
        BY <2>1 DEF Warmup
      <3> QED
        BY <2>1, <2>2, <2>4, <2>5, <3>1
    <2> QED
      BY <2>3, <2>5
  <1>2. IInv => ActivationBound
    BY <1>1 DEF ActivationBound
  <1> QED
    BY <1>2, Invariance, PTL

-----------------------------------------------------------------------------
(* The shapes of messages. *)

\* Every step's microbatches have one shape, as those of the synthetic
\* batches of examples/train_gpt.py do.
SameShapes == \A j, k \in Steps : ShapeOf[j] = ShapeOf[k]

\* What a stage is about to receive.
Incoming(p) == Head(link[<<Source(p)[1], p>>])

\* What it receives as a tensor is no header, and is of the shape that the
\* header of its channel told if all tensors have one shape.
LEMMA PayloadFits ==
  ASSUME IInv, NEW p \in Stages, RecvPayload(p)
  PROVE  /\ ~Incoming(p).header
         /\ SameShapes => fits'[p]
         /\ \A q \in Stages \ {p} : fits'[q] = fits[q]
  <1>0. PICK l \in Links : l = <<Source(p)[1], p>> /\ l[2] = p /\ Key(l) = Source(p)[2]
    BY SourceLink DEF IInv, RecvPayload
  <1>1. /\ link[l] # << >> /\ recvKnown[p][Key(l)] # Unknown
        /\ fits' = [fits EXCEPT ![p] = ~Head(link[l]).header
                                       /\ Head(link[l]).shape = recvKnown[p][Key(l)]]
    BY <1>0 DEF RecvPayload
  <1>2. /\ link[l] \in Seq(Messages) /\ fits \in [Stages -> BOOLEAN]
        /\ recvKnown[p][Key(l)] \in Shapes \cup {Unknown} /\ LinkInv(l)
    <2>1. Key(l) \in Keys
      BY LinkOf
    <2> QED
      BY <2>1 DEF IInv, TypeOK
  <1>3. HeaderDue(l) = 0
    BY <1>0, <1>1 DEF HeaderDue, HeaderRead
  <1>4. ~Head(link[l]).header
    BY <1>1, <1>2, <1>3, StreamPayload DEF LinkInv
  <1>5. Head(link[l]).shape \in Shapes
    <2>1. Head(link[l]) \in Messages
      BY <1>1, <1>2, TailProperties
    <2> QED
      BY <2>1 DEF Messages
  <1>6. ASSUME SameShapes PROVE Head(link[l]).shape = recvKnown[p][Key(l)]
    BY <1>1, <1>2, <1>5, <1>6 DEF SameShapes, Shapes
  <1>7. SameShapes => fits'[p]
    BY <1>1, <1>2, <1>4, <1>6
  <1>8. \A q \in Stages \ {p} : fits'[q] = fits[q]
    BY <1>1, <1>2
  <1> QED
    BY <1>0, <1>4, <1>7, <1>8 DEF Incoming

\* A header is read exactly when a header comes.
ReadAsSent ==
    \A p \in Stages : /\ RecvHeader(p) => Incoming(p).header
                      /\ RecvPayload(p) => ~Incoming(p).header

\* The two ends of a channel agree, without a word between them, on which
\* messages are headers, also between stages that are in different steps:
\* what the two caches of _P2P are separate for.  It needs no assumption on
\* the shapes.
THEOREM HeadersAgree == Spec => [][ReadAsSent]_vars
  <1>1. ASSUME IInv PROVE ReadAsSent
    <2>1. ASSUME NEW p \in Stages, RecvHeader(p) PROVE Incoming(p).header
      <3>1. fits' = [fits EXCEPT ![p] = Incoming(p).header] /\ fits \in [Stages -> BOOLEAN]
        BY <1>1, <2>1 DEF RecvHeader, Incoming, IInv, TypeOK
      <3>2. fits'[p]
        BY <1>1, <2>1, RecvHeaderInv
      <3> QED
        BY <3>1, <3>2
    <2>2. ASSUME NEW p \in Stages, RecvPayload(p) PROVE ~Incoming(p).header
      BY <1>1, <2>2, PayloadFits
    <2> QED
      BY <2>1, <2>2 DEF ReadAsSent
  <1>2. IInv /\ [Next]_vars => [ReadAsSent]_vars
    BY <1>1
  <1> QED
    BY <1>2, Invariance, PTL DEF Spec

\* While every step has the same shapes, the receiver also reads every tensor
\* into a buffer of the tensor's own shape.  Without that hypothesis it does
\* not: the header is sent once.
THEOREM Lockstep == SameShapes => (Spec => []TransportLockstep)
  <1> SUFFICES ASSUME SameShapes PROVE Spec => []TransportLockstep
    OBVIOUS
  <1>1. Init => TransportLockstep
    BY DEF Init, TransportLockstep
  <1>2. ASSUME IInv, TransportLockstep, [Next]_vars PROVE TransportLockstep'
    <2>1. CASE UNCHANGED vars
      BY <1>2, <2>1 DEF vars, transport, TransportLockstep
    <2>2. ASSUME NEW p \in Stages, StageStep(p) PROVE TransportLockstep'
      <3>1. CASE RecvHeader(p)
        BY <1>2, <3>1, RecvHeaderInv DEF TransportLockstep
      <3>2. CASE RecvPayload(p)
        BY <1>2, <3>2, PayloadFits DEF TransportLockstep
      <3>3. CASE Forward(p)
        BY <1>2, <3>3 DEF Forward, TransportLockstep
      <3>4. CASE Backward(p)
        BY <1>2, <3>4 DEF Backward, TransportLockstep
      <3>5. CASE Drain(p)
        BY <1>2, <3>5 DEF Drain, transport, TransportLockstep
      <3> QED
        BY <2>2, <3>1, <3>2, <3>3, <3>4, <3>5 DEF StageStep
    <2> QED
      BY <1>2, <2>1, <2>2 DEF Next, Terminating
  <1> QED
    BY <1>1, <1>2, Invariance, PTL DEF Spec
=============================================================================
