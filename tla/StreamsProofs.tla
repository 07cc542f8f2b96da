---------------------------- MODULE StreamsProofs ----------------------------
(***************************************************************************)
(* What is proved of the answers on their way to a client, for every       *)
(* number of images, tasks, streams, output items and thoughts, and every  *)
(* bound.                                                                  *)
(***************************************************************************)
EXTENDS Streams, TLAPS, FiniteSetTheorems, WellFoundedInduction

-----------------------------------------------------------------------------
(* Induction over the natural numbers, with a set in the place of the        *)
(* library's operator: a set of numbers that is not empty has a least one.   *)
LEMMA MinimalElement ==
    ASSUME NEW R, IsWellFoundedOn(R, Nat)
    PROVE  \A T : T \subseteq Nat /\ T # {} => \E m \in T : \A n \in T : ~(<<n, m>> \in R)
  <1> SUFFICES ASSUME NEW T, T \subseteq Nat, T # {} PROVE \E m \in T : \A n \in T : ~(<<n, m>> \in R)
    OBVIOUS
  <1> QED
    BY WFMin

LEMMA LeastOfRelation ==
    ASSUME NEW R, IsWellFoundedOn(R, Nat), \A x, y \in Nat : x < y => <<x, y>> \in R
    PROVE  \A T : T \subseteq Nat /\ T # {} => \E m \in T : \A n \in T : m <= n
  <1>1. \A T : T \subseteq Nat /\ T # {} => \E m \in T : \A n \in T : ~(<<n, m>> \in R)
    BY MinimalElement
  <1> SUFFICES ASSUME NEW T, T \subseteq Nat, T # {} PROVE \E m \in T : \A n \in T : m <= n
    OBVIOUS
  <1>2. PICK m \in T : \A n \in T : ~(<<n, m>> \in R)
    BY <1>1
  <1>3. ASSUME NEW n \in T, n < m PROVE FALSE
    <2>1. m \in Nat /\ n \in Nat
      OBVIOUS
    <2>2. <<n, m>> \in R
      BY <1>3, <2>1
    <2> QED
      BY <1>2, <2>2
  <1> QED
    BY <1>3

LEMMA LeastNumber == \A T : T \subseteq Nat /\ T # {} => \E m \in T : \A n \in T : m <= n
  <1>1. IsWellFoundedOn(OpToRel(<, Nat), Nat)
    BY NatLessThanWellFounded
  <1>2. \A x, y \in Nat : x < y => <<x, y>> \in OpToRel(<, Nat)
    BY DEF OpToRel
  <1>3. \E R : IsWellFoundedOn(R, Nat) /\ \A x, y \in Nat : x < y => <<x, y>> \in R
    BY <1>1, <1>2, Zenon
  <1> QED
    BY <1>3, LeastOfRelation

LEMMA InductionOverNat ==
    \A S : 0 \in S /\ (\A n \in Nat : n \in S => n + 1 \in S) => Nat \subseteq S
  <1> SUFFICES ASSUME NEW S, 0 \in S, \A n \in Nat : n \in S => n + 1 \in S, ~(Nat \subseteq S) PROVE FALSE
    OBVIOUS
  <1>1. Nat \ S \subseteq Nat /\ Nat \ S # {}
    OBVIOUS
  <1>2. PICK m \in Nat \ S : \A n \in Nat \ S : m <= n
    BY <1>1, LeastNumber
  <1>3. m \in Nat /\ m # 0
    BY <1>2
  <1>4. m - 1 \in Nat /\ ~(m <= m - 1) /\ (m - 1) + 1 = m
    BY <1>3
  <1>5. m - 1 \in S
    BY <1>2, <1>4
  <1> QED
    BY <1>2, <1>4, <1>5

-----------------------------------------------------------------------------
(* Sums.  The partial sums of a task's units, by their recursive definition. *)
Sums(units) ==
    CHOOSE sum : sum = [i \in 0 .. Len(units) |-> IF i = 0 THEN 0 ELSE sum[i - 1] + units[i]]

LEMMA SumsExist ==
    ASSUME NEW units
    PROVE  \A n \in Nat : \E sum : sum = [i \in 0 .. n |-> IF i = 0 THEN 0 ELSE sum[i - 1] + units[i]]
  <1> DEFINE S == {n \in Nat : \E sum : sum = [i \in 0 .. n |-> IF i = 0 THEN 0 ELSE sum[i - 1] + units[i]]}
  <1>1. 0 \in S
    <2> DEFINE sum == [i \in 0 .. 0 |-> 0]
    <2>1. sum = [i \in 0 .. 0 |-> IF i = 0 THEN 0 ELSE sum[i - 1] + units[i]]
      OBVIOUS
    <2> HIDE DEF sum
    <2> QED
      BY <2>1
  <1>2. ASSUME NEW n \in Nat, n \in S PROVE n + 1 \in S
    <2>1. PICK old : old = [i \in 0 .. n |-> IF i = 0 THEN 0 ELSE old[i - 1] + units[i]]
      BY <1>2
    <2> DEFINE sum == [i \in 0 .. n + 1 |-> IF i = n + 1 THEN old[n] + units[n + 1] ELSE old[i]]
    <2>2. \A i \in 0 .. n : sum[i] = old[i]
      OBVIOUS
    <2>3. \A i \in 0 .. n + 1 : sum[i] = IF i = 0 THEN 0 ELSE sum[i - 1] + units[i]
      <3> SUFFICES ASSUME NEW i \in 0 .. n + 1 PROVE sum[i] = IF i = 0 THEN 0 ELSE sum[i - 1] + units[i]
        OBVIOUS
      <3>1. CASE i = n + 1
        <4>1. sum[i] = old[n] + units[n + 1] /\ i - 1 = n /\ i # 0
          BY <3>1
        <4>2. sum[i - 1] = old[n]
          BY <2>2, <4>1
        <4> QED
          BY <3>1, <4>1, <4>2
      <3>2. CASE i = 0
        <4>1. i \in 0 .. n
          BY <3>2
        <4>2. old[i] = 0
          BY <2>1, <3>2, <4>1
        <4> QED
          BY <2>2, <3>2, <4>1, <4>2
      <3>3. CASE i # n + 1 /\ i # 0
        <4>1. i \in 0 .. n /\ i - 1 \in 0 .. n
          BY <3>3
        <4>2. old[i] = old[i - 1] + units[i]
          BY <2>1, <3>3, <4>1
        <4>3. sum[i] = old[i] /\ sum[i - 1] = old[i - 1]
          BY <2>2, <4>1
        <4> QED
          BY <3>3, <4>2, <4>3
      <3> QED
        BY <3>1, <3>2, <3>3
    <2>4. sum = [i \in 0 .. n + 1 |-> sum[i]]
      OBVIOUS
    <2> HIDE DEF sum
    <2>5. sum = [i \in 0 .. n + 1 |-> IF i = 0 THEN 0 ELSE sum[i - 1] + units[i]]
      BY <2>3, <2>4
    <2> QED
      BY <2>5
  <1> HIDE DEF S
  <1>3. Nat \subseteq S
    BY <1>1, <1>2, InductionOverNat
  <1> QED
    BY <1>3 DEF S

LEMMA SumsAreSums ==
    ASSUME NEW units, Len(units) \in Nat
    PROVE  /\ Batch!SumOf(units) = Sums(units)[Len(units)]
           /\ Sums(units)[0] = 0
           /\ \A i \in 0 .. Len(units) : i # 0 => Sums(units)[i] = Sums(units)[i - 1] + units[i]
  <1> DEFINE n == Len(units)
  <1>1. \E sum : sum = [i \in 0 .. n |-> IF i = 0 THEN 0 ELSE sum[i - 1] + units[i]]
    BY SumsExist
  <1>2. Sums(units) = [i \in 0 .. n |-> IF i = 0 THEN 0 ELSE Sums(units)[i - 1] + units[i]]
    BY <1>1 DEF Sums
  <1>3. Batch!SumOf(units) = Sums(units)[Len(units)]
    BY DEF Batch!SumOf, Sums
  <1> DEFINE sum == Sums(units)
  <1>4. n \in Nat
    OBVIOUS
  <1> HIDE DEF n, sum
  <1>5. sum = [i \in 0 .. n |-> IF i = 0 THEN 0 ELSE sum[i - 1] + units[i]]
    BY <1>2 DEF sum, n
  <1>6. sum[0] = 0 /\ \A i \in 0 .. n : i # 0 => sum[i] = sum[i - 1] + units[i]
    BY <1>4, <1>5
  <1> QED
    BY <1>3, <1>6 DEF sum, n

Counts(units) == Len(units) \in Nat /\ \A i \in 1 .. Len(units) : units[i] \in Nat

LEMMA SumIsMonotone ==
    ASSUME NEW a, NEW b, Counts(a), Counts(b), Len(a) = Len(b), \A i \in 1 .. Len(a) : a[i] <= b[i]
    PROVE  Batch!SumOf(a) \in Nat /\ Batch!SumOf(b) \in Nat /\ Batch!SumOf(a) <= Batch!SumOf(b)
  <1> DEFINE n == Len(a)
             S == {k \in Nat : k <= n => /\ Sums(a)[k] \in Nat /\ Sums(b)[k] \in Nat
                                         /\ Sums(a)[k] <= Sums(b)[k]}
  <1>0. n \in Nat /\ Len(b) = n
    BY DEF Counts
  <1>1. /\ Batch!SumOf(a) = Sums(a)[n] /\ Batch!SumOf(b) = Sums(b)[n] /\ Sums(a)[0] = 0 /\ Sums(b)[0] = 0
        /\ \A i \in 0 .. n : i # 0 => Sums(a)[i] = Sums(a)[i - 1] + a[i]
        /\ \A i \in 0 .. n : i # 0 => Sums(b)[i] = Sums(b)[i - 1] + b[i]
    BY <1>0, SumsAreSums
  <1>2. 0 \in S
    BY <1>1
  <1>3. ASSUME NEW k \in Nat, k \in S PROVE k + 1 \in S
    <2> SUFFICES ASSUME k + 1 <= n
                 PROVE  Sums(a)[k + 1] \in Nat /\ Sums(b)[k + 1] \in Nat /\ Sums(a)[k + 1] <= Sums(b)[k + 1]
      OBVIOUS
    <2>1. k + 1 \in 0 .. n /\ k + 1 # 0 /\ (k + 1) - 1 = k /\ k <= n /\ k + 1 \in 1 .. n
      BY <1>0
    <2>2. Sums(a)[k + 1] = Sums(a)[k] + a[k + 1] /\ Sums(b)[k + 1] = Sums(b)[k] + b[k + 1]
      BY <1>1, <2>1
    <2>3. a[k + 1] \in Nat /\ b[k + 1] \in Nat /\ a[k + 1] <= b[k + 1]
      BY <1>0, <2>1 DEF Counts
    <2>4. Sums(a)[k] \in Nat /\ Sums(b)[k] \in Nat /\ Sums(a)[k] <= Sums(b)[k]
      BY <1>3, <2>1
    <2> QED
      BY <2>2, <2>3, <2>4
  <1> HIDE DEF S
  <1>4. Nat \subseteq S
    BY <1>2, <1>3, InductionOverNat
  <1>5. n \in S
    BY <1>0, <1>4
  <1> QED
    BY <1>0, <1>1, <1>5 DEF S

LEMMA SumWithOneMore ==
    ASSUME NEW a, NEW b, Counts(a), Counts(b), Len(a) = Len(b), NEW j \in 1 .. Len(a), NEW d \in Nat,
           b[j] = a[j] + d, \A i \in 1 .. Len(a) : i # j => b[i] = a[i]
    PROVE  Batch!SumOf(b) = Batch!SumOf(a) + d
  <1> DEFINE n == Len(a)
             S == {k \in Nat : k <= n => /\ Sums(a)[k] \in Nat
                                         /\ Sums(b)[k] = Sums(a)[k] + IF j <= k THEN d ELSE 0}
  <1>0. n \in Nat /\ Len(b) = n /\ j \in 1 .. n
    BY DEF Counts
  <1>1. /\ Batch!SumOf(a) = Sums(a)[n] /\ Batch!SumOf(b) = Sums(b)[n] /\ Sums(a)[0] = 0 /\ Sums(b)[0] = 0
        /\ \A i \in 0 .. n : i # 0 => Sums(a)[i] = Sums(a)[i - 1] + a[i]
        /\ \A i \in 0 .. n : i # 0 => Sums(b)[i] = Sums(b)[i - 1] + b[i]
    BY <1>0, SumsAreSums
  <1>2. 0 \in S
    <2>1. ~(j <= 0)
      BY <1>0
    <2> QED
      BY <2>1, <1>1
  <1>3. ASSUME NEW k \in Nat, k \in S PROVE k + 1 \in S
    <2> SUFFICES ASSUME k + 1 <= n
                 PROVE  /\ Sums(a)[k + 1] \in Nat
                        /\ Sums(b)[k + 1] = Sums(a)[k + 1] + IF j <= k + 1 THEN d ELSE 0
      OBVIOUS
    <2>1. k + 1 \in 0 .. n /\ k + 1 # 0 /\ (k + 1) - 1 = k /\ k <= n /\ k + 1 \in 1 .. n
      BY <1>0
    <2>2. Sums(a)[k + 1] = Sums(a)[k] + a[k + 1] /\ Sums(b)[k + 1] = Sums(b)[k] + b[k + 1]
      BY <1>1, <2>1
    <2>3. a[k + 1] \in Nat /\ b[k + 1] = IF k + 1 = j THEN a[k + 1] + d ELSE a[k + 1]
      BY <1>0, <2>1 DEF Counts
    <2>4. Sums(a)[k] \in Nat /\ Sums(b)[k] = Sums(a)[k] + IF j <= k THEN d ELSE 0
      BY <1>3, <2>1
    <2>5. j \in Nat
      BY <1>0
    <2> QED
      BY <2>2, <2>3, <2>4, <2>5
  <1> HIDE DEF S
  <1>4. Nat \subseteq S
    BY <1>2, <1>3, InductionOverNat
  <1>5. n \in S
    BY <1>0, <1>4
  <1> QED
    BY <1>0, <1>1, <1>5 DEF S

LEMMA SumOfOneMore ==
    \A old, more : \A j \in 1 .. Len(old) : \A d \in Nat :
        Counts(old) /\ Counts(more) /\ Len(old) = Len(more) /\ more[j] = old[j] + d
        /\ (\A i \in 1 .. Len(old) : i # j => more[i] = old[i])
        => Batch!SumOf(more) = Batch!SumOf(old) + d
  BY SumWithOneMore

LEMMA NothingSumsToZero ==
    ASSUME NEW units, Len(units) \in Nat, \A i \in 1 .. Len(units) : units[i] = 0
    PROVE  Batch!SumOf(units) = 0
  <1> DEFINE n == Len(units)
             S == {k \in Nat : k <= n => Sums(units)[k] = 0}
  <1>1. /\ Batch!SumOf(units) = Sums(units)[n] /\ Sums(units)[0] = 0
        /\ \A i \in 0 .. n : i # 0 => Sums(units)[i] = Sums(units)[i - 1] + units[i]
    BY SumsAreSums
  <1>2. 0 \in S
    BY <1>1
  <1>3. ASSUME NEW k \in Nat, k \in S PROVE k + 1 \in S
    <2> SUFFICES ASSUME k + 1 <= n PROVE Sums(units)[k + 1] = 0
      OBVIOUS
    <2>1. k + 1 \in 0 .. n /\ k + 1 # 0 /\ (k + 1) - 1 = k /\ k <= n /\ k + 1 \in 1 .. n
      OBVIOUS
    <2>2. Sums(units)[k + 1] = Sums(units)[k] + units[k + 1] /\ units[k + 1] = 0 /\ Sums(units)[k] = 0
      BY <1>1, <1>3, <2>1
    <2> QED
      BY <2>2
  <1> HIDE DEF S
  <1>4. Nat \subseteq S
    BY <1>2, <1>3, InductionOverNat
  <1>5. n \in S
    BY <1>4
  <1> QED
    BY <1>1, <1>5 DEF S

-----------------------------------------------------------------------------
(* The rounds of an image generation.  A lease is owed from the connection   *)
(* to its report, an error leaves only the report, and while frames are read *)
(* an image that was emitted has a slot that is done.                        *)
RoundsInv ==
    /\ stage \in {"connect", "send", "receive", "probe", "round", "report", "returned"}
    /\ attempt \in 0 .. Retries /\ owed \in 0 .. 1 /\ collected \in 0 .. N /\ completed \in Nat
    /\ slots \in [Image -> {"none", "started", "blob", "done"}]
    /\ emitted \in [Image -> 0 .. 1]
    /\ stage \in {"connect", "returned"} => owed = 0
    /\ result = "error" => stage \in {"report", "returned"}
    /\ stage = "receive" => \A i \in Image : slots[i] # "done" => emitted[i] = 0

LEMMA RoundsInit == Rounds!Init => RoundsInv
  BY RoundsAssumption DEF Rounds!Init, Rounds!NoSlots, RoundsInv

(* The finals of images that are not final yet.                              *)
LEMMA FinalsOnce ==
    ASSUME RoundsInv, stage = "receive", NEW set \in SUBSET Image, \A i \in set : slots[i] # "done"
    PROVE  /\ Rounds!Finals(set) \in [Image -> 0 .. 1]
           /\ \A i \in Image : i \notin set => Rounds!Finals(set)[i] = emitted[i]
  BY DEF RoundsInv, Rounds!Finals

LEMMA CountOfImages == \A set \in SUBSET Image : Rounds!Cardinality(set) \in Nat
  <1>1. ASSUME NEW set \in SUBSET Image PROVE Rounds!Cardinality(set) = Cardinality(set)
    BY DEF Rounds!Cardinality, Cardinality
  <1> QED
    BY <1>1, RoundsAssumption, FS_Subset, FS_CardinalityType

LEMMA RoundsStep == ASSUME RoundsInv, [Rounds!Next]_roundVars PROVE RoundsInv'
  <1>1. CASE UNCHANGED roundVars
    BY <1>1 DEF roundVars, RoundsInv
  <1>2. CASE Rounds!ConnectWebSocket \/ Rounds!ConnectRetried
    BY <1>2, RoundsAssumption DEF Rounds!ConnectWebSocket, Rounds!ConnectRetried, RoundsInv
  <1>3. ASSUME NEW leased \in BOOLEAN, Rounds!ConnectFails(leased) PROVE RoundsInv'
    BY <1>3 DEF Rounds!ConnectFails, RoundsInv
  <1>4. CASE Rounds!SendRoundStart
    BY <1>4 DEF Rounds!SendRoundStart, Rounds!NoSlots, RoundsInv
  <1>5. CASE Rounds!SendFails \/ Rounds!ErrorFrame \/ Rounds!ReceiveTimeout \/ Rounds!ProbeClosed
             \/ Rounds!ReceiveFails
    BY <1>5 DEF Rounds!SendFails, Rounds!ErrorFrame, Rounds!ReceiveTimeout, Rounds!ProbeClosed,
                Rounds!ReceiveFails, RoundsInv
  <1>6. CASE Rounds!SocketCloses
    <2> DEFINE late == {i \in Image : slots[i] = "blob"}
    <2>1. late \in SUBSET Image /\ \A i \in late : slots[i] # "done"
      OBVIOUS
    <2>2. /\ stage = "receive" /\ stage' = "round" /\ completed' = completed + Rounds!Cardinality(late)
          /\ emitted' = Rounds!Finals(late)
          /\ UNCHANGED <<attempt, owed, collected, slots, result>>
      BY <1>6 DEF Rounds!SocketCloses
    <2>3. Rounds!Cardinality(late) \in Nat /\ Rounds!Finals(late) \in [Image -> 0 .. 1]
      BY <2>1, <2>2, FinalsOnce, CountOfImages
    <2> QED
      BY <2>2, <2>3 DEF RoundsInv
  <1>7. CASE Rounds!RoundTimesOut
    <2> DEFINE late == {i \in Image : slots[i] = "blob"}
               missing == \E i \in Image : slots[i] = "started"
    <2>1. /\ stage = "receive" /\ stage' = "round"
          /\ \E kept \in IF missing THEN SUBSET late ELSE {late} :
                /\ completed' = completed + Rounds!Cardinality(kept)
                /\ emitted' = Rounds!Finals(kept)
          /\ UNCHANGED <<attempt, owed, collected, slots, result>>
      BY <1>7 DEF Rounds!RoundTimesOut
    <2>2. PICK kept \in SUBSET late : /\ completed' = completed + Rounds!Cardinality(kept)
                                      /\ emitted' = Rounds!Finals(kept)
      BY <2>1
    <2>3. kept \in SUBSET Image /\ \A i \in kept : slots[i] # "done"
      BY <2>2
    <2>4. Rounds!Cardinality(kept) \in Nat /\ Rounds!Finals(kept) \in [Image -> 0 .. 1]
      BY <2>1, <2>3, FinalsOnce, CountOfImages
    <2> QED
      BY <2>1, <2>2, <2>4 DEF RoundsInv
  <1>8. CASE Rounds!EndRound \/ Rounds!Report
    BY <1>8, RoundsAssumption DEF Rounds!EndRound, Rounds!Report, RoundsInv
  <1>9. ASSUME NEW i \in Image, Rounds!StartStage(i) \/ Rounds!ImageFrame(i) PROVE RoundsInv'
    BY <1>9 DEF Rounds!StartStage, Rounds!ImageFrame, Rounds!Open, RoundsInv
  <1>10. ASSUME NEW i \in Image, NEW moderated \in BOOLEAN, Rounds!Completed(i, moderated)
         PROVE  RoundsInv'
    <2>1. /\ stage = "receive" /\ slots[i] # "done"
          /\ slots' = [slots EXCEPT ![i] = "done"]
          /\ completed' \in {completed, completed + 1}
          /\ emitted' = IF moderated THEN emitted ELSE Rounds!Finals({i})
          /\ stage' \in {"probe", "round", "receive"}
          /\ UNCHANGED <<attempt, owed, collected, result>>
      BY <1>10 DEF Rounds!Completed, Rounds!Open
    <2>2. /\ Rounds!Finals({i}) \in [Image -> 0 .. 1]
          /\ \A j \in Image : j # i => Rounds!Finals({i})[j] = emitted[j]
      BY <2>1, FinalsOnce
    <2>3. slots' \in [Image -> {"none", "started", "blob", "done"}] /\ completed' \in Nat
      BY <2>1 DEF RoundsInv
    <2>4. emitted' \in [Image -> 0 .. 1] /\ \A j \in Image : j # i => emitted'[j] = emitted[j]
      BY <2>1, <2>2 DEF RoundsInv
    <2>5. \A j \in Image : slots'[j] # "done" => emitted'[j] = 0
      BY <2>1, <2>4 DEF RoundsInv
    <2> QED
      BY <2>1, <2>3, <2>4, <2>5 DEF RoundsInv
  <1> QED
    BY <1>1, <1>2, <1>3, <1>4, <1>5, <1>6, <1>7, <1>8, <1>9, <1>10 DEF Rounds!Next, Rounds!Step

(* However a connection of StreamImages ends, its lease is reported on once; *)
(* frames, the timeout and the end of the connection together make an image  *)
(* final once; and after an error event nothing more is generated: for any   *)
(* number of images, retries and rounds.                                     *)
THEOREM RoundsStayTrue == Spec => RoundsAreTrue
  <1>1. Init => RoundsInv
    BY RoundsInit DEF Init
  <1>2. RoundsInv /\ [Next]_vars => RoundsInv'
    <2> SUFFICES ASSUME RoundsInv, [Next]_vars PROVE RoundsInv'
      OBVIOUS
    <2>1. [Rounds!Next]_roundVars
      BY DEF Next, vars, InBuild, InChat, InSummary, InRounds, InBatch
    <2> QED
      BY <2>1, RoundsStep
  <1>3. RoundsInv => Rounds!TypeOK /\ Rounds!LeasesAreReported /\ Rounds!OneFinalPerImage
    BY DEF RoundsInv, Rounds!TypeOK, Rounds!LeasesAreReported, Rounds!OneFinalPerImage
  <1>4. RoundsInv /\ [Next]_vars =>
          [result = "error" => stage' \in {"report", "returned"} /\ collected' = collected]_(Rounds!vars)
    <2> SUFFICES ASSUME RoundsInv, [Rounds!Next]_roundVars, result = "error", Rounds!vars' # Rounds!vars
                 PROVE  stage' \in {"report", "returned"} /\ collected' = collected
      BY DEF Next, vars, InBuild, InChat, InSummary, InRounds, InBatch
    <2>1. stage \in {"report", "returned"}
      BY DEF RoundsInv
    <2>2. Rounds!Next
      BY DEF Rounds!vars, roundVars
    <2>3. Rounds!Report
      BY <2>1, <2>2 DEF Rounds!Next, Rounds!Step, Rounds!ConnectWebSocket, Rounds!ConnectRetried,
         Rounds!ConnectFails, Rounds!SendRoundStart, Rounds!SendFails, Rounds!ErrorFrame,
         Rounds!ReceiveTimeout, Rounds!ProbeClosed, Rounds!SocketCloses, Rounds!RoundTimesOut,
         Rounds!ReceiveFails, Rounds!EndRound, Rounds!StartStage, Rounds!ImageFrame, Rounds!Completed
    <2> QED
      BY <2>3 DEF Rounds!Report
  <1> QED
    BY <1>1, <1>2, <1>3, <1>4, PTL DEF Spec, RoundsAreTrue, Rounds!RoundsAreTrue, Rounds!ErrorsComeLast

-----------------------------------------------------------------------------
(* The requests for admin tasks.  Every step counts for a number of tokens.  *)
LEMMA FiniteCount ==
    ASSUME NEW S, IsFiniteSet(S)
    PROVE  /\ Batch!Cardinality(S) \in Nat
           /\ Batch!Cardinality(S) = 0 <=> S = {}
  <1>1. Batch!Cardinality(S) = Cardinality(S)
    BY DEF Batch!Cardinality, Cardinality
  <1> QED
    BY <1>1, FS_CardinalityType, FS_EmptySet

LEMMA LengthOfFunction ==
    ASSUME NEW n \in Nat, NEW f, f = [i \in 1 .. n |-> f[i]] PROVE Len(f) = n /\ DOMAIN f = 1 .. n
  <1>1. f \in Seq({f[i] : i \in 1 .. n})
    OBVIOUS
  <1> QED
    BY <1>1

LEMMA EachCounts == ASSUME NEW S, IsFiniteSet(S) PROVE Counts(Batch!Each(S))
  <1>1. Batch!Cardinality(S) \in Nat
    BY FiniteCount
  <1> QED
    BY <1>1 DEF Batch!Each, Counts

LEMMA LastChunk ==
    ASSUME NEW n \in Nat, NEW c \in Nat \ {0}, NEW i \in 1 .. (n + c - 1) \div c, ~(i * c <= n)
    PROVE  n - (i - 1) * c \in Nat
  <1> DEFINE q == (n + c - 1) \div c
  <1>1. q \in Nat /\ q * c <= n + c - 1 /\ i <= q /\ i \in Nat
    OBVIOUS
  <1> HIDE DEF q
  <1>2. i * c <= q * c /\ i * c \in Nat /\ q * c \in Nat
    BY <1>1
  <1>3. (i - 1) * c = i * c - c
    BY <1>1
  <1> QED
    BY <1>1, <1>2, <1>3

LEMMA ChunksCount == ASSUME NEW n \in Nat PROVE Counts(Batch!Chunks(n))
  <1> DEFINE q == (n + ChunkSize - 1) \div ChunkSize
  <1>1. q \in Nat /\ ChunkSize \in Nat \ {0}
    BY BatchAssumption
  <1>2. \A i \in 1 .. q : ~(i * ChunkSize <= n) => n - (i - 1) * ChunkSize \in Nat
    BY <1>1, LastChunk
  <1>3. Batch!Chunks(n) = [i \in 1 .. q |-> IF i * ChunkSize <= n THEN ChunkSize ELSE n - (i - 1) * ChunkSize]
    BY DEF Batch!Chunks
  <1> HIDE DEF q
  <1>4. Len(Batch!Chunks(n)) = q
    BY <1>1, <1>3, LengthOfFunction
  <1>5. \A i \in 1 .. q : Batch!Chunks(n)[i] \in Nat
    BY <1>1, <1>2, <1>3
  <1> QED
    BY <1>1, <1>4, <1>5 DEF Counts

(* A set in some order.                                                      *)
LEMMA Enumerated ==
    ASSUME NEW S, IsFiniteSet(S)
    PROVE  Batch!SetToSeq(S) \in [1 .. Batch!Cardinality(S) -> S]
  <1>1. Batch!Cardinality(S) = Cardinality(S)
    BY DEF Batch!Cardinality, Cardinality
  <1>2. ExistsBijection(1 .. Cardinality(S), S)
    BY FS_CardinalityType
  <1>3. PICK f \in [1 .. Cardinality(S) -> S] : \A a, b \in 1 .. Cardinality(S) : f[a] = f[b] => a = b
    BY <1>2 DEF ExistsBijection, Bijection, Injection, Surjection, IsInjective
  <1>4. \E g \in [1 .. Batch!Cardinality(S) -> S] : Batch!IsInjective(g)
    BY <1>1, <1>3 DEF Batch!IsInjective
  <1> QED
    BY <1>4 DEF Batch!SetToSeq

LEMMA PayloadCounts ==
    ASSUME NEW pools, IsFiniteSet(DOMAIN pools), \A p \in DOMAIN pools : pools[p] \in Nat
    PROVE  Counts(Batch!PoolPayload(pools))
  <1> DEFINE named == {p \in DOMAIN pools : pools[p] > 0}
             order == Batch!SetToSeq(named)
             n == Batch!Cardinality(named)
  <1>1. IsFiniteSet(named)
    BY FS_Subset
  <1>2. n \in Nat /\ order \in [1 .. n -> named]
    BY <1>1, FiniteCount, Enumerated
  <1>3. Batch!PoolPayload(pools) = [i \in 1 .. n |-> pools[order[i]]]
    BY DEF Batch!PoolPayload
  <1>4. named \in SUBSET DOMAIN pools
    OBVIOUS
  <1> HIDE DEF named, order, n
  <1>5. \A i \in 1 .. n : Batch!PoolPayload(pools)[i] \in Nat
    BY <1>2, <1>3, <1>4
  <1>6. Len(Batch!PoolPayload(pools)) = n
    BY <1>2, <1>3, LengthOfFunction
  <1> QED
    BY <1>2, <1>5, <1>6 DEF Counts

LEMMA UnitsCount == \A request \in Requests : Counts(Batch!UnitsOf(request))
  <1> SUFFICES ASSUME NEW request \in Requests PROVE Counts(Batch!UnitsOf(request))
    OBVIOUS
  <1>1. \A S \in SUBSET DOMAIN Listed : IsFiniteSet(S)
    BY BatchAssumption, FS_Subset
  <1>2. IsFiniteSet(request.wants) /\ request.kind \in Batch!Kinds
    BY BatchAssumption
  <1>3. IsFiniteSet(Batch!TokensOrAll(request.wants)) /\ IsFiniteSet(Batch!TokensOrAll({}))
    BY <1>1, <1>2 DEF Batch!TokensOrAll, Batch!Manageable
  <1>4. IsFiniteSet(Batch!RefreshTokens(request.wants, request.all))
    BY <1>1, <1>3 DEF Batch!RefreshTokens, Batch!Manageable
  <1>5. IsFiniteSet(Batch!BuildTargets(request.wants, request.all)) /\ IsFiniteSet(Batch!CleanupTargets)
    BY <1>1 DEF Batch!BuildTargets, Batch!CleanupTargets
  <1>6. Counts(Batch!Chunks(Batch!Cardinality(request.wants)))
    BY <1>2, FiniteCount, ChunksCount
  <1>7. Counts(Batch!PoolPayload(request.pools))
    BY BatchAssumption, PayloadCounts
  <1>8. \A S : IsFiniteSet(S) => Counts(Batch!Each(S))
    BY EachCounts
  <1> QED
    BY <1>2, <1>3, <1>4, <1>5, <1>6, <1>7, <1>8 DEF Batch!UnitsOf, Batch!Kinds

-----------------------------------------------------------------------------
(* Admin tasks.  A task has a final event from the end of its runner on and  *)
(* no item in work by then; only the pooled kinds work on several items; and *)
(* a task stays registered until its final event is published.               *)
Working == {"started", "recorded"}
Events == {"progress", "done", "error", "cancelled"}
TaskFields == {"kind", "pc", "units", "next", "stage", "total", "ok", "fail", "final", "cancelled", "known"}
TaskType(task) ==
    /\ DOMAIN task = TaskFields
    /\ task.kind \in Batch!Kinds \cup {"none"} /\ task.pc \in {"none", "run", "publish", "over"}
    /\ Len(task.units) \in Nat /\ task.next \in 1 .. Len(task.units) + 1
    /\ DOMAIN task.stage = 1 .. Len(task.units)
    /\ task.final \in {"none", "done", "error", "cancelled"}
    /\ task.final = "none" <=> task.pc \in {"none", "run"}
    /\ task.pc = "none" <=> task.kind = "none"
    /\ task.pc \in {"run", "publish"} /\ task.kind # "sync" => task.known
    /\ task.kind \in {"none", "sync"} => ~task.known
    /\ task.pc \in {"publish", "over"} => \A i \in DOMAIN task.stage : task.stage[i] \notin Working
    /\ task.kind \notin Batch!Pooled =>
          \A i, j \in DOMAIN task.stage : task.stage[i] \in Working /\ task.stage[j] \in Working => i = j
TasksType == DOMAIN tasks = Task /\ \A t \in Task : TaskType(tasks[t])

WatcherType(watcher) ==
    /\ DOMAIN watcher = {"task", "pc", "queue", "seen", "missed"}
    /\ watcher.pc \in {"idle", "attached", "reading", "closed", "left"}
    /\ watcher.queue \in Seq(Events) /\ Len(watcher.queue) <= QueueCap
    /\ watcher.missed \in BOOLEAN
    /\ watcher.pc \in {"attached", "reading"} => watcher.task \in Task
WatchersType == DOMAIN watchers = Watcher /\ \A w \in Watcher : WatcherType(watchers[w])

CopiesType ==
    /\ spawned \in [Task -> Nat] /\ DOMAIN persisted = Task /\ redisFaults \in 0 .. RedisFaults
    /\ copies \in [DOMAIN copies -> Nat \ {0}] /\ \A copy \in DOMAIN copies : copy.task \in Task

(* A stream is attached to a task of the registry.                           *)
StreamsHaveTasks ==
    \A w \in Watcher : watchers[w].pc \in {"attached", "reading"} =>
        tasks[watchers[w].task].kind \notin {"none", "sync"}

(* A stream that reads on after the end still has the end in its channel.    *)
EndIsQueued ==
    \A w \in Watcher :
        watchers[w].pc = "reading" /\ ~watchers[w].missed /\ tasks[watchers[w].task].pc = "over" =>
            /\ watchers[w].queue # <<>>
            /\ watchers[w].queue[Len(watchers[w].queue)] = tasks[watchers[w].task].final

BatchInv ==
    /\ TasksType /\ WatchersType /\ CopiesType
    /\ StreamsHaveTasks /\ EndIsQueued

(* What a step other than the publish of the final event leaves as it was.   *)
NoneEnds ==
    \A t \in Task :
        /\ tasks'[t].pc = "over" => tasks[t].pc = "over" /\ tasks'[t].final = tasks[t].final
        /\ tasks[t].kind # "none" => tasks'[t].kind = tasks[t].kind

(* A step of one task, seen from all of them.                                *)
LEMMA TaskMoves ==
    ASSUME TasksType, NEW t \in Task, NEW task, tasks' = [tasks EXCEPT ![t] = task], TaskType(task),
           task.pc = "over" => tasks[t].pc = "over" /\ task.final = tasks[t].final,
           tasks[t].kind # "none" => task.kind = tasks[t].kind
    PROVE  TasksType' /\ NoneEnds
  <1> HIDE DEF TaskType
  <1> QED
    BY DEF TasksType, NoneEnds

LEMMA TaskCreated ==
    ASSUME TasksType, NEW t \in Task, NEW request \in Requests, Batch!CreateTask(t, request)
    PROVE  TasksType' /\ NoneEnds
  <1> DEFINE units == Batch!UnitsOf(request)
             fresh == [Batch!NoTask EXCEPT !.kind = request.kind, !.pc = "run", !.units = units,
                         !.stage = [i \in 1 .. Len(units) |-> "todo"],
                         !.total = Batch!SumOf(units), !.known = request.kind # "sync"]
  <1>1. tasks' = [tasks EXCEPT ![t] = fresh]
    BY DEF Batch!CreateTask
  <1>2. Len(units) \in Nat
    BY UnitsCount DEF Counts
  <1>3. request.kind \in Batch!Kinds
    BY BatchAssumption
  <1>4. /\ DOMAIN fresh = TaskFields /\ fresh.kind = request.kind /\ fresh.pc = "run" /\ fresh.units = units
        /\ fresh.stage = [i \in 1 .. Len(units) |-> "todo"] /\ fresh.known = (request.kind # "sync")
        /\ fresh.next = 1 /\ fresh.final = "none"
    BY DEF Batch!NoTask, TaskFields
  <1>k. tasks[t].kind = "none"
    BY DEF Batch!CreateTask, TasksType, TaskType
  <1> HIDE DEF fresh, units
  <1>5. TaskType(fresh)
    <2>1. DOMAIN fresh.stage = 1 .. Len(fresh.units) /\ \A i \in DOMAIN fresh.stage : fresh.stage[i] \notin Working
      BY <1>4 DEF Working
    <2>2. fresh.next \in 1 .. Len(fresh.units) + 1
      BY <1>2, <1>4
    <2>3. /\ fresh.kind # "sync" => fresh.known
          /\ fresh.kind # "none" /\ (fresh.kind \in {"none", "sync"} => ~fresh.known)
      BY <1>3, <1>4 DEF Batch!Kinds
    <2> QED
      BY <1>2, <1>3, <1>4, <2>1, <2>2, <2>3 DEF TaskType
  <1> QED
    BY <1>1, <1>4, <1>5, <1>k, TaskMoves

(* What a step of a task's item changes: where the item is, and the counts.  *)
LEMMA ItemMoves ==
    ASSUME NEW task, TaskType(task), NEW new, DOMAIN new = TaskFields,
           NEW i \in DOMAIN task.stage, NEW to, new.stage = [task.stage EXCEPT ![i] = to],
           new.kind = task.kind, new.pc = task.pc, new.units = task.units, new.next = task.next,
           new.final = task.final, new.known = task.known,
           to \in Working => task.stage[i] \in Working
    PROVE  TaskType(new)
  BY DEF TaskType

LEMMA ItemStarted ==
    ASSUME TasksType, NEW t \in Task, Batch!StartItem(t) PROVE TasksType' /\ NoneEnds
  <1> DEFINE task == tasks[t]
             i == task.next
             new == [task EXCEPT !.next = i + 1, !.stage = [task.stage EXCEPT ![i] = "started"]]
  <1>1. TaskType(task) /\ t \in DOMAIN tasks
    BY DEF TasksType
  <1>2. /\ task.pc = "run" /\ i <= Len(task.units) /\ Batch!Cardinality(Batch!Busy(t)) < Batch!Limit(t)
        /\ tasks' = [tasks EXCEPT ![t].next = i + 1, ![t].stage[i] = "started"]
    BY DEF Batch!StartItem
  <1>3. tasks' = [tasks EXCEPT ![t] = new]
    BY <1>1, <1>2 DEF TaskType, TaskFields
  <1>4. ASSUME task.kind \notin Batch!Pooled PROVE \A j \in DOMAIN task.stage : task.stage[j] \notin Working
    <2>1. Batch!Busy(t) = {j \in DOMAIN task.stage : task.stage[j] \in Working}
      BY DEF Batch!Busy, Working
    <2>2. Batch!Busy(t) \in SUBSET (1 .. Len(task.units)) /\ Len(task.units) \in Nat
      BY <1>1, <2>1 DEF TaskType
    <2>3. IsFiniteSet(Batch!Busy(t))
      <3>1. IsFiniteSet(1 .. Len(task.units))
        BY <2>2, FS_Interval
      <3> QED
        BY <2>2, <3>1, FS_Subset
    <2>4. Batch!Cardinality(Batch!Busy(t)) < 1
      BY <1>2, <1>4 DEF Batch!Limit
    <2>5. Batch!Busy(t) = {}
      BY <2>3, <2>4, FiniteCount
    <2> QED
      BY <2>1, <2>5
  <1>5. /\ DOMAIN new = TaskFields /\ new.next = i + 1 /\ new.stage = [task.stage EXCEPT ![i] = "started"]
        /\ new.kind = task.kind /\ new.pc = "run" /\ new.units = task.units /\ new.final = task.final
        /\ new.known = task.known
    BY <1>1, <1>2 DEF TaskType, TaskFields
  <1> HIDE DEF task, new, i
  <1>6. TaskType(new)
    BY <1>1, <1>2, <1>4, <1>5 DEF TaskType, i
  <1> QED
    BY <1>3, <1>5, <1>6, TaskMoves DEF task

LEMMA ItemSkipped ==
    ASSUME TasksType, NEW t \in Task, NEW i \in DOMAIN tasks[t].stage, Batch!SkipItem(t, i)
    PROVE  TasksType' /\ NoneEnds
  <1> DEFINE task == tasks[t]
             new == [task EXCEPT !.stage = [task.stage EXCEPT ![i] = "skipped"]]
  <1>1. TaskType(task) /\ t \in DOMAIN tasks
    BY DEF TasksType
  <1>2. tasks' = [tasks EXCEPT ![t] = new]
    BY <1>1 DEF Batch!SkipItem, TaskType, TaskFields
  <1>3. /\ DOMAIN new = TaskFields /\ new.next = task.next /\ new.stage = [task.stage EXCEPT ![i] = "skipped"]
        /\ new.kind = task.kind /\ new.pc = task.pc /\ new.units = task.units /\ new.final = task.final
        /\ new.known = task.known
    BY <1>1 DEF TaskType, TaskFields
  <1> HIDE DEF task, new
  <1>4. TaskType(new)
    BY <1>1, <1>3, ItemMoves DEF Working, task
  <1> QED
    BY <1>2, <1>3, <1>4, TaskMoves DEF task

LEMMA ItemRecorded ==
    ASSUME TasksType, NEW t \in Task, NEW i \in DOMAIN tasks[t].stage, NEW success \in BOOLEAN,
           Batch!RecordItem(t, i, success)
    PROVE  TasksType' /\ NoneEnds
  <1> DEFINE task == tasks[t]
             delta == task.units[i]
             new == [task EXCEPT !.stage = [task.stage EXCEPT ![i] = "recorded"],
                                 !.ok = IF success THEN @ + delta ELSE @,
                                 !.fail = IF success THEN @ ELSE @ + delta]
  <1>1. TaskType(task) /\ t \in DOMAIN tasks
    BY DEF TasksType
  <1>2. tasks' = [tasks EXCEPT ![t] = new] /\ task.stage[i] = "started"
    BY <1>1 DEF Batch!RecordItem, TaskType, TaskFields
  <1>3. /\ DOMAIN new = TaskFields /\ new.next = task.next /\ new.stage = [task.stage EXCEPT ![i] = "recorded"]
        /\ new.kind = task.kind /\ new.pc = task.pc /\ new.units = task.units /\ new.final = task.final
        /\ new.known = task.known
    BY <1>1 DEF TaskType, TaskFields
  <1> HIDE DEF task, new
  <1>4. TaskType(new)
    BY <1>1, <1>2, <1>3, ItemMoves DEF Working, task
  <1> QED
    BY <1>2, <1>3, <1>4, TaskMoves DEF task

(* Nothing is published of an item after the end of its task.                *)
LEMMA ItemPublished ==
    ASSUME TasksType, NEW t \in Task, NEW i \in DOMAIN tasks[t].stage, Batch!PublishItem(t, i)
    PROVE  TasksType' /\ NoneEnds /\ tasks[t].pc # "over"
  <1> DEFINE task == tasks[t]
             new == [task EXCEPT !.stage = [task.stage EXCEPT ![i] = "over"]]
  <1>1. TaskType(task) /\ t \in DOMAIN tasks
    BY DEF TasksType
  <1>2. tasks' = [tasks EXCEPT ![t] = new] /\ task.stage[i] = "recorded"
    BY <1>1 DEF Batch!PublishItem, TaskType, TaskFields
  <1>3. /\ DOMAIN new = TaskFields /\ new.next = task.next /\ new.stage = [task.stage EXCEPT ![i] = "over"]
        /\ new.kind = task.kind /\ new.pc = task.pc /\ new.units = task.units /\ new.final = task.final
        /\ new.known = task.known
    BY <1>1 DEF TaskType, TaskFields
  <1>4. task.pc # "over"
    BY <1>1, <1>2 DEF TaskType, Working
  <1> HIDE DEF task, new
  <1>5. TaskType(new)
    BY <1>1, <1>3, ItemMoves DEF Working, task
  <1> QED
    BY <1>2, <1>3, <1>4, <1>5, TaskMoves DEF task

(* The end of a runner: no item is in work.                                  *)
LEMMA RunnerEnds ==
    ASSUME TasksType, NEW t \in Task, NEW type \in {"done", "error", "cancelled"}, tasks[t].pc = "run",
           \A i \in DOMAIN tasks[t].stage : tasks[t].stage[i] \notin Working,
           Batch!Finishes(t, type)
    PROVE  TasksType' /\ NoneEnds
  <1> DEFINE task == tasks[t]
             new == [task EXCEPT !.pc = "publish", !.final = type]
  <1>1. TaskType(task) /\ t \in DOMAIN tasks
    BY DEF TasksType
  <1>2. tasks' = [tasks EXCEPT ![t] = new]
    BY <1>1 DEF Batch!Finishes, TaskType, TaskFields
  <1>3. /\ DOMAIN new = TaskFields /\ new.next = task.next /\ new.stage = task.stage
        /\ new.kind = task.kind /\ new.pc = "publish" /\ new.units = task.units /\ new.final = type
        /\ new.known = task.known
    BY <1>1 DEF TaskType, TaskFields
  <1> HIDE DEF new
  <1>4. TaskType(new)
    BY <1>1, <1>3 DEF TaskType
  <1> QED
    BY <1>2, <1>3, <1>4, TaskMoves

LEMMA RunnerFinishes ==
    ASSUME TasksType, NEW t \in Task,
           \/ Batch!FinishBatch(t) \/ Batch!RunnerCancelled(t) \/ Batch!FinishSequential(t)
           \/ \E type \in {"done", "error"} : Batch!FinishImport(t, type)
    PROVE  /\ TasksType' /\ NoneEnds
           /\ UNCHANGED <<watchers, spawned, copies, persisted, redisFaults>>
  <1>1. tasks[t].pc = "run" /\ Batch!Busy(t) = {}
    BY DEF Batch!FinishBatch, Batch!RunnerCancelled, Batch!FinishSequential, Batch!FinishImport
  <1>2. \E type \in {"done", "error", "cancelled"} : Batch!Finishes(t, type)
    BY DEF Batch!FinishBatch, Batch!RunnerCancelled, Batch!FinishSequential, Batch!FinishImport
  <1>3. \A i \in DOMAIN tasks[t].stage : tasks[t].stage[i] \notin Working
    BY <1>1 DEF Batch!Busy, Working
  <1> QED
    BY <1>1, <1>2, <1>3, RunnerEnds DEF Batch!Finishes

LEMMA ImportEnds ==
    ASSUME TasksType, NEW t \in Task, NEW i \in DOMAIN tasks[t].stage, Batch!ImportFails(t, i)
    PROVE  TasksType' /\ NoneEnds
  <1> DEFINE task == tasks[t]
             new == [task EXCEPT !.pc = "publish", !.final = "error",
                                 !.stage = [task.stage EXCEPT ![i] = "skipped"]]
  <1>1. TaskType(task) /\ t \in DOMAIN tasks
    BY DEF TasksType
  <1>2. /\ tasks' = [tasks EXCEPT ![t] = new] /\ task.stage[i] = "started" /\ task.pc = "run"
        /\ task.kind \in Batch!Imports
    BY <1>1 DEF Batch!ImportFails, TaskType, TaskFields
  <1>3. /\ DOMAIN new = TaskFields /\ new.next = task.next /\ new.stage = [task.stage EXCEPT ![i] = "skipped"]
        /\ new.kind = task.kind /\ new.pc = "publish" /\ new.units = task.units /\ new.final = "error"
        /\ new.known = task.known
    BY <1>1 DEF TaskType, TaskFields
  <1>4. \A j \in DOMAIN new.stage : new.stage[j] \notin Working
    BY <1>1, <1>2, <1>3 DEF TaskType, Working, Batch!Imports, Batch!Pooled
  <1> HIDE DEF new
  <1>5. TaskType(new)
    BY <1>1, <1>2, <1>3, <1>4 DEF TaskType
  <1> QED
    BY <1>2, <1>3, <1>5, TaskMoves

LEMMA TaskExpiresOrIsCancelled ==
    ASSUME TasksType, NEW t \in Task, Batch!ExpireTask(t) \/ Batch!Cancel(t)
    PROVE  TasksType' /\ NoneEnds
  <1> DEFINE task == tasks[t]
  <1>1. TaskType(task) /\ t \in DOMAIN tasks
    BY DEF TasksType
  <1>2. PICK new : /\ tasks' = [tasks EXCEPT ![t] = new]
                   /\ \/ new = [task EXCEPT !.known = FALSE] /\ task.pc = "over"
                      \/ new = [task EXCEPT !.cancelled = TRUE]
    BY <1>1 DEF Batch!ExpireTask, Batch!Cancel, TaskType, TaskFields
  <1>3. /\ DOMAIN new = TaskFields /\ new.next = task.next /\ new.stage = task.stage
        /\ new.kind = task.kind /\ new.pc = task.pc /\ new.units = task.units /\ new.final = task.final
        /\ new.known = task.known \/ (new.pc = "over" /\ ~new.known)
    BY <1>1, <1>2 DEF TaskType, TaskFields
  <1>4. TaskType(new)
    BY <1>1, <1>3 DEF TaskType
  <1> QED
    BY <1>2, <1>3, <1>4, TaskMoves

LEMMA EndPublished ==
    ASSUME TasksType, NEW t \in Task, Batch!PublishFinal(t)
    PROVE  /\ TasksType'
           /\ \A u \in Task : u # t => tasks'[u] = tasks[u]
           /\ tasks'[t].final = tasks[t].final /\ tasks'[t].kind = tasks[t].kind /\ tasks'[t].pc = "over"
           /\ tasks[t].final \in Events /\ Batch!Final(tasks[t].final) /\ tasks[t].pc = "publish"
           /\ tasks[t].kind \notin {"none", "sync"} => tasks[t].known
  <1> DEFINE task == tasks[t]
             new == [task EXCEPT !.pc = "over"]
  <1>1. TaskType(task) /\ t \in DOMAIN tasks
    BY DEF TasksType
  <1>2. tasks' = [tasks EXCEPT ![t] = new] /\ task.pc = "publish"
    BY <1>1 DEF Batch!PublishFinal, TaskType, TaskFields
  <1>3. /\ DOMAIN new = TaskFields /\ new.next = task.next /\ new.stage = task.stage
        /\ new.kind = task.kind /\ new.pc = "over" /\ new.units = task.units /\ new.final = task.final
        /\ new.known = task.known
    BY <1>1 DEF TaskType, TaskFields
  <1>4. task.final \in Events /\ Batch!Final(task.final) /\ (task.kind \notin {"none", "sync"} => task.known)
    BY <1>1, <1>2 DEF TaskType, Events, Batch!Final
  <1> HIDE DEF new
  <1>5. TaskType(new)
    BY <1>1, <1>2, <1>3 DEF TaskType
  <1> HIDE DEF TaskType
  <1> QED
    BY <1>1, <1>2, <1>3, <1>4, <1>5 DEF TasksType

-----------------------------------------------------------------------------
(* A publish puts the event at the end of the channel of every stream that   *)
(* is attached, or remembers that a full channel has missed the end.         *)
LEMMA LastOfAppend ==
    ASSUME NEW queue \in Seq(Events), NEW event \in Events
    PROVE  /\ Append(queue, event) \in Seq(Events) /\ Append(queue, event) # <<>>
           /\ Len(Append(queue, event)) = Len(queue) + 1
           /\ Append(queue, event)[Len(Append(queue, event))] = event
  OBVIOUS

LEMMA StreamsAreSent ==
    ASSUME WatchersType, NEW t \in Task, NEW event \in Events, watchers' = Batch!Sent(t, event)
    PROVE  /\ WatchersType'
           /\ \A w \in Watcher : /\ watchers'[w].pc = watchers[w].pc /\ watchers'[w].task = watchers[w].task
                                 /\ watchers[w].task # t => watchers'[w] = watchers[w]
                                 /\ Batch!Final(event) /\ watchers[w].task = t
                                       /\ watchers[w].pc = "reading" /\ ~watchers'[w].missed =>
                                       /\ watchers'[w].queue # <<>>
                                       /\ watchers'[w].queue[Len(watchers'[w].queue)] = event
  <1> SUFFICES ASSUME NEW w \in Watcher
               PROVE  /\ WatcherType(watchers'[w])
                      /\ watchers'[w].pc = watchers[w].pc /\ watchers'[w].task = watchers[w].task
                      /\ watchers[w].task # t => watchers'[w] = watchers[w]
                      /\ Batch!Final(event) /\ watchers[w].task = t
                            /\ watchers[w].pc = "reading" /\ ~watchers'[w].missed =>
                            /\ watchers'[w].queue # <<>>
                            /\ watchers'[w].queue[Len(watchers'[w].queue)] = event
    BY DEF WatchersType, Batch!Sent
  <1> DEFINE old == watchers[w]
             new == watchers'[w]
  <1>1. WatcherType(old)
    BY DEF WatchersType
  <1>2. new = IF old.task # t \/ old.pc \notin {"attached", "reading"} THEN old
              ELSE IF Len(old.queue) < QueueCap THEN [old EXCEPT !.queue = Append(@, event)]
              ELSE [old EXCEPT !.missed = old.missed \/ Batch!Final(event)]
    BY DEF Batch!Sent
  <1> HIDE DEF old, new
  <1>3. CASE old.task # t \/ old.pc \notin {"attached", "reading"}
    BY <1>1, <1>2, <1>3 DEF old, new
  <1>4. CASE old.task = t /\ old.pc \in {"attached", "reading"} /\ Len(old.queue) < QueueCap
    <2>1. new = [old EXCEPT !.queue = Append(old.queue, event)]
      BY <1>2, <1>4
    <2>2. old.queue \in Seq(Events) /\ DOMAIN old = {"task", "pc", "queue", "seen", "missed"}
      BY <1>1 DEF WatcherType
    <2>3. /\ DOMAIN new = {"task", "pc", "queue", "seen", "missed"} /\ new.queue = Append(old.queue, event)
          /\ new.pc = old.pc /\ new.task = old.task /\ new.missed = old.missed
      BY <2>1, <2>2
    <2>4. /\ new.queue \in Seq(Events) /\ new.queue # <<>> /\ Len(new.queue) = Len(old.queue) + 1
          /\ new.queue[Len(new.queue)] = event
      BY <2>2, <2>3, LastOfAppend
    <2>5. Len(new.queue) <= QueueCap
      BY <1>4, <2>2, <2>4, BatchAssumption
    <2>6. WatcherType(new)
      BY <1>1, <2>3, <2>4, <2>5 DEF WatcherType
    <2> QED
      BY <1>4, <2>3, <2>4, <2>6 DEF old, new
  <1>5. CASE old.task = t /\ old.pc \in {"attached", "reading"} /\ ~(Len(old.queue) < QueueCap)
    <2>1. new = [old EXCEPT !.missed = old.missed \/ Batch!Final(event)]
      BY <1>2, <1>5
    <2>2. /\ DOMAIN new = {"task", "pc", "queue", "seen", "missed"} /\ new.queue = old.queue
          /\ new.pc = old.pc /\ new.task = old.task /\ new.missed \in BOOLEAN
          /\ Batch!Final(event) => new.missed
      BY <1>1, <2>1 DEF WatcherType, Batch!Final
    <2>3. WatcherType(new)
      BY <1>1, <2>2 DEF WatcherType
    <2> QED
      BY <1>5, <2>2, <2>3 DEF old, new
  <1> QED
    BY <1>3, <1>4, <1>5

(* A step of a task that publishes nothing after its end.                    *)
LEMMA EndStaysQueued ==
    ASSUME BatchInv, TasksType', NoneEnds, NEW t \in Task, tasks[t].pc # "over",
           watchers' = watchers \/ watchers' = Batch!Sent(t, "progress")
    PROVE  WatchersType' /\ EndIsQueued'
  <1>1. CASE watchers' = watchers
    BY <1>1 DEF BatchInv, WatchersType, WatcherType, EndIsQueued, NoneEnds
  <1>2. CASE watchers' = Batch!Sent(t, "progress")
    <2>1. WatchersType /\ "progress" \in Events
      BY DEF BatchInv, Events
    <2>2. /\ WatchersType'
          /\ \A w \in Watcher : /\ watchers'[w].pc = watchers[w].pc /\ watchers'[w].task = watchers[w].task
                                /\ watchers[w].task # t => watchers'[w] = watchers[w]
      BY <1>2, <2>1, StreamsAreSent
    <2>3. ASSUME NEW w \in Watcher, watchers'[w].pc = "reading", ~watchers'[w].missed,
                 tasks'[watchers'[w].task].pc = "over"
          PROVE  /\ watchers'[w].queue # <<>>
                 /\ watchers'[w].queue[Len(watchers'[w].queue)] = tasks'[watchers'[w].task].final
      <3>1. watchers[w].task \in Task
        BY <2>1, <2>2, <2>3 DEF WatchersType, WatcherType
      <3>2. tasks[watchers[w].task].pc = "over" /\ watchers[w].task # t
        BY <2>2, <2>3, <3>1 DEF NoneEnds
      <3> QED
        BY <2>2, <2>3, <3>1, <3>2 DEF BatchInv, EndIsQueued, NoneEnds
    <2> QED
      BY <2>2, <2>3 DEF EndIsQueued
  <1> QED
    BY <1>1, <1>2

LEMMA CopiesStay ==
    ASSUME BatchInv, UNCHANGED <<copies, persisted, redisFaults>>,
           spawned' = spawned \/ \E t \in Task : spawned' = Batch!Spawned(t)
    PROVE  CopiesType'
  <1>1. spawned' \in [Task -> Nat]
    BY DEF BatchInv, CopiesType, Batch!Spawned
  <1> QED
    BY <1>1 DEF BatchInv, CopiesType

(* A step of a task that goes on.                                            *)
LEMMA TasksGoOn ==
    ASSUME BatchInv, TasksType', NoneEnds, NEW t \in Task, UNCHANGED <<copies, persisted, redisFaults>>,
           \/ UNCHANGED <<watchers, spawned>>
           \/ tasks[t].pc # "over" /\ watchers' = watchers /\ spawned' = Batch!Spawned(t)
           \/ /\ tasks[t].pc # "over"
              /\ watchers' = Batch!Sent(t, "progress") /\ spawned' = Batch!Spawned(t)
    PROVE  BatchInv'
  <1>1. CopiesType'
    BY CopiesStay
  <1>2. WatchersType' /\ EndIsQueued'
    BY EndStaysQueued DEF BatchInv, WatchersType, WatcherType, EndIsQueued, NoneEnds
  <1>3. StreamsHaveTasks'
    <2>1. \A w \in Watcher : watchers'[w].pc = watchers[w].pc /\ watchers'[w].task = watchers[w].task
      BY StreamsAreSent DEF BatchInv, Events
    <2> QED
      BY <2>1 DEF BatchInv, StreamsHaveTasks, NoneEnds, WatchersType, WatcherType
  <1> QED
    BY <1>1, <1>2, <1>3 DEF BatchInv

(* The publish of the final event itself.                                    *)
LEMMA EndIsMadeKnown == ASSUME BatchInv, NEW t \in Task, Batch!PublishFinal(t) PROVE BatchInv'
  <1>1. /\ TasksType'
        /\ \A u \in Task : u # t => tasks'[u] = tasks[u]
        /\ tasks'[t].final = tasks[t].final /\ tasks'[t].kind = tasks[t].kind /\ tasks'[t].pc = "over"
        /\ tasks[t].final \in Events /\ Batch!Final(tasks[t].final) /\ tasks[t].pc = "publish"
        /\ tasks[t].kind \notin {"none", "sync"} => tasks[t].known
    BY EndPublished DEF BatchInv
  <1>2. /\ watchers' = IF tasks[t].known THEN Batch!Sent(t, tasks[t].final) ELSE watchers
        /\ spawned' = IF tasks[t].known THEN Batch!Spawned(t) ELSE spawned
        /\ UNCHANGED <<copies, persisted, redisFaults>>
    BY DEF Batch!PublishFinal
  <1>3. CopiesType'
    BY <1>2, CopiesStay
  <1>4. WatchersType' /\ EndIsQueued' /\ StreamsHaveTasks'
    <2>1. CASE tasks[t].known
      <3>1. /\ WatchersType'
            /\ \A w \in Watcher :
                  /\ watchers'[w].pc = watchers[w].pc /\ watchers'[w].task = watchers[w].task
                  /\ watchers[w].task # t => watchers'[w] = watchers[w]
                  /\ watchers[w].task = t /\ watchers[w].pc = "reading" /\ ~watchers'[w].missed =>
                        /\ watchers'[w].queue # <<>>
                        /\ watchers'[w].queue[Len(watchers'[w].queue)] = tasks[t].final
        BY <1>1, <1>2, <2>1, StreamsAreSent DEF BatchInv
      <3>2. StreamsHaveTasks'
        BY <1>1, <3>1 DEF BatchInv, StreamsHaveTasks, WatchersType, WatcherType
      <3>3. EndIsQueued'
        BY <1>1, <3>1 DEF BatchInv, EndIsQueued, WatchersType, WatcherType
      <3> QED
        BY <3>1, <3>2, <3>3
    <2>2. CASE ~tasks[t].known
      <3>1. watchers' = watchers /\ tasks[t].kind \in {"none", "sync"}
        BY <1>1, <1>2, <2>2
      <3>2. \A w \in Watcher : watchers[w].pc \in {"attached", "reading"} => watchers[w].task \in Task \ {t}
        BY <3>1 DEF BatchInv, StreamsHaveTasks, WatchersType, WatcherType
      <3> QED
        BY <1>1, <3>1, <3>2 DEF BatchInv, StreamsHaveTasks, EndIsQueued, WatchersType
    <2> QED
      BY <2>1, <2>2
  <1> QED
    BY <1>1, <1>3, <1>4 DEF BatchInv

-----------------------------------------------------------------------------
(* The runner, the streams and the copies.                                   *)
LEMMA RunnerStep ==
    ASSUME BatchInv, NEW t \in Task, Batch!RunStep(t) \/ Batch!Cancel(t) \/ \E request \in Requests : Batch!Handle(t, request)
    PROVE  BatchInv'
  <1>0. TasksType
    BY DEF BatchInv
  <1>1. ASSUME NEW request \in Requests, Batch!Handle(t, request) PROVE BatchInv'
    <2>1. Batch!CreateTask(t, request)
      BY <1>1 DEF Batch!Handle, Batch!HandleNSFW, Batch!HandleRefresh, Batch!HandleCacheClear,
         Batch!HandleSync, Batch!HandleImport, Batch!HandleBuildImport, Batch!HandleBilling,
         Batch!HandleRenew, Batch!HandleCleanup
    <2>2. TasksType' /\ NoneEnds
      BY <1>0, <2>1, TaskCreated
    <2>3. /\ tasks[t].pc = "none" /\ UNCHANGED <<watchers, copies, persisted, redisFaults>>
          /\ spawned' = spawned \/ spawned' = Batch!Spawned(t)
      BY <2>1 DEF Batch!CreateTask
    <2> QED
      BY <2>2, <2>3, TasksGoOn
  <1>2. CASE Batch!StartItem(t)
    <2>1. TasksType' /\ NoneEnds
      BY <1>0, <1>2, ItemStarted
    <2> QED
      BY <1>2, <2>1, TasksGoOn DEF Batch!StartItem
  <1>3. ASSUME NEW i \in DOMAIN tasks[t].stage, Batch!SkipItem(t, i) PROVE BatchInv'
    <2>1. TasksType' /\ NoneEnds
      BY <1>0, <1>3, ItemSkipped
    <2> QED
      BY <1>3, <2>1, TasksGoOn DEF Batch!SkipItem
  <1>4. ASSUME NEW i \in DOMAIN tasks[t].stage, Batch!PublishItem(t, i) PROVE BatchInv'
    <2>1. TasksType' /\ NoneEnds /\ tasks[t].pc # "over"
      BY <1>0, <1>4, ItemPublished
    <2>2. /\ UNCHANGED <<copies, persisted, redisFaults>>
          /\ watchers' = IF tasks[t].known THEN Batch!Sent(t, "progress") ELSE watchers
          /\ spawned' = IF tasks[t].known THEN Batch!Spawned(t) ELSE spawned
      BY <1>4 DEF Batch!PublishItem
    <2> QED
      BY <2>1, <2>2, TasksGoOn
  <1>5. ASSUME NEW i \in DOMAIN tasks[t].stage, Batch!ImportFails(t, i) PROVE BatchInv'
    <2>1. TasksType' /\ NoneEnds
      BY <1>0, <1>5, ImportEnds
    <2> QED
      BY <1>5, <2>1, TasksGoOn DEF Batch!ImportFails
  <1>6. ASSUME NEW i \in DOMAIN tasks[t].stage, NEW success \in BOOLEAN, Batch!RecordItem(t, i, success)
        PROVE  BatchInv'
    <2>1. TasksType' /\ NoneEnds
      BY <1>0, <1>6, ItemRecorded
    <2> QED
      BY <1>6, <2>1, TasksGoOn DEF Batch!RecordItem
  <1>7. CASE \/ Batch!FinishBatch(t) \/ Batch!RunnerCancelled(t) \/ Batch!FinishSequential(t)
             \/ \E type \in {"done", "error"} : Batch!FinishImport(t, type)
    <2>1. TasksType' /\ NoneEnds /\ UNCHANGED <<watchers, spawned, copies, persisted, redisFaults>>
      BY <1>0, <1>7, RunnerFinishes
    <2> QED
      BY <2>1, TasksGoOn
  <1>8. CASE Batch!PublishFinal(t)
    BY <1>8, EndIsMadeKnown
  <1>9. CASE Batch!ExpireTask(t) \/ Batch!Cancel(t)
    <2>1. TasksType' /\ NoneEnds
      BY <1>0, <1>9, TaskExpiresOrIsCancelled
    <2>2. UNCHANGED <<watchers, spawned, copies, persisted, redisFaults>>
      BY <1>9 DEF Batch!ExpireTask, Batch!Cancel
    <2> QED
      BY <2>1, <2>2, TasksGoOn
  <1> QED
    BY <1>1, <1>2, <1>3, <1>4, <1>5, <1>6, <1>7, <1>8, <1>9 DEF Batch!RunStep, Batch!ItemStep

(* A step of one stream.                                                     *)
LEMMA StreamMoves ==
    ASSUME BatchInv, NEW w \in Watcher, NEW watcher, watchers' = [watchers EXCEPT ![w] = watcher],
           UNCHANGED <<tasks, spawned, copies, persisted, redisFaults>>, WatcherType(watcher),
           watcher.pc \in {"attached", "reading"} => tasks[watcher.task].kind \notin {"none", "sync"},
           watcher.pc = "reading" /\ ~watcher.missed /\ tasks[watcher.task].pc = "over" =>
               watcher.queue # <<>> /\ watcher.queue[Len(watcher.queue)] = tasks[watcher.task].final
    PROVE  BatchInv'
  <1>1. TasksType' /\ CopiesType'
    BY DEF BatchInv, TasksType, CopiesType
  <1> HIDE DEF WatcherType
  <1>2. /\ DOMAIN watchers' = Watcher /\ watchers'[w] = watcher
        /\ \A v \in Watcher : v # w => watchers'[v] = watchers[v]
    BY DEF BatchInv, WatchersType
  <1>3. WatchersType'
    BY <1>2 DEF BatchInv, WatchersType
  <1>4. StreamsHaveTasks'
    BY <1>2 DEF BatchInv, StreamsHaveTasks
  <1>5. EndIsQueued'
    BY <1>2 DEF BatchInv, EndIsQueued
  <1> QED
    BY <1>1, <1>3, <1>4, <1>5 DEF BatchInv

LEMMA LastOfTail ==
    ASSUME NEW queue \in Seq(Events), queue # <<>>
    PROVE  /\ Head(queue) \in Events /\ Tail(queue) \in Seq(Events) /\ Len(Tail(queue)) = Len(queue) - 1
           /\ Len(queue) = 1 => Head(queue) = queue[Len(queue)]
           /\ Len(queue) # 1 => Tail(queue) # <<>> /\ Tail(queue)[Len(Tail(queue))] = queue[Len(queue)]
  <1>1. Len(queue) \in Nat /\ Len(queue) # 0
    OBVIOUS
  <1>2. Head(queue) \in Events /\ Tail(queue) \in Seq(Events) /\ Len(Tail(queue)) = Len(queue) - 1
    OBVIOUS
  <1>3. Head(queue) = queue[1]
    OBVIOUS
  <1>4. ASSUME Len(queue) # 1
        PROVE  Tail(queue) # <<>> /\ Tail(queue)[Len(Tail(queue))] = queue[Len(queue)]
    <2> DEFINE n == Len(queue)
    <2>n. n \in Nat /\ n # 0 /\ n # 1
      BY <1>1, <1>4
    <2>1. n - 1 \in 1 .. n - 1
      <3> HIDE DEF n
      <3> QED
        BY <2>n
    <2>2. Tail(queue)[Len(queue) - 1] = queue[(Len(queue) - 1) + 1]
      BY <2>1
    <2>3. (Len(queue) - 1) + 1 = Len(queue)
      BY <1>1
    <2> QED
      BY <1>1, <1>2, <1>4, <2>2, <2>3
  <1> QED
    BY <1>1, <1>2, <1>3, <1>4

LEMMA StreamStep ==
    ASSUME BatchInv, NEW w \in Watcher,
           \/ Batch!StreamStep(w) \/ Batch!Disconnect(w)
           \/ \E t \in Task : Batch!Attach(w, t) \/ Batch!ShowPersisted(w, t)
    PROVE  BatchInv'
  <1> DEFINE old == watchers[w]
  <1>0. WatcherType(old) /\ w \in DOMAIN watchers
    BY DEF BatchInv, WatchersType
  <1>f. /\ DOMAIN old = {"task", "pc", "queue", "seen", "missed"} /\ old.queue \in Seq(Events)
        /\ old.pc \in {"attached", "reading"} => old.task \in Task /\ tasks[old.task].kind \notin {"none", "sync"}
        /\ Len(old.queue) <= QueueCap /\ old.missed \in BOOLEAN
    BY <1>0 DEF WatcherType, BatchInv, StreamsHaveTasks
  <1>1. ASSUME NEW t \in Task, Batch!Attach(w, t) PROVE BatchInv'
    <2> DEFINE new == [old EXCEPT !.pc = "attached", !.task = t]
    <2>1. /\ watchers' = [watchers EXCEPT ![w] = new] /\ tasks[t].known
          /\ UNCHANGED <<tasks, spawned, copies, persisted, redisFaults>>
      BY <1>0, <1>1, <1>f DEF Batch!Attach
    <2>2. /\ DOMAIN new = DOMAIN old /\ new.pc = "attached" /\ new.task = t /\ new.queue = old.queue
          /\ new.missed = old.missed
      BY <1>f
    <2>3. tasks[t].kind \notin {"none", "sync"}
      BY <2>1 DEF BatchInv, TasksType, TaskType
    <2> HIDE DEF new, old
    <2>4. WatcherType(new)
      BY <1>f, <2>2 DEF WatcherType
    <2> QED
      BY <2>1, <2>2, <2>3, <2>4, StreamMoves
  <1>2. ASSUME NEW pc \in {"closed", "left"}, NEW new, watchers' = [watchers EXCEPT ![w] = new],
               DOMAIN new = DOMAIN old, new.pc = pc, new.missed = old.missed,
               new.queue \in Seq(Events), Len(new.queue) <= QueueCap,
               UNCHANGED <<tasks, spawned, copies, persisted, redisFaults>>
        PROVE  BatchInv'
    <2>1. WatcherType(new)
      BY <1>2, <1>f DEF WatcherType
    <2> QED
      BY <1>2, <2>1, StreamMoves
  <1>3. ASSUME NEW t \in Task, Batch!ShowPersisted(w, t) PROVE BatchInv'
    <2> DEFINE new == [old EXCEPT !.task = t, !.pc = "closed", !.seen = persisted[t].status]
    <2>1. /\ watchers' = [watchers EXCEPT ![w] = new]
          /\ UNCHANGED <<tasks, spawned, copies, persisted, redisFaults>>
      BY <1>0, <1>3, <1>f DEF Batch!ShowPersisted
    <2>2. DOMAIN new = DOMAIN old /\ new.pc = "closed" /\ new.queue = old.queue /\ new.missed = old.missed
      BY <1>f
    <2> HIDE DEF new, old
    <2> QED
      BY <1>2, <1>f, <2>1, <2>2
  <1>4. CASE Batch!Disconnect(w)
    <2> DEFINE new == [old EXCEPT !.pc = "left", !.queue = <<>>]
    <2>1. /\ watchers' = [watchers EXCEPT ![w] = new]
          /\ UNCHANGED <<tasks, spawned, copies, persisted, redisFaults>>
      BY <1>0, <1>4, <1>f DEF Batch!Disconnect
    <2>2. DOMAIN new = DOMAIN old /\ new.pc = "left" /\ new.task = old.task /\ new.queue = <<>> /\ new.missed = old.missed
      BY <1>f
    <2>3. <<>> \in Seq(Events) /\ Len(<<>>) <= QueueCap
      BY BatchAssumption
    <2> HIDE DEF new, old
    <2> QED
      BY <1>2, <2>1, <2>2, <2>3
  <1>5. CASE Batch!LookForFinal(w)
    <2> DEFINE final == tasks[old.task].final
               closed == [old EXCEPT !.pc = "closed", !.seen = final]
               reading == [old EXCEPT !.pc = "reading", !.seen = "snapshot"]
    <2>1. /\ old.pc = "attached" /\ UNCHANGED <<tasks, spawned, copies, persisted, redisFaults>>
          /\ watchers' = [watchers EXCEPT ![w] = IF Batch!Final(final) THEN closed ELSE reading]
      BY <1>0, <1>5, <1>f DEF Batch!LookForFinal, Batch!Watches
    <2>2. /\ DOMAIN closed = DOMAIN old /\ closed.pc = "closed" /\ closed.task = old.task
          /\ closed.queue = old.queue /\ closed.missed = old.missed
          /\ DOMAIN reading = DOMAIN old /\ reading.pc = "reading" /\ reading.task = old.task
          /\ reading.queue = old.queue /\ reading.missed = old.missed
      BY <1>f
    <2>3. ~Batch!Final(final) => tasks[old.task].pc # "over"
      BY <1>f, <2>1 DEF BatchInv, TasksType, TaskType, Batch!Final
    <2> HIDE DEF closed, reading, final, old
    <2>4. CASE Batch!Final(final)
      BY <1>2, <1>f, <2>1, <2>2, <2>4
    <2>5. CASE ~Batch!Final(final)
      <3>1. WatcherType(reading)
        BY <1>f, <2>1, <2>2 DEF WatcherType
      <3> QED
        BY <1>f, <2>1, <2>2, <2>3, <2>5, <3>1, StreamMoves
    <2> QED
      BY <2>4, <2>5
  <1>6. CASE Batch!ReadEvent(w)
    <2> DEFINE event == Head(old.queue)
               new == [old EXCEPT !.queue = Tail(old.queue), !.seen = event,
                                  !.pc = IF Batch!Final(event) THEN "closed" ELSE old.pc]
    <2>1. /\ old.pc = "reading" /\ old.queue # <<>>
          /\ UNCHANGED <<tasks, spawned, copies, persisted, redisFaults>>
          /\ watchers' = [watchers EXCEPT ![w] = new]
      BY <1>0, <1>6, <1>f DEF Batch!ReadEvent
    <2>2. /\ DOMAIN new = DOMAIN old /\ new.pc = IF Batch!Final(event) THEN "closed" ELSE "reading"
          /\ new.task = old.task /\ new.queue = Tail(old.queue) /\ new.missed = old.missed
      BY <1>f, <2>1
    <2>3. /\ Tail(old.queue) \in Seq(Events) /\ Len(Tail(old.queue)) = Len(old.queue) - 1
          /\ Len(old.queue) = 1 => Head(old.queue) = old.queue[Len(old.queue)]
          /\ Len(old.queue) # 1 => Tail(old.queue) # <<>> /\ Tail(old.queue)[Len(Tail(old.queue))] = old.queue[Len(old.queue)]
      BY <1>f, <2>1, LastOfTail
    <2>4. Len(new.queue) <= QueueCap
      BY <1>f, <2>2, <2>3, BatchAssumption
    <2>5. ASSUME ~old.missed, tasks[old.task].pc = "over"
          PROVE  old.queue[Len(old.queue)] = tasks[old.task].final /\ Batch!Final(tasks[old.task].final)
      BY <1>f, <2>1, <2>5 DEF BatchInv, EndIsQueued, TasksType, TaskType, Batch!Final
    <2>6. WatcherType(new)
      <3> HIDE DEF new, old
      <3> QED
        BY <1>f, <2>1, <2>2, <2>3, <2>4 DEF WatcherType
    <2>7. new.pc = "reading" /\ ~new.missed /\ tasks[new.task].pc = "over" =>
             new.queue # <<>> /\ new.queue[Len(new.queue)] = tasks[new.task].final
      <3> HIDE DEF new, old
      <3> QED
        BY <1>f, <2>2, <2>3, <2>5
    <2> HIDE DEF new, old
    <2> QED
      BY <1>f, <2>1, <2>2, <2>6, <2>7, StreamMoves
  <1> QED
    BY <1>1, <1>3, <1>4, <1>5, <1>6 DEF Batch!StreamStep

(* One copy more, or one less, of a snapshot.                                *)
LEMMA BagOfCopies ==
    ASSUME NEW bag, bag \in [DOMAIN bag -> Nat \ {0}], NEW copy
    PROVE  LET more == Batch!(+)(bag, Batch!SetToBag({copy}))
               less == Batch!(-)(bag, Batch!SetToBag({copy}))
           IN  /\ more \in [DOMAIN more -> Nat \ {0}] /\ DOMAIN more = DOMAIN bag \cup {copy}
               /\ less \in [DOMAIN less -> Nat \ {0}] /\ DOMAIN less \subseteq DOMAIN bag
               /\ DOMAIN bag \ {copy} \subseteq DOMAIN less
  BY DEF Batch!(+), Batch!(-), Batch!SetToBag

LEMMA CopiesStep ==
    ASSUME BatchInv, \/ \E t \in Task : Batch!TakeSnapshot(t)
                     \/ \E copy \in DOMAIN copies : Batch!WriteSnapshot(copy) \/ Batch!WriteFails(copy)
    PROVE  BatchInv'
  <1>0. /\ copies \in [DOMAIN copies -> Nat \ {0}] /\ \A copy \in DOMAIN copies : copy.task \in Task
        /\ spawned \in [Task -> Nat] /\ DOMAIN persisted = Task /\ redisFaults \in 0 .. RedisFaults
    BY DEF BatchInv, CopiesType
  <1>a. ASSUME UNCHANGED <<tasks, watchers>>, CopiesType' PROVE BatchInv'
    BY <1>a DEF BatchInv, TasksType, WatchersType, StreamsHaveTasks, EndIsQueued
  <1>1. ASSUME NEW t \in Task, Batch!TakeSnapshot(t) PROVE BatchInv'
    <2> DEFINE copy == [task |-> t, processed |-> Batch!Processed(t),
                        status |-> IF tasks[t].final = "none" THEN "running" ELSE tasks[t].final]
    <2>1. /\ spawned[t] > 0 /\ spawned' = [spawned EXCEPT ![t] = @ - 1]
          /\ copies' = Batch!(+)(copies, Batch!SetToBag({copy}))
          /\ UNCHANGED <<tasks, watchers, persisted, redisFaults>>
      BY <1>1 DEF Batch!TakeSnapshot
    <2>2. copy.task = t
      OBVIOUS
    <2> HIDE DEF copy
    <2>3. /\ copies' \in [DOMAIN copies' -> Nat \ {0}] /\ DOMAIN copies' = DOMAIN copies \cup {copy}
      BY <1>0, <2>1, BagOfCopies
    <2>4. spawned' \in [Task -> Nat]
      BY <1>0, <2>1
    <2>5. CopiesType'
      BY <1>0, <2>1, <2>2, <2>3, <2>4 DEF CopiesType
    <2> QED
      BY <1>a, <2>1, <2>5
  <1>2. ASSUME NEW copy \in DOMAIN copies, Batch!WriteSnapshot(copy) \/ Batch!WriteFails(copy)
        PROVE  BatchInv'
    <2>1. /\ copies' = Batch!(-)(copies, Batch!SetToBag({copy}))
          /\ UNCHANGED <<tasks, watchers, spawned>>
          /\ DOMAIN persisted' = Task /\ redisFaults' \in 0 .. RedisFaults
      BY <1>0, <1>2, BatchAssumption DEF Batch!WriteSnapshot, Batch!WriteFails, Batch!Ended
    <2>2. copies' \in [DOMAIN copies' -> Nat \ {0}] /\ DOMAIN copies' \subseteq DOMAIN copies
      BY <1>0, <2>1, BagOfCopies
    <2> QED
      BY <1>0, <1>a, <2>1, <2>2 DEF CopiesType
  <1> QED
    BY <1>1, <1>2

LEMMA BatchInit == Batch!Init => BatchInv
  <1> SUFFICES ASSUME Batch!Init PROVE BatchInv
    OBVIOUS
  <1>1. TasksType /\ \A t \in Task : tasks[t].pc = "none"
    <2>1. tasks = [t \in Task |-> Batch!NoTask]
      BY DEF Batch!Init
    <2>2. TaskType(Batch!NoTask) /\ Batch!NoTask.pc = "none"
      BY DEF TaskType, TaskFields, Batch!NoTask, Working
    <2> QED
      BY <2>1, <2>2 DEF TasksType
  <1>2. WatchersType /\ \A w \in Watcher : watchers[w].pc = "idle"
    <2> DEFINE none == [task |-> "none", pc |-> "idle", queue |-> <<>>, seen |-> "none", missed |-> FALSE]
    <2>1. watchers = [w \in Watcher |-> none]
      BY DEF Batch!Init
    <2>2. WatcherType(none) /\ none.pc = "idle"
      BY BatchAssumption DEF WatcherType
    <2> QED
      BY <2>1, <2>2 DEF WatchersType
  <1>3. CopiesType
    <2>1. /\ copies = [e \in {} |-> 1] /\ spawned = [t \in Task |-> 0] /\ redisFaults = 0
          /\ DOMAIN persisted = Task
      BY DEF Batch!Init, Batch!EmptyBag, Batch!SetToBag
    <2> QED
      BY <2>1, BatchAssumption DEF CopiesType
  <1> QED
    BY <1>1, <1>2, <1>3 DEF BatchInv, StreamsHaveTasks, EndIsQueued

LEMMA BatchInvStep == BatchInv /\ [Next]_vars => BatchInv'
  <1> SUFFICES ASSUME BatchInv, [Next]_vars PROVE BatchInv'
    OBVIOUS
  <1>1. CASE UNCHANGED batchVars
    BY <1>1 DEF batchVars, BatchInv, TasksType, WatchersType, CopiesType, StreamsHaveTasks, EndIsQueued
  <1>2. CASE Batch!Next
    BY <1>2, RunnerStep, StreamStep, CopiesStep DEF Batch!Next, Batch!BagToSet
  <1> QED
    BY <1>1, <1>2 DEF Next, vars, InBuild, InChat, InSummary, InRounds, InBatch

-----------------------------------------------------------------------------
(* Ends are told as they are.  A final event is the last one of its channel  *)
(* and its task is over; what a copy in Redis, or on its way there, says of  *)
(* an end is the task's end with its last count.                             *)
Tells(copy, t) ==
    Batch!Final(copy.status) => copy.status = tasks[t].final /\ copy.processed = Batch!Processed(t)

StreamTells(watcher) ==
    /\ Batch!Final(watcher.seen) => watcher.task \in Task /\ watcher.seen = tasks[watcher.task].final
    /\ \A i \in DOMAIN watcher.queue : Batch!Final(watcher.queue[i]) =>
          /\ watcher.task \in Task /\ tasks[watcher.task].pc = "over"
          /\ i = Len(watcher.queue) /\ watcher.queue[i] = tasks[watcher.task].final
    /\ watcher.pc = "idle" => watcher.queue = <<>> /\ ~Batch!Final(watcher.seen)

StreamsTell == \A w \in Watcher : StreamTells(watchers[w])
CopiesTell == (\A copy \in DOMAIN copies : Tells(copy, copy.task)) /\ \A t \in Task : Tells(persisted[t], t)
EndsInv == StreamsTell /\ CopiesTell

(* A task that has its end keeps it, and its count.                          *)
EndsStay ==
    \A t \in Task : tasks[t].final # "none" =>
        /\ tasks'[t].final = tasks[t].final
        /\ tasks'[t].ok = tasks[t].ok /\ tasks'[t].fail = tasks[t].fail
        /\ tasks[t].pc = "over" => tasks'[t].pc = "over"

LEMMA OthersStay ==
    ASSUME NEW t \in Task, tasks[t].final = "none", \A u \in Task : u # t => tasks'[u] = tasks[u]
    PROVE  EndsStay
  BY DEF EndsStay

LEMMA ItemsLeaveEnds ==
    ASSUME TasksType, NEW t \in Task, NEW i \in DOMAIN tasks[t].stage,
           \/ Batch!SkipItem(t, i) \/ Batch!PublishItem(t, i) \/ Batch!ImportFails(t, i)
           \/ \E success \in BOOLEAN : Batch!RecordItem(t, i, success)
    PROVE  EndsStay
  <1>1. TaskType(tasks[t]) /\ DOMAIN tasks = Task
    BY DEF TasksType
  <1>2. tasks[t].stage[i] \in Working
    BY DEF Batch!SkipItem, Batch!PublishItem, Batch!ImportFails, Batch!RecordItem, Working
  <1>3. tasks[t].final = "none"
    BY <1>1, <1>2 DEF TaskType
  <1>4. \A u \in Task : u # t => tasks'[u] = tasks[u]
    BY <1>1 DEF Batch!SkipItem, Batch!PublishItem, Batch!ImportFails, Batch!RecordItem
  <1> QED
    BY <1>3, <1>4, OthersStay

LEMMA RunnerLeavesEnds ==
    ASSUME TasksType, NEW t \in Task,
           \/ \E request \in Requests : Batch!CreateTask(t, request)
           \/ Batch!StartItem(t) \/ \E type : Batch!Finishes(t, type) /\ tasks[t].pc = "run"
    PROVE  EndsStay
  <1>1. TaskType(tasks[t]) /\ DOMAIN tasks = Task
    BY DEF TasksType
  <1>2. tasks[t].pc \in {"none", "run"}
    BY DEF Batch!CreateTask, Batch!StartItem
  <1>3. tasks[t].final = "none"
    BY <1>1, <1>2 DEF TaskType
  <1>4. \A u \in Task : u # t => tasks'[u] = tasks[u]
    BY <1>1 DEF Batch!CreateTask, Batch!StartItem, Batch!Finishes
  <1> QED
    BY <1>3, <1>4, OthersStay

LEMMA EndedLeavesEnds ==
    ASSUME TasksType, NEW t \in Task, Batch!PublishFinal(t) \/ Batch!ExpireTask(t) \/ Batch!Cancel(t)
    PROVE  EndsStay
  <1>1. DOMAIN tasks[t] = TaskFields /\ DOMAIN tasks = Task
    BY DEF TasksType, TaskType
  <1>2. \A u \in Task : u # t => tasks'[u] = tasks[u]
    BY <1>1 DEF Batch!PublishFinal, Batch!ExpireTask, Batch!Cancel
  <1>3. /\ tasks'[t].final = tasks[t].final /\ tasks'[t].ok = tasks[t].ok /\ tasks'[t].fail = tasks[t].fail
        /\ tasks[t].pc = "over" => tasks'[t].pc = "over"
    BY <1>1 DEF Batch!PublishFinal, Batch!ExpireTask, Batch!Cancel, TaskFields
  <1> QED
    BY <1>2, <1>3 DEF EndsStay

LEMMA TaskLeavesEnds ==
    ASSUME TasksType, NEW t \in Task, Batch!RunStep(t) \/ Batch!Cancel(t) \/ \E request \in Requests : Batch!Handle(t, request)
    PROVE  EndsStay
  <1>1. ASSUME NEW request \in Requests, Batch!Handle(t, request) PROVE EndsStay
    <2>1. Batch!CreateTask(t, request)
      BY <1>1 DEF Batch!Handle, Batch!HandleNSFW, Batch!HandleRefresh, Batch!HandleCacheClear,
         Batch!HandleSync, Batch!HandleImport, Batch!HandleBuildImport, Batch!HandleBilling,
         Batch!HandleRenew, Batch!HandleCleanup
    <2> QED
      BY <2>1, RunnerLeavesEnds
  <1>2. CASE \/ Batch!FinishBatch(t) \/ Batch!RunnerCancelled(t) \/ Batch!FinishSequential(t)
             \/ \E type \in {"done", "error"} : Batch!FinishImport(t, type)
    <2>1. \E type : Batch!Finishes(t, type) /\ tasks[t].pc = "run"
      BY <1>2, Zenon DEF Batch!FinishBatch, Batch!RunnerCancelled, Batch!FinishSequential, Batch!FinishImport
    <2> QED
      BY <2>1, RunnerLeavesEnds
  <1>3. CASE \E i \in DOMAIN tasks[t].stage : Batch!ItemStep(t, i)
    BY <1>3, ItemsLeaveEnds DEF Batch!ItemStep
  <1>4. CASE Batch!StartItem(t)
    BY <1>4, RunnerLeavesEnds
  <1>5. CASE Batch!PublishFinal(t) \/ Batch!ExpireTask(t) \/ Batch!Cancel(t)
    BY <1>5, EndedLeavesEnds
  <1> QED
    BY <1>1, <1>2, <1>3, <1>4, <1>5 DEF Batch!RunStep

(* What a copy says stays true.                                              *)
LEMMA CopiesStillTell ==
    ASSUME TasksType, CopiesType, CopiesTell, EndsStay, UNCHANGED <<copies, persisted>> PROVE CopiesTell'
  <1>1. \A copy, t : t \in Task /\ Tells(copy, t) => Tells(copy, t)'
    BY DEF Tells, EndsStay, Batch!Final, Batch!Processed
  <1> QED
    BY <1>1 DEF CopiesTell, CopiesType

(* A publish adds one event to a channel, or leaves it.                      *)
LEMMA SentToStreams ==
    ASSUME WatchersType, NEW t \in Task, NEW event \in Events, watchers' = Batch!Sent(t, event), NEW w \in Watcher
    PROVE  /\ watchers'[w].pc = watchers[w].pc /\ watchers'[w].task = watchers[w].task
           /\ watchers'[w].seen = watchers[w].seen
           /\ \/ watchers'[w].queue = watchers[w].queue
              \/ /\ watchers[w].task = t /\ watchers[w].pc # "idle"
                 /\ watchers'[w].queue = Append(watchers[w].queue, event)
  <1>1. DOMAIN watchers[w] = {"task", "pc", "queue", "seen", "missed"}
    BY DEF WatchersType, WatcherType
  <1> QED
    BY <1>1 DEF Batch!Sent

LEMMA OldStreamTells ==
    ASSUME NEW w \in Watcher, EndsStay, StreamTells(watchers[w]),
           watchers'[w].pc = watchers[w].pc, watchers'[w].task = watchers[w].task,
           watchers'[w].seen = watchers[w].seen, watchers'[w].queue = watchers[w].queue
    PROVE  StreamTells(watchers[w])'
  BY DEF EndsStay, StreamTells, Batch!Final

LEMMA SentStreamTells ==
    ASSUME NEW w \in Watcher, EndsStay, StreamTells(watchers[w]), NEW event \in Events,
           watchers[w].queue \in Seq(Events), watchers[w].pc # "idle", watchers[w].task \in Task,
           watchers'[w].pc = watchers[w].pc, watchers'[w].task = watchers[w].task,
           watchers'[w].seen = watchers[w].seen, watchers'[w].queue = Append(watchers[w].queue, event),
           tasks[watchers[w].task].pc # "over",
           Batch!Final(event) => /\ tasks'[watchers[w].task].pc = "over"
                                 /\ tasks'[watchers[w].task].final = event
    PROVE  StreamTells(watchers[w])'
  <1> DEFINE queue == watchers[w].queue
             new == watchers'[w].queue
  <1>1. \A i \in DOMAIN queue : ~Batch!Final(queue[i])
    BY DEF StreamTells
  <1>2. /\ Len(new) = Len(queue) + 1 /\ DOMAIN new = 1 .. Len(queue) + 1 /\ new[Len(queue) + 1] = event
        /\ \A i \in DOMAIN queue : new[i] = queue[i]
        /\ Len(queue) \in Nat /\ DOMAIN queue = 1 .. Len(queue)
    OBVIOUS
  <1>3. \A i \in DOMAIN new : i # Len(queue) + 1 => i \in DOMAIN queue
    BY <1>2
  <1>4. \A i \in DOMAIN new : Batch!Final(new[i]) => i = Len(new) /\ new[i] = event
    BY <1>1, <1>2, <1>3
  <1>5. Batch!Final(watchers[w].seen) => watchers[w].seen = tasks'[watchers[w].task].final
    BY DEF EndsStay, StreamTells, Batch!Final
  <1> HIDE DEF queue, new
  <1> QED
    BY <1>4, <1>5 DEF StreamTells, new

LEMMA StreamsStillTell ==
    ASSUME BatchInv, StreamsTell, EndsStay, NEW t \in Task, NEW event \in Events,
           watchers' = watchers \/ (watchers' = Batch!Sent(t, event) /\ tasks[t].pc # "over"),
           Batch!Final(event) => tasks'[t].pc = "over" /\ tasks'[t].final = event
    PROVE  StreamsTell'
  <1> SUFFICES ASSUME NEW w \in Watcher PROVE StreamTells(watchers[w])'
    BY DEF StreamsTell
  <1>1. StreamTells(watchers[w]) /\ watchers[w].queue \in Seq(Events) /\ WatchersType
    BY DEF StreamsTell, BatchInv, WatchersType, WatcherType
  <1>2. CASE watchers' = watchers
    BY <1>1, <1>2, OldStreamTells
  <1>3. CASE watchers' = Batch!Sent(t, event) /\ tasks[t].pc # "over"
    <2>1. /\ watchers'[w].pc = watchers[w].pc /\ watchers'[w].task = watchers[w].task
          /\ watchers'[w].seen = watchers[w].seen
          /\ \/ watchers'[w].queue = watchers[w].queue
             \/ /\ watchers[w].task = t /\ watchers[w].pc # "idle"
                /\ watchers'[w].queue = Append(watchers[w].queue, event)
      BY <1>1, <1>3, SentToStreams
    <2>2. CASE watchers'[w].queue = watchers[w].queue
      BY <1>1, <2>1, <2>2, OldStreamTells
    <2>3. CASE /\ watchers[w].task = t /\ watchers[w].pc # "idle"
               /\ watchers'[w].queue = Append(watchers[w].queue, event)
      <3>1. /\ watchers[w].task \in Task /\ tasks[watchers[w].task].pc # "over"
            /\ Batch!Final(event) => /\ tasks'[watchers[w].task].pc = "over"
                                     /\ tasks'[watchers[w].task].final = event
        BY <1>3, <2>3
      <3> QED
        BY <1>1, <2>1, <2>3, <3>1, SentStreamTells
    <2> QED
      BY <2>1, <2>2, <2>3
  <1> QED
    BY <1>2, <1>3

LEMMA TaskTells ==
    ASSUME BatchInv, EndsInv, NEW t \in Task,
           Batch!RunStep(t) \/ Batch!Cancel(t) \/ \E request \in Requests : Batch!Handle(t, request)
    PROVE  EndsInv'
  <1>1. EndsStay
    BY TaskLeavesEnds DEF BatchInv
  <1>2. TasksType /\ CopiesType /\ StreamsTell /\ CopiesTell /\ "progress" \in Events /\ ~Batch!Final("progress")
    BY DEF BatchInv, EndsInv, Events, Batch!Final
  <1>3. UNCHANGED <<copies, persisted>>
    BY DEF Batch!RunStep, Batch!ItemStep, Batch!StartItem, Batch!SkipItem, Batch!PublishItem, Batch!ImportFails,
       Batch!RecordItem, Batch!FinishBatch, Batch!RunnerCancelled, Batch!FinishSequential, Batch!FinishImport,
       Batch!Finishes, Batch!PublishFinal, Batch!ExpireTask, Batch!Cancel, Batch!Handle, Batch!HandleNSFW,
       Batch!HandleRefresh, Batch!HandleCacheClear, Batch!HandleSync, Batch!HandleImport, Batch!HandleBuildImport,
       Batch!HandleBilling, Batch!HandleRenew, Batch!HandleCleanup, Batch!CreateTask
  <1>4. CASE Batch!PublishFinal(t)
    <2>1. /\ tasks'[t].final = tasks[t].final /\ tasks'[t].pc = "over" /\ tasks[t].final \in Events
          /\ tasks[t].pc = "publish"
      BY <1>2, <1>4, EndPublished
    <2>2. watchers' = watchers \/ watchers' = Batch!Sent(t, tasks[t].final)
      BY <1>4 DEF Batch!PublishFinal
    <2>3. StreamsTell'
      BY <1>1, <1>2, <2>1, <2>2, StreamsStillTell
    <2> QED
      BY <1>1, <1>2, <1>3, <2>3, CopiesStillTell DEF EndsInv
  <1>5. CASE \E i \in DOMAIN tasks[t].stage : Batch!PublishItem(t, i)
    <2>1. PICK i \in DOMAIN tasks[t].stage : Batch!PublishItem(t, i)
      BY <1>5
    <2>2. tasks[t].pc # "over"
      BY <1>2, <2>1, ItemPublished
    <2>3. watchers' = watchers \/ watchers' = Batch!Sent(t, "progress")
      BY <2>1 DEF Batch!PublishItem
    <2>4. StreamsTell'
      BY <1>1, <1>2, <2>2, <2>3, StreamsStillTell
    <2> QED
      BY <1>1, <1>2, <1>3, <2>4, CopiesStillTell DEF EndsInv
  <1>6. CASE watchers' = watchers
    <2>1. StreamsTell'
      BY <1>1, <1>2, <1>6, StreamsStillTell
    <2> QED
      BY <1>1, <1>2, <1>3, <2>1, CopiesStillTell DEF EndsInv
  <1>7. Batch!PublishFinal(t) \/ (\E i \in DOMAIN tasks[t].stage : Batch!PublishItem(t, i)) \/ watchers' = watchers
    BY DEF Batch!RunStep, Batch!ItemStep, Batch!StartItem, Batch!SkipItem, Batch!ImportFails,
       Batch!RecordItem, Batch!FinishBatch, Batch!RunnerCancelled, Batch!FinishSequential, Batch!FinishImport,
       Batch!Finishes, Batch!ExpireTask, Batch!Cancel, Batch!Handle, Batch!HandleNSFW,
       Batch!HandleRefresh, Batch!HandleCacheClear, Batch!HandleSync, Batch!HandleImport, Batch!HandleBuildImport,
       Batch!HandleBilling, Batch!HandleRenew, Batch!HandleCleanup, Batch!CreateTask
  <1> QED
    BY <1>4, <1>5, <1>6, <1>7

(* A stream reads its channel, or what Redis has.                            *)
LEMMA OneStreamTells ==
    ASSUME BatchInv, EndsInv, NEW w \in Watcher, NEW watcher, watchers' = [watchers EXCEPT ![w] = watcher],
           StreamTells(watcher), UNCHANGED <<tasks, copies, persisted>>
    PROVE  EndsInv'
  <1>1. watchers'[w] = watcher /\ \A v \in Watcher : v # w => watchers'[v] = watchers[v]
    BY DEF BatchInv, WatchersType
  <1>2. \A v \in Watcher : StreamTells(watchers'[v])
    BY <1>1 DEF EndsInv, StreamsTell
  <1>3. StreamsTell'
    BY <1>2 DEF StreamsTell, StreamTells
  <1>4. CopiesTell'
    BY DEF EndsInv, CopiesTell, Tells, Batch!Processed
  <1> QED
    BY <1>3, <1>4 DEF EndsInv

LEMMA RestOfQueue ==
    ASSUME NEW queue \in Seq(Events), queue # <<>>
    PROVE  /\ DOMAIN Tail(queue) = 1 .. Len(queue) - 1 /\ Len(Tail(queue)) = Len(queue) - 1
           /\ \A i \in DOMAIN Tail(queue) : i + 1 \in DOMAIN queue /\ Tail(queue)[i] = queue[i + 1]
           /\ Head(queue) = queue[1] /\ 1 \in DOMAIN queue
  OBVIOUS

LEMMA StreamEndsTell ==
    ASSUME BatchInv, EndsInv, NEW w \in Watcher,
           \/ Batch!StreamStep(w) \/ Batch!Disconnect(w)
           \/ \E t \in Task : Batch!Attach(w, t) \/ Batch!ShowPersisted(w, t)
    PROVE  EndsInv'
  <1>0. /\ WatcherType(watchers[w]) /\ w \in DOMAIN watchers /\ StreamTells(watchers[w])
        /\ DOMAIN watchers[w] = {"task", "pc", "queue", "seen", "missed"} /\ watchers[w].queue \in Seq(Events)
        /\ watchers[w].pc \in {"attached", "reading"} => watchers[w].task \in Task
    BY DEF BatchInv, WatchersType, WatcherType, EndsInv, StreamsTell
  <1>u. UNCHANGED <<tasks, copies, persisted>>
    BY DEF Batch!StreamStep, Batch!LookForFinal, Batch!ReadEvent, Batch!Disconnect, Batch!Attach, Batch!ShowPersisted
  <1>1. ASSUME NEW t \in Task, Batch!Attach(w, t) PROVE EndsInv'
    <2> DEFINE new == [watchers[w] EXCEPT !.pc = "attached", !.task = t]
    <2>1. watchers' = [watchers EXCEPT ![w] = new] /\ watchers[w].pc = "idle"
      BY <1>0, <1>1 DEF Batch!Attach
    <2>2. new.queue = watchers[w].queue /\ new.seen = watchers[w].seen /\ new.pc = "attached"
      BY <1>0
    <2>3. new.queue = <<>> /\ ~Batch!Final(new.seen)
      BY <1>0, <2>1, <2>2 DEF StreamTells
    <2> HIDE DEF new
    <2>4. StreamTells(new)
      BY <2>2, <2>3 DEF StreamTells
    <2> QED
      BY <1>u, <2>1, <2>4, OneStreamTells
  <1>2. ASSUME NEW t \in Task, Batch!ShowPersisted(w, t) PROVE EndsInv'
    <2> DEFINE new == [watchers[w] EXCEPT !.task = t, !.pc = "closed", !.seen = persisted[t].status]
    <2>1. watchers' = [watchers EXCEPT ![w] = new] /\ watchers[w].pc = "idle"
      BY <1>0, <1>2 DEF Batch!ShowPersisted
    <2>2. /\ new.queue = watchers[w].queue /\ new.seen = persisted[t].status /\ new.pc = "closed"
          /\ new.task = t
      BY <1>0
    <2>3. new.queue = <<>> /\ Tells(persisted[t], t)
      BY <1>0, <2>1, <2>2 DEF StreamTells, EndsInv, CopiesTell
    <2> HIDE DEF new
    <2>4. StreamTells(new)
      BY <2>2, <2>3 DEF StreamTells, Tells
    <2> QED
      BY <1>u, <2>1, <2>4, OneStreamTells
  <1>3. CASE Batch!Disconnect(w)
    <2> DEFINE new == [watchers[w] EXCEPT !.pc = "left", !.queue = <<>>]
    <2>1. watchers' = [watchers EXCEPT ![w] = new]
      BY <1>0, <1>3 DEF Batch!Disconnect
    <2>2. /\ new.queue = <<>> /\ new.seen = watchers[w].seen /\ new.pc = "left" /\ new.task = watchers[w].task
      BY <1>0
    <2> HIDE DEF new
    <2>4. StreamTells(new)
      BY <1>0, <2>2 DEF StreamTells
    <2> QED
      BY <1>u, <2>1, <2>4, OneStreamTells
  <1>4. CASE Batch!LookForFinal(w)
    <2> DEFINE final == tasks[watchers[w].task].final
               pc == IF Batch!Final(final) THEN "closed" ELSE "reading"
               shows == IF Batch!Final(final) THEN final ELSE "snapshot"
               new == [watchers[w] EXCEPT !.pc = pc, !.seen = shows]
    <2>1. watchers' = [watchers EXCEPT ![w] = new] /\ watchers[w].pc = "attached"
      BY <1>0, <1>4 DEF Batch!LookForFinal, Batch!Watches
    <2>2. /\ new.queue = watchers[w].queue /\ new.seen = shows /\ new.pc = pc /\ new.task = watchers[w].task
      BY <1>0
    <2>3. pc # "idle" /\ (Batch!Final(shows) => shows = final /\ watchers[w].task \in Task)
      BY <1>0, <2>1 DEF Batch!Final
    <2> HIDE DEF new, pc, shows
    <2>4. StreamTells(new)
      BY <1>0, <2>2, <2>3 DEF StreamTells
    <2> QED
      BY <1>u, <2>1, <2>4, OneStreamTells
  <1>5. CASE Batch!ReadEvent(w)
    <2> DEFINE old == watchers[w]
               event == Head(old.queue)
               pc == IF Batch!Final(event) THEN "closed" ELSE old.pc
               new == [old EXCEPT !.queue = Tail(old.queue), !.seen = event, !.pc = pc]
    <2>1. watchers' = [watchers EXCEPT ![w] = new] /\ old.pc = "reading" /\ old.queue # <<>>
      BY <1>0, <1>5 DEF Batch!ReadEvent
    <2>2. /\ new.queue = Tail(old.queue) /\ new.seen = event /\ new.pc = pc /\ new.task = old.task
      BY <1>0
    <2>3. pc # "idle"
      BY <2>1
    <2>4. /\ DOMAIN Tail(old.queue) = 1 .. Len(old.queue) - 1 /\ Len(Tail(old.queue)) = Len(old.queue) - 1
          /\ \A i \in DOMAIN Tail(old.queue) : i + 1 \in DOMAIN old.queue /\ Tail(old.queue)[i] = old.queue[i + 1]
          /\ event = old.queue[1] /\ 1 \in DOMAIN old.queue
      BY <1>0, <2>1, RestOfQueue
    <2>5. Len(old.queue) \in Nat /\ StreamTells(old)
      BY <1>0
    <2> HIDE DEF new, pc, old, event
    <2>6. Batch!Final(event) => old.task \in Task /\ event = tasks[old.task].final
      BY <2>4, <2>5 DEF StreamTells
    <2>7. ASSUME NEW i \in DOMAIN Tail(old.queue), Batch!Final(Tail(old.queue)[i])
          PROVE  /\ old.task \in Task /\ tasks[old.task].pc = "over"
                 /\ i = Len(Tail(old.queue)) /\ Tail(old.queue)[i] = tasks[old.task].final
      <3>1. i + 1 \in DOMAIN old.queue /\ Batch!Final(old.queue[i + 1]) /\ i \in Int
        BY <2>4, <2>5, <2>7
      <3>2. /\ old.task \in Task /\ tasks[old.task].pc = "over"
            /\ i + 1 = Len(old.queue) /\ old.queue[i + 1] = tasks[old.task].final
        BY <2>5, <3>1 DEF StreamTells
      <3> QED
        BY <2>4, <2>5, <3>1, <3>2
    <2>8. StreamTells(new)
      BY <2>2, <2>3, <2>6, <2>7 DEF StreamTells
    <2> QED
      BY <1>u, <2>1, <2>8, OneStreamTells
  <1> QED
    BY <1>1, <1>2, <1>3, <1>4, <1>5 DEF Batch!StreamStep

LEMMA CopyEndsTell ==
    ASSUME BatchInv, EndsInv, \/ \E t \in Task : Batch!TakeSnapshot(t)
                              \/ \E copy \in DOMAIN copies : Batch!WriteSnapshot(copy) \/ Batch!WriteFails(copy)
    PROVE  EndsInv'
  <1>0. /\ copies \in [DOMAIN copies -> Nat \ {0}] /\ \A copy \in DOMAIN copies : copy.task \in Task
        /\ DOMAIN persisted = Task /\ StreamsTell /\ CopiesTell
    BY DEF BatchInv, CopiesType, EndsInv
  <1>u. UNCHANGED <<tasks, watchers>>
    BY DEF Batch!TakeSnapshot, Batch!WriteSnapshot, Batch!WriteFails
  <1>s. StreamsTell'
    BY <1>0, <1>u DEF StreamsTell, StreamTells
  <1>t. \A copy, t : Tells(copy, t) => Tells(copy, t)'
    BY <1>u DEF Tells, Batch!Processed
  <1>1. ASSUME NEW t \in Task, Batch!TakeSnapshot(t) PROVE EndsInv'
    <2> DEFINE copy == [task |-> t, processed |-> Batch!Processed(t),
                        status |-> IF tasks[t].final = "none" THEN "running" ELSE tasks[t].final]
    <2>1. copies' = Batch!(+)(copies, Batch!SetToBag({copy})) /\ persisted' = persisted
      BY <1>1 DEF Batch!TakeSnapshot
    <2>2. copy.task = t /\ Tells(copy, t)
      BY DEF Tells, Batch!Final
    <2> HIDE DEF copy
    <2>3. DOMAIN copies' = DOMAIN copies \cup {copy}
      BY <1>0, <2>1, BagOfCopies
    <2> QED
      BY <1>0, <1>s, <1>t, <2>1, <2>2, <2>3 DEF EndsInv, CopiesTell
  <1>2. ASSUME NEW copy \in DOMAIN copies, Batch!WriteSnapshot(copy) \/ Batch!WriteFails(copy)
        PROVE  EndsInv'
    <2> DEFINE entry == [status |-> copy.status, processed |-> copy.processed]
    <2>1. /\ copies' = Batch!(-)(copies, Batch!SetToBag({copy})) /\ copy.task \in Task
          /\ persisted' = persisted \/ persisted' = [persisted EXCEPT ![copy.task] = entry]
      BY <1>0, <1>2 DEF Batch!WriteSnapshot, Batch!WriteFails, Batch!Ended
    <2>2. DOMAIN copies' \subseteq DOMAIN copies
      BY <1>0, <2>1, BagOfCopies
    <2>3. Tells(entry, copy.task)
      BY <1>0 DEF CopiesTell, Tells
    <2> HIDE DEF entry
    <2>4. \A t \in Task : Tells(persisted'[t], t)
      BY <1>0, <2>1, <2>3 DEF CopiesTell
    <2>5. \A t \in Task : Tells(persisted[t], t)'
      BY <2>4, <1>u DEF Tells, Batch!Processed
    <2> QED
      BY <1>0, <1>s, <1>t, <2>2, <2>5 DEF EndsInv, CopiesTell
  <1> QED
    BY <1>1, <1>2

LEMMA EndsInit == Batch!Init => EndsInv
  <1> SUFFICES ASSUME Batch!Init PROVE EndsInv
    OBVIOUS
  <1>1. StreamsTell
    <2> DEFINE none == [task |-> "none", pc |-> "idle", queue |-> <<>>, seen |-> "none", missed |-> FALSE]
    <2>1. watchers = [w \in Watcher |-> none]
      BY DEF Batch!Init
    <2>2. none.queue = <<>> /\ none.seen = "none"
      OBVIOUS
    <2> HIDE DEF none
    <2>3. StreamTells(none)
      BY <2>2 DEF StreamTells, Batch!Final
    <2> QED
      BY <2>1, <2>3 DEF StreamsTell
  <1>2. CopiesTell
    <2>1. copies = [e \in {} |-> 1] /\ persisted = [t \in Task |-> [status |-> "none", processed |-> 0]]
      BY DEF Batch!Init, Batch!EmptyBag, Batch!SetToBag
    <2> QED
      BY <2>1 DEF CopiesTell, Tells, Batch!Final
  <1> QED
    BY <1>1, <1>2 DEF EndsInv

LEMMA EndsStep == ASSUME BatchInv, EndsInv, [Next]_vars PROVE EndsInv'
  <1>1. CASE UNCHANGED batchVars
    BY <1>1 DEF batchVars, EndsInv, StreamsTell, StreamTells, CopiesTell, Tells, Batch!Processed
  <1>2. CASE Batch!Next
    BY <1>2, TaskTells, StreamEndsTell, CopyEndsTell DEF Batch!Next, Batch!BagToSet
  <1> QED
    BY <1>1, <1>2 DEF Next, vars, InBuild, InChat, InSummary, InRounds, InBatch

(* A stream that attached while its task was finishing has the final event   *)
(* last in its channel, unless just this event met a full channel, and no    *)
(* stream and no copy in Redis tells an end or a last count that is not the  *)
(* task's, however items, cancellations, streams and late copies interleave  *)
(* (publish, streamAdminBatchTask, RedisTaskSnapshotStore): for any tasks,   *)
(* requests, streams, channel capacity and number of failing writes.         *)
THEOREM FinalStaysKnown == Spec => []FinalIsKnown
  <1>1. Init => BatchInv /\ EndsInv
    BY BatchInit, EndsInit DEF Init
  <1>2. BatchInv /\ EndsInv /\ [Next]_vars => BatchInv' /\ EndsInv'
    BY BatchInvStep, EndsStep
  <1>3. BatchInv /\ EndsInv => FinalIsKnown
    <2> SUFFICES ASSUME BatchInv, EndsInv PROVE FinalIsKnown
      OBVIOUS
    <2>1. Batch!TypeOK
      BY DEF BatchInv, TasksType, TaskType, WatchersType, WatcherType, CopiesType, Batch!TypeOK
    <2>2. Batch!FinalReachesStreams
      BY DEF BatchInv, EndIsQueued, Batch!FinalReachesStreams
    <2>3. Batch!EndsAreTrue
      BY DEF EndsInv, StreamsTell, StreamTells, CopiesTell, Tells, Batch!EndsAreTrue, Batch!BagToSet
    <2> QED
      BY <2>1, <2>2, <2>3 DEF FinalIsKnown, Batch!FinalIsKnown
  <1> QED
    BY <1>1, <1>2, <1>3, PTL DEF Spec

-----------------------------------------------------------------------------
(* The tally of a task.  It is the sum of the steps that are recorded; the   *)
(* loop has started exactly the steps before "next"; only a cancelled batch  *)
(* or a failed import leaves a started step out; so a runner that ends well  *)
(* has recorded all.                                                         *)
Recorded == {"recorded", "over"}
Weights(task) == [i \in 1 .. Len(task.units) |-> IF task.stage[i] \in Recorded THEN task.units[i] ELSE 0]
Skippers == Batch!Pooled \ {"sync"}
TallyOf(task) ==
    /\ Counts(task.units) /\ task.ok \in Nat /\ task.fail \in Nat
    /\ task.total = Batch!SumOf(task.units)
    /\ task.ok + task.fail = Batch!SumOf(Weights(task))
    /\ \A i \in DOMAIN task.stage :
          /\ task.stage[i] \in {"todo", "started", "recorded", "over", "skipped"}
          /\ i < task.next <=> task.stage[i] # "todo"
          /\ task.stage[i] = "skipped" =>
                (task.cancelled /\ task.kind \in Skippers) \/ task.final = "error"
          /\ task.final = "done" => task.stage[i] = "over"
TallyInv == \A t \in Task : TallyOf(tasks[t])

LEMMA WeightsCount ==
    ASSUME NEW task, Counts(task.units)
    PROVE  /\ Len(Weights(task)) = Len(task.units) /\ Counts(Weights(task))
           /\ \A i \in 1 .. Len(task.units) :
                 Weights(task)[i] = IF task.stage[i] \in Recorded THEN task.units[i] ELSE 0
  <1> DEFINE n == Len(task.units)
  <1>1. n \in Nat /\ \A i \in 1 .. n : task.units[i] \in Nat
    BY DEF Counts
  <1>2. Weights(task) = [i \in 1 .. n |-> IF task.stage[i] \in Recorded THEN task.units[i] ELSE 0]
    BY DEF Weights
  <1> HIDE DEF n
  <1>3. Len(Weights(task)) = n
    BY <1>1, <1>2, LengthOfFunction
  <1>4. \A i \in 1 .. n : Weights(task)[i] \in Nat
    BY <1>1, <1>2
  <1> QED
    BY <1>1, <1>2, <1>3, <1>4 DEF Counts, n

LEMMA TallyMoves ==
    ASSUME TasksType, TallyInv, NEW t \in Task, NEW task, tasks' = [tasks EXCEPT ![t] = task], TallyOf(task)
    PROVE  TallyInv'
  <1> HIDE DEF TallyOf
  <1> QED
    BY DEF TallyInv, TasksType

(* A step of the runner, or of whoever cancels.                              *)
LEMMA TallyKept ==
    ASSUME NEW task, TaskType(task), TallyOf(task), NEW new,
           new.units = task.units, new.stage = task.stage, new.next = task.next, new.kind = task.kind,
           new.ok = task.ok, new.fail = task.fail, new.total = task.total,
           task.cancelled => new.cancelled,
           \/ new.final = task.final
           \/ task.final = "none" /\ (new.final = "done" => \A i \in DOMAIN task.stage : task.stage[i] = "over")
    PROVE  TallyOf(new)
  <1>1. Weights(new) = Weights(task)
    BY DEF Weights
  <1> QED
    BY <1>1 DEF TallyOf

(* A step of an item that records nothing.                                   *)
LEMMA ItemTallyKept ==
    ASSUME NEW task, TaskType(task), TallyOf(task), NEW new, NEW i \in DOMAIN task.stage, NEW to,
           new.units = task.units, new.stage = [task.stage EXCEPT ![i] = to], new.kind = task.kind,
           new.ok = task.ok, new.fail = task.fail, new.total = task.total,
           to \in {"started", "over", "skipped"}, to \in Recorded <=> task.stage[i] \in Recorded,
           \/ new.next = task.next /\ task.stage[i] # "todo"
           \/ new.next = task.next + 1 /\ i = task.next,
           task.cancelled => new.cancelled,
           task.final = "none", new.final \in {"none", "error"},
           to = "skipped" => (new.cancelled /\ new.kind \in Skippers) \/ new.final = "error"
    PROVE  TallyOf(new)
  <1>1. Weights(new) = Weights(task)
    <2>1. \A j \in 1 .. Len(task.units) : new.stage[j] \in Recorded <=> task.stage[j] \in Recorded
      BY DEF TaskType
    <2> QED
      BY <2>1 DEF Weights
  <1>2. /\ DOMAIN new.stage = DOMAIN task.stage
        /\ \A j \in DOMAIN task.stage : new.stage[j] = IF j = i THEN to ELSE task.stage[j]
    OBVIOUS
  <1>3. DOMAIN task.stage \subseteq Int /\ task.next \in Int
    BY DEF TaskType
  <1>4. \A j \in DOMAIN task.stage : j < new.next <=> (j < task.next \/ j = i)
    BY <1>3 DEF TallyOf
  <1> QED
    BY <1>1, <1>2, <1>4 DEF TallyOf

LEMMA ItemTallied ==
    ASSUME NEW task, TaskType(task), TallyOf(task), NEW new, NEW i \in DOMAIN task.stage,
           NEW success \in BOOLEAN,
           task.stage[i] = "started", task.final = "none",
           new.units = task.units, new.stage = [task.stage EXCEPT ![i] = "recorded"], new.kind = task.kind,
           new.next = task.next, new.total = task.total, new.final = "none", new.cancelled = task.cancelled,
           new.ok = IF success THEN task.ok + task.units[i] ELSE task.ok,
           new.fail = IF success THEN task.fail ELSE task.fail + task.units[i]
    PROVE  TallyOf(new)
  <1> DEFINE n == Len(task.units)
             a == Weights(task)
             b == Weights(new)
             d == task.units[i]
  <1>1. n \in Nat /\ i \in 1 .. n /\ d \in Nat /\ DOMAIN task.stage = 1 .. n
    BY DEF TaskType, TallyOf, Counts
  <1>2. /\ DOMAIN new.stage = 1 .. n
        /\ \A j \in 1 .. n : new.stage[j] = IF j = i THEN "recorded" ELSE task.stage[j]
    BY <1>1
  <1>3. Len(a) = n /\ Counts(a) /\ \A j \in 1 .. n : a[j] = IF task.stage[j] \in Recorded THEN task.units[j] ELSE 0
    BY WeightsCount DEF TallyOf
  <1>4. Len(b) = n /\ Counts(b) /\ \A j \in 1 .. n : b[j] = IF new.stage[j] \in Recorded THEN task.units[j] ELSE 0
    <2>1. Counts(new.units) /\ Len(new.units) = n
      BY DEF TallyOf
    <2> QED
      BY <2>1, WeightsCount
  <1> HIDE DEF a, b, n, d
  <1>5. b[i] = a[i] + d /\ \A j \in 1 .. n : j # i => b[j] = a[j]
    <2>1. a[i] = 0 /\ b[i] = d
      BY <1>1, <1>2, <1>3, <1>4 DEF Recorded, d
    <2>2. \A j \in 1 .. n : j # i => b[j] = a[j]
      BY <1>2, <1>3, <1>4
    <2> QED
      BY <1>1, <2>1, <2>2
  <1>6. Batch!SumOf(b) = Batch!SumOf(a) + d
    <2>1. Len(a) = Len(b) /\ i \in 1 .. Len(a) /\ \A j \in 1 .. Len(a) : j # i => b[j] = a[j]
      BY <1>1, <1>3, <1>4, <1>5
    <2>2. Counts(a) /\ Counts(b) /\ d \in Nat /\ b[i] = a[i] + d
      BY <1>1, <1>3, <1>4, <1>5
    <2> QED
      BY <2>1, <2>2, SumOfOneMore
  <1>7. /\ task.ok \in Nat /\ task.fail \in Nat /\ task.ok + task.fail = Batch!SumOf(a)
        /\ Counts(task.units) /\ task.total = Batch!SumOf(task.units)
    BY DEF TallyOf, a
  <1>8. new.ok \in Nat /\ new.fail \in Nat /\ new.ok + new.fail = Batch!SumOf(b)
    BY <1>1, <1>6, <1>7 DEF d
  <1>9. \A j \in 1 .. n :
          /\ new.stage[j] \in {"todo", "started", "recorded", "over", "skipped"}
          /\ j < new.next <=> new.stage[j] # "todo"
          /\ new.stage[j] = "skipped" => (new.cancelled /\ new.kind \in Skippers) \/ new.final = "error"
          /\ new.final = "done" => new.stage[j] = "over"
    BY <1>1, <1>2 DEF TallyOf
  <1> QED
    BY <1>2, <1>7, <1>8, <1>9 DEF TallyOf, b

LEMMA FreshTally ==
    ASSUME NEW task, Counts(task.units), task.stage = [i \in 1 .. Len(task.units) |-> "todo"],
           task.ok = 0, task.fail = 0, task.next = 1, task.total = Batch!SumOf(task.units), task.final = "none"
    PROVE  TallyOf(task)
  <1>1. /\ Len(Weights(task)) = Len(task.units)
        /\ \A i \in 1 .. Len(task.units) : Weights(task)[i] = 0
    BY WeightsCount DEF Counts, Recorded
  <1>2. Len(task.units) \in Nat
    BY DEF Counts
  <1>3. Batch!SumOf(Weights(task)) = 0
    BY <1>1, <1>2, NothingSumsToZero
  <1>4. \A i \in DOMAIN task.stage : task.stage[i] = "todo" /\ ~(i < task.next)
    BY <1>2
  <1> QED
    BY <1>3, <1>4 DEF TallyOf

LEMMA NoTaskTally == TallyOf(Batch!NoTask)
  <1> DEFINE none == Batch!NoTask
  <1>1. /\ none.units = <<>> /\ none.stage = <<>> /\ none.ok = 0 /\ none.fail = 0 /\ none.next = 1
        /\ none.total = 0 /\ none.final = "none"
    BY DEF Batch!NoTask
  <1> HIDE DEF none
  <1>2. Counts(none.units) /\ Len(none.units) = 0
    BY <1>1 DEF Counts
  <1>3. none.total = Batch!SumOf(none.units)
    BY <1>1, <1>2, NothingSumsToZero
  <1>4. none.stage = [i \in 1 .. Len(none.units) |-> "todo"]
    BY <1>1, <1>2
  <1>5. TallyOf(none)
    BY <1>1, <1>2, <1>3, <1>4, FreshTally
  <1> QED
    BY <1>5 DEF none

LEMMA CreatedTally ==
    ASSUME TasksType, TallyInv, NEW t \in Task, NEW request \in Requests, Batch!CreateTask(t, request)
    PROVE  TallyInv'
  <1> DEFINE units == Batch!UnitsOf(request)
             fresh == [Batch!NoTask EXCEPT !.kind = request.kind, !.pc = "run", !.units = units,
                         !.stage = [i \in 1 .. Len(units) |-> "todo"],
                         !.total = Batch!SumOf(units), !.known = request.kind # "sync"]
  <1>1. tasks' = [tasks EXCEPT ![t] = fresh]
    BY DEF Batch!CreateTask
  <1>2. Counts(units)
    BY UnitsCount
  <1>3. /\ fresh.units = units /\ fresh.stage = [i \in 1 .. Len(units) |-> "todo"] /\ fresh.ok = 0
        /\ fresh.fail = 0 /\ fresh.next = 1 /\ fresh.total = Batch!SumOf(units) /\ fresh.final = "none"
    BY DEF Batch!NoTask
  <1> HIDE DEF fresh, units
  <1>4. TallyOf(fresh)
    BY <1>2, <1>3, FreshTally
  <1> QED
    BY <1>1, <1>4, TallyMoves

LEMMA StartedTally ==
    ASSUME TasksType, TallyInv, NEW t \in Task, Batch!StartItem(t) PROVE TallyInv'
  <1> DEFINE task == tasks[t]
             i == task.next
             new == [task EXCEPT !.next = i + 1, !.stage = [task.stage EXCEPT ![i] = "started"]]
  <1>1. TaskType(task) /\ t \in DOMAIN tasks /\ TallyOf(task)
    BY DEF TasksType, TallyInv
  <1>2. /\ task.pc = "run" /\ i <= Len(task.units)
        /\ tasks' = [tasks EXCEPT ![t].next = i + 1, ![t].stage[i] = "started"]
    BY DEF Batch!StartItem
  <1>3. tasks' = [tasks EXCEPT ![t] = new]
    BY <1>1, <1>2 DEF TaskType, TaskFields
  <1>4. /\ new.next = task.next + 1 /\ new.stage = [task.stage EXCEPT ![i] = "started"]
        /\ new.kind = task.kind /\ new.units = task.units /\ new.final = task.final
        /\ new.ok = task.ok /\ new.fail = task.fail /\ new.total = task.total /\ new.cancelled = task.cancelled
    BY <1>1 DEF TaskType, TaskFields
  <1>5. i \in DOMAIN task.stage /\ task.final = "none"
    BY <1>1, <1>2 DEF TaskType
  <1>6. task.stage[i] = "todo"
    <2>1. ~(i < task.next)
      BY <1>1 DEF TaskType
    <2> QED
      BY <1>1, <1>5, <2>1 DEF TallyOf
  <1> HIDE DEF task, new
  <1>7. TallyOf(new)
    BY <1>1, <1>4, <1>5, <1>6, ItemTallyKept DEF Recorded
  <1> QED
    BY <1>3, <1>7, TallyMoves DEF task

LEMMA SkippedTally ==
    ASSUME TasksType, TallyInv, NEW t \in Task, NEW i \in DOMAIN tasks[t].stage,
           Batch!SkipItem(t, i) \/ Batch!ImportFails(t, i) \/ Batch!PublishItem(t, i)
    PROVE  TallyInv'
  <1> DEFINE task == tasks[t]
  <1>1. TaskType(task) /\ t \in DOMAIN tasks /\ TallyOf(task)
    BY DEF TasksType, TallyInv
  <1>2. task.stage[i] \in {"started", "recorded"} /\ task.final = "none"
    BY <1>1 DEF Batch!SkipItem, Batch!ImportFails, Batch!PublishItem, TaskType, Working
  <1>3. CASE Batch!SkipItem(t, i)
    <2> DEFINE new == [task EXCEPT !.stage = [task.stage EXCEPT ![i] = "skipped"]]
    <2>1. /\ tasks' = [tasks EXCEPT ![t] = new] /\ task.kind \in Skippers /\ task.cancelled
          /\ task.stage[i] = "started"
      BY <1>1, <1>3 DEF Batch!SkipItem, TaskType, TaskFields, Skippers
    <2>2. /\ new.next = task.next /\ new.stage = [task.stage EXCEPT ![i] = "skipped"]
          /\ new.kind = task.kind /\ new.units = task.units /\ new.final = task.final
          /\ new.ok = task.ok /\ new.fail = task.fail /\ new.total = task.total /\ new.cancelled = task.cancelled
      BY <1>1 DEF TaskType, TaskFields
    <2> HIDE DEF task, new
    <2>3. TallyOf(new)
      BY <1>1, <1>2, <2>1, <2>2, ItemTallyKept DEF Recorded, task
    <2> QED
      BY <2>1, <2>3, TallyMoves DEF task
  <1>4. CASE Batch!ImportFails(t, i)
    <2> DEFINE new == [task EXCEPT !.pc = "publish", !.final = "error",
                                   !.stage = [task.stage EXCEPT ![i] = "skipped"]]
    <2>1. tasks' = [tasks EXCEPT ![t] = new] /\ task.stage[i] = "started"
      BY <1>1, <1>4 DEF Batch!ImportFails, TaskType, TaskFields
    <2>2. /\ new.next = task.next /\ new.stage = [task.stage EXCEPT ![i] = "skipped"]
          /\ new.kind = task.kind /\ new.units = task.units /\ new.final = "error"
          /\ new.ok = task.ok /\ new.fail = task.fail /\ new.total = task.total /\ new.cancelled = task.cancelled
      BY <1>1 DEF TaskType, TaskFields
    <2> HIDE DEF task, new
    <2>3. TallyOf(new)
      BY <1>1, <1>2, <2>1, <2>2, ItemTallyKept DEF Recorded, task
    <2> QED
      BY <2>1, <2>3, TallyMoves DEF task
  <1>5. CASE Batch!PublishItem(t, i)
    <2> DEFINE new == [task EXCEPT !.stage = [task.stage EXCEPT ![i] = "over"]]
    <2>1. tasks' = [tasks EXCEPT ![t] = new] /\ task.stage[i] = "recorded"
      BY <1>1, <1>5 DEF Batch!PublishItem, TaskType, TaskFields
    <2>2. /\ new.next = task.next /\ new.stage = [task.stage EXCEPT ![i] = "over"]
          /\ new.kind = task.kind /\ new.units = task.units /\ new.final = task.final
          /\ new.ok = task.ok /\ new.fail = task.fail /\ new.total = task.total /\ new.cancelled = task.cancelled
      BY <1>1 DEF TaskType, TaskFields
    <2> HIDE DEF task, new
    <2>3. TallyOf(new)
      BY <1>1, <1>2, <2>1, <2>2, ItemTallyKept DEF Recorded, task
    <2> QED
      BY <2>1, <2>3, TallyMoves DEF task
  <1> QED
    BY <1>3, <1>4, <1>5

LEMMA RecordedTally ==
    ASSUME TasksType, TallyInv, NEW t \in Task, NEW i \in DOMAIN tasks[t].stage, NEW success \in BOOLEAN,
           Batch!RecordItem(t, i, success)
    PROVE  TallyInv'
  <1> DEFINE task == tasks[t]
             delta == task.units[i]
             new == [task EXCEPT !.stage = [task.stage EXCEPT ![i] = "recorded"],
                                 !.ok = IF success THEN @ + delta ELSE @,
                                 !.fail = IF success THEN @ ELSE @ + delta]
  <1>1. TaskType(task) /\ t \in DOMAIN tasks /\ TallyOf(task)
    BY DEF TasksType, TallyInv
  <1>2. tasks' = [tasks EXCEPT ![t] = new] /\ task.stage[i] = "started" /\ task.final = "none"
    BY <1>1 DEF Batch!RecordItem, TaskType, TaskFields
  <1>3. /\ new.next = task.next /\ new.stage = [task.stage EXCEPT ![i] = "recorded"]
        /\ new.kind = task.kind /\ new.units = task.units /\ new.final = "none"
        /\ new.total = task.total /\ new.cancelled = task.cancelled
        /\ new.ok = IF success THEN task.ok + task.units[i] ELSE task.ok
        /\ new.fail = IF success THEN task.fail ELSE task.fail + task.units[i]
    BY <1>1, <1>2 DEF TaskType, TaskFields
  <1> HIDE DEF task, new
  <1>4. TallyOf(new)
    BY <1>1, <1>2, <1>3, ItemTallied DEF task
  <1> QED
    BY <1>2, <1>4, TallyMoves DEF task

(* A runner that ends well has started, not skipped and recorded every step. *)
LEMMA FinishedTally ==
    ASSUME TasksType, TallyInv, NEW t \in Task,
           \/ Batch!FinishBatch(t) \/ Batch!RunnerCancelled(t) \/ Batch!FinishSequential(t)
           \/ \E type \in {"done", "error"} : Batch!FinishImport(t, type)
    PROVE  TallyInv'
  <1> DEFINE task == tasks[t]
  <1>1. TaskType(task) /\ t \in DOMAIN tasks /\ TallyOf(task)
    BY DEF TasksType, TallyInv
  <1>2. task.pc = "run" /\ task.final = "none" /\ \A i \in DOMAIN task.stage : task.stage[i] \notin Working
    BY <1>1 DEF Batch!FinishBatch, Batch!RunnerCancelled, Batch!FinishSequential, Batch!FinishImport,
                Batch!Busy, Working, TaskType
  <1>3. PICK type \in {"done", "error", "cancelled"} :
           /\ Batch!Finishes(t, type)
           /\ type = "done" => /\ Batch!AllStarted(t)
                               /\ ~(task.cancelled /\ task.kind \in Skippers)
    <2>1. CASE Batch!FinishBatch(t)
      BY <2>1 DEF Batch!FinishBatch, Skippers
    <2>2. CASE Batch!RunnerCancelled(t)
      BY <2>2 DEF Batch!RunnerCancelled
    <2>3. CASE Batch!FinishSequential(t)
      BY <2>3 DEF Batch!FinishSequential, Skippers
    <2>4. CASE \E type \in {"done", "error"} : Batch!FinishImport(t, type)
      BY <2>4 DEF Batch!FinishImport, Skippers, Batch!Imports, Batch!Pooled
    <2> QED
      BY <2>1, <2>2, <2>3, <2>4
  <1> DEFINE new == [task EXCEPT !.pc = "publish", !.final = type]
  <1>4. tasks' = [tasks EXCEPT ![t] = new]
    BY <1>1, <1>3 DEF Batch!Finishes, TaskType, TaskFields
  <1>5. /\ new.next = task.next /\ new.stage = task.stage
        /\ new.kind = task.kind /\ new.units = task.units /\ new.final = type
        /\ new.ok = task.ok /\ new.fail = task.fail /\ new.total = task.total /\ new.cancelled = task.cancelled
    BY <1>1 DEF TaskType, TaskFields
  <1>6. ASSUME type = "done", NEW i \in DOMAIN task.stage PROVE task.stage[i] = "over"
    <2>1. i < task.next
      BY <1>1, <1>3, <1>6 DEF Batch!AllStarted, TaskType
    <2> QED
      BY <1>1, <1>2, <1>3, <1>6, <2>1 DEF TallyOf, Working
  <1> HIDE DEF task, new
  <1>7. TallyOf(new)
    BY <1>1, <1>2, <1>5, <1>6, TallyKept
  <1> QED
    BY <1>4, <1>7, TallyMoves DEF task

LEMMA EndedTally ==
    ASSUME TasksType, TallyInv, NEW t \in Task, Batch!PublishFinal(t) \/ Batch!ExpireTask(t) \/ Batch!Cancel(t)
    PROVE  TallyInv'
  <1> DEFINE task == tasks[t]
  <1>1. TaskType(task) /\ t \in DOMAIN tasks /\ TallyOf(task)
    BY DEF TasksType, TallyInv
  <1>2. PICK new : /\ tasks' = [tasks EXCEPT ![t] = new]
                   /\ \/ new = [task EXCEPT !.pc = "over"] \/ new = [task EXCEPT !.known = FALSE]
                      \/ new = [task EXCEPT !.cancelled = TRUE]
    BY <1>1 DEF Batch!PublishFinal, Batch!ExpireTask, Batch!Cancel, TaskType, TaskFields
  <1>3. /\ new.next = task.next /\ new.stage = task.stage
        /\ new.kind = task.kind /\ new.units = task.units /\ new.final = task.final
        /\ new.ok = task.ok /\ new.fail = task.fail /\ new.total = task.total
        /\ task.cancelled => new.cancelled
    BY <1>1, <1>2 DEF TaskType, TaskFields
  <1> HIDE DEF task
  <1>4. TallyOf(new)
    BY <1>1, <1>3, TallyKept
  <1> QED
    BY <1>2, <1>4, TallyMoves DEF task

LEMMA TallyStep == ASSUME BatchInv, TallyInv, Batch!Next PROVE TallyInv'
  <1>0. TasksType
    BY DEF BatchInv
  <1>1. ASSUME NEW t \in Task, NEW request \in Requests, Batch!Handle(t, request) PROVE TallyInv'
    <2>1. Batch!CreateTask(t, request)
      BY <1>1 DEF Batch!Handle, Batch!HandleNSFW, Batch!HandleRefresh, Batch!HandleCacheClear,
         Batch!HandleSync, Batch!HandleImport, Batch!HandleBuildImport, Batch!HandleBilling,
         Batch!HandleRenew, Batch!HandleCleanup
    <2> QED
      BY <1>0, <2>1, CreatedTally
  <1>2. ASSUME NEW t \in Task, Batch!RunStep(t) \/ Batch!Cancel(t) PROVE TallyInv'
    <2>1. CASE Batch!StartItem(t)
      BY <1>0, <2>1, StartedTally
    <2>2. ASSUME NEW i \in DOMAIN tasks[t].stage, Batch!ItemStep(t, i) PROVE TallyInv'
      BY <1>0, <2>2, SkippedTally, RecordedTally DEF Batch!ItemStep
    <2>3. CASE \/ Batch!FinishBatch(t) \/ Batch!RunnerCancelled(t) \/ Batch!FinishSequential(t)
               \/ \E type \in {"done", "error"} : Batch!FinishImport(t, type)
      BY <1>0, <2>3, FinishedTally
    <2>4. CASE Batch!PublishFinal(t) \/ Batch!ExpireTask(t) \/ Batch!Cancel(t)
      BY <1>0, <2>4, EndedTally
    <2> QED
      BY <1>2, <2>1, <2>2, <2>3, <2>4 DEF Batch!RunStep
  <1>3. ASSUME tasks' = tasks PROVE TallyInv'
    BY <1>3 DEF TallyInv
  <1>4. ASSUME NEW t \in Task, Batch!TakeSnapshot(t) PROVE TallyInv'
    BY <1>3, <1>4 DEF Batch!TakeSnapshot
  <1>5. ASSUME NEW w \in Watcher,
               \/ Batch!StreamStep(w) \/ Batch!Disconnect(w)
               \/ \E t \in Task : Batch!Attach(w, t) \/ Batch!ShowPersisted(w, t)
        PROVE  TallyInv'
    BY <1>3, <1>5 DEF Batch!StreamStep, Batch!LookForFinal, Batch!ReadEvent, Batch!Disconnect, Batch!Attach,
                      Batch!ShowPersisted
  <1>6. ASSUME NEW copy \in Batch!BagToSet(copies), Batch!WriteSnapshot(copy) \/ Batch!WriteFails(copy)
        PROVE  TallyInv'
    BY <1>3, <1>6 DEF Batch!WriteSnapshot, Batch!WriteFails
  <1> QED
    BY <1>1, <1>2, <1>4, <1>5, <1>6 DEF Batch!Next

(* However many workers, requests, cancellations and failures interleave, a   *)
(* task never counts more than its total, and one that reports "done" has     *)
(* counted every token exactly once, with no item at work (Record, Finish,    *)
(* runAdminBatchTaskItem): for any sizes of tasks and chunks.                 *)
THEOREM TallyStaysExact == Spec => []TallyIsExact
  <1>1. Init => BatchInv /\ TallyInv
    BY BatchInit, NoTaskTally DEF Init, Batch!Init, TallyInv
  <1>2. BatchInv /\ [Next]_vars => BatchInv'
    BY BatchInvStep
  <1>3. BatchInv /\ TallyInv /\ [Next]_vars => TallyInv'
    <2> SUFFICES ASSUME BatchInv, TallyInv, [Next]_vars PROVE TallyInv'
      OBVIOUS
    <2>1. CASE UNCHANGED batchVars
      BY <2>1 DEF batchVars, TallyInv
    <2>2. CASE Batch!Next
      BY <2>2, TallyStep
    <2> QED
      BY <2>1, <2>2 DEF Next, vars, InBuild, InChat, InSummary, InRounds, InBatch
  <1>4. BatchInv /\ TallyInv => TallyIsExact
    <2> SUFFICES ASSUME BatchInv, TallyInv, NEW t \in Task
                 PROVE  /\ Batch!Processed(t) <= tasks[t].total
                        /\ tasks[t].final = "done" => Batch!Processed(t) = tasks[t].total
                        /\ tasks[t].pc \in {"publish", "over"} => Batch!Busy(t) = {}
      BY DEF TallyIsExact, Batch!TallyIsExact
    <2> DEFINE task == tasks[t]
               n == Len(task.units)
    <2>1. TaskType(task) /\ TallyOf(task)
      BY DEF BatchInv, TasksType, TallyInv
    <2>2. /\ Counts(task.units) /\ task.ok + task.fail = Batch!SumOf(Weights(task))
          /\ task.total = Batch!SumOf(task.units) /\ n \in Nat /\ DOMAIN task.stage = 1 .. n
      BY <2>1 DEF TallyOf, TaskType
    <2>3. /\ Len(Weights(task)) = n /\ Counts(Weights(task))
          /\ \A i \in 1 .. n : Weights(task)[i] = IF task.stage[i] \in Recorded THEN task.units[i] ELSE 0
      BY <2>2, WeightsCount
    <2>4. \A i \in 1 .. n : Weights(task)[i] <= task.units[i]
      BY <2>2, <2>3 DEF Counts
    <2>5. Batch!Processed(t) <= tasks[t].total
      BY <2>2, <2>3, <2>4, SumIsMonotone DEF Batch!Processed
    <2>6. ASSUME task.final = "done" PROVE Batch!Processed(t) = tasks[t].total
      <3>1. \A i \in 1 .. n : task.units[i] <= Weights(task)[i]
        BY <2>1, <2>2, <2>3, <2>6 DEF Counts, TallyOf, Recorded
      <3>2. Batch!SumOf(task.units) <= Batch!SumOf(Weights(task)) /\ Batch!SumOf(Weights(task)) <= Batch!SumOf(task.units)
            /\ Batch!SumOf(Weights(task)) \in Nat /\ Batch!SumOf(task.units) \in Nat
        BY <2>2, <2>3, <2>4, <3>1, SumIsMonotone
      <3> QED
        BY <2>2, <3>2 DEF Batch!Processed
    <2>7. ASSUME task.pc \in {"publish", "over"} PROVE Batch!Busy(t) = {}
      BY <2>1, <2>7 DEF TaskType, Batch!Busy, Working
    <2> QED
      BY <2>5, <2>6, <2>7
  <1> QED
    BY <1>1, <1>2, <1>3, <1>4, PTL DEF Spec

-----------------------------------------------------------------------------
(* The stream of Build.  The filter has dropped exactly the hidden items, so *)
(* the index of a visible one never changes and no two have the same; until  *)
(* the collector has finished it keeps every visible call once, with as many *)
(* arguments as were sent, as deltas and as a whole.                         *)
Item == [kind : Build!Kind, chunks : Nat, open : BOOLEAN, textDone : BOOLEAN]
Tool == [index : Int, item : Nat, args : Nat, parts : Nat]
Before(i) == {d \in dropped : d < i}

ItemsType ==
    /\ items \in Seq(Item) /\ Len(items) <= MaxItems
    /\ DOMAIN route = {"injected", "filter", "declared"} /\ route.injected \subseteq {"web_search", "x_search"}
    /\ dropped = {i \in 1 .. Len(items) : Build!Hidden(i)}
    /\ frames \in {"none", "error", "tool_calls", "stop", "nothing"}
ShownRightly ==
    \A s \in seen : s[1] \in 1 .. Len(items) /\ s[1] \notin dropped /\ s[2] = Build!CompactOutputIndex(s[1])
ToolsType ==
    /\ DOMAIN parsed = {"text", "tools", "failed", "finished"}
    /\ parsed.tools \in Seq(Tool)
    /\ \A n \in 1 .. Len(parsed.tools) :
          LET tool == parsed.tools[n] IN
          /\ tool.item \in 1 .. Len(items) /\ tool.item \notin dropped /\ Build!IsTool(items[tool.item].kind)
          /\ tool.index = Build!CompactOutputIndex(tool.item)
    /\ \A m, n \in 1 .. Len(parsed.tools) : parsed.tools[m].item = parsed.tools[n].item => m = n
ToolsAreWhole ==
    ~parsed.finished =>
        /\ \A n \in 1 .. Len(parsed.tools) :
              LET tool == parsed.tools[n] IN
              tool.args = items[tool.item].chunks /\ tool.parts = items[tool.item].chunks
        /\ \A i \in 1 .. Len(items) : i \notin dropped /\ Build!IsTool(items[i].kind) =>
              \E n \in 1 .. Len(parsed.tools) : parsed.tools[n].item = i
BuildInv == ItemsType /\ ShownRightly /\ ToolsType /\ ToolsAreWhole

(* When the collector has finished, that was so of the items as it left them; *)
(* and it only finishes before the upstream ends where a text has ended.      *)
Among(all) == 1 .. Len(all)
TextEndsAt(i) ==
    /\ items' = [items EXCEPT ![i].textDone = TRUE] /\ i \in 1 .. Len(items) /\ items[i].kind = "message"
    /\ parsed'.tools = parsed.tools /\ dropped' = dropped
Finished(tools, all) ==
    /\ Len(all) \in Nat /\ DOMAIN all = 1 .. Len(all) /\ Len(all) <= Len(items)
    /\ \A i \in Among(all) : all[i].kind = items[i].kind
    /\ \A n \in Among(tools) :
          /\ tools[n].item \in Among(all)
          /\ tools[n].args = all[tools[n].item].chunks /\ tools[n].parts = all[tools[n].item].chunks
    /\ \A i \in Among(all) : i \notin dropped /\ Build!IsTool(all[i].kind) =>
          \E n \in Among(tools) : tools[n].item = i
    /\ (taken # items \/ outcome = "open") => Build!TextEnded
FinishInv == IF parsed.finished THEN Finished(parsed.tools, taken) ELSE taken = items

(* Indexes of visible items.                                                 *)
LEMMA BuildCount == \A S : IsFiniteSet(S) => Build!Cardinality(S) = Cardinality(S) /\ Cardinality(S) \in Nat
  <1> SUFFICES ASSUME NEW S, IsFiniteSet(S) PROVE Build!Cardinality(S) = Cardinality(S) /\ Cardinality(S) \in Nat
    OBVIOUS
  <1>1. Build!Cardinality(S) = Cardinality(S)
    BY DEF Build!Cardinality, Cardinality
  <1> QED
    BY <1>1, FS_CardinalityType

LEMMA CompactIsStrict ==
    ASSUME NEW D, NEW n \in Nat, D \subseteq 1 .. n, NEW i \in 1 .. n, NEW j \in 1 .. n, i < j, i \notin D
    PROVE  /\ IsFiniteSet({d \in D : d < i})
           /\ i - Cardinality({d \in D : d < i}) \in 1 .. n
           /\ i - Cardinality({d \in D : d < i}) < j - Cardinality({d \in D : d < j})
  <1> DEFINE A == {d \in D : d < i}
             B == {d \in D : d < j}
             C == (i + 1) .. (j - 1)
  <1>1. /\ IsFiniteSet(1 .. (i - 1)) /\ Cardinality(1 .. (i - 1)) = i - 1
        /\ IsFiniteSet(C) /\ Cardinality(C) = j - i - 1
    BY FS_Interval
  <1>2. A \in SUBSET (1 .. (i - 1)) /\ B \in SUBSET (A \cup C)
    <2>1. \A d \in D : d \in Int /\ 1 <= d
      OBVIOUS
    <2>2. i \in Int /\ j \in Int
      OBVIOUS
    <2>3. \A d \in A : d \in 1 .. (i - 1)
      BY <2>1, <2>2
    <2>4. \A d \in B : d \in A \cup C
      BY <2>1, <2>2
    <2> QED
      BY <2>3, <2>4
  <1>3. IsFiniteSet(A) /\ Cardinality(A) <= i - 1 /\ Cardinality(A) \in Nat
    BY <1>1, <1>2, FS_Subset, FS_CardinalityType
  <1>4. /\ IsFiniteSet(A \cup C) /\ Cardinality(A \cup C) = Cardinality(A) + Cardinality(C) - Cardinality(A \cap C)
        /\ Cardinality(A \cap C) \in Nat /\ Cardinality(A \cup C) \in Nat
    <2>1. IsFiniteSet(A \cup C) /\ Cardinality(A \cup C) = Cardinality(A) + Cardinality(C) - Cardinality(A \cap C)
      BY <1>1, <1>3, FS_Union
    <2>2. A \cap C \in SUBSET A
      OBVIOUS
    <2>3. IsFiniteSet(A \cap C)
      BY <1>3, <2>2, FS_Subset
    <2> QED
      BY <2>1, <2>3, FS_CardinalityType
  <1>5. IsFiniteSet(B) /\ Cardinality(B) <= Cardinality(A \cup C) /\ Cardinality(B) \in Nat
    BY <1>2, <1>4, FS_Subset, FS_CardinalityType
  <1>6. Cardinality(A \cup C) <= Cardinality(A) + (j - i - 1)
    BY <1>1, <1>3, <1>4
  <1> HIDE DEF A, B, C
  <1>7. i - Cardinality(A) \in 1 .. n /\ i - Cardinality(A) < j - Cardinality(B)
    BY <1>3, <1>4, <1>5, <1>6
  <1> QED
    BY <1>3, <1>7 DEF A, B

LEMMA IndexIsPositive ==
    ASSUME NEW D, NEW n \in Nat, D \subseteq 1 .. n, NEW i \in 1 .. n
    PROVE  IsFiniteSet({d \in D : d < i}) /\ i - Cardinality({d \in D : d < i}) \in 1 .. n
  <1> DEFINE A == {d \in D : d < i}
  <1>1. IsFiniteSet(1 .. (i - 1)) /\ Cardinality(1 .. (i - 1)) = i - 1
    BY FS_Interval
  <1>2. A \in SUBSET (1 .. (i - 1))
    <2>1. \A d \in D : d \in Int /\ 1 <= d
      OBVIOUS
    <2>2. i \in Int
      OBVIOUS
    <2>3. \A d \in A : d \in 1 .. (i - 1)
      BY <2>1, <2>2
    <2> QED
      BY <2>3
  <1>3. IsFiniteSet(A) /\ Cardinality(A) <= i - 1 /\ Cardinality(A) \in Nat
    BY <1>1, <1>2, FS_Subset, FS_CardinalityType
  <1> HIDE DEF A
  <1>4. i - Cardinality(A) \in 1 .. n
    BY <1>3
  <1> QED
    BY <1>3, <1>4 DEF A

LEMMA IndexesDiffer ==
    ASSUME NEW D, NEW n \in Nat, D \subseteq 1 .. n, NEW i \in 1 .. n, NEW j \in 1 .. n, i \notin D, j \notin D,
           i - Build!Cardinality({d \in D : d < i}) = j - Build!Cardinality({d \in D : d < j})
    PROVE  i = j
  <1>1. IsFiniteSet({d \in D : d < i}) /\ IsFiniteSet({d \in D : d < j})
    BY IndexIsPositive
  <1>2. /\ i - Cardinality({d \in D : d < i}) = j - Cardinality({d \in D : d < j})
        /\ Cardinality({d \in D : d < i}) \in Nat /\ Cardinality({d \in D : d < j}) \in Nat
    BY <1>1, BuildCount
  <1>3. ASSUME i < j PROVE FALSE
    <2>1. i - Cardinality({d \in D : d < i}) < j - Cardinality({d \in D : d < j})
      BY <1>3, CompactIsStrict
    <2> QED
      BY <1>2, <2>1
  <1>4. ASSUME j < i PROVE FALSE
    <2>1. j - Cardinality({d \in D : d < j}) < i - Cardinality({d \in D : d < i})
      BY <1>4, CompactIsStrict
    <2> QED
      BY <1>2, <2>1
  <1> QED
    BY <1>3, <1>4

LEMMA IndexType ==
    ASSUME NEW D, NEW n \in Nat, D \subseteq 1 .. n, NEW i \in 1 .. n
    PROVE  i - Build!Cardinality({d \in D : d < i}) \in 1 .. n
  BY IndexIsPositive, BuildCount

(* The place of the tool with an index, 0 when there is none.                *)
ToolAt(tools, index) ==
    LET places == {m \in 1 .. Len(tools) : tools[m].index = index}
    IN  IF places # {} THEN Build!Min(places) ELSE 0

LEMMA Selected ==
    ASSUME NEW tools \in Seq(Tool), NEW index
    PROVE  IF \E m \in 1 .. Len(tools) : tools[m].index = index
           THEN ToolAt(tools, index) \in 1 .. Len(tools) /\ tools[ToolAt(tools, index)].index = index
           ELSE ToolAt(tools, index) = 0
  <1> DEFINE places == {m \in 1 .. Len(tools) : tools[m].index = index}
  <1>1. ASSUME places # {} PROVE Build!Min(places) \in places
    <2>1. places \subseteq Nat
      OBVIOUS
    <2>2. \E m \in places : \A n \in places : m <= n
      BY <1>1, <2>1, LeastNumber
    <2> QED
      BY <2>2 DEF Build!Min
  <1> QED
    BY <1>1 DEF ToolAt

(* What every event of an item leaves: the items before it and their indexes. *)
SameIndexes ==
    /\ Len(items') \in Nat /\ Len(items) <= Len(items') /\ Len(items') <= Len(items) + 1
    /\ \A j \in 1 .. Len(items) : items'[j].kind = items[j].kind /\ (j \in dropped' <=> j \in dropped)
    /\ \A j \in 1 .. Len(items') : Build!CompactOutputIndex(j)' = Build!CompactOutputIndex(j)

LEMMA ItemsKept ==
    ASSUME ItemsType, NEW i \in 1 .. Len(items), NEW item \in Item, item.kind = items[i].kind,
           items' = [items EXCEPT ![i] = item], NEW carries, dropped' = Build!Dropped(i, carries),
           UNCHANGED <<route, frames>>
    PROVE  /\ ItemsType' /\ SameIndexes /\ dropped' = dropped /\ Len(items') = Len(items) /\ items'[i] = item
           /\ \A j \in 1 .. Len(items) : j # i => items'[j] = items[j]
  <1>1. /\ items \in Seq(Item) /\ items' \in Seq(Item) /\ Len(items') = Len(items) /\ items'[i] = item
        /\ \A j \in 1 .. Len(items) : j # i => items'[j] = items[j]
    BY DEF ItemsType
  <1>2. \A j \in 1 .. Len(items) : items'[j].kind = items[j].kind
    BY <1>1
  <1>3. \A j \in 1 .. Len(items) : Build!Hidden(j)' <=> Build!Hidden(j)
    BY <1>2 DEF Build!Hidden, Build!NeedsResponseFilter, Build!IsInternalCall
  <1>4. dropped' = dropped
    <2>1. Build!IsInternalCall(items'[i].kind) /\ Build!NeedsResponseFilter => i \in dropped
      BY <1>2 DEF ItemsType, Build!Hidden
    <2> QED
      BY <2>1 DEF Build!Dropped
  <1>5. dropped' = {j \in 1 .. Len(items') : Build!Hidden(j)'}
    BY <1>1, <1>3, <1>4 DEF ItemsType
  <1>6. ItemsType'
    BY <1>1, <1>5 DEF ItemsType
  <1>7. SameIndexes
    BY <1>1, <1>2, <1>4 DEF SameIndexes, Build!CompactOutputIndex
  <1> QED
    BY <1>1, <1>4, <1>6, <1>7

LEMMA ItemAdded ==
    ASSUME ItemsType, NEW item \in Item, NEW n, n = Len(items), n < MaxItems, items' = Append(items, item),
           dropped' = Build!Dropped(n + 1, TRUE), UNCHANGED <<route, frames>>
    PROVE  /\ ItemsType' /\ SameIndexes /\ Len(items') = n + 1 /\ items'[n + 1] = item
           /\ \A j \in 1 .. n : items'[j] = items[j]
  <1>1. /\ n \in Nat /\ items' \in Seq(Item) /\ Len(items') = n + 1 /\ items'[n + 1] = item
        /\ \A j \in 1 .. n : items'[j] = items[j]
    BY DEF ItemsType
  <1>2. \A j \in 1 .. n : Build!Hidden(j)' <=> Build!Hidden(j)
    BY <1>1 DEF Build!Hidden, Build!NeedsResponseFilter, Build!IsInternalCall
  <1>3. dropped = {j \in 1 .. n : Build!Hidden(j)}
    BY DEF ItemsType
  <1>4. dropped' = IF Build!Hidden(n + 1)' THEN dropped \cup {n + 1} ELSE dropped
    BY DEF Build!Dropped, Build!Hidden, Build!NeedsResponseFilter, Build!IsInternalCall
  <1>a. Len(items') <= MaxItems
    BY <1>1, BuildAssumption
  <1>5. dropped' = {j \in 1 .. n + 1 : Build!Hidden(j)'}
    <2>1. \A j \in 1 .. n + 1 : j \in 1 .. n \/ j = n + 1
      BY <1>1
    <2>2. \A j \in 1 .. n : j \in 1 .. n + 1 /\ j # n + 1
      BY <1>1
    <2>3. n + 1 \in 1 .. n + 1
      BY <1>1
    <2> QED
      BY <1>2, <1>3, <1>4, <2>1, <2>2, <2>3
  <1>6. ItemsType'
    BY <1>1, <1>5, <1>a DEF ItemsType
  <1>7. \A j \in 1 .. n + 1 : {d \in dropped' : d < j} = {d \in dropped : d < j}
    <2>1. \A j \in 1 .. n + 1 : ~(n + 1 < j)
      BY <1>1
    <2> QED
      BY <1>4, <2>1
  <1>8. \A j \in 1 .. n : j \in dropped' <=> j \in dropped
    <2>1. \A j \in 1 .. n : j # n + 1
      BY <1>1
    <2> QED
      BY <1>4, <2>1
  <1>9. SameIndexes
    <2>1. \A j \in 1 .. n + 1 : Build!CompactOutputIndex(j)' = Build!CompactOutputIndex(j)
      BY <1>7 DEF Build!CompactOutputIndex
    <2>2. \A j \in 1 .. n : items'[j].kind = items[j].kind
      BY <1>1
    <2>3. n + 1 \in Nat /\ n <= n + 1
      BY <1>1
    <2>4. \A j \in 1 .. Len(items') : Build!CompactOutputIndex(j)' = Build!CompactOutputIndex(j)
      BY <1>1, <2>1
    <2>5. \A j \in 1 .. Len(items) : items'[j].kind = items[j].kind /\ (j \in dropped' <=> j \in dropped)
      BY <1>1, <1>8, <2>2
    <2>6. Len(items') \in Nat /\ Len(items) <= Len(items') /\ Len(items') <= Len(items) + 1
      BY <1>1, <2>3
    <2> QED
      BY <2>4, <2>5, <2>6 DEF SameIndexes
  <1> QED
    BY <1>1, <1>6, <1>9

(* What the collector is shown.                                              *)
LEMMA ShownStep ==
    ASSUME BuildInv, ItemsType', SameIndexes, NEW i \in 1 .. Len(items'), NEW new, Build!Collects(i, new)
    PROVE  ShownRightly'
  <1>1. seen' = seen \/ (i \notin dropped' /\ seen' = seen \cup {<<i, Build!CompactOutputIndex(i)>>})
    BY DEF Build!Collects
  <1>2. ASSUME NEW s \in seen
        PROVE  s[1] \in 1 .. Len(items') /\ s[1] \notin dropped' /\ s[2] = Build!CompactOutputIndex(s[1])'
    <2>1. s[1] \in 1 .. Len(items) /\ s[1] \notin dropped /\ s[2] = Build!CompactOutputIndex(s[1])
      BY DEF BuildInv, ShownRightly
    <2>2. s[1] \in 1 .. Len(items') /\ s[1] \notin dropped'
      BY <2>1 DEF SameIndexes
    <2> QED
      BY <2>1, <2>2 DEF SameIndexes
  <1>3. i \notin dropped' => \A s \in {<<i, Build!CompactOutputIndex(i)>>} :
            s[1] \in 1 .. Len(items') /\ s[1] \notin dropped' /\ s[2] = Build!CompactOutputIndex(s[1])'
    BY DEF SameIndexes
  <1>4. \A s \in seen' : s[1] \in 1 .. Len(items') /\ s[1] \notin dropped' /\ s[2] = Build!CompactOutputIndex(s[1])'
    BY <1>1, <1>2, <1>3
  <1> QED
    BY <1>4 DEF ShownRightly

(* The tools when nothing is collected, or no tool changes.                  *)
LEMMA ToolsKept ==
    ASSUME BuildInv, ItemsType', SameIndexes, DOMAIN parsed' = DOMAIN parsed, parsed'.tools = parsed.tools,
           parsed.finished => parsed'.finished,
           ~parsed'.finished =>
              /\ \A n \in 1 .. Len(parsed.tools) :
                    items'[parsed.tools[n].item].chunks = items[parsed.tools[n].item].chunks
              /\ \A j \in 1 .. Len(items') : j \notin 1 .. Len(items) => j \in dropped' \/ ~Build!IsTool(items'[j].kind)
    PROVE  ToolsType' /\ ToolsAreWhole'
  <1> DEFINE tools == parsed.tools
  <1>1. /\ DOMAIN parsed = {"text", "tools", "failed", "finished"} /\ tools \in Seq(Tool)
        /\ \A n \in 1 .. Len(tools) :
              /\ tools[n].item \in 1 .. Len(items) /\ tools[n].item \notin dropped
              /\ Build!IsTool(items[tools[n].item].kind)
              /\ tools[n].index = Build!CompactOutputIndex(tools[n].item)
        /\ \A m, n \in 1 .. Len(tools) : tools[m].item = tools[n].item => m = n
    BY DEF BuildInv, ToolsType
  <1>2. ASSUME NEW n \in 1 .. Len(tools)
        PROVE  /\ tools[n].item \in 1 .. Len(items') /\ tools[n].item \notin dropped'
               /\ Build!IsTool(items'[tools[n].item].kind)
               /\ tools[n].index = Build!CompactOutputIndex(tools[n].item)'
    <2>1. tools[n].item \in 1 .. Len(items) /\ tools[n].item \in 1 .. Len(items')
      BY <1>1 DEF SameIndexes
    <2>2. items'[tools[n].item].kind = items[tools[n].item].kind
      BY <2>1 DEF SameIndexes
    <2> QED
      BY <1>1, <2>1, <2>2 DEF SameIndexes
  <1>3. ToolsType'
    BY <1>1, <1>2 DEF ToolsType, Build!IsTool
  <1>4. ASSUME ~parsed'.finished PROVE ToolsAreWhole'
    <2>1. ~parsed.finished
      BY <1>4
    <2>2. \A n \in 1 .. Len(tools) : /\ tools[n].args = items'[tools[n].item].chunks
                                     /\ tools[n].parts = items'[tools[n].item].chunks
      BY <1>4, <2>1 DEF BuildInv, ToolsAreWhole
    <2>3. ASSUME NEW j \in 1 .. Len(items'), j \notin dropped', Build!IsTool(items'[j].kind)
          PROVE  \E n \in 1 .. Len(tools) : tools[n].item = j
      <3>1. j \in 1 .. Len(items)
        BY <1>4, <2>3
      <3>2. j \notin dropped /\ items'[j].kind = items[j].kind
        BY <2>3, <3>1 DEF SameIndexes
      <3> QED
        BY <2>1, <2>3, <3>1, <3>2 DEF BuildInv, ToolsAreWhole
    <2> QED
      BY <2>2, <2>3 DEF ToolsAreWhole, Build!IsTool
  <1>5. parsed'.finished => ToolsAreWhole'
    BY DEF ToolsAreWhole
  <1> QED
    BY <1>3, <1>4, <1>5

(* One tool more, or another state of one tool.                              *)
OtherTool(i, n, tool, tools, after) ==
    /\ DOMAIN parsed' = DOMAIN parsed /\ ~parsed.finished /\ ~parsed'.finished
    /\ tools = parsed.tools /\ after = parsed'.tools
    /\ i \in 1 .. Len(items') /\ i \notin dropped' /\ Build!IsTool(items'[i].kind)
    /\ n \in 1 .. Len(after) /\ tool \in Tool
    /\ tool.item = i /\ tool.index = Build!CompactOutputIndex(i)
    /\ tool.args = items'[i].chunks /\ tool.parts = items'[i].chunks
    /\ \A j \in 1 .. Len(items) : j # i => items'[j] = items[j]
    /\ \/ /\ i \in 1 .. Len(items) /\ Len(items') = Len(items) /\ n \in 1 .. Len(tools)
          /\ tools[n].item = i /\ after = [tools EXCEPT ![n] = tool]
       \/ i = Len(items') /\ Len(items') = Len(items) + 1 /\ n = Len(tools) + 1 /\ after = Append(tools, tool)

LEMMA ToolChanged ==
    ASSUME BuildInv, ItemsType', SameIndexes, NEW i, NEW n, NEW tool, NEW tools, NEW after,
           OtherTool(i, n, tool, tools, after)
    PROVE  ToolsType' /\ ToolsAreWhole'
  <1> USE DEF OtherTool
  <1>1. /\ DOMAIN parsed = {"text", "tools", "failed", "finished"} /\ tools \in Seq(Tool)
        /\ \A m \in 1 .. Len(tools) :
              /\ tools[m].item \in 1 .. Len(items) /\ tools[m].item \notin dropped
              /\ Build!IsTool(items[tools[m].item].kind)
              /\ tools[m].index = Build!CompactOutputIndex(tools[m].item)
        /\ \A k, m \in 1 .. Len(tools) : tools[k].item = tools[m].item => k = m
    BY DEF BuildInv, ToolsType
  <1>2. /\ \A m \in 1 .. Len(tools) : /\ tools[m].args = items[tools[m].item].chunks
                                      /\ tools[m].parts = items[tools[m].item].chunks
        /\ \A j \in 1 .. Len(items) : j \notin dropped /\ Build!IsTool(items[j].kind) =>
              \E m \in 1 .. Len(tools) : tools[m].item = j
    BY DEF BuildInv, ToolsAreWhole
  <1>3. /\ after \in Seq(Tool) /\ after[n] = tool
        /\ \A m \in 1 .. Len(after) : m # n => m \in 1 .. Len(tools) /\ after[m] = tools[m]
        /\ \A m \in 1 .. Len(tools) : m \in 1 .. Len(after)
    <2>1. CASE n \in 1 .. Len(tools) /\ after = [tools EXCEPT ![n] = tool]
      <3>1. after \in Seq(Tool) /\ Len(after) = Len(tools) /\ after[n] = tool
        BY <1>1, <2>1
      <3> QED
        BY <1>1, <2>1, <3>1
    <2>2. CASE n = Len(tools) + 1 /\ after = Append(tools, tool)
      <3>1. after \in Seq(Tool) /\ Len(after) = Len(tools) + 1 /\ after[n] = tool
        BY <1>1, <2>2
      <3> QED
        BY <1>1, <2>2, <3>1
    <2> QED
      BY <2>1, <2>2
  <1>4. \A m \in 1 .. Len(after) : m # n => tools[m].item # i
    BY <1>1, <1>3 DEF ItemsType
  <1>5. ASSUME NEW m \in 1 .. Len(after)
        PROVE  /\ after[m].item \in 1 .. Len(items') /\ after[m].item \notin dropped'
               /\ Build!IsTool(items'[after[m].item].kind)
               /\ after[m].index = Build!CompactOutputIndex(after[m].item)'
               /\ after[m].args = items'[after[m].item].chunks /\ after[m].parts = items'[after[m].item].chunks
    <2>1. CASE m = n
      BY <1>3, <2>1 DEF SameIndexes
    <2>2. CASE m # n
      <3>0. PICK j : j = tools[m].item
        OBVIOUS
      <3>1. after[m] = tools[m] /\ m \in 1 .. Len(tools) /\ j # i
        BY <1>3, <1>4, <2>2, <3>0
      <3>2. /\ j \in 1 .. Len(items) /\ j \notin dropped /\ Build!IsTool(items[j].kind)
            /\ tools[m].index = Build!CompactOutputIndex(j)
            /\ tools[m].args = items[j].chunks /\ tools[m].parts = items[j].chunks
        BY <1>1, <1>2, <3>0, <3>1
      <3>3. j \in 1 .. Len(items') /\ items'[j] = items[j]
        BY <3>1, <3>2 DEF SameIndexes
      <3>4. j \notin dropped' /\ Build!CompactOutputIndex(j)' = Build!CompactOutputIndex(j)
        BY <3>2, <3>3 DEF SameIndexes
      <3> QED
        BY <3>1, <3>2, <3>3, <3>4, <3>0
    <2> QED
      BY <2>1, <2>2
  <1>6. \A k, m \in 1 .. Len(after) : after[k].item = after[m].item => k = m
    <2> SUFFICES ASSUME NEW k \in 1 .. Len(after), NEW m \in 1 .. Len(after), after[k].item = after[m].item
                 PROVE  k = m
      OBVIOUS
    <2>1. CASE k = n /\ m # n
      BY <1>3, <1>4, <2>1
    <2>2. CASE k # n /\ m = n
      BY <1>3, <1>4, <2>2
    <2>3. CASE k # n /\ m # n
      BY <1>1, <1>3, <2>3
    <2> QED
      BY <2>1, <2>2, <2>3
  <1>7. ToolsType'
    BY <1>1, <1>3, <1>5, <1>6 DEF ToolsType, Build!IsTool
  <1>8. ASSUME NEW j \in 1 .. Len(items'), j \notin dropped', Build!IsTool(items'[j].kind)
        PROVE  \E m \in 1 .. Len(after) : after[m].item = j
    <2>1. CASE j = i
      BY <1>3, <2>1
    <2>2. CASE j # i
      <3>1. j \in 1 .. Len(items)
        BY <1>8, <2>2 DEF ItemsType
      <3>2. items'[j] = items[j] /\ j \notin dropped
        BY <1>8, <2>2, <3>1 DEF SameIndexes
      <3>3. PICK m \in 1 .. Len(tools) : tools[m].item = j
        BY <1>2, <1>8, <3>1, <3>2
      <3>4. m \in 1 .. Len(after) /\ after[m].item = j
        <4>1. m \in 1 .. Len(after)
          BY <1>3
        <4>2. m # n
          BY <1>1, <2>2, <3>3
        <4> QED
          BY <1>3, <3>3, <4>1, <4>2
      <3> QED
        BY <3>4
    <2> QED
      BY <2>1, <2>2
  <1>9. ToolsAreWhole'
    BY <1>5, <1>8 DEF ToolsAreWhole, Build!IsTool
  <1> QED
    BY <1>7, <1>9

LEMMA NothingCollected ==
    ASSUME BuildInv, ItemsType', SameIndexes, NEW i \in 1 .. Len(items'), parsed' = parsed,
           i \in dropped' \/ parsed.finished,
           \A j \in 1 .. Len(items) : j # i => items'[j] = items[j],
           \A j \in 1 .. Len(items') : j \notin 1 .. Len(items) => j = i
    PROVE  ToolsType' /\ ToolsAreWhole'
  <1>1. ASSUME ~parsed.finished, NEW n \in 1 .. Len(parsed.tools)
        PROVE  items'[parsed.tools[n].item].chunks = items[parsed.tools[n].item].chunks
    <2>1. parsed.tools[n].item \in 1 .. Len(items) /\ parsed.tools[n].item \notin dropped
      BY DEF BuildInv, ToolsType
    <2>2. parsed.tools[n].item # i
      BY <1>1, <2>1 DEF SameIndexes
    <2> QED
      BY <2>1, <2>2
  <1> QED
    BY <1>1, ToolsKept

(* The call of an item whose index the collector knows.                      *)
LEMMA ToolOfItem ==
    ASSUME BuildInv, ~parsed.finished, NEW i \in 1 .. Len(items), i \notin dropped, Build!IsTool(items[i].kind),
           NEW index, index = Build!CompactOutputIndex(i)
    PROVE  /\ Build!Ensured(index, i) = parsed.tools
           /\ \E n \in 1 .. Len(parsed.tools) :
                 /\ ToolAt(parsed.tools, index) = n
                 /\ parsed.tools[n].item = i
  <1> DEFINE tools == parsed.tools
             n == ToolAt(tools, index)
  <1>1. /\ tools \in Seq(Tool)
        /\ \A m \in 1 .. Len(tools) :
              /\ tools[m].item \in 1 .. Len(items) /\ tools[m].item \notin dropped
              /\ tools[m].index = Build!CompactOutputIndex(tools[m].item)
    BY DEF BuildInv, ToolsType
  <1>2. PICK m \in 1 .. Len(tools) : tools[m].item = i
    BY DEF BuildInv, ToolsAreWhole
  <1>3. tools[m].index = index
    BY <1>1, <1>2
  <1>4. n \in 1 .. Len(tools) /\ tools[n].index = index
    BY <1>1, <1>3, Selected
  <1>5. tools[n].item = i
    <2>1. PICK j : j = tools[n].item
      OBVIOUS
    <2>2. /\ j \in 1 .. Len(items) /\ j \notin dropped
          /\ Build!CompactOutputIndex(j) = Build!CompactOutputIndex(i)
      BY <1>1, <1>4, <2>1
    <2>3. Len(items) \in Nat /\ dropped \subseteq 1 .. Len(items)
      BY DEF BuildInv, ItemsType
    <2>4. j - Build!Cardinality({d \in dropped : d < j}) = i - Build!Cardinality({d \in dropped : d < i})
      BY <2>2 DEF Build!CompactOutputIndex
    <2>5. j = i
      BY <2>2, <2>3, <2>4, IndexesDiffer
    <2> QED
      BY <2>1, <2>5
  <1>6. Build!Ensured(index, i) = tools
    <2>1. n # 0
      BY <1>1, <1>4
    <2> QED
      BY <2>1 DEF Build!Ensured, Build!Position, Build!SelectInSeq, ToolAt
  <1> QED
    BY <1>4, <1>5, <1>6

LEMMA NewTool ==
    ASSUME BuildInv, ItemsType', SameIndexes, ~parsed.finished, NEW i, i = Len(items) + 1, i = Len(items'), i \notin dropped',
           NEW index, index = Build!CompactOutputIndex(i)
    PROVE  LET fresh == [index |-> index, item |-> i, args |-> 0, parts |-> 0]
               after == Append(parsed.tools, fresh)
           IN  /\ Build!Ensured(index, i) = after
               /\ fresh \in Tool
               /\ ToolAt(after, index) = Len(parsed.tools) + 1
  <1> DEFINE tools == parsed.tools
             fresh == [index |-> index, item |-> i, args |-> 0, parts |-> 0]
             after == Append(tools, fresh)
             k == ToolAt(tools, index)
             n == ToolAt(after, index)
  <1>1. /\ tools \in Seq(Tool)
        /\ \A m \in 1 .. Len(tools) :
              /\ tools[m].item \in 1 .. Len(items) /\ tools[m].item \notin dropped
              /\ tools[m].index = Build!CompactOutputIndex(tools[m].item)
    BY DEF BuildInv, ToolsType
  <1>2. index = Build!CompactOutputIndex(i)' /\ i \in 1 .. Len(items')
    BY DEF SameIndexes, ItemsType
  <1>d. Len(items') \in Nat /\ dropped' \subseteq 1 .. Len(items')
    BY DEF ItemsType
  <1>3. ASSUME NEW m \in 1 .. Len(tools) PROVE tools[m].index # index
    <2>1. PICK j \in 1 .. Len(items) : j = tools[m].item
      BY <1>1
    <2>2. j # i /\ j \in 1 .. Len(items') /\ j \notin dropped'
      BY <1>1, <2>1 DEF SameIndexes
    <2>3. Build!CompactOutputIndex(j)' = tools[m].index
      BY <1>1, <2>1, <2>2 DEF SameIndexes
    <2> QED
      BY <1>2, <1>d, <2>2, <2>3, IndexesDiffer DEF Build!CompactOutputIndex
  <1>4. k = 0
    <2>1. ~ \E m \in 1 .. Len(tools) : tools[m].index = index
      BY <1>3
    <2>2. IF \E m \in 1 .. Len(tools) : tools[m].index = index
          THEN k \in 1 .. Len(tools) /\ tools[k].index = index ELSE k = 0
      BY <1>1, Selected
    <2> QED
      BY <2>1, <2>2
  <1>5. Build!Ensured(index, i) = after
    BY <1>4 DEF Build!Ensured, Build!Position, Build!SelectInSeq, ToolAt
  <1>6. fresh \in Tool
    <2>1. Build!CompactOutputIndex(i)' \in 1 .. Len(items')
      BY <1>2, <1>d, IndexType DEF Build!CompactOutputIndex
    <2> QED
      BY <1>2, <2>1 DEF Tool
  <1> HIDE DEF fresh
  <1>7. /\ after \in Seq(Tool) /\ Len(after) = Len(tools) + 1 /\ after[Len(tools) + 1] = fresh
        /\ \A m \in 1 .. Len(tools) : after[m] = tools[m]
    BY <1>1, <1>6
  <1>8. fresh.index = index
    BY DEF fresh
  <1>9. n = Len(tools) + 1
    <2>1. Len(tools) + 1 \in 1 .. Len(after)
      BY <1>1, <1>7
    <2>2. n \in 1 .. Len(after) /\ after[n].index = index
      <3>1. IF \E m \in 1 .. Len(after) : after[m].index = index
            THEN n \in 1 .. Len(after) /\ after[n].index = index ELSE n = 0
        <4> HIDE DEF after
        <4>1. after \in Seq(Tool)
          BY <1>7
        <4>2. n = ToolAt(after, index)
          OBVIOUS
        <4> HIDE DEF n
        <4> QED
          BY <4>1, <4>2, Selected
      <3>2. after[Len(tools) + 1].index = index
        BY <1>7, <1>8
      <3> QED
        BY <2>1, <3>1, <3>2
    <2>3. n \notin 1 .. Len(tools)
      BY <1>3, <1>7, <2>2
    <2> HIDE DEF n, after
    <2>4. Len(after) = Len(tools) + 1 /\ Len(tools) \in Nat
      BY <1>1, <1>7
    <2>5. n \in 1 .. Len(tools) + 1
      BY <2>2, <2>4
    <2> QED
      BY <2>3, <2>4, <2>5
  <1> QED
    BY <1>5, <1>6, <1>9 DEF fresh

(* The events, one by one.                                                   *)
LEMMA EventStep ==
    ASSUME BuildInv, ItemsType', SameIndexes, NEW i \in 1 .. Len(items'), NEW new, Build!Collects(i, new),
           ToolsType', ToolsAreWhole'
    PROVE  BuildInv'
  BY ShownStep DEF BuildInv

LEMMA ItemApplied ==
    ASSUME NEW index, NEW i, NEW args, NEW tools, tools = Build!Ensured(index, i), NEW n, n = ToolAt(tools, index)
    PROVE  LET new == [parsed EXCEPT !.tools = [tools EXCEPT ![n] =
                          IF args > 0 THEN [tools[n] EXCEPT !.args = args] ELSE tools[n]]]
           IN  Build!ApplyToolOutputItem(index, i, args) = new /\ Build!ApplyToolArgsDone(index, i, args) = new
  BY DEF Build!ApplyToolOutputItem, Build!ApplyToolArgsDone, Build!WithTool, Build!SelectInSeq, ToolAt

LEMMA SameFunction == ASSUME NEW S, NEW f \in Seq(S), NEW n PROVE [f EXCEPT ![n] = f[n]] = f
  OBVIOUS

LEMMA AddedStep == ASSUME BuildInv, NEW kind \in Build!Kind, Build!OutputItemAdded(kind) PROVE BuildInv'
  <1> DEFINE item == [kind |-> kind, chunks |-> 0, open |-> TRUE, textDone |-> FALSE]
  <1>0. PICK n : n = Len(items)
    OBVIOUS
  <1>1. PICK i : i = n + 1
    OBVIOUS
  <1>2. PICK index : index = Build!CompactOutputIndex(i)
    OBVIOUS
  <1> DEFINE new == IF Build!IsTool(kind) THEN Build!ApplyToolOutputItem(index, i, 0) ELSE parsed
  <1>3. /\ n < MaxItems /\ items' = Append(items, item) /\ dropped' = Build!Dropped(n + 1, TRUE)
        /\ Build!Collects(i, new) /\ UNCHANGED <<route, outcome, frames>>
    BY <1>0, <1>1, <1>2 DEF Build!OutputItemAdded, Build!Collects
  <1>4. item \in Item /\ item.kind = kind /\ item.chunks = 0
    BY DEF Item
  <1> HIDE DEF item
  <1>5. /\ ItemsType' /\ SameIndexes /\ Len(items') = n + 1 /\ items'[n + 1] = item
        /\ \A j \in 1 .. n : items'[j] = items[j]
    BY <1>0, <1>3, <1>4, ItemAdded DEF BuildInv
  <1>6. /\ n \in Nat /\ i \in 1 .. Len(items') /\ items'[i] = item
        /\ \A j \in 1 .. Len(items) : j # i => items'[j] = items[j]
        /\ \A j \in 1 .. Len(items') : j \notin 1 .. Len(items) => j = i
    BY <1>0, <1>1, <1>5 DEF BuildInv, ItemsType
  <1>7. CASE i \in dropped' \/ parsed.finished
    <2>1. parsed' = parsed
      BY <1>3, <1>7 DEF Build!Collects
    <2>2. ToolsType' /\ ToolsAreWhole'
      BY <1>5, <1>6, <1>7, <2>1, NothingCollected
    <2> QED
      BY <1>3, <1>5, <1>6, <2>2, EventStep
  <1>8. CASE i \notin dropped' /\ ~parsed.finished /\ ~Build!IsTool(kind)
    <2>1. parsed' = parsed
      BY <1>3, <1>8 DEF Build!Collects
    <2>2. \A m \in 1 .. Len(parsed.tools) : items'[parsed.tools[m].item] = items[parsed.tools[m].item]
      BY <1>0, <1>5 DEF BuildInv, ToolsType
    <2>3. ToolsType' /\ ToolsAreWhole'
      BY <1>4, <1>5, <1>6, <1>8, <2>1, <2>2, ToolsKept
    <2> QED
      BY <1>3, <1>5, <1>6, <2>3, EventStep
  <1>9. CASE i \notin dropped' /\ ~parsed.finished /\ Build!IsTool(kind)
    <2>1. PICK tool : tool = [index |-> index, item |-> i, args |-> 0, parts |-> 0]
      OBVIOUS
    <2>2. PICK tools : tools = parsed.tools
      OBVIOUS
    <2>3. PICK after : after = Append(tools, tool)
      OBVIOUS
    <2>4. Build!Ensured(index, i) = after /\ tool \in Tool /\ ToolAt(after, index) = Len(tools) + 1
      BY <1>0, <1>1, <1>2, <1>5, <1>9, <2>1, <2>2, <2>3, NewTool
    <2>5. /\ tools \in Seq(Tool) /\ DOMAIN parsed = {"text", "tools", "failed", "finished"}
          /\ Len(tools) + 1 \in 1 .. Len(after) /\ after[Len(tools) + 1] = tool
      BY <2>2, <2>3, <2>4 DEF BuildInv, ToolsType
    <2>6. parsed' = [parsed EXCEPT !.tools = after]
      <3>1. parsed' = Build!ApplyToolOutputItem(index, i, 0)
        BY <1>3, <1>9 DEF Build!Collects
      <3>2. PICK m : m = ToolAt(after, index)
        OBVIOUS
      <3>3. [after EXCEPT ![m] = IF 0 > 0 THEN [after[m] EXCEPT !.args = 0] ELSE after[m]] = after
        <4>1. after \in Seq(Tool)
          BY <2>3, <2>4, <2>5
        <4> QED
          BY <4>1, SameFunction
      <3>4. Build!ApplyToolOutputItem(index, i, 0)
               = [parsed EXCEPT !.tools = [after EXCEPT ![m] = IF 0 > 0 THEN [after[m] EXCEPT !.args = 0] ELSE after[m]]]
        BY <2>4, <3>2, ItemApplied
      <3> QED
        BY <3>1, <3>3, <3>4
    <2>8. DOMAIN parsed' = DOMAIN parsed /\ parsed'.tools = after /\ parsed'.finished = parsed.finished
      BY <2>5, <2>6
    <2>9. ToolsType' /\ ToolsAreWhole'
      <3>1. tool.item = i /\ tool.index = Build!CompactOutputIndex(i) /\ tool.args = 0 /\ tool.parts = 0
        BY <1>2, <2>1
      <3>2. i = Len(items') /\ Len(items') = Len(items) + 1
        BY <1>0, <1>1, <1>5
      <3>3. PICK m \in 1 .. Len(after) : m = Len(tools) + 1
        BY <2>5
      <3>4. \/ /\ i \in 1 .. Len(items) /\ Len(items') = Len(items) /\ m \in 1 .. Len(tools)
               /\ tools[m].item = i /\ after = [tools EXCEPT ![m] = tool]
            \/ i = Len(items') /\ Len(items') = Len(items) + 1 /\ m = Len(tools) + 1 /\ after = Append(tools, tool)
        BY <2>3, <3>2, <3>3
      <3>5. /\ DOMAIN parsed' = DOMAIN parsed /\ ~parsed.finished /\ ~parsed'.finished
            /\ tools = parsed.tools /\ after = parsed'.tools
            /\ tool \in Tool /\ i \in 1 .. Len(items') /\ i \notin dropped' /\ Build!IsTool(items'[i].kind)
            /\ tool.args = items'[i].chunks /\ tool.parts = items'[i].chunks
        BY <1>4, <1>6, <1>9, <2>2, <2>4, <2>8, <3>1
      <3>6. OtherTool(i, m, tool, tools, after)
        BY <1>6, <3>1, <3>4, <3>5 DEF OtherTool
      <3> QED
        BY <1>5, <3>6, ToolChanged
    <2> QED
      BY <1>3, <1>5, <1>6, <2>9, EventStep
  <1> QED
    BY <1>7, <1>8, <1>9

(* An event of a call: the state of its tool is that of the item.            *)
FollowsItem(index, i, item, new) ==
    \A tools, n : /\ tools = parsed.tools /\ Build!Ensured(index, i) = tools /\ ToolAt(tools, index) = n
                  /\ n \in 1 .. Len(tools) /\ tools \in Seq(Tool)
                  /\ tools[n].args = items[i].chunks /\ tools[n].parts = items[i].chunks
        => \E tool \in Tool : /\ tool.item = tools[n].item /\ tool.index = tools[n].index
                              /\ tool.args = item.chunks /\ tool.parts = item.chunks
                              /\ new = [parsed EXCEPT !.tools = [tools EXCEPT ![n] = tool]]

LEMMA CallStep ==
    ASSUME BuildInv, NEW i \in 1 .. Len(items), NEW item \in Item, item.kind = items[i].kind,
           items' = [items EXCEPT ![i] = item], NEW carries, dropped' = Build!Dropped(i, carries),
           Build!IsTool(item.kind), NEW index, index = Build!CompactOutputIndex(i), NEW new,
           Build!Collects(i, new),
           FollowsItem(index, i, item, new)
    PROVE  BuildInv'
  <1>1. /\ ItemsType' /\ SameIndexes /\ dropped' = dropped /\ Len(items') = Len(items) /\ items'[i] = item
        /\ \A j \in 1 .. Len(items) : j # i => items'[j] = items[j]
    BY ItemsKept DEF BuildInv, Build!Collects
  <1>2. i \in 1 .. Len(items')
    BY <1>1
  <1>3. CASE i \in dropped' \/ parsed.finished
    <2>1. parsed' = parsed
      BY <1>3 DEF Build!Collects
    <2>2. ToolsType' /\ ToolsAreWhole'
      BY <1>1, <1>2, <1>3, <2>1, NothingCollected
    <2> QED
      BY <1>1, <1>2, <2>2, EventStep
  <1>4. CASE i \notin dropped' /\ ~parsed.finished
    <2>0. parsed' = new
      BY <1>4 DEF Build!Collects
    <2>1. PICK tools : tools = parsed.tools
      OBVIOUS
    <2>2. Build!Ensured(index, i) = tools /\ \E n \in 1 .. Len(tools) : ToolAt(tools, index) = n /\ tools[n].item = i
      BY <1>1, <1>4, <2>1, ToolOfItem
    <2>3. PICK n \in 1 .. Len(tools) : ToolAt(tools, index) = n /\ tools[n].item = i
      BY <2>2
    <2>4. /\ tools \in Seq(Tool) /\ DOMAIN parsed = {"text", "tools", "failed", "finished"}
          /\ tools[n].index = Build!CompactOutputIndex(tools[n].item)
          /\ tools[n].args = items[i].chunks /\ tools[n].parts = items[i].chunks
      BY <1>4, <2>1, <2>3 DEF BuildInv, ToolsType, ToolsAreWhole
    <2>5. PICK tool \in Tool : /\ tool.item = tools[n].item /\ tool.index = tools[n].index
                               /\ tool.args = item.chunks /\ tool.parts = item.chunks
                               /\ new = [parsed EXCEPT !.tools = [tools EXCEPT ![n] = tool]]
      BY <2>1, <2>2, <2>3, <2>4 DEF FollowsItem
    <2>6. PICK after : after = [tools EXCEPT ![n] = tool]
      OBVIOUS
    <2>7. DOMAIN parsed' = DOMAIN parsed /\ parsed'.tools = after /\ parsed'.finished = parsed.finished
      BY <2>0, <2>4, <2>5, <2>6
    <2>8. n \in 1 .. Len(after)
      BY <2>4, <2>6
    <2>9. ToolsType' /\ ToolsAreWhole'
      <3>1. tool.item = i /\ tool.index = Build!CompactOutputIndex(i)
        BY <2>3, <2>4, <2>5
      <3>2. tool.args = items'[i].chunks /\ tool.parts = items'[i].chunks /\ Build!IsTool(items'[i].kind)
        BY <1>1, <2>5
      <3>3. \/ /\ i \in 1 .. Len(items) /\ Len(items') = Len(items) /\ n \in 1 .. Len(tools)
               /\ tools[n].item = i /\ after = [tools EXCEPT ![n] = tool]
            \/ i = Len(items') /\ Len(items') = Len(items) + 1 /\ n = Len(tools) + 1 /\ after = Append(tools, tool)
        BY <1>1, <2>3, <2>6
      <3>4. /\ DOMAIN parsed' = DOMAIN parsed /\ ~parsed.finished /\ ~parsed'.finished
            /\ tools = parsed.tools /\ after = parsed'.tools
            /\ tool \in Tool /\ i \in 1 .. Len(items') /\ i \notin dropped'
        BY <1>2, <1>4, <2>1, <2>7
      <3>5. OtherTool(i, n, tool, tools, after)
        BY <1>1, <2>5, <2>8, <3>1, <3>2, <3>3, <3>4 DEF OtherTool
      <3> QED
        BY <1>1, <3>5, ToolChanged
    <2> QED
      BY <1>1, <1>2, <2>9, EventStep
  <1> QED
    BY <1>3, <1>4

LEMMA ItemOf ==
    ASSUME BuildInv, NEW i, Build!Open(i)
    PROVE  i \in 1 .. Len(items) /\ items[i] \in Item
  BY DEF BuildInv, ItemsType, Build!Open

(* An event of a message, or of an item that is no call.                     *)
LEMMA MessageStep ==
    ASSUME BuildInv, NEW i \in 1 .. Len(items), NEW item \in Item, item.kind = items[i].kind,
           items' = [items EXCEPT ![i] = item], NEW carries, dropped' = Build!Dropped(i, carries),
           ~Build!IsTool(item.kind), NEW new, Build!Collects(i, new),
           DOMAIN new = DOMAIN parsed, new.tools = parsed.tools, parsed.finished => new.finished
    PROVE  BuildInv'
  <1>1. /\ ItemsType' /\ SameIndexes /\ dropped' = dropped /\ Len(items') = Len(items) /\ items'[i] = item
        /\ \A j \in 1 .. Len(items) : j # i => items'[j] = items[j]
    BY ItemsKept DEF BuildInv, Build!Collects
  <1>2. /\ DOMAIN parsed' = DOMAIN parsed /\ parsed'.tools = parsed.tools /\ (parsed.finished => parsed'.finished)
    BY DEF Build!Collects
  <1>3. ASSUME NEW n \in 1 .. Len(parsed.tools)
        PROVE  items'[parsed.tools[n].item].chunks = items[parsed.tools[n].item].chunks
    <2>1. parsed.tools[n].item \in 1 .. Len(items) /\ Build!IsTool(items[parsed.tools[n].item].kind)
      BY DEF BuildInv, ToolsType
    <2>2. parsed.tools[n].item # i
      BY <2>1
    <2> QED
      BY <1>1, <2>1, <2>2
  <1>4. ToolsType' /\ ToolsAreWhole'
    BY <1>1, <1>2, <1>3, ToolsKept
  <1> QED
    BY <1>1, <1>4, EventStep

LEMMA TextStep ==
    ASSUME BuildInv, NEW i, Build!OutputTextDelta(i) \/ Build!OutputTextDone(i) PROVE BuildInv'
  <1>0. i \in 1 .. Len(items) /\ items[i] \in Item /\ items[i].kind = "message"
    BY ItemOf DEF Build!OutputTextDelta, Build!OutputTextDone
  <1>1. DOMAIN parsed = {"text", "tools", "failed", "finished"}
    BY DEF BuildInv, ToolsType
  <1>2. PICK item, new : /\ items' = [items EXCEPT ![i] = item] /\ Build!Collects(i, new)
                         /\ \/ item = [items[i] EXCEPT !.chunks = @ + 1] /\ new = [parsed EXCEPT !.text = @ + 1]
                            \/ item = [items[i] EXCEPT !.textDone = TRUE] /\ new = [parsed EXCEPT !.finished = TRUE]
    BY <1>0 DEF Build!OutputTextDelta, Build!OutputTextDone
  <1>3. item \in Item /\ item.kind = items[i].kind
    <2>1. CASE item = [items[i] EXCEPT !.chunks = @ + 1]
      BY <1>0, <2>1 DEF Item
    <2>2. CASE item = [items[i] EXCEPT !.textDone = TRUE]
      BY <1>0, <2>2 DEF Item
    <2> QED
      BY <1>2, <2>1, <2>2
  <1>4. DOMAIN new = DOMAIN parsed /\ new.tools = parsed.tools /\ (parsed.finished => new.finished)
    BY <1>1, <1>2
  <1>5. dropped' = Build!Dropped(i, FALSE)
    BY DEF Build!OutputTextDelta, Build!OutputTextDone
  <1>6. ~Build!IsTool(item.kind)
    BY <1>0, <1>3 DEF Build!IsTool
  <1> QED
    BY <1>0, <1>2, <1>3, <1>4, <1>5, <1>6, MessageStep

LEMMA DeltaStep == ASSUME BuildInv, NEW i, Build!ArgumentsDelta(i) PROVE BuildInv'
  <1>0. i \in 1 .. Len(items) /\ items[i] \in Item /\ Build!IsTool(items[i].kind)
    BY ItemOf DEF Build!ArgumentsDelta
  <1>1. PICK item : item = [items[i] EXCEPT !.chunks = @ + 1]
    OBVIOUS
  <1>2. PICK index : index = Build!CompactOutputIndex(i)
    OBVIOUS
  <1>3. PICK new : new = Build!ApplyToolArgsDelta(index, i)
    OBVIOUS
  <1>4. items' = [items EXCEPT ![i] = item] /\ Build!Collects(i, new) /\ dropped' = Build!Dropped(i, FALSE)
    BY <1>0, <1>1, <1>2, <1>3 DEF Build!ArgumentsDelta
  <1>5. item \in Item /\ item.kind = items[i].kind /\ item.chunks = items[i].chunks + 1
    BY <1>0, <1>1 DEF Item
  <1>6. ASSUME NEW tools, NEW n, tools = parsed.tools, Build!Ensured(index, i) = tools, ToolAt(tools, index) = n,
               n \in 1 .. Len(tools), tools \in Seq(Tool),
               tools[n].args = items[i].chunks, tools[n].parts = items[i].chunks
        PROVE  \E tool \in Tool : /\ tool.item = tools[n].item /\ tool.index = tools[n].index
                                  /\ tool.args = item.chunks /\ tool.parts = item.chunks
                                  /\ new = [parsed EXCEPT !.tools = [tools EXCEPT ![n] = tool]]
    <2>1. PICK tool : tool = [tools[n] EXCEPT !.args = @ + 1, !.parts = @ + 1]
      OBVIOUS
    <2>2. new = [parsed EXCEPT !.tools = [tools EXCEPT ![n] = tool]]
      BY <1>3, <1>6, <2>1 DEF Build!ApplyToolArgsDelta, Build!WithTool, Build!SelectInSeq, ToolAt
    <2>3. tools[n] \in Tool
      BY <1>6
    <2>4. /\ tool \in Tool /\ tool.item = tools[n].item /\ tool.index = tools[n].index
          /\ tool.args = tools[n].args + 1 /\ tool.parts = tools[n].parts + 1
      <3>1. /\ DOMAIN tools[n] = {"index", "item", "args", "parts"} /\ tools[n].args \in Nat /\ tools[n].parts \in Nat
            /\ tools[n].index \in Int /\ tools[n].item \in Nat
        BY <2>3 DEF Tool
      <3>2. /\ DOMAIN tool = {"index", "item", "args", "parts"} /\ tool.item = tools[n].item
            /\ tool.index = tools[n].index
            /\ tool.args = tools[n].args + 1 /\ tool.parts = tools[n].parts + 1
        BY <2>1, <3>1
      <3>3. tool = [index |-> tool.index, item |-> tool.item, args |-> tool.args, parts |-> tool.parts]
        BY <2>1, <3>1, <3>2
      <3> QED
        BY <3>1, <3>2, <3>3 DEF Tool
    <2> QED
      BY <1>5, <1>6, <2>2, <2>4
  <1>7. FollowsItem(index, i, item, new)
    BY <1>6 DEF FollowsItem
  <1> QED
    BY <1>0, <1>2, <1>4, <1>5, <1>7, CallStep

(* The whole arguments, with the last delta or with the item.                *)
LEMMA WholeStep ==
    ASSUME BuildInv, NEW i \in 1 .. Len(items), NEW item \in Item, item.kind = items[i].kind,
           item.chunks = items[i].chunks,
           items' = [items EXCEPT ![i] = item], NEW carries, dropped' = Build!Dropped(i, carries),
           Build!IsTool(item.kind), NEW index, index = Build!CompactOutputIndex(i), NEW new,
           Build!Collects(i, new),
           \/ new = Build!ApplyToolArgsDone(index, i, items[i].chunks)
           \/ new = Build!ApplyToolOutputItem(index, i, items[i].chunks)
    PROVE  BuildInv'
  <1>1. ASSUME NEW tools, NEW n, tools = parsed.tools, Build!Ensured(index, i) = tools, ToolAt(tools, index) = n,
               n \in 1 .. Len(tools), tools \in Seq(Tool),
               tools[n].args = items[i].chunks, tools[n].parts = items[i].chunks
        PROVE  \E tool \in Tool : /\ tool.item = tools[n].item /\ tool.index = tools[n].index
                                  /\ tool.args = item.chunks /\ tool.parts = item.chunks
                                  /\ new = [parsed EXCEPT !.tools = [tools EXCEPT ![n] = tool]]
    <2>1. tools[n] \in Tool
      BY <1>1
    <2>2. PICK tool : tool = IF items[i].chunks > 0 THEN [tools[n] EXCEPT !.args = items[i].chunks] ELSE tools[n]
      OBVIOUS
    <2>3. new = [parsed EXCEPT !.tools = [tools EXCEPT ![n] = tool]]
      BY <1>1, <2>2, ItemApplied
    <2>4. /\ tool \in Tool /\ tool.item = tools[n].item /\ tool.index = tools[n].index
          /\ tool.args = tools[n].args /\ tool.parts = tools[n].parts
      BY <1>1, <2>1, <2>2 DEF Tool
    <2> QED
      BY <1>1, <2>3, <2>4
  <1>2. FollowsItem(index, i, item, new)
    BY <1>1 DEF FollowsItem
  <1> QED
    BY <1>2, CallStep

LEMMA DoneStep == ASSUME BuildInv, NEW i, Build!ArgumentsDone(i) \/ Build!OutputItemDone(i) PROVE BuildInv'
  <1>0. i \in 1 .. Len(items) /\ items[i] \in Item
    BY ItemOf DEF Build!ArgumentsDone, Build!OutputItemDone
  <1>1. PICK index : index = Build!CompactOutputIndex(i)
    OBVIOUS
  <1>2. CASE Build!ArgumentsDone(i)
    <2>1. PICK item : item = [items[i] EXCEPT !.textDone = TRUE]
      OBVIOUS
    <2>2. item \in Item /\ item.kind = items[i].kind /\ item.chunks = items[i].chunks
      BY <1>0, <2>1 DEF Item
    <2>3. PICK new : new = Build!ApplyToolArgsDone(index, i, items[i].chunks)
      OBVIOUS
    <2>4. /\ items' = [items EXCEPT ![i] = item] /\ Build!Collects(i, new) /\ dropped' = Build!Dropped(i, FALSE)
          /\ Build!IsTool(item.kind)
      BY <1>0, <1>1, <1>2, <2>1, <2>2, <2>3 DEF Build!ArgumentsDone
    <2> QED
      BY <1>0, <1>1, <2>2, <2>3, <2>4, WholeStep
  <1>3. CASE Build!OutputItemDone(i)
    <2>1. PICK item : item = [items[i] EXCEPT !.open = FALSE]
      OBVIOUS
    <2>2. item \in Item /\ item.kind = items[i].kind /\ item.chunks = items[i].chunks
      BY <1>0, <2>1 DEF Item
    <2>3. items' = [items EXCEPT ![i] = item] /\ dropped' = Build!Dropped(i, TRUE)
      BY <1>0, <1>3, <2>1 DEF Build!OutputItemDone
    <2>4. CASE Build!IsTool(item.kind)
      <3>1. PICK new : new = Build!ApplyToolOutputItem(index, i, items[i].chunks)
        OBVIOUS
      <3>2. Build!Collects(i, new)
        BY <1>1, <1>3, <2>2, <2>4, <3>1 DEF Build!OutputItemDone
      <3> QED
        BY <1>0, <1>1, <2>2, <2>3, <2>4, <3>1, <3>2, WholeStep
    <2>5. CASE ~Build!IsTool(item.kind)
      <3>1. Build!Collects(i, parsed)
        BY <1>3, <2>2, <2>5 DEF Build!OutputItemDone
      <3> QED
        BY <1>0, <2>2, <2>3, <2>5, <3>1, MessageStep
    <2> QED
      BY <2>4, <2>5
  <1> QED
    BY <1>2, <1>3

LEMMA ToolsRemain ==
    ASSUME ToolsType, UNCHANGED <<items, dropped>>, parsed'.tools = parsed.tools,
           DOMAIN parsed' = {"text", "tools", "failed", "finished"}
    PROVE  ToolsType'
  <1>1. \A i : Build!CompactOutputIndex(i)' = Build!CompactOutputIndex(i)
    BY DEF Build!CompactOutputIndex
  <1>2. \A n \in 1 .. Len(parsed.tools) :
           LET tool == parsed.tools[n] IN
           /\ tool.item \in 1 .. Len(items) /\ tool.item \notin dropped /\ Build!IsTool(items[tool.item].kind)
           /\ tool.index = Build!CompactOutputIndex(tool.item)
    BY DEF ToolsType
  <1>3. /\ parsed.tools \in Seq(Tool)
        /\ \A m, n \in 1 .. Len(parsed.tools) : parsed.tools[m].item = parsed.tools[n].item => m = n
    BY DEF ToolsType
  <1> QED
    BY <1>1, <1>2, <1>3 DEF ToolsType, Build!IsTool

(* The end of the stream.                                                    *)
LEMMA EndStep ==
    ASSUME BuildInv, Build!Completed \/ Build!Failed \/ Build!Cut \/ Build!Finish PROVE BuildInv'
  <1>1. UNCHANGED <<route, items, dropped, seen>>
    BY DEF Build!Completed, Build!Failed, Build!Cut, Build!Finish
  <1>2. /\ DOMAIN parsed' = {"text", "tools", "failed", "finished"} /\ parsed'.tools = parsed.tools
        /\ parsed.finished => parsed'.finished
    BY DEF Build!Completed, Build!Failed, Build!Cut, Build!Finish, BuildInv, ToolsType
  <1>3. frames' \in {"none", "error", "tool_calls", "stop", "nothing"}
    BY DEF Build!Completed, Build!Failed, Build!Cut, Build!Finish, BuildInv, ItemsType
  <1>4. ItemsType' /\ ShownRightly'
    BY <1>1, <1>3 DEF BuildInv, ItemsType, ShownRightly, Build!Hidden, Build!NeedsResponseFilter,
                      Build!IsInternalCall, Build!CompactOutputIndex
  <1>5. ToolsType'
    BY <1>1, <1>2, ToolsRemain DEF BuildInv
  <1>6. ToolsAreWhole'
    BY <1>1, <1>2 DEF BuildInv, ToolsAreWhole, Build!IsTool
  <1> QED
    BY <1>4, <1>5, <1>6 DEF BuildInv

LEMMA BuildInit == Build!Init => BuildInv
  <1> SUFFICES ASSUME Build!Init PROVE BuildInv
    OBVIOUS
  <1>1. DOMAIN route = {"injected", "filter", "declared"} /\ route.injected \subseteq {"web_search", "x_search"}
    BY DEF Build!Init, Build!PreparePromptCacheRoute
  <1>2. items = <<>> /\ dropped = {} /\ parsed.tools = <<>> /\ seen = {} /\ frames = "none"
        /\ DOMAIN parsed = {"text", "tools", "failed", "finished"}
    BY DEF Build!Init
  <1>3. ItemsType
    BY <1>1, <1>2, BuildAssumption DEF ItemsType
  <1> QED
    BY <1>2, <1>3 DEF BuildInv, ShownRightly, ToolsType, ToolsAreWhole

LEMMA BuildStep == ASSUME BuildInv, Build!Next PROVE BuildInv'
  <1>1. ASSUME NEW kind \in Build!Kind, Build!OutputItemAdded(kind) PROVE BuildInv'
    BY <1>1, AddedStep
  <1>2. ASSUME NEW i, Build!OutputTextDelta(i) \/ Build!OutputTextDone(i) PROVE BuildInv'
    BY <1>2, TextStep
  <1>3. ASSUME NEW i, Build!ArgumentsDelta(i) PROVE BuildInv'
    BY <1>3, DeltaStep
  <1>4. ASSUME NEW i, Build!ArgumentsDone(i) \/ Build!OutputItemDone(i) PROVE BuildInv'
    BY <1>4, DoneStep
  <1>5. CASE Build!Completed \/ Build!Failed \/ Build!Cut \/ Build!Finish
    BY <1>5, EndStep
  <1> QED
    BY <1>1, <1>2, <1>3, <1>4, <1>5 DEF Build!Next

(* An event leaves the items before it, whether they are hidden included.    *)
OldItemsStay ==
    /\ Len(items') \in Nat /\ Len(items) <= Len(items')
    /\ \A j \in 1 .. Len(items) : items'[j].kind = items[j].kind /\ (j \in dropped' <=> j \in dropped)

LEMMA HiddenStays ==
    ASSUME BuildInv, BuildInv', route' = route, Len(items) <= Len(items'),
           \A j \in 1 .. Len(items) : items'[j].kind = items[j].kind
    PROVE  OldItemsStay
  <1>1. /\ Len(items) \in Nat /\ Len(items') \in Nat
        /\ dropped = {j \in 1 .. Len(items) : Build!Hidden(j)}
        /\ dropped' = {j \in 1 .. Len(items') : Build!Hidden(j)'}
    BY DEF BuildInv, ItemsType
  <1>2. \A j \in 1 .. Len(items) : j \in 1 .. Len(items') /\ (Build!Hidden(j)' <=> Build!Hidden(j))
    BY <1>1 DEF Build!Hidden, Build!NeedsResponseFilter, Build!IsInternalCall
  <1> QED
    BY <1>1, <1>2 DEF OldItemsStay

LEMMA ItemChanges ==
    ASSUME BuildInv, BuildInv', route' = route, NEW i \in 1 .. Len(items), NEW item \in Item,
           item.kind = items[i].kind, items' = [items EXCEPT ![i] = item]
    PROVE  OldItemsStay
  <1>1. /\ Len(items') = Len(items) /\ Len(items) \in Nat
        /\ \A j \in 1 .. Len(items) : items'[j].kind = items[j].kind
    BY DEF BuildInv, ItemsType
  <1> QED
    BY <1>1, HiddenStays

(* The collector only finishes where a text ends: what a call does to its    *)
(* tool leaves the rest of what was parsed.                                  *)
LEMMA ToolsOnly ==
    ASSUME ToolsType, NEW index, NEW i, NEW args
    PROVE  /\ Build!ApplyToolOutputItem(index, i, args).finished = parsed.finished
           /\ Build!ApplyToolArgsDone(index, i, args).finished = parsed.finished
           /\ Build!ApplyToolArgsDelta(index, i).finished = parsed.finished
  BY DEF ToolsType, Build!ApplyToolOutputItem, Build!ApplyToolArgsDone, Build!ApplyToolArgsDelta, Build!WithTool

(* What is left when an event of an item has been looked at or ignored.      *)
LEMMA CollectedFinish ==
    ASSUME BuildInv, BuildInv', FinishInv, outcome = "open", OldItemsStay, NEW i, NEW new, Build!Collects(i, new),
           parsed.finished => new.finished,
           ~parsed.finished /\ new.finished => i \notin dropped' /\ TextEndsAt(i)
    PROVE  FinishInv'
  <1>1. CASE parsed.finished
    <2>1. parsed' = parsed /\ taken' = taken
      BY <1>1 DEF Build!Collects
    <2>2. Finished(parsed.tools, taken) /\ Build!TextEnded
      BY <1>1 DEF FinishInv, Finished
    <2>3. \A j \in Among(taken) : j \in 1 .. Len(items)
      BY <2>2 DEF Finished, Among, BuildInv, ItemsType
    <2>4. /\ Len(taken) \in Nat /\ DOMAIN taken = 1 .. Len(taken) /\ Len(taken) <= Len(items')
          /\ \A j \in Among(taken) : taken[j].kind = items'[j].kind /\ (j \in dropped' <=> j \in dropped)
      <3>1. Len(items) \in Nat
        BY DEF BuildInv, ItemsType
      <3> QED
        BY <2>2, <2>3, <3>1 DEF Finished, OldItemsStay
    <2>5. Build!TextEnded'
      BY <2>1, <2>2 DEF Build!TextEnded
    <2>6. /\ \A n \in Among(parsed.tools) :
                /\ parsed.tools[n].item \in Among(taken)
                /\ parsed.tools[n].args = taken[parsed.tools[n].item].chunks
                /\ parsed.tools[n].parts = taken[parsed.tools[n].item].chunks
          /\ \A j \in Among(taken) : j \notin dropped' /\ Build!IsTool(taken[j].kind) =>
                \E n \in Among(parsed.tools) : parsed.tools[n].item = j
      BY <2>2, <2>4 DEF Finished
    <2> QED
      BY <1>1, <2>1, <2>4, <2>5, <2>6 DEF FinishInv, Finished, Among, Build!IsTool
  <1>2. CASE ~parsed.finished
    <2>1. taken' = items'
      BY <1>2 DEF Build!Collects
    <2>2. CASE ~parsed'.finished
      BY <2>1, <2>2 DEF FinishInv
    <2>3. CASE parsed'.finished
      <3>1. new.finished /\ i \notin dropped' /\ TextEndsAt(i)
        BY <1>2, <2>3 DEF Build!Collects
      <3>2. /\ items' = [items EXCEPT ![i].textDone = TRUE] /\ i \in 1 .. Len(items) /\ items[i].kind = "message"
            /\ parsed'.tools = parsed.tools /\ dropped' = dropped
        BY <3>1 DEF TextEndsAt
      <3>3. items \in Seq(Item) /\ items' \in Seq(Item) /\ Len(items') = Len(items)
        BY <3>2 DEF BuildInv, ItemsType
      <3>4. \A j \in 1 .. Len(items) : /\ items'[j].kind = items[j].kind /\ items'[j].chunks = items[j].chunks
                                       /\ j = i => items'[j].textDone
        BY <3>2, <3>3 DEF Item
      <3>5. /\ \A n \in 1 .. Len(parsed.tools) :
                  LET tool == parsed.tools[n] IN
                  /\ tool.item \in 1 .. Len(items)
                  /\ tool.args = items'[tool.item].chunks /\ tool.parts = items'[tool.item].chunks
            /\ \A j \in 1 .. Len(items) : j \notin dropped /\ Build!IsTool(items[j].kind) =>
                  \E n \in 1 .. Len(parsed.tools) : parsed.tools[n].item = j
        BY <1>2, <3>4 DEF BuildInv, ToolsType, ToolsAreWhole
      <3>6. Build!TextEnded'
        BY <2>1, <3>2, <3>3, <3>4 DEF Build!TextEnded
      <3>7. Finished(parsed.tools, taken)'
        BY <2>1, <3>2, <3>3, <3>4, <3>5, <3>6 DEF Finished, Among, Build!IsTool
      <3> QED
        BY <2>3, <3>7 DEF FinishInv
    <2> QED
      BY <2>2, <2>3
  <1> QED
    BY <1>1, <1>2

LEMMA AddedFinish ==
    ASSUME BuildInv, BuildInv', FinishInv, NEW kind \in Build!Kind, Build!OutputItemAdded(kind) PROVE FinishInv'
  <1>1. PICK i, index : i = Len(items) + 1 /\ index = Build!CompactOutputIndex(i)
    OBVIOUS
  <1>2. PICK new : new = IF Build!IsTool(kind) THEN Build!ApplyToolOutputItem(index, i, 0) ELSE parsed
    OBVIOUS
  <1>3. Build!Collects(i, new) /\ outcome = "open" /\ route' = route
    BY <1>1, <1>2 DEF Build!OutputItemAdded, Build!Collects
  <1>4. new.finished = parsed.finished
    BY <1>2, ToolsOnly DEF BuildInv
  <1>5. Len(items) <= Len(items') /\ \A j \in 1 .. Len(items) : items'[j].kind = items[j].kind
    BY DEF BuildInv, ItemsType, Build!OutputItemAdded
  <1>6. OldItemsStay
    BY <1>3, <1>5, HiddenStays
  <1> QED
    BY <1>3, <1>4, <1>6, CollectedFinish

LEMMA TextFinish ==
    ASSUME BuildInv, BuildInv', FinishInv, NEW i, Build!OutputTextDelta(i) \/ Build!OutputTextDone(i)
    PROVE  FinishInv'
  <1>0. i \in 1 .. Len(items) /\ items[i] \in Item /\ items[i].kind = "message" /\ outcome = "open"
    BY ItemOf DEF Build!OutputTextDelta, Build!OutputTextDone, Build!Open
  <1>1. DOMAIN parsed = {"text", "tools", "failed", "finished"}
    BY DEF BuildInv, ToolsType
  <1>2. CASE Build!OutputTextDelta(i)
    <2>1. PICK item, new : item = [items[i] EXCEPT !.chunks = @ + 1] /\ new = [parsed EXCEPT !.text = @ + 1]
      OBVIOUS
    <2>2. items' = [items EXCEPT ![i] = item] /\ Build!Collects(i, new) /\ route' = route
      BY <1>0, <1>2, <2>1 DEF Build!OutputTextDelta, Build!Collects
    <2>3. item \in Item /\ item.kind = items[i].kind
      BY <1>0, <2>1 DEF Item
    <2>4. new.finished = parsed.finished
      BY <1>1, <2>1
    <2>5. OldItemsStay
      BY <1>0, <2>2, <2>3, ItemChanges
    <2> QED
      BY <1>0, <2>2, <2>4, <2>5, CollectedFinish
  <1>3. CASE Build!OutputTextDone(i)
    <2>1. PICK item, new : item = [items[i] EXCEPT !.textDone = TRUE] /\ new = [parsed EXCEPT !.finished = TRUE]
      OBVIOUS
    <2>2. items' = [items EXCEPT ![i] = item] /\ Build!Collects(i, new) /\ route' = route
          /\ items' = [items EXCEPT ![i].textDone = TRUE] /\ dropped' = dropped
      BY <1>0, <1>3, <2>1 DEF Build!OutputTextDone, Build!Collects, Build!Dropped
    <2>3. item \in Item /\ item.kind = items[i].kind
      BY <1>0, <2>1 DEF Item
    <2>4. new.finished /\ new.tools = parsed.tools
      BY <1>1, <2>1
    <2>5. OldItemsStay
      BY <1>0, <2>2, <2>3, ItemChanges
    <2>6. i \notin dropped'
      BY <1>0, <2>2 DEF BuildInv, ItemsType, Build!Hidden, Build!IsInternalCall
    <2>7. parsed'.tools = parsed.tools
      BY <2>2, <2>4 DEF Build!Collects
    <2>8. TextEndsAt(i)
      BY <1>0, <2>2, <2>7 DEF TextEndsAt
    <2> QED
      BY <1>0, <2>2, <2>4, <2>5, <2>6, <2>8, CollectedFinish
  <1> QED
    BY <1>2, <1>3

CallChange(i, item, new) ==
    /\ \/ item = [items[i] EXCEPT !.chunks = @ + 1]
       \/ item = [items[i] EXCEPT !.textDone = TRUE]
       \/ item = [items[i] EXCEPT !.open = FALSE]
    /\ LET index == Build!CompactOutputIndex(i)
           args == items[i].chunks IN
       \/ new = parsed
       \/ new = Build!ApplyToolArgsDelta(index, i)
       \/ new = Build!ApplyToolArgsDone(index, i, args)
       \/ new = Build!ApplyToolOutputItem(index, i, args)
    /\ items' = [items EXCEPT ![i] = item] /\ Build!Collects(i, new)

LEMMA CallFinish ==
    ASSUME BuildInv, BuildInv', FinishInv, NEW i,
           Build!ArgumentsDelta(i) \/ Build!ArgumentsDone(i) \/ Build!OutputItemDone(i)
    PROVE  FinishInv'
  <1>0. i \in 1 .. Len(items) /\ items[i] \in Item /\ outcome = "open" /\ route' = route
    BY ItemOf DEF Build!ArgumentsDelta, Build!ArgumentsDone, Build!OutputItemDone, Build!Open, Build!Collects
  <1>1. \E item, new : CallChange(i, item, new)
    <2>1. ASSUME Build!ArgumentsDelta(i) PROVE \E item, new : CallChange(i, item, new)
      <3>1. CallChange(i, [items[i] EXCEPT !.chunks = @ + 1], Build!ApplyToolArgsDelta(Build!CompactOutputIndex(i), i))
        BY <2>1 DEF Build!ArgumentsDelta, CallChange
      <3> QED
        BY <3>1
    <2>2. ASSUME Build!ArgumentsDone(i) PROVE \E item, new : CallChange(i, item, new)
      <3>1. CallChange(i, [items[i] EXCEPT !.textDone = TRUE],
                       Build!ApplyToolArgsDone(Build!CompactOutputIndex(i), i, items[i].chunks))
        BY <2>2 DEF Build!ArgumentsDone, CallChange
      <3> QED
        BY <3>1
    <2>3. ASSUME Build!OutputItemDone(i) PROVE \E item, new : CallChange(i, item, new)
      <3>1. CASE Build!IsTool(items[i].kind)
        <4>1. CallChange(i, [items[i] EXCEPT !.open = FALSE],
                         Build!ApplyToolOutputItem(Build!CompactOutputIndex(i), i, items[i].chunks))
          BY <2>3, <3>1 DEF Build!OutputItemDone, CallChange
        <4> QED
          BY <4>1
      <3>2. CASE ~Build!IsTool(items[i].kind)
        <4>1. CallChange(i, [items[i] EXCEPT !.open = FALSE], parsed)
          BY <2>3, <3>2 DEF Build!OutputItemDone, CallChange
        <4> QED
          BY <4>1
      <3> QED
        BY <3>1, <3>2
    <2> QED
      BY <2>1, <2>2, <2>3
  <1>2. PICK item, new : CallChange(i, item, new)
    BY <1>1
  <1>3. items' = [items EXCEPT ![i] = item] /\ Build!Collects(i, new)
    BY <1>2 DEF CallChange
  <1>4. item \in Item /\ item.kind = items[i].kind
    <2>1. CASE item = [items[i] EXCEPT !.chunks = @ + 1]
      BY <1>0, <2>1 DEF Item
    <2>2. CASE item = [items[i] EXCEPT !.textDone = TRUE]
      BY <1>0, <2>2 DEF Item
    <2>3. CASE item = [items[i] EXCEPT !.open = FALSE]
      BY <1>0, <2>3 DEF Item
    <2> QED
      BY <1>2, <2>1, <2>2, <2>3 DEF CallChange
  <1>5. new.finished = parsed.finished
    <2>1. PICK index, args : index = Build!CompactOutputIndex(i) /\ args = items[i].chunks
      OBVIOUS
    <2>2. \/ new = parsed
          \/ new = Build!ApplyToolArgsDelta(index, i)
          \/ new = Build!ApplyToolArgsDone(index, i, args)
          \/ new = Build!ApplyToolOutputItem(index, i, args)
      BY <1>2, <2>1 DEF CallChange
    <2> QED
      BY <2>2, ToolsOnly DEF BuildInv
  <1>6. OldItemsStay
    BY <1>0, <1>3, <1>4, ItemChanges
  <1> QED
    BY <1>0, <1>3, <1>5, <1>6, CollectedFinish

LEMMA EndFinish ==
    ASSUME BuildInv, FinishInv, Build!Completed \/ Build!Failed \/ Build!Cut \/ Build!Finish PROVE FinishInv'
  <1>1. UNCHANGED <<items, dropped, taken>> /\ (outcome' = "open" => outcome = "open")
    BY DEF Build!Completed, Build!Failed, Build!Cut, Build!Finish
  <1>2. /\ parsed'.tools = parsed.tools /\ (parsed.finished => parsed'.finished)
        /\ ~parsed.finished /\ parsed'.finished => outcome' # "open"
    BY DEF Build!Completed, Build!Failed, Build!Cut, Build!Finish, BuildInv, ToolsType
  <1>3. CASE parsed.finished
    <2>1. Finished(parsed.tools, taken)
      BY <1>3 DEF FinishInv
    <2>2. Finished(parsed.tools, taken)'
      BY <1>1, <1>2, <2>1 DEF Finished, Among, Build!TextEnded, Build!IsTool
    <2> QED
      BY <1>2, <1>3, <2>2 DEF FinishInv
  <1>4. CASE ~parsed.finished /\ parsed'.finished
    <2>1. items \in Seq(Item) /\ taken = items /\ outcome' # "open"
      BY <1>2, <1>4 DEF FinishInv, BuildInv, ItemsType
    <2>2. Finished(parsed.tools, taken)'
      BY <1>1, <1>2, <1>4, <2>1 DEF Finished, Among, Build!IsTool, BuildInv, ToolsType, ToolsAreWhole
    <2> QED
      BY <1>4, <2>2 DEF FinishInv
  <1>5. CASE ~parsed'.finished
    BY <1>1, <1>2, <1>5 DEF FinishInv
  <1> QED
    BY <1>3, <1>4, <1>5

LEMMA FinishInit == Build!Init => FinishInv
  BY DEF Build!Init, FinishInv

LEMMA FinishStep == ASSUME BuildInv, BuildInv', FinishInv, Build!Next PROVE FinishInv'
  <1>1. ASSUME NEW kind \in Build!Kind, Build!OutputItemAdded(kind) PROVE FinishInv'
    BY <1>1, AddedFinish
  <1>2. ASSUME NEW i, Build!OutputTextDelta(i) \/ Build!OutputTextDone(i) PROVE FinishInv'
    BY <1>2, TextFinish
  <1>3. ASSUME NEW i, Build!ArgumentsDelta(i) \/ Build!ArgumentsDone(i) \/ Build!OutputItemDone(i) PROVE FinishInv'
    BY <1>3, CallFinish
  <1>4. CASE Build!Completed \/ Build!Failed \/ Build!Cut \/ Build!Finish
    BY <1>4, EndFinish
  <1> QED
    BY <1>1, <1>2, <1>3, <1>4 DEF Build!Next

(* The hidden items up to a visible one are the dropped ones before it.      *)
LEMMA BuildIsFiltered == BuildInv /\ FinishInv => StreamIsFiltered
  <1> SUFFICES ASSUME BuildInv, FinishInv PROVE StreamIsFiltered
    OBVIOUS
  <1>1. Len(items) \in Nat /\ items \in Seq(Item) /\ dropped = {j \in 1 .. Len(items) : Build!Hidden(j)}
    BY DEF BuildInv, ItemsType
  <1>2. parsed.tools \in Seq(Tool) /\ DOMAIN parsed.tools = 1 .. Len(parsed.tools)
    BY DEF BuildInv, ToolsType
  <1>3. ASSUME NEW n \in 1 .. Len(parsed.tools) PROVE parsed.tools[n].index \in 1 .. MaxItems
    <2>1. PICK i \in 1 .. Len(items) : i = parsed.tools[n].item /\ parsed.tools[n].index = Build!CompactOutputIndex(i)
      BY DEF BuildInv, ToolsType
    <2>2. Build!CompactOutputIndex(i) \in 1 .. Len(items)
      BY <1>1, IndexType DEF Build!CompactOutputIndex
    <2>3. Len(items) <= MaxItems
      BY DEF BuildInv, ItemsType
    <2> QED
      BY <1>1, <2>1, <2>2, <2>3, BuildAssumption
  <1>4. Build!TypeOK
    <2>1. dropped \subseteq 1 .. MaxItems
      BY <1>1, BuildAssumption DEF BuildInv, ItemsType
    <2> QED
      BY <1>2, <1>3, <2>1 DEF Build!TypeOK, BuildInv, ItemsType
  <1>5. Build!NoInternalCall
    BY <1>1, <1>2 DEF Build!NoInternalCall, BuildInv, ToolsType, Build!Hidden
  <1>6. ASSUME NEW s \in seen PROVE s[2] = s[1] - Build!Cardinality({j \in 1 .. s[1] : Build!Hidden(j)})
    <2>1. PICK i \in 1 .. Len(items) : i = s[1] /\ i \notin dropped /\ s[2] = Build!CompactOutputIndex(i)
      BY DEF BuildInv, ShownRightly
    <2>2. \A j \in 1 .. i : j \in 1 .. Len(items) /\ (Build!Hidden(j) => j < i)
      BY <1>1, <2>1
    <2>3. {j \in 1 .. i : Build!Hidden(j)} = {d \in dropped : d < i}
      BY <1>1, <2>1, <2>2
    <2> QED
      BY <2>1, <2>3 DEF Build!CompactOutputIndex
  <1>7. Build!IndexesAreCompact
    BY <1>6 DEF Build!IndexesAreCompact
  <1>8. /\ DOMAIN taken = 1 .. Len(taken) /\ Len(taken) \in Nat /\ Len(taken) <= Len(items)
        /\ \A i \in 1 .. Len(taken) : taken[i].kind = items[i].kind
        /\ \A n \in 1 .. Len(parsed.tools) :
              LET t == parsed.tools[n] IN
              t.item \in 1 .. Len(taken) /\ t.args = taken[t.item].chunks /\ t.parts = taken[t.item].chunks
        /\ \A i \in 1 .. Len(taken) : i \notin dropped /\ Build!IsTool(taken[i].kind) =>
              \E n \in 1 .. Len(parsed.tools) : parsed.tools[n].item = i
    <2>1. CASE parsed.finished
      BY <2>1 DEF FinishInv, Finished, Among
    <2>2. CASE ~parsed.finished
      BY <1>1, <2>2 DEF FinishInv, BuildInv, ToolsType, ToolsAreWhole
    <2> QED
      BY <2>1, <2>2
  <1>9. Build!CallsAreWhole
    <2>1. \A n \in 1 .. Len(parsed.tools) :
             LET t == parsed.tools[n] IN t.item \in DOMAIN taken /\ Build!ArgumentsOf(t) = taken[t.item].chunks
      BY <1>8 DEF Build!ArgumentsOf
    <2>2. ASSUME NEW i \in DOMAIN taken, Build!IsTool(taken[i].kind), ~Build!Hidden(i)
          PROVE  \E n \in 1 .. Len(parsed.tools) :
                    \A m \in 1 .. Len(parsed.tools) : parsed.tools[m].item = i <=> m = n
      <3>1. i \in 1 .. Len(taken) /\ i \notin dropped
        BY <1>1, <1>8, <2>2
      <3>2. PICK n \in 1 .. Len(parsed.tools) : parsed.tools[n].item = i
        BY <1>8, <2>2, <3>1
      <3>3. \A m \in 1 .. Len(parsed.tools) : parsed.tools[m].item = i => m = n
        BY <3>2 DEF BuildInv, ToolsType
      <3> QED
        BY <3>2, <3>3
    <2> QED
      BY <1>2, <2>1, <2>2 DEF Build!CallsAreWhole
  <1>10. Build!LostOnlyBehindText
    BY DEF Build!LostOnlyBehindText, FinishInv, Finished
  <1> QED
    BY <1>4, <1>5, <1>7, <1>9, <1>10 DEF StreamIsFiltered, Build!StreamIsFiltered

(* No search that the service added reaches the client, the indexes it sees   *)
(* have no holes and never change, and a call is handed over once with the    *)
(* arguments that had come when the collector finished, however items overlap *)
(* (filterEvent, compactOutputIndex, sseStreamParse): for any tools, any      *)
(* number of items and of deltas.  Those are all of them unless the text of a *)
(* message has ended, where collectSSEStream stops looking.                   *)
THEOREM StreamStaysFiltered == Spec => []StreamIsFiltered
  <1>1. Init => BuildInv /\ FinishInv
    BY BuildInit, FinishInit DEF Init
  <1>2. BuildInv /\ FinishInv /\ [Next]_vars => BuildInv' /\ FinishInv'
    <2> SUFFICES ASSUME BuildInv, FinishInv, [Next]_vars PROVE BuildInv' /\ FinishInv'
      OBVIOUS
    <2>1. CASE UNCHANGED buildVars
      <3>1. UNCHANGED <<route, items, dropped, parsed, seen, taken, outcome, frames>>
        BY <2>1 DEF buildVars
      <3>2. ItemsType' /\ ShownRightly'
        BY <3>1 DEF BuildInv, ItemsType, ShownRightly, Build!Hidden, Build!NeedsResponseFilter,
                    Build!IsInternalCall, Build!CompactOutputIndex
      <3>3. ToolsType'
        BY <3>1, ToolsRemain DEF BuildInv, ToolsType
      <3>4. ToolsAreWhole'
        BY <3>1 DEF BuildInv, ToolsAreWhole, Build!IsTool
      <3>5. FinishInv'
        BY <3>1 DEF FinishInv, Finished, Among, Build!TextEnded, Build!IsTool
      <3> QED
        BY <3>2, <3>3, <3>4, <3>5 DEF BuildInv
    <2>2. CASE Build!Next
      BY <2>2, BuildStep, FinishStep
    <2> QED
      BY <2>1, <2>2 DEF Next, vars, InBuild, InChat, InSummary, InRounds, InBatch
  <1> QED
    BY <1>1, <1>2, BuildIsFiltered, PTL DEF Spec

-----------------------------------------------------------------------------
(* The summary.  A title of every section that was begun is above its lines, *)
(* the counts and levels that emit keeps are those of the lines, and nothing *)
(* is written before the language is settled.                                *)
Topic == Track \cup {Summary!None, "visual_assets"}
AllEvents == Summary!Headers \cup Summary!Summaries \cup Summary!Searches \cup Summary!Cards \cup {Summary!AgentsStarted}
             \cup Summary!ReportedEvidence \cup Summary!ReportedFinding
PromotedOf(e) == [e EXCEPT !.section = "finding", !.key = <<"finding", "promoted", e.key>>]
Written == AllEvents \cup {PromotedOf(e) : e \in AllEvents}
Title == [title : {Summary!None, "zh", "en"}, section : Summary!Sections]
IsLine(line) == "title" \notin DOMAIN line

InOrder(lines) ==
    \A i, j \in 1 .. Len(lines) : (i < j /\ IsLine(lines[i]) /\ IsLine(lines[j])) =>
        /\ ~(lines[j].section = "scope" /\ lines[i].section \in {"evidence", "finding"})
        /\ ~(lines[j].section = "evidence" /\ lines[i].section = "finding")
Titled(language, sections, lines) ==
    /\ \A i \in 1 .. Len(lines) :
          /\ lines[i].section \in sections
          /\ IF IsLine(lines[i]) THEN \E j \in 1 .. (i - 1) : ~IsLine(lines[j]) /\ lines[j].section = lines[i].section
             ELSE /\ \A j \in 1 .. (i - 1) : lines[j].section # lines[i].section
                  /\ lines[i].title = language /\ language # Summary!None
    /\ \A s \in sections : \E j \in 1 .. Len(lines) : ~IsLine(lines[j]) /\ lines[j].section = s
Same(lines, s, t) == {j \in 1 .. Len(lines) : IsLine(lines[j]) /\ lines[j].section = s /\ lines[j].track = t}
TopicHolds(counts, best, lines, s, t) ==
    /\ Cardinality(Same(lines, s, t)) = Summary!Counted(counts, <<s, t>>)
    /\ Summary!Counted(counts, <<s, t>>) <= Summary!MaxPerTrack(s)
    /\ Summary!Counted(best, <<s, t>>) \in Nat
    /\ \A j \in Same(lines, s, t) : lines[j].level <= Summary!Counted(best, <<s, t>>)
    /\ \A i, j \in Same(lines, s, t) : j < i => lines[j].level <= lines[i].level
Topics(counts, best, lines) ==
    \A s \in Summary!Sections, t \in Topic \ {Summary!None} : TopicHolds(counts, best, lines, s, t)
Good(language, sections, counts, best, lines) ==
    /\ lines \in Seq(Written \cup Title) /\ sections \subseteq Summary!Sections
    /\ InOrder(lines) /\ Titled(language, sections, lines) /\ Topics(counts, best, lines)
AggOK(a) ==
    /\ DOMAIN a = {"language", "en", "agents", "emitted", "pending", "sections", "best", "counts"}
    /\ a.language \in {Summary!None, "zh", "en"} /\ a.en \in 0 .. EnVotes /\ a.agents \in BOOLEAN
    /\ a.pending \in Seq(AllEvents) /\ Len(a.pending) <= MaxPending
SummaryOK(a, lines) == AggOK(a) /\ Good(a.language, a.sections, a.counts, a.best, lines)
SummaryInv == SummaryOK(agg, shown) /\ inputs \in 0 .. MaxInputs

EventRecord == {"section", "track", "level", "key"}
LEMMA AnEvent ==
    \A s, t, l, k : LET e == Summary!Event(s, t, l, k) IN
        DOMAIN e = EventRecord /\ e.section = s /\ e.track = t /\ e.level = l /\ e.key = k
  BY DEF Summary!Event, EventRecord

LEMMA EventFacts ==
    ASSUME NEW e \in AllEvents
    PROVE  DOMAIN e = EventRecord /\ e.section \in Summary!Sections /\ e.track \in Topic /\ e.level \in Nat
  <1> USE DEF Summary!Sections, Topic, Summary!None
  <1>1. CASE e \in Summary!Headers
    <2>1. PICK s \in {"evidence", "understanding"}, t \in Text : e = Summary!Event(s, Summary!None, 0, <<s, "header", t>>)
      BY <1>1 DEF Summary!Headers
    <2> QED
      BY <2>1, AnEvent
  <1>2. CASE e \in Summary!Summaries
    <2>1. PICK r \in Summary!Readings, track \in Track \cup {Summary!None}, t \in Text :
             e = Summary!Event(r[1], track, r[2], <<r[1], "summary", t>>)
      BY <1>2 DEF Summary!Summaries
    <2>2. r[1] \in Summary!Sections /\ r[2] \in Nat
      BY DEF Summary!Readings
    <2> QED
      BY <2>1, <2>2, AnEvent
  <1>3. CASE e \in Summary!Searches
    <2>1. PICK t \in Track : e = Summary!Event("scope", t, 1, <<"scope", "web", t>>)
      BY <1>3 DEF Summary!Searches
    <2> QED
      BY <2>1, AnEvent
  <1>4. CASE e \in Summary!SocialChecks
    <2>1. PICK t \in Track : e = Summary!Event("evidence", t, 2, <<"evidence", "social", t>>)
      BY <1>4 DEF Summary!SocialChecks
    <2> QED
      BY <2>1, AnEvent
  <1>5. CASE e \in Summary!Pages
    <2>1. PICK t \in Track : \/ e = Summary!Event("evidence", t, 3, <<"evidence", "community", t>>)
                             \/ e = Summary!Event("evidence", t, 4, <<"evidence", "official", t>>)
      BY <1>5 DEF Summary!Pages
    <2> QED
      BY <2>1, AnEvent
  <1>6. CASE e \in Summary!Pictures
    <2>1. PICK t \in Text : e = Summary!Event("scope", "visual_assets", 1, <<"scope", "image", t>>)
      BY <1>6 DEF Summary!Pictures
    <2> QED
      BY <2>1, AnEvent
  <1>7. CASE e \in Summary!Code \cup {Summary!AgentsStarted}
    <2>1. \/ e = Summary!Event("evidence", Summary!None, 0, <<"evidence", "code_execution", Summary!None>>)
          \/ e = Summary!Event("scope", Summary!None, 0, <<"scope", "agents_started", Summary!None>>)
      BY <1>7 DEF Summary!Code, Summary!AgentsStarted
    <2> QED
      BY <2>1, AnEvent
  <1>8. CASE e \in Summary!ReportedEvidence
    <2>1. PICK t \in Track \cup {Summary!None}, l \in {2, 4}, x \in Text :
             e = Summary!Event("evidence", t, l, <<"evidence", "report", t, l, x>>)
      BY <1>8 DEF Summary!ReportedEvidence
    <2> QED
      BY <2>1, AnEvent
  <1>9. CASE e \in Summary!ReportedFinding
    <2>1. PICK t \in Track \cup {Summary!None}, l \in {3, 4}, x \in Text :
             e = Summary!Event("finding", t, l, <<"finding", "report", t, l, x>>)
      BY <1>9 DEF Summary!ReportedFinding
    <2> QED
      BY <2>1, AnEvent
  <1> QED
    BY <1>1, <1>2, <1>3, <1>4, <1>5, <1>6, <1>7, <1>8, <1>9 DEF AllEvents, Summary!Cards

LEMMA WrittenFacts ==
    ASSUME NEW e \in Written
    PROVE  /\ DOMAIN e = EventRecord /\ e.section \in Summary!Sections /\ e.track \in Topic /\ e.level \in Nat
           /\ IsLine(e)
  <1>1. CASE e \in AllEvents
    BY <1>1, EventFacts DEF IsLine, EventRecord
  <1>2. CASE \E f \in AllEvents : e = PromotedOf(f)
    <2>1. PICK f \in AllEvents : e = PromotedOf(f)
      BY <1>2
    <2>2. DOMAIN f = EventRecord /\ f.track \in Topic /\ f.level \in Nat
      BY EventFacts
    <2> QED
      BY <2>1, <2>2 DEF PromotedOf, EventRecord, IsLine, Summary!Sections
  <1> QED
    BY <1>1, <1>2 DEF Written

LEMMA TitleFacts ==
    ASSUME NEW t \in Title PROVE ~IsLine(t) /\ t.section \in Summary!Sections
  BY DEF Title, IsLine

-----------------------------------------------------------------------------
(* What a line adds. *)

LEMMA SummaryCount == \A S : Summary!Cardinality(S) = Cardinality(S)
  BY DEF Summary!Cardinality, Cardinality

(* more is lines and one line.                                               *)
Extends(lines, line, more) ==
    /\ more \in Seq(Written \cup Title) /\ Len(more) = Len(lines) + 1 /\ Len(lines) \in Nat
    /\ \A i \in 1 .. Len(lines) : more[i] = lines[i]
    /\ more[Len(lines) + 1] = line

LEMMA Extended ==
    ASSUME NEW lines \in Seq(Written \cup Title), NEW line \in Written \cup Title
    PROVE  Extends(lines, line, Append(lines, line))
  BY DEF Extends

LEMMA SettledOnce ==
    ASSUME NEW sections, NEW counts, NEW best, NEW lines, NEW language, Good(Summary!None, sections, counts, best, lines)
    PROVE  Good(language, sections, counts, best, lines)
  <1>1. \A i \in 1 .. Len(lines) : IsLine(lines[i])
    BY DEF Good, Titled
  <1>2. Titled(language, sections, lines)
    BY <1>1 DEF Good, Titled
  <1> QED
    BY <1>2 DEF Good

LEMMA TitleAdded ==
    ASSUME NEW language, language # Summary!None, NEW sections, NEW counts, NEW best, NEW lines,
           Good(language, sections, counts, best, lines),
           NEW title \in Title, title.title = language, title.section \notin sections,
           NEW more, Extends(lines, title, more)
    PROVE  Good(language, sections \cup {title.section}, counts, best, more)
  <1>1. PICK n \in Nat :
           /\ n = Len(lines) /\ Len(more) = n + 1 /\ more \in Seq(Written \cup Title)
           /\ \A i \in 1 .. n : more[i] = lines[i]
           /\ more[n + 1] = title
    BY DEF Extends
  <1>2. ~IsLine(title) /\ title.section \in Summary!Sections
    BY TitleFacts
  <1>3. n = Len(lines)
    BY <1>1
  <1>4. \A i \in 1 .. Len(more) : i \in 1 .. n \/ (i = n + 1 /\ more[i] = title)
    BY <1>1
  <1>5. InOrder(more)
    BY <1>1, <1>2, <1>3, <1>4 DEF InOrder, Good
  <1>6. Titled(language, sections \cup {title.section}, more)
    <2>1. ASSUME NEW i \in 1 .. Len(more)
          PROVE  /\ more[i].section \in sections \cup {title.section}
                 /\ IF IsLine(more[i]) THEN \E j \in 1 .. (i - 1) : ~IsLine(more[j]) /\ more[j].section = more[i].section
                    ELSE /\ \A j \in 1 .. (i - 1) : more[j].section # more[i].section
                         /\ more[i].title = language /\ language # Summary!None
      <3>1. CASE i \in 1 .. n
        <4>1. more[i] = lines[i] /\ \A j \in 1 .. (i - 1) : j \in 1 .. n /\ more[j] = lines[j]
          BY <1>1, <3>1
        <4> QED
          BY <1>3, <3>1, <4>1 DEF Good, Titled
      <3>2. CASE i = n + 1
        <4>1. \A j \in 1 .. (i - 1) : more[j] = lines[j] /\ lines[j].section \in sections
          BY <1>1, <1>3, <3>2 DEF Good, Titled
        <4> QED
          BY <1>1, <1>2, <3>2, <4>1
      <3> QED
        BY <1>4, <3>1, <3>2
    <2>2. ASSUME NEW s \in sections \cup {title.section}
          PROVE  \E j \in 1 .. Len(more) : ~IsLine(more[j]) /\ more[j].section = s
      <3>1. CASE s \in sections
        <4>1. PICK j \in 1 .. n : ~IsLine(lines[j]) /\ lines[j].section = s
          BY <1>3, <3>1 DEF Good, Titled
        <4> QED
          BY <1>1, <4>1
      <3>2. CASE s = title.section
        <4>1. n + 1 \in 1 .. Len(more)
          BY <1>1
        <4> QED
          BY <1>1, <1>2, <3>2, <4>1
      <3> QED
        BY <3>1, <3>2
    <2> QED
      BY <2>1, <2>2 DEF Titled
  <1>7. Topics(counts, best, more)
    <2> SUFFICES ASSUME NEW s \in Summary!Sections, NEW t \in Topic \ {Summary!None}
                 PROVE  TopicHolds(counts, best, more, s, t)
      BY DEF Topics
    <2>1. Same(more, s, t) = Same(lines, s, t)
      BY <1>1, <1>2, <1>3, <1>4 DEF Same
    <2>2. \A j \in Same(lines, s, t) : more[j] = lines[j]
      BY <1>1, <1>3 DEF Same
    <2>3. TopicHolds(counts, best, lines, s, t)
      BY DEF Good, Topics
    <2> QED
      BY <2>1, <2>2, <2>3 DEF TopicHolds
  <1> QED
    BY <1>1, <1>2, <1>5, <1>6, <1>7 DEF Good

LEMMA CountedSet ==
    ASSUME NEW f, NEW k, NEW v, NEW j
    PROVE  Summary!Counted(Summary!Set(f, k, v), j) = IF j = k THEN v ELSE Summary!Counted(f, j)
  BY DEF Summary!Counted, Summary!Set

(* What emit books for an event of a topic.                                  *)
Booked(counts, best, e, newCounts, newBest) ==
    \A s \in Summary!Sections, t \in Topic \ {Summary!None} :
       IF s = e.section /\ t = e.track
       THEN /\ Summary!Counted(counts, <<s, t>>) < Summary!MaxPerTrack(s)
            /\ Summary!Counted(best, <<s, t>>) <= e.level
            /\ Summary!Counted(newCounts, <<s, t>>) = Summary!Counted(counts, <<s, t>>) + 1
            /\ Summary!Counted(newBest, <<s, t>>) = e.level
       ELSE /\ Summary!Counted(newCounts, <<s, t>>) = Summary!Counted(counts, <<s, t>>)
            /\ Summary!Counted(newBest, <<s, t>>) = Summary!Counted(best, <<s, t>>)

LEMMA SameIsFinite ==
    ASSUME NEW lines \in Seq(Written \cup Title), NEW s, NEW t
    PROVE  IsFiniteSet(Same(lines, s, t)) /\ Cardinality(Same(lines, s, t)) \in Nat
  <1>1. Len(lines) \in Nat /\ Same(lines, s, t) \subseteq 1 .. Len(lines)
    BY DEF Same
  <1>2. IsFiniteSet(1 .. Len(lines))
    BY <1>1, FS_Interval
  <1> QED
    BY <1>1, <1>2, FS_Subset, FS_CardinalityType

LEMMA TopicGrows ==
    ASSUME NEW lines \in Seq(Written \cup Title), NEW e \in Written, NEW more, Extends(lines, e, more),
           NEW counts, NEW best, NEW newCounts, NEW newBest, Booked(counts, best, e, newCounts, newBest),
           NEW s \in Summary!Sections, NEW t \in Topic \ {Summary!None}, TopicHolds(counts, best, lines, s, t)
    PROVE  TopicHolds(newCounts, newBest, more, s, t)
  <1>1. PICK n \in Nat :
           /\ n = Len(lines) /\ Len(more) = n + 1
           /\ \A i \in 1 .. n : more[i] = lines[i]
           /\ more[n + 1] = e
    BY DEF Extends
  <1>2. IsLine(e) /\ e.level \in Nat
    BY WrittenFacts
  <1>3. Same(lines, s, t) \subseteq 1 .. n /\ \A j \in Same(lines, s, t) : more[j] = lines[j]
    BY <1>1 DEF Same
  <1>4. \A i \in 1 .. Len(more) : i \in 1 .. n \/ i = n + 1
    BY <1>1
  <1>5. CASE s = e.section /\ t = e.track
    <2>1. Same(more, s, t) = Same(lines, s, t) \cup {n + 1}
      BY <1>1, <1>2, <1>4, <1>5 DEF Same
    <2>2. n + 1 \notin Same(lines, s, t)
      BY <1>3
    <2>3. Cardinality(Same(more, s, t)) = Cardinality(Same(lines, s, t)) + 1
      BY <2>1, <2>2, SameIsFinite, FS_AddElement
    <2>4. /\ Summary!Counted(counts, <<s, t>>) < Summary!MaxPerTrack(s)
          /\ Summary!Counted(best, <<s, t>>) <= e.level
          /\ Summary!Counted(newCounts, <<s, t>>) = Summary!Counted(counts, <<s, t>>) + 1
          /\ Summary!Counted(newBest, <<s, t>>) = e.level
      BY <1>5 DEF Booked
    <2>5. PICK c \in Nat, b \in Nat :
            /\ Cardinality(Same(lines, s, t)) = c /\ Summary!Counted(counts, <<s, t>>) = c
            /\ Summary!Counted(best, <<s, t>>) = b
            /\ \A j \in Same(lines, s, t) : lines[j].level <= b
            /\ \A i, j \in Same(lines, s, t) : j < i => lines[j].level <= lines[i].level
      BY SameIsFinite DEF TopicHolds
    <2>6. Summary!MaxPerTrack(s) \in Nat
      BY DEF Summary!MaxPerTrack
    <2>7. \A j \in Same(lines, s, t) : lines[j].level \in Nat
      <3>1. ASSUME NEW j \in Same(lines, s, t) PROVE lines[j].level \in Nat
        <4>1. lines[j] \in Written \cup Title /\ IsLine(lines[j])
          BY <1>1, <1>3 DEF Same
        <4> QED
          BY <4>1, WrittenFacts, TitleFacts
      <3> QED
        BY <3>1
    <2>8. \A j \in Same(more, s, t) : more[j].level <= e.level
      BY <1>1, <1>2, <1>3, <2>1, <2>4, <2>5, <2>7
    <2>9. ASSUME NEW i \in Same(more, s, t), NEW j \in Same(more, s, t), j < i
          PROVE  more[j].level <= more[i].level
      <3>1. CASE i = n + 1
        BY <1>1, <2>8, <3>1
      <3>2. CASE i # n + 1
        <4>1. i \in Same(lines, s, t) /\ j \in Same(lines, s, t)
          BY <1>1, <1>3, <2>1, <2>9, <3>2
        <4> QED
          BY <1>3, <2>5, <2>9, <4>1
      <3> QED
        BY <3>1, <3>2
    <2>10. /\ Cardinality(Same(more, s, t)) = Summary!Counted(newCounts, <<s, t>>)
           /\ Summary!Counted(newCounts, <<s, t>>) <= Summary!MaxPerTrack(s)
      BY <2>3, <2>4, <2>5, <2>6
    <2> QED
      BY <1>2, <2>4, <2>8, <2>9, <2>10 DEF TopicHolds
  <1>6. CASE ~(s = e.section /\ t = e.track)
    <2>1. Same(more, s, t) = Same(lines, s, t)
      BY <1>1, <1>4, <1>6 DEF Same
    <2>2. /\ Summary!Counted(newCounts, <<s, t>>) = Summary!Counted(counts, <<s, t>>)
          /\ Summary!Counted(newBest, <<s, t>>) = Summary!Counted(best, <<s, t>>)
      BY <1>6 DEF Booked
    <2> QED
      BY <1>3, <2>1, <2>2 DEF TopicHolds
  <1> QED
    BY <1>5, <1>6

(* An event that is not too late.                                            *)
InTime(sections, e) ==
    /\ e.section = "scope" => sections \cap {"evidence", "finding"} = {}
    /\ e.section = "evidence" => "finding" \notin sections

LEMMA EventAdded ==
    ASSUME NEW language, language # Summary!None, NEW sections, NEW counts, NEW best, NEW lines,
           Good(language, sections, counts, best, lines),
           NEW e \in Written, e.section \in sections, InTime(sections, e),
           NEW newCounts, NEW newBest, Booked(counts, best, e, newCounts, newBest),
           NEW more, Extends(lines, e, more)
    PROVE  Good(language, sections, newCounts, newBest, more)
  <1>1. PICK n \in Nat :
           /\ n = Len(lines) /\ Len(more) = n + 1 /\ more \in Seq(Written \cup Title)
           /\ \A i \in 1 .. n : more[i] = lines[i]
           /\ more[n + 1] = e
    BY DEF Extends
  <1>2. IsLine(e)
    BY WrittenFacts
  <1>3. n = Len(lines)
    BY <1>1
  <1>4. \A i \in 1 .. Len(more) : i \in 1 .. n \/ (i = n + 1 /\ more[i] = e)
    BY <1>1
  <1>5. \A i \in 1 .. n : more[i] = lines[i] /\ lines[i].section \in sections
    BY <1>1, <1>3 DEF Good, Titled
  <1>6. InOrder(more)
    <2> SUFFICES ASSUME NEW i \in 1 .. Len(more), NEW j \in 1 .. Len(more), i < j, IsLine(more[i]), IsLine(more[j])
                 PROVE  /\ ~(more[j].section = "scope" /\ more[i].section \in {"evidence", "finding"})
                        /\ ~(more[j].section = "evidence" /\ more[i].section = "finding")
      BY DEF InOrder
    <2>1. i \in 1 .. n
      BY <1>1
    <2>2. CASE j \in 1 .. n
      BY <1>3, <1>5, <2>1, <2>2 DEF Good, InOrder
    <2>3. CASE j = n + 1
      BY <1>1, <1>5, <2>1, <2>3 DEF InTime
    <2> QED
      BY <1>4, <2>2, <2>3
  <1>7. Titled(language, sections, more)
    <2>1. ASSUME NEW i \in 1 .. Len(more)
          PROVE  /\ more[i].section \in sections
                 /\ IF IsLine(more[i]) THEN \E j \in 1 .. (i - 1) : ~IsLine(more[j]) /\ more[j].section = more[i].section
                    ELSE /\ \A j \in 1 .. (i - 1) : more[j].section # more[i].section
                         /\ more[i].title = language /\ language # Summary!None
      <3>1. CASE i \in 1 .. n
        <4>1. more[i] = lines[i] /\ \A j \in 1 .. (i - 1) : j \in 1 .. n /\ more[j] = lines[j]
          BY <1>1, <3>1
        <4> QED
          BY <1>3, <3>1, <4>1 DEF Good, Titled
      <3>2. CASE i = n + 1
        <4>1. PICK j \in 1 .. n : ~IsLine(lines[j]) /\ lines[j].section = e.section
          BY <1>3 DEF Good, Titled
        <4>2. j \in 1 .. (i - 1) /\ more[j] = lines[j] /\ more[i] = e
          BY <1>1, <3>2
        <4> QED
          BY <1>2, <4>1, <4>2
      <3> QED
        BY <1>4, <3>1, <3>2
    <2>2. ASSUME NEW s \in sections PROVE \E j \in 1 .. Len(more) : ~IsLine(more[j]) /\ more[j].section = s
      <3>1. PICK j \in 1 .. n : ~IsLine(lines[j]) /\ lines[j].section = s
        BY <1>3 DEF Good, Titled
      <3> QED
        BY <1>1, <3>1
    <2> QED
      BY <2>1, <2>2 DEF Titled
  <1>8. Topics(newCounts, newBest, more)
    BY TopicGrows DEF Good, Topics
  <1> QED
    BY <1>1, <1>6, <1>7, <1>8 DEF Good

LEMMA Concatenated ==
    ASSUME NEW S, NEW lines \in Seq(S), NEW line \in S
    PROVE  lines \o <<>> = lines /\ lines \o <<line>> = Append(lines, line)
  OBVIOUS

LEMMA PromoteFacts ==
    ASSUME NEW a, NEW event \in AllEvents, NEW e, e = Summary!Promote(a, event), ~Summary!TooLate(a, event)
    PROVE  e \in Written /\ InTime(a.sections \cup {e.section}, e)
  <1>1. event.section \in Summary!Sections /\ DOMAIN event = EventRecord
    BY EventFacts
  <1>2. CASE event.section = "evidence" /\ "finding" \in a.sections
    <2>1. e = PromotedOf(event)
      BY <1>2 DEF Summary!Promote, PromotedOf
    <2>2. e.section = "finding"
      BY <1>1, <2>1 DEF PromotedOf, EventRecord
    <2> QED
      BY <2>1, <2>2 DEF Written, InTime
  <1>3. CASE ~(event.section = "evidence" /\ "finding" \in a.sections)
    <2>1. e = event
      BY <1>3 DEF Summary!Promote
    <2>2. e.section = "scope" => a.sections \cap {"evidence", "finding"} = {}
      BY <2>1 DEF Summary!TooLate
    <2> QED
      BY <1>3, <2>1, <2>2 DEF Written, InTime
  <1> QED
    BY <1>2, <1>3

LEMMA BookedByEmit ==
    ASSUME NEW a, NEW lines \in Seq(Written \cup Title), Topics(a.counts, a.best, lines), NEW e \in Written, ~Summary!Spent(a, e),
           NEW counts, counts = (IF e.track = Summary!None THEN a.counts
                                 ELSE Summary!Set(a.counts, <<e.section, e.track>>,
                                                  Summary!Counted(a.counts, <<e.section, e.track>>) + 1)),
           NEW best, best = (IF e.track = Summary!None THEN a.best
                             ELSE Summary!Set(a.best, <<e.section, e.track>>, e.level))
    PROVE  Booked(a.counts, a.best, e, counts, best)
  <1>1. e.section \in Summary!Sections /\ e.track \in Topic /\ e.level \in Nat
    BY WrittenFacts
  <1>2. CASE e.track = Summary!None
    <2>1. counts = a.counts /\ best = a.best
      BY <1>2
    <2> QED
      BY <1>2, <2>1 DEF Booked
  <1>3. CASE e.track # Summary!None
    <2>1. PICK k : k = <<e.section, e.track>>
      OBVIOUS
    <2>2. TopicHolds(a.counts, a.best, lines, e.section, e.track)
      BY <1>1, <1>3 DEF Topics
    <2>3. Summary!Counted(a.counts, k) \in Nat /\ Summary!Counted(a.best, k) \in Nat
      BY <2>1, <2>2, SameIsFinite DEF TopicHolds
    <2>4. Summary!MaxPerTrack(e.section) \in Nat
      BY DEF Summary!MaxPerTrack
    <2>5. ~(Summary!Counted(a.counts, k) >= Summary!MaxPerTrack(e.section) \/ Summary!Counted(a.best, k) > e.level)
      BY <1>3, <2>1 DEF Summary!Spent
    <2>6. Summary!Counted(a.counts, k) < Summary!MaxPerTrack(e.section) /\ Summary!Counted(a.best, k) <= e.level
      BY <1>1, <2>3, <2>4, <2>5
    <2>7. counts = Summary!Set(a.counts, k, Summary!Counted(a.counts, k) + 1) /\ best = Summary!Set(a.best, k, e.level)
      BY <1>3, <2>1
    <2>8. \A j : /\ Summary!Counted(counts, j) =
                      IF j = k THEN Summary!Counted(a.counts, k) + 1 ELSE Summary!Counted(a.counts, j)
                 /\ Summary!Counted(best, j) = IF j = k THEN e.level ELSE Summary!Counted(a.best, j)
      BY <2>7, CountedSet
    <2>9. \A s, t : <<s, t>> = k <=> (s = e.section /\ t = e.track)
      BY <2>1
    <2> QED
      BY <2>1, <2>6, <2>8, <2>9 DEF Booked
  <1> QED
    BY <1>2, <1>3

(* What an event leaves of the aggregator.                                   *)
Remains(a, b) == b.language = a.language /\ b.en = a.en /\ b.agents = a.agents /\ b.pending = a.pending

LEMMA EmitKeeps ==
    ASSUME NEW a, NEW lines, NEW event \in AllEvents, SummaryOK(a, lines), a.language # Summary!None,
           NEW after, after = Summary!Emit(a, lines, event)
    PROVE  SummaryOK(after.agg, after.lines) /\ Remains(a, after.agg)
  <1>1. PICK e : e = Summary!Promote(a, event)
    OBVIOUS
  <1>2. CASE Summary!TooLate(a, event) \/ e.key \in a.emitted \/ Summary!Spent(a, e)
    <2>1. after = [agg |-> a, lines |-> lines]
      BY <1>1, <1>2 DEF Summary!Emit
    <2>2. after.agg = a /\ after.lines = lines
      BY <2>1
    <2> QED
      BY <2>2 DEF Remains
  <1>3. CASE ~(Summary!TooLate(a, event) \/ e.key \in a.emitted \/ Summary!Spent(a, e))
    <2>1. e \in Written /\ InTime(a.sections \cup {e.section}, e)
      BY <1>1, <1>3, PromoteFacts
    <2>2. e.section \in Summary!Sections
      BY <2>1, WrittenFacts
    <2>3. PICK counts, best :
             /\ counts = (IF e.track = Summary!None THEN a.counts
                          ELSE Summary!Set(a.counts, <<e.section, e.track>>,
                                           Summary!Counted(a.counts, <<e.section, e.track>>) + 1))
             /\ best = (IF e.track = Summary!None THEN a.best
                        ELSE Summary!Set(a.best, <<e.section, e.track>>, e.level))
      OBVIOUS
    <2>4. Good(a.language, a.sections, a.counts, a.best, lines) /\ lines \in Seq(Written \cup Title) /\ AggOK(a)
      BY DEF SummaryOK, Good
    <2>5. Booked(a.counts, a.best, e, counts, best)
      BY <1>3, <2>1, <2>3, <2>4, BookedByEmit DEF Good
    <2>6. PICK title : title = (IF e.section \in a.sections THEN <<>>
        ELSE <<[title |-> a.language, section |-> e.section]>>)
      OBVIOUS
    <2>7. PICK agg0 : agg0 = [a EXCEPT !.emitted = @ \cup {e.key}, !.sections = @ \cup {e.section},
                                       !.best = best, !.counts = counts]
      OBVIOUS
    <2>8. after = [agg |-> agg0, lines |-> lines \o title \o <<e>>]
      <3>1. DOMAIN a = {"language", "en", "agents", "emitted", "pending", "sections", "best", "counts"}
        BY <2>4 DEF AggOK
      <3> QED
        BY <1>1, <1>3, <2>3, <2>6, <2>7, <3>1 DEF Summary!Emit
    <2>9. after.agg = agg0 /\ after.lines = lines \o title \o <<e>>
      BY <2>8
    <2>10. /\ DOMAIN agg0 = DOMAIN a /\ agg0.sections = a.sections \cup {e.section}
           /\ agg0.counts = counts /\ agg0.best = best /\ Remains(a, agg0)
      BY <2>4, <2>7 DEF AggOK, Remains
    <2>11. AggOK(agg0)
      BY <2>4, <2>10 DEF AggOK, Remains
    <2>12. PICK titled \in Seq(Written \cup Title) :
              titled = lines \o title /\ Good(a.language, a.sections \cup {e.section}, a.counts, a.best, titled)
      <3>1. CASE e.section \in a.sections
        <4>1. lines \o title = lines
          BY <2>4, <2>6, <3>1, Concatenated
        <4>2. a.sections \cup {e.section} = a.sections
          BY <3>1
        <4> QED
          BY <2>4, <4>1, <4>2
      <3>2. CASE e.section \notin a.sections
        <4>1. PICK t : t = [title |-> a.language, section |-> e.section]
          OBVIOUS
        <4>2. t \in Title /\ t.title = a.language /\ t.section = e.section
          BY <2>2, <2>4, <4>1 DEF Title, AggOK
        <4>3. lines \o title = Append(lines, t)
          BY <2>4, <2>6, <3>2, <4>1, <4>2, Concatenated
        <4>4. Extends(lines, t, lines \o title) /\ lines \o title \in Seq(Written \cup Title)
          BY <2>4, <4>2, <4>3, Extended DEF Extends
        <4> QED
          BY <2>4, <3>2, <4>2, <4>4, TitleAdded
      <3> QED
        BY <3>1, <3>2
    <2>13. Extends(titled, e, after.lines)
      <3>1. titled \o <<e>> = Append(titled, e)
        BY <2>1, <2>12, Concatenated
      <3> QED
        BY <2>1, <2>9, <2>12, <3>1, Extended
    <2>14. Good(a.language, a.sections \cup {e.section}, counts, best, after.lines)
      BY <2>1, <2>5, <2>12, <2>13, EventAdded
    <2> QED
      BY <2>9, <2>10, <2>11, <2>14 DEF SummaryOK, Remains
  <1> QED
    BY <1>2, <1>3

-----------------------------------------------------------------------------
(* Events one after the other.                                               *)
EmitSteps(a, lines, row, after, n) ==
    after = [i \in 0 .. n |-> IF i = 0 THEN [agg |-> a, lines |-> lines]
                              ELSE Summary!Emit(after[i - 1].agg, after[i - 1].lines, row[i])]

LEMMA EmitStepsExist ==
    ASSUME NEW a, NEW lines, NEW row
    PROVE  \A n \in Nat : \E after : EmitSteps(a, lines, row, after, n)
  <1> DEFINE S == {n \in Nat : \E after : EmitSteps(a, lines, row, after, n)}
  <1>1. 0 \in S
    <2> DEFINE after == [i \in 0 .. 0 |-> [agg |-> a, lines |-> lines]]
    <2>1. EmitSteps(a, lines, row, after, 0)
      BY DEF EmitSteps
    <2> HIDE DEF after
    <2> QED
      BY <2>1
  <1>2. ASSUME NEW n \in Nat, n \in S PROVE n + 1 \in S
    <2>1. PICK old : EmitSteps(a, lines, row, old, n)
      BY <1>2
    <2> DEFINE next == Summary!Emit(old[n].agg, old[n].lines, row[n + 1])
    <2> DEFINE after == [i \in 0 .. n + 1 |-> IF i = n + 1 THEN next ELSE old[i]]
    <2>2. \A i \in 0 .. n : after[i] = old[i]
      OBVIOUS
    <2>3. \A i \in 0 .. n + 1 : after[i] = IF i = 0 THEN [agg |-> a, lines |-> lines]
                                           ELSE Summary!Emit(after[i - 1].agg, after[i - 1].lines, row[i])
      <3> SUFFICES ASSUME NEW i \in 0 .. n + 1
                   PROVE  after[i] = IF i = 0 THEN [agg |-> a, lines |-> lines]
                                     ELSE Summary!Emit(after[i - 1].agg, after[i - 1].lines, row[i])
        OBVIOUS
      <3>1. CASE i = n + 1
        <4>1. after[i] = next /\ i - 1 = n /\ i # 0
          BY <3>1
        <4>2. after[i - 1] = old[n]
          BY <2>2, <4>1
        <4> QED
          BY <3>1, <4>1, <4>2
      <3>2. CASE i = 0
        <4>1. i \in 0 .. n
          BY <3>2
        <4>2. old[i] = [agg |-> a, lines |-> lines]
          BY <2>1, <3>2, <4>1 DEF EmitSteps
        <4> QED
          BY <2>2, <3>2, <4>1, <4>2
      <3>3. CASE i # n + 1 /\ i # 0
        <4>1. i \in 0 .. n /\ i - 1 \in 0 .. n
          BY <3>3
        <4>2. old[i] = Summary!Emit(old[i - 1].agg, old[i - 1].lines, row[i])
          BY <2>1, <3>3, <4>1 DEF EmitSteps
        <4>3. after[i] = old[i] /\ after[i - 1] = old[i - 1]
          BY <2>2, <4>1
        <4> QED
          BY <3>3, <4>2, <4>3
      <3> QED
        BY <3>1, <3>2, <3>3
    <2>4. after = [i \in 0 .. n + 1 |-> after[i]]
      OBVIOUS
    <2> HIDE DEF after
    <2>5. EmitSteps(a, lines, row, after, n + 1)
      BY <2>3, <2>4 DEF EmitSteps
    <2> QED
      BY <2>5
  <1> HIDE DEF S
  <1>3. Nat \subseteq S
    BY <1>1, <1>2, InductionOverNat
  <1> QED
    BY <1>3 DEF S

LEMMA EmitStepsAre ==
    ASSUME NEW a, NEW lines, NEW row, NEW n \in Nat, NEW after, EmitSteps(a, lines, row, after, n)
    PROVE  /\ after[0] = [agg |-> a, lines |-> lines]
           /\ \A i \in 0 .. n : i # 0 => after[i] = Summary!Emit(after[i - 1].agg, after[i - 1].lines, row[i])
  BY DEF EmitSteps

LEMMA EmitAllSteps ==
    ASSUME NEW a, NEW lines, NEW row, Len(row) \in Nat
    PROVE  \E after : Summary!EmitAll(a, lines, row) = after[Len(row)] /\ EmitSteps(a, lines, row, after, Len(row))
  <1> DEFINE Steps == CHOOSE after : EmitSteps(a, lines, row, after, Len(row))
  <1>1. \E after : EmitSteps(a, lines, row, after, Len(row))
    BY EmitStepsExist
  <1>2. EmitSteps(a, lines, row, Steps, Len(row))
    BY <1>1
  <1>3. Summary!EmitAll(a, lines, row) = Steps[Len(row)]
    BY DEF Summary!EmitAll, EmitSteps
  <1> HIDE DEF Steps
  <1> QED
    BY <1>2, <1>3

LEMMA EmitAllKeeps ==
    ASSUME NEW a, NEW lines, NEW row \in Seq(AllEvents), SummaryOK(a, lines), a.language # Summary!None,
           NEW after, after = Summary!EmitAll(a, lines, row)
    PROVE  SummaryOK(after.agg, after.lines) /\ Remains(a, after.agg)
  <1>1. PICK n \in Nat : n = Len(row) /\ \A i \in 1 .. n : row[i] \in AllEvents
    OBVIOUS
  <1>2. PICK steps : /\ after = steps[n]
                     /\ steps[0] = [agg |-> a, lines |-> lines]
                     /\ \A i \in 0 .. n : i # 0 => steps[i] = Summary!Emit(steps[i - 1].agg, steps[i - 1].lines, row[i])
    <2>1. PICK steps : after = steps[n] /\ EmitSteps(a, lines, row, steps, n)
      BY <1>1, EmitAllSteps
    <2> QED
      BY <2>1, EmitStepsAre
  <1> DEFINE S == {i \in Nat : i <= n => SummaryOK(steps[i].agg, steps[i].lines) /\ Remains(a, steps[i].agg)}
  <1>3. 0 \in S
    <2>1. steps[0].agg = a /\ steps[0].lines = lines
      BY <1>2
    <2> QED
      BY <2>1 DEF Remains
  <1>4. ASSUME NEW i \in Nat, i \in S PROVE i + 1 \in S
    <2> SUFFICES ASSUME i + 1 <= n
                 PROVE  SummaryOK(steps[i + 1].agg, steps[i + 1].lines) /\ Remains(a, steps[i + 1].agg)
      OBVIOUS
    <2>1. PICK b, some : b = steps[i].agg /\ some = steps[i].lines
      OBVIOUS
    <2>2. SummaryOK(b, some) /\ Remains(a, b)
      BY <1>4, <2>1
    <2>3. row[i + 1] \in AllEvents /\ i + 1 \in 0 .. n /\ i + 1 # 0 /\ (i + 1) - 1 = i
      BY <1>1
    <2>4. steps[i + 1] = Summary!Emit(b, some, row[i + 1])
      BY <1>2, <2>1, <2>3
    <2>5. b.language # Summary!None
      BY <2>2 DEF Remains
    <2>6. SummaryOK(steps[i + 1].agg, steps[i + 1].lines) /\ Remains(b, steps[i + 1].agg)
      BY <2>2, <2>3, <2>4, <2>5, EmitKeeps
    <2> QED
      BY <2>2, <2>6 DEF Remains
  <1> HIDE DEF S
  <1>5. Nat \subseteq S
    BY <1>3, <1>4, InductionOverNat
  <1>6. n \in S
    BY <1>5
  <1> QED
    BY <1>2, <1>6 DEF S

LEMMA FlushKeeps ==
    ASSUME NEW a, NEW lines, AggOK([a EXCEPT !.pending = <<>>]), a.pending \in Seq(AllEvents), a.language # Summary!None,
           Good(a.language, a.sections, a.counts, a.best, lines),
           NEW after, after = Summary!FlushPending(a, lines)
    PROVE  /\ SummaryOK(after.agg, after.lines) /\ after.agg.pending = <<>>
           /\ after.agg.language = a.language /\ after.agg.en = a.en /\ after.agg.agents = a.agents
  <1>1. PICK b : b = [a EXCEPT !.pending = <<>>]
    OBVIOUS
  <1>2. DOMAIN b = DOMAIN a /\ DOMAIN b = {"language", "en", "agents", "emitted", "pending", "sections", "best", "counts"}
    BY <1>1 DEF AggOK
  <1>3. /\ b.language = a.language /\ b.en = a.en /\ b.agents = a.agents /\ b.pending = <<>>
        /\ b.sections = a.sections /\ b.counts = a.counts /\ b.best = a.best
    BY <1>1, <1>2
  <1>4. SummaryOK(b, lines) /\ after = Summary!EmitAll(b, lines, a.pending)
    BY <1>1, <1>3 DEF SummaryOK, Summary!FlushPending
  <1> QED
    BY <1>3, <1>4, EmitAllKeeps DEF Remains

(* dispatch: nothing is lost of the aggregator while an event waits.         *)
LEMMA DispatchKeeps ==
    ASSUME NEW state, SummaryOK(state.agg, state.lines), NEW event \in AllEvents,
           NEW after, after = Summary!Dispatch(state, event)
    PROVE  SummaryOK(after.agg, after.lines)
  <1>1. PICK a, lines : a = state.agg /\ lines = state.lines
    OBVIOUS
  <1>2. AggOK(a) /\ Good(a.language, a.sections, a.counts, a.best, lines)
    BY <1>1 DEF SummaryOK
  <1>3. PICK pending : pending = Append(a.pending, event)
    OBVIOUS
  <1>4. pending \in Seq(AllEvents) /\ Len(pending) \in Nat
    BY <1>2, <1>3 DEF AggOK
  <1>5. PICK waiting : waiting = [a EXCEPT !.pending = pending]
    OBVIOUS
  <1>6. /\ DOMAIN waiting = DOMAIN a /\ waiting.pending = pending
        /\ waiting.language = a.language /\ waiting.en = a.en /\ waiting.agents = a.agents
        /\ waiting.sections = a.sections /\ waiting.counts = a.counts /\ waiting.best = a.best
    BY <1>2, <1>5 DEF AggOK
  <1>7. a.en \in 0 .. EnVotes /\ EnVotes \in Nat /\ MaxPending \in Nat
    BY <1>2, SummaryAssumption DEF AggOK
  <1>8. CASE a.language = Summary!None /\ a.en < EnVotes /\ Len(waiting.pending) < MaxPending
    <2>0. ~(a.en >= EnVotes \/ Len(waiting.pending) >= MaxPending)
      BY <1>4, <1>6, <1>7, <1>8
    <2>1. after = [agg |-> waiting, lines |-> lines]
      BY <1>1, <1>3, <1>5, <1>8, <2>0 DEF Summary!Dispatch
    <2>2. after.agg = waiting /\ after.lines = lines
      BY <2>1
    <2>3. AggOK(waiting)
      BY <1>2, <1>4, <1>6, <1>7, <1>8 DEF AggOK
    <2> QED
      BY <1>2, <1>6, <2>2, <2>3 DEF SummaryOK
  <1>9. CASE a.language = Summary!None /\ ~(a.en < EnVotes /\ Len(waiting.pending) < MaxPending)
    <2>1. PICK settled : settled = [waiting EXCEPT !.language = "en"]
      OBVIOUS
    <2>2. a.en >= EnVotes \/ Len(waiting.pending) >= MaxPending
      BY <1>4, <1>6, <1>7, <1>9
    <2>3. after = Summary!FlushPending(settled, lines)
      BY <1>1, <1>3, <1>5, <1>9, <2>1, <2>2 DEF Summary!Dispatch
    <2>4. /\ DOMAIN settled = {"language", "en", "agents", "emitted", "pending", "sections", "best", "counts"}
          /\ settled.pending = pending
          /\ settled.language = "en" /\ settled.en = a.en /\ settled.agents = a.agents
          /\ settled.sections = a.sections /\ settled.counts = a.counts /\ settled.best = a.best
      BY <1>2, <1>6, <2>1 DEF AggOK
    <2>5. AggOK([settled EXCEPT !.pending = <<>>])
      BY <1>2, <1>7, <2>4 DEF AggOK
    <2>6. Good(settled.language, settled.sections, settled.counts, settled.best, lines)
      BY <1>2, <1>9, <2>4, SettledOnce
    <2>7. settled.language # Summary!None
      BY <2>4 DEF Summary!None
    <2> QED
      BY <1>4, <2>3, <2>4, <2>5, <2>6, <2>7, FlushKeeps
  <1>10. CASE a.language # Summary!None
    <2>1. PICK flushed : flushed = Summary!FlushPending(a, lines)
      OBVIOUS
    <2>2. after = Summary!Emit(flushed.agg, flushed.lines, event)
      BY <1>1, <1>10, <2>1 DEF Summary!Dispatch
    <2>3. AggOK([a EXCEPT !.pending = <<>>]) /\ a.pending \in Seq(AllEvents)
      BY <1>2, <1>7 DEF AggOK
    <2>4. SummaryOK(flushed.agg, flushed.lines) /\ flushed.agg.language # Summary!None
      BY <1>2, <1>10, <2>1, <2>3, FlushKeeps
    <2> QED
      BY <2>2, <2>4, EmitKeeps
  <1> QED
    BY <1>8, <1>9, <1>10

DispatchSteps(a, row, after, n) ==
    after = [i \in 0 .. n |-> IF i = 0 THEN [agg |-> a, lines |-> shown] ELSE Summary!Dispatch(after[i - 1], row[i])]

LEMMA DispatchStepsExist ==
    ASSUME NEW a, NEW row
    PROVE  \A n \in Nat : \E after : DispatchSteps(a, row, after, n)
  <1> DEFINE S == {n \in Nat : \E after : DispatchSteps(a, row, after, n)}
  <1>1. 0 \in S
    <2> DEFINE after == [i \in 0 .. 0 |-> [agg |-> a, lines |-> shown]]
    <2>1. DispatchSteps(a, row, after, 0)
      BY DEF DispatchSteps
    <2> HIDE DEF after
    <2> QED
      BY <2>1
  <1>2. ASSUME NEW n \in Nat, n \in S PROVE n + 1 \in S
    <2>1. PICK old : DispatchSteps(a, row, old, n)
      BY <1>2
    <2> DEFINE next == Summary!Dispatch(old[n], row[n + 1])
    <2> DEFINE after == [i \in 0 .. n + 1 |-> IF i = n + 1 THEN next ELSE old[i]]
    <2>2. \A i \in 0 .. n : after[i] = old[i]
      OBVIOUS
    <2>3. \A i \in 0 .. n + 1 : after[i] = IF i = 0 THEN [agg |-> a, lines |-> shown]
                                           ELSE Summary!Dispatch(after[i - 1], row[i])
      <3> SUFFICES ASSUME NEW i \in 0 .. n + 1
                   PROVE  after[i] = IF i = 0 THEN [agg |-> a, lines |-> shown]
                                     ELSE Summary!Dispatch(after[i - 1], row[i])
        OBVIOUS
      <3>1. CASE i = n + 1
        <4>1. after[i] = next /\ i - 1 = n /\ i # 0
          BY <3>1
        <4>2. after[i - 1] = old[n]
          BY <2>2, <4>1
        <4> QED
          BY <3>1, <4>1, <4>2
      <3>2. CASE i = 0
        <4>1. i \in 0 .. n
          BY <3>2
        <4>2. old[i] = [agg |-> a, lines |-> shown]
          BY <2>1, <3>2, <4>1 DEF DispatchSteps
        <4> QED
          BY <2>2, <3>2, <4>1, <4>2
      <3>3. CASE i # n + 1 /\ i # 0
        <4>1. i \in 0 .. n /\ i - 1 \in 0 .. n
          BY <3>3
        <4>2. old[i] = Summary!Dispatch(old[i - 1], row[i])
          BY <2>1, <3>3, <4>1 DEF DispatchSteps
        <4>3. after[i] = old[i] /\ after[i - 1] = old[i - 1]
          BY <2>2, <4>1
        <4> QED
          BY <3>3, <4>2, <4>3
      <3> QED
        BY <3>1, <3>2, <3>3
    <2>4. after = [i \in 0 .. n + 1 |-> after[i]]
      OBVIOUS
    <2> HIDE DEF after
    <2>5. DispatchSteps(a, row, after, n + 1)
      BY <2>3, <2>4 DEF DispatchSteps
    <2> QED
      BY <2>5
  <1> HIDE DEF S
  <1>3. Nat \subseteq S
    BY <1>1, <1>2, InductionOverNat
  <1> QED
    BY <1>3 DEF S

LEMMA DispatchStepsAre ==
    ASSUME NEW a, NEW row, NEW n \in Nat, NEW after, DispatchSteps(a, row, after, n)
    PROVE  /\ after[0] = [agg |-> a, lines |-> shown]
           /\ \A i \in 0 .. n : i # 0 => after[i] = Summary!Dispatch(after[i - 1], row[i])
  BY DEF DispatchSteps

LEMMA DispatchAllSteps ==
    ASSUME NEW a, NEW row, Len(row) \in Nat
    PROVE  \E after : Summary!DispatchAll(a, row) = after[Len(row)] /\ DispatchSteps(a, row, after, Len(row))
  <1> DEFINE Steps == CHOOSE after : DispatchSteps(a, row, after, Len(row))
  <1>1. \E after : DispatchSteps(a, row, after, Len(row))
    BY DispatchStepsExist
  <1>2. DispatchSteps(a, row, Steps, Len(row))
    BY <1>1
  <1>3. Summary!DispatchAll(a, row) = Steps[Len(row)]
    BY DEF Summary!DispatchAll, DispatchSteps
  <1> HIDE DEF Steps
  <1> QED
    BY <1>2, <1>3

LEMMA DispatchAllKeeps ==
    ASSUME NEW a, NEW row \in Seq(AllEvents), SummaryOK(a, shown),
           NEW after, after = Summary!DispatchAll(a, row)
    PROVE  SummaryOK(after.agg, after.lines)
  <1>1. PICK n \in Nat : n = Len(row) /\ \A i \in 1 .. n : row[i] \in AllEvents
    OBVIOUS
  <1>2. PICK steps : /\ after = steps[n]
                     /\ steps[0] = [agg |-> a, lines |-> shown]
                     /\ \A i \in 0 .. n : i # 0 => steps[i] = Summary!Dispatch(steps[i - 1], row[i])
    <2>1. PICK steps : after = steps[n] /\ DispatchSteps(a, row, steps, n)
      BY <1>1, DispatchAllSteps
    <2> QED
      BY <2>1, DispatchStepsAre
  <1> DEFINE S == {i \in Nat : i <= n => SummaryOK(steps[i].agg, steps[i].lines)}
  <1>3. 0 \in S
    <2>1. steps[0].agg = a /\ steps[0].lines = shown
      BY <1>2
    <2> QED
      BY <2>1
  <1>4. ASSUME NEW i \in Nat, i \in S PROVE i + 1 \in S
    <2> SUFFICES ASSUME i + 1 <= n PROVE SummaryOK(steps[i + 1].agg, steps[i + 1].lines)
      OBVIOUS
    <2>1. PICK before : before = steps[i]
      OBVIOUS
    <2>2. SummaryOK(before.agg, before.lines)
      BY <1>4, <2>1
    <2>3. row[i + 1] \in AllEvents /\ i + 1 \in 0 .. n /\ i + 1 # 0 /\ (i + 1) - 1 = i
      BY <1>1
    <2>4. steps[i + 1] = Summary!Dispatch(before, row[i + 1])
      BY <1>2, <2>1, <2>3
    <2> QED
      BY <2>2, <2>3, <2>4, DispatchKeeps
  <1> HIDE DEF S
  <1>5. Nat \subseteq S
    BY <1>3, <1>4, InductionOverNat
  <1>6. n \in S
    BY <1>5
  <1> QED
    BY <1>2, <1>6 DEF S

-----------------------------------------------------------------------------
(* Texts are read, and the language is voted for.                            *)

LEMMA EventsAre ==
    /\ \A e \in Summary!Thoughts \cup Summary!Searches \cup Summary!Cards : e \in AllEvents
    /\ Summary!AgentsStarted \in AllEvents
    /\ \A e \in Summary!ReportedEvidence \cup Summary!ReportedFinding : e \in AllEvents
  BY DEF AllEvents, Summary!Thoughts

LEMMA MaybeAre ==
    ASSUME NEW S, \A e \in S : e \in AllEvents, NEW row \in Summary!Maybe(S)
    PROVE  row \in Seq(AllEvents)
  <1>1. CASE \E e \in S : row = <<e>>
    BY <1>1
  <1>2. CASE row = <<>>
    BY <1>2
  <1> QED
    BY <1>1, <1>2 DEF Summary!Maybe

LEMMA VoteKeeps ==
    ASSUME SummaryInv, NEW v, NEW a, a = Summary!Vote(v)
    PROVE  SummaryOK(a, shown)
  <1>1. AggOK(agg) /\ Good(agg.language, agg.sections, agg.counts, agg.best, shown)
    BY DEF SummaryInv, SummaryOK
  <1>2. agg.en \in 0 .. EnVotes /\ EnVotes \in Nat /\ agg.language \in {Summary!None, "zh", "en"}
    BY <1>1, SummaryAssumption DEF AggOK
  <1>3. /\ DOMAIN a = DOMAIN agg /\ a.agents = agg.agents /\ a.pending = agg.pending
        /\ a.sections = agg.sections /\ a.counts = agg.counts /\ a.best = agg.best
        /\ a.language \in {Summary!None, "zh", "en"} /\ a.en \in 0 .. EnVotes
        /\ a.language = agg.language \/ agg.language = Summary!None
    <2>1. CASE v = "zh"
      <3>1. a = [agg EXCEPT !.language = IF agg.language = Summary!None THEN "zh" ELSE agg.language]
        BY <2>1 DEF Summary!Vote
      <3> QED
        BY <1>1, <1>2, <3>1 DEF AggOK
    <2>2. CASE v = "en"
      <3>1. a = [agg EXCEPT !.en = IF agg.en < EnVotes THEN agg.en + 1 ELSE agg.en]
        BY <2>2 DEF Summary!Vote
      <3>2. (IF agg.en < EnVotes THEN agg.en + 1 ELSE agg.en) \in 0 .. EnVotes
        BY <1>2
      <3> QED
        BY <1>1, <1>2, <3>1, <3>2 DEF AggOK
    <2>3. CASE v # "zh" /\ v # "en"
      <3>1. a = agg
        BY <2>3 DEF Summary!Vote
      <3> QED
        BY <1>2, <3>1
    <2> QED
      BY <2>1, <2>2, <2>3
  <1>4. AggOK(a)
    BY <1>1, <1>3 DEF AggOK
  <1>5. Good(a.language, a.sections, a.counts, a.best, shown)
    BY <1>1, <1>3, SettledOnce
  <1> QED
    BY <1>4, <1>5 DEF SummaryOK

LEMMA DispatchedKeeps ==
    ASSUME SummaryInv, NEW a, SummaryOK(a, shown), NEW row \in Seq(AllEvents), Summary!Read(a, row)
    PROVE  SummaryInv'
  <1>1. PICK after : after = Summary!DispatchAll(a, row)
    OBVIOUS
  <1>2. agg' = after.agg /\ shown' = after.lines
    BY <1>1 DEF Summary!Becomes, Summary!Read
  <1>3. SummaryOK(after.agg, after.lines)
    BY <1>1, DispatchAllKeeps
  <1>4. inputs' \in 0 .. MaxInputs
    <2>1. Len(row) \in Nat /\ inputs \in Nat /\ MaxInputs \in Nat
      BY SummaryAssumption DEF SummaryInv
    <2> QED
      BY <2>1 DEF Summary!Read
  <1>5. SummaryOK(agg', shown')
    BY <1>2, <1>3
  <1> QED
    BY <1>4, <1>5 DEF SummaryInv, SummaryOK, AggOK, Good, InOrder, Titled, Topics, TopicHolds, Same

LEMMA ThinkingKeeps == ASSUME SummaryInv, Summary!OnThinking PROVE SummaryInv'
  <1>1. PICK v \in Summary!Votes, row \in Summary!Maybe(Summary!Thoughts) :
           Summary!Read(Summary!Vote(v), row)
    BY DEF Summary!OnThinking
  <1>2. row \in Seq(AllEvents)
    BY EventsAre, MaybeAre
  <1> QED
    BY <1>1, <1>2, VoteKeeps, DispatchedKeeps

LEMMA CardKeeps == ASSUME SummaryInv, Summary!OnCard PROVE SummaryInv'
  <1>1. PICK v \in Summary!Votes, row \in Summary!Maybe(Summary!Cards) :
           Summary!Read(Summary!Vote(v), row)
    BY DEF Summary!OnCard
  <1>2. row \in Seq(AllEvents)
    BY EventsAre, MaybeAre
  <1> QED
    BY <1>1, <1>2, VoteKeeps, DispatchedKeeps

LEMMA ReportKeeps == ASSUME SummaryInv, Summary!OnReport PROVE SummaryInv'
  <1>1. PICK v \in Summary!Votes, row \in Summary!Reports :
           Summary!Read(Summary!Vote(v), row)
    BY DEF Summary!OnReport
  <1>2. row \in Seq(AllEvents)
    <2>1. PICK n \in 0 .. MaxReport : row \in [1 .. n -> Summary!ReportedEvidence \cup Summary!ReportedFinding]
      BY DEF Summary!Reports, Summary!Rows
    <2>2. n \in Nat
      BY <2>1, SummaryAssumption
    <2>3. \A i \in 1 .. n : row[i] \in AllEvents
      BY <2>1, EventsAre
    <2>4. row = [i \in 1 .. n |-> row[i]]
      BY <2>1
    <2> QED
      BY <2>2, <2>3, <2>4
  <1> QED
    BY <1>1, <1>2, VoteKeeps, DispatchedKeeps

LEMMA SearchKeeps == ASSUME SummaryInv, Summary!OnSearch PROVE SummaryInv'
  <1>1. PICK v \in Summary!Votes, found \in Summary!Maybe(Summary!Searches), agent \in BOOLEAN :
           LET first == agent /\ ~agg.agents
           IN  Summary!Read([Summary!Vote(v) EXCEPT !.agents = @ \/ first],
                            IF first THEN <<Summary!AgentsStarted>> \o found ELSE found)
    BY DEF Summary!OnSearch
  <1>2. PICK voted : voted = Summary!Vote(v)
    OBVIOUS
  <1>3. SummaryOK(voted, shown)
    BY <1>2, VoteKeeps
  <1>4. PICK first : first = (agent /\ ~agg.agents)
    OBVIOUS
  <1>5. PICK a : a = [voted EXCEPT !.agents = voted.agents \/ first]
    OBVIOUS
  <1>6. PICK row : row = (IF first THEN <<Summary!AgentsStarted>> \o found ELSE found)
    OBVIOUS
  <1>7. first \in BOOLEAN /\ Summary!Read(a, row)
    BY <1>1, <1>2, <1>4, <1>5, <1>6
  <1>8. found \in Seq(AllEvents)
    BY EventsAre, MaybeAre
  <1>9. row \in Seq(AllEvents)
    <2>1. <<Summary!AgentsStarted>> \in Seq(AllEvents)
      BY EventsAre
    <2>2. <<Summary!AgentsStarted>> \o found \in Seq(AllEvents)
      BY <1>8, <2>1
    <2> QED
      BY <1>6, <1>8, <2>2
  <1>10. SummaryOK(a, shown)
    <2>1. AggOK(voted) /\ Good(voted.language, voted.sections, voted.counts, voted.best, shown)
      BY <1>3 DEF SummaryOK
    <2>2. PICK agents \in BOOLEAN : agents = (voted.agents \/ first)
      OBVIOUS
    <2>3. a = [voted EXCEPT !.agents = agents]
      BY <1>5, <2>2
    <2>4. /\ DOMAIN a = DOMAIN voted /\ a.language = voted.language /\ a.en = voted.en /\ a.agents = agents
          /\ a.pending = voted.pending
          /\ a.sections = voted.sections /\ a.counts = voted.counts /\ a.best = voted.best
      BY <2>1, <2>3 DEF AggOK
    <2>5. AggOK(a)
      BY <2>1, <2>4 DEF AggOK
    <2> QED
      BY <2>1, <2>4, <2>5 DEF SummaryOK
  <1> QED
    BY <1>7, <1>9, <1>10, DispatchedKeeps

LEMMA FinalizeKeeps == ASSUME SummaryInv, Summary!Finalize PROVE SummaryInv'
  <1>1. AggOK(agg) /\ Good(agg.language, agg.sections, agg.counts, agg.best, shown)
    BY DEF SummaryInv, SummaryOK
  <1>2. PICK language : language = (IF agg.language # Summary!None THEN agg.language
                                    ELSE IF agg.en > 0 THEN "en" ELSE "zh")
    OBVIOUS
  <1>3. language \in {"zh", "en"} /\ language # Summary!None
    BY <1>1, <1>2 DEF AggOK, Summary!None
  <1>4. PICK a : a = [agg EXCEPT !.language = language]
    OBVIOUS
  <1>5. PICK after : after = Summary!FlushPending(a, shown)
    OBVIOUS
  <1>6. agg' = after.agg /\ shown' = after.lines /\ inputs' = inputs
    BY <1>2, <1>4, <1>5 DEF Summary!Finalize, Summary!Becomes
  <1>7. /\ DOMAIN a = DOMAIN agg /\ a.language = language /\ a.en = agg.en /\ a.agents = agg.agents
        /\ a.pending = agg.pending
        /\ a.sections = agg.sections /\ a.counts = agg.counts /\ a.best = agg.best
    BY <1>1, <1>4 DEF AggOK
  <1>8. AggOK([a EXCEPT !.pending = <<>>])
    BY <1>1, <1>3, <1>7, SummaryAssumption DEF AggOK
  <1>9. Good(a.language, a.sections, a.counts, a.best, shown)
    BY <1>1, <1>2, <1>7, SettledOnce
  <1>10. a.pending \in Seq(AllEvents)
    BY <1>1, <1>7 DEF AggOK
  <1>11. SummaryOK(after.agg, after.lines)
    BY <1>3, <1>5, <1>7, <1>8, <1>9, <1>10, FlushKeeps
  <1>12. SummaryOK(agg', shown')
    BY <1>6, <1>11
  <1> QED
    BY <1>6, <1>12 DEF SummaryInv, SummaryOK, AggOK, Good, InOrder, Titled, Topics, TopicHolds, Same

LEMMA SummaryInit == Init => SummaryInv
  <1> SUFFICES ASSUME Init PROVE SummaryInv
    OBVIOUS
  <1>1. Summary!Init
    BY DEF Init
  <1>2. /\ DOMAIN agg = {"language", "en", "agents", "emitted", "pending", "sections", "best", "counts"}
        /\ agg.language = Summary!None /\ agg.en = 0 /\ agg.agents = FALSE /\ agg.pending = <<>>
        /\ agg.sections = {} /\ agg.counts = [t \in {} |-> 0] /\ agg.best = [t \in {} |-> 0]
        /\ shown = <<>> /\ inputs = 0
    BY <1>1 DEF Summary!Init
  <1>3. AggOK(agg)
    <2>1. agg.pending \in Seq(AllEvents) /\ Len(agg.pending) = 0
      BY <1>2
    <2>2. agg.language \in {Summary!None, "zh", "en"} /\ agg.agents \in BOOLEAN
      BY <1>2
    <2>3. agg.en \in 0 .. EnVotes /\ Len(agg.pending) <= MaxPending
      <3>1. agg.en = 0
        BY <1>2
      <3> QED
        BY <2>1, <3>1, SummaryAssumption
    <2>4. DOMAIN agg = {"language", "en", "agents", "emitted", "pending", "sections", "best", "counts"}
      BY <1>2
    <2> QED
      BY <2>1, <2>2, <2>3, <2>4 DEF AggOK
  <1>4. Len(shown) = 0 /\ shown \in Seq(Written \cup Title)
    BY <1>2
  <1>5. InOrder(shown) /\ Titled(agg.language, agg.sections, shown)
    BY <1>2, <1>4 DEF InOrder, Titled
  <1>6. Topics(agg.counts, agg.best, shown)
    <2>1. \A s, t : Same(shown, s, t) = {}
      BY <1>4 DEF Same
    <2>2. \A k : Summary!Counted(agg.counts, k) = 0 /\ Summary!Counted(agg.best, k) = 0
      BY <1>2 DEF Summary!Counted
    <2>3. \A s : 0 <= Summary!MaxPerTrack(s)
      BY DEF Summary!MaxPerTrack
    <2> QED
      BY <2>1, <2>2, <2>3, FS_EmptySet DEF Topics, TopicHolds
  <1> QED
    BY <1>2, <1>3, <1>4, <1>5, <1>6, SummaryAssumption DEF SummaryInv, SummaryOK, Good

LEMMA SummaryStep == SummaryInv /\ [Next]_vars => SummaryInv'
  <1> SUFFICES ASSUME SummaryInv, [Next]_vars PROVE SummaryInv'
    OBVIOUS
  <1>1. CASE Summary!Next
    BY <1>1, ThinkingKeeps, SearchKeeps, CardKeeps, ReportKeeps, FinalizeKeeps DEF Summary!Next
  <1>2. CASE UNCHANGED summaryVars
    <2>1. agg' = agg /\ shown' = shown /\ inputs' = inputs
      BY <1>2 DEF summaryVars
    <2>2. SummaryOK(agg', shown') /\ inputs' \in 0 .. MaxInputs
      BY <2>1 DEF SummaryInv
    <2> QED
      BY <2>2 DEF SummaryInv, SummaryOK, AggOK, Good, InOrder, Titled, Topics, TopicHolds, Same
  <1> QED
    BY <1>1, <1>2 DEF Next, vars, InBuild, InChat, InSummary, InRounds, InBatch

LEMMA SummaryCase == SummaryInv => SummaryIsOrderly
  <1> SUFFICES ASSUME SummaryInv PROVE Summary!SummaryIsOrderly
    BY DEF SummaryIsOrderly
  <1>1. AggOK(agg) /\ Good(agg.language, agg.sections, agg.counts, agg.best, shown) /\ inputs \in 0 .. MaxInputs
    BY DEF SummaryInv, SummaryOK
  <1>2. PICK language, sections, counts, best :
           language = agg.language /\ sections = agg.sections /\ counts = agg.counts /\ best = agg.best
    OBVIOUS
  <1>3. /\ shown \in Seq(Written \cup Title) /\ InOrder(shown) /\ Titled(language, sections, shown)
        /\ Topics(counts, best, shown)
    BY <1>1, <1>2 DEF Good
  <1>4. \A i : Summary!Line(i) <=> IsLine(shown[i])
    BY DEF Summary!Line, IsLine
  <1>5. Summary!TypeOK
    BY <1>1 DEF AggOK, Good, Summary!TypeOK
  <1>6. Summary!SectionsInOrder
    BY <1>3, <1>4 DEF InOrder, Summary!SectionsInOrder
  <1>7. Summary!OneTitlePerSection
    BY <1>3, <1>4 DEF Titled, Summary!OneTitlePerSection
  <1>8. Summary!TopicsAreBounded
    <2> SUFFICES ASSUME NEW i \in 1 .. Len(shown), Summary!Line(i), shown[i].track # Summary!None,
                        NEW same, same = {j \in 1 .. Len(shown) : /\ Summary!Line(j) /\ shown[j].section = shown[i].section
                                                                  /\ shown[j].track = shown[i].track}
                 PROVE  /\ Summary!Cardinality(same) <= (IF shown[i].section \in {"scope", "evidence"} THEN 1 ELSE 2)
                        /\ \A j \in same : j < i => shown[j].level <= shown[i].level
      BY DEF Summary!TopicsAreBounded
    <2>1. PICK e : e = shown[i]
      OBVIOUS
    <2>2. e \in Written
      BY <1>3, <1>4, <2>1, TitleFacts
    <2>3. e.section \in Summary!Sections /\ e.track \in Topic \ {Summary!None}
      BY <2>1, <2>2, WrittenFacts
    <2>4. same = Same(shown, e.section, e.track)
      BY <1>4, <2>1 DEF Same
    <2>5. TopicHolds(counts, best, shown, e.section, e.track)
      BY <1>3, <2>3 DEF Topics
    <2>6. Summary!Cardinality(same) <= Summary!MaxPerTrack(e.section)
      BY <2>4, <2>5, SummaryCount DEF TopicHolds
    <2>7. i \in same
      BY DEF Summary!Line
    <2>8. \A j \in same : j < i => shown[j].level <= shown[i].level
      BY <2>4, <2>5, <2>7 DEF TopicHolds
    <2> QED
      BY <2>1, <2>6, <2>8 DEF Summary!MaxPerTrack
  <1> QED
    BY <1>5, <1>6, <1>7, <1>8 DEF Summary!SummaryIsOrderly

(* SummaryIsOrderly, for every set of topics and any number of thoughts and  *)
(* cards: whenever the language is settled, and whatever waited for it, emit *)
(* writes the sections in their order, each under its one title, and gives   *)
(* no topic more than its share.                                             *)
THEOREM SummaryStaysOrderly == Spec => []SummaryIsOrderly
  <1>1. Spec => []SummaryInv
    BY SummaryInit, SummaryStep, PTL DEF Spec
  <1> QED
    BY <1>1, SummaryCase, PTL
=============================================================================
