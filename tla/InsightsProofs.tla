--------------------------- MODULE InsightsProofs ---------------------------
(***************************************************************************)
(* Theorems about Insights, for every cluster, all changes others make     *)
(* and every request, and about Suppressions, for all checks and requests. *)
(***************************************************************************)
EXTENDS Insights, Suppressions, FiniteSetTheorems, SequenceTheorems, WellFoundedInduction, TLAPS

-----------------------------------------------------------------------------
(* Induction, and the two recursive functions of the model.                *)

LEMMA Induction ==
    ASSUME NEW G, 0 \in G, \A n \in Nat : n \in G => n + 1 \in G
    PROVE  \A n \in Nat : n \in G
<1> DEFINE R == OpToRel(<, Nat)
           Bad == {n \in Nat : n \notin G}
<1>1. SUFFICES ASSUME Bad # {} PROVE FALSE
  OBVIOUS
<1>2. PICK n \in Bad : \A m \in Bad : <<m, n>> \notin R
  <2> HIDE DEF R
  <2>1. IsWellFoundedOn(R, Nat)
    BY NatLessThanWellFounded DEF R
  <2>2. Bad \subseteq Nat
    OBVIOUS
  <2> HIDE DEF Bad
  <2> QED
    BY <1>1, <2>1, <2>2, WFMin
<1>3. n \in Nat /\ n # 0 /\ n - 1 \in Nat /\ n - 1 < n
  OBVIOUS
<1>4. n - 1 \notin Bad
  BY <1>2, <1>3 DEF OpToRel
<1>5. n - 1 \in G
  BY <1>3, <1>4
<1>6. (n - 1) + 1 \in G
  BY <1>3, <1>5
<1> QED
  BY <1>3, <1>6

\* Names of a request.
Proper(names) ==
    /\ names \in Seq(ToSet(names))
    /\ \A i, j \in 1..Len(names) : names[i] = names[j] => i = j
    /\ ClusterScope \notin ToSet(names)

Blocks(names) == [i \in DOMAIN names |-> NamespaceCalls(names[i])]

Flattening(names, m, f) ==
    f = [i \in 1..m |-> IF i = 1 THEN Blocks(names)[i] ELSE f[i - 1] \o Blocks(names)[i]]

LEMMA FlatteningExists ==
    ASSUME NEW names, NEW m \in Nat
    PROVE  \E f : Flattening(names, m, f)
<1> DEFINE G == {n \in Nat : \E f : Flattening(names, n, f)}
<1>1. 0 \in G
  <2> DEFINE f == [i \in 1..0 |-> 0]
  <2>1. f = [i \in 1..0 |-> IF i = 1 THEN Blocks(names)[i] ELSE f[i - 1] \o Blocks(names)[i]]
    OBVIOUS
  <2> QED
    BY <2>1 DEF Flattening
<1>2. ASSUME NEW n \in Nat, n \in G PROVE n + 1 \in G
  <2>1. PICK f : Flattening(names, n, f)
    BY <1>2
  <2> DEFINE Value(i, h) == IF i = 1 THEN Blocks(names)[i] ELSE h[i - 1] \o Blocks(names)[i]
             g == [i \in 1..(n + 1) |-> Value(i, f)]
  <2>2. \A i \in 1..n : g[i] = f[i]
    <3>1. f = [i \in 1..n |-> Value(i, f)]
      BY <2>1 DEF Flattening
    <3> HIDE DEF Value
    <3> QED
      BY <3>1
  <2>3. \A i \in 1..(n + 1) : Value(i, g) = Value(i, f)
    <3> TAKE i \in 1..(n + 1)
    <3>1. CASE i = 1
      BY <3>1
    <3>2. CASE i # 1
      <4>1. i - 1 \in 1..n
        BY <3>2
      <4>2. g[i - 1] = f[i - 1]
        BY <2>2, <4>1
      <4> HIDE DEF g
      <4> QED
        BY <3>2, <4>2
    <3> QED
      BY <3>1, <3>2
  <2>4. g = [i \in 1..(n + 1) |-> Value(i, g)]
    <3>1. g = [i \in 1..(n + 1) |-> Value(i, f)]
      OBVIOUS
    <3> HIDE DEF g, Value
    <3> QED
      BY <2>3, <3>1
  <2>5. Flattening(names, n + 1, g)
    <3> HIDE DEF g
    <3> QED
      BY <2>4 DEF Flattening
  <2> QED
    BY <2>5
<1>3. \A n \in Nat : n \in G
  <2> HIDE DEF G
  <2> QED
    BY <1>1, <1>2, Induction
<1> QED
  BY <1>3

LEMMA FlattenBlocks ==
    ASSUME NEW names, Proper(names), names # << >>
    PROVE  \E f : /\ Flattening(names, Len(names), f)
                  /\ FlattenSeq(Blocks(names)) = f[Len(names)]
<1>1. Len(names) \in Nat /\ DOMAIN names = 1..Len(names) /\ Len(names) # 0
  BY DEF Proper
<1>2. Len(Blocks(names)) = Len(names)
  BY <1>1 DEF Blocks
<1> DEFINE f == CHOOSE g : Flattening(names, Len(names), g)
<1>3. Flattening(names, Len(names), f)
  BY <1>1, FlatteningExists
<1>4. FlattenSeq(Blocks(names)) = f[Len(names)]
  BY <1>1, <1>2 DEF FlattenSeq, Flattening
<1> QED
  BY <1>3, <1>4

-----------------------------------------------------------------------------
(* The order of the calls: four for the cluster, fourteen for each namespace, *)
(* one for the volumes, the suppression list.                              *)

BlockCalls(names) == {NamespaceCalls(names[b])[k] : b \in 1..Len(names), k \in 1..14}

LEMMA BlockShape ==
    ASSUME NEW names, NEW b \in 1..Len(names)
    PROVE  /\ NamespaceCalls(names[b]) \in Seq(BlockCalls(names))
           /\ Len(NamespaceCalls(names[b])) = 14
<1> DEFINE s == NamespaceCalls(names[b])
<1>1. Len(s) = 14 /\ DOMAIN s = 1..14 /\ s = [k \in 1..14 |-> s[k]]
  BY DEF NamespaceCalls
<1>2. \A k \in 1..14 : s[k] \in BlockCalls(names)
  BY DEF BlockCalls
<1>3. s \in Seq(BlockCalls(names))
  <2> HIDE DEF s
  <2> QED
    BY <1>1, <1>2, SeqDef
<1> QED
  BY <1>1, <1>3

\* The first n blocks.
Laid(names, n, s) ==
    /\ s \in Seq(BlockCalls(names))
    /\ Len(s) = 14 * n
    /\ \A b \in 1..n, k \in 1..14 : s[14 * (b - 1) + k] = NamespaceCalls(names[b])[k]
    /\ \A i \in 1..(14 * n) : \E b \in 1..n, k \in 1..14 : i = 14 * (b - 1) + k

LEMMA NextBlock ==
    ASSUME NEW names, NEW n \in Nat, n + 1 \in 1..Len(names), NEW s, Laid(names, n, s)
    PROVE  Laid(names, n + 1, s \o NamespaceCalls(names[n + 1]))
<1> DEFINE block == NamespaceCalls(names[n + 1])
           t == s \o block
<1>1. block \in Seq(BlockCalls(names)) /\ Len(block) = 14
  BY BlockShape
<1>2. s \in Seq(BlockCalls(names)) /\ Len(s) = 14 * n
  BY DEF Laid
<1> HIDE DEF block
<1>3. /\ t \in Seq(BlockCalls(names))
      /\ Len(t) = 14 * (n + 1)
      /\ \A i \in 1..(14 * n) : t[i] = s[i]
      /\ \A k \in 1..14 : t[14 * n + k] = block[k]
  <2>1. /\ t \in Seq(BlockCalls(names))
        /\ Len(t) = Len(s) + Len(block)
        /\ \A i \in 1..Len(s) + Len(block) :
               t[i] = IF i <= Len(s) THEN s[i] ELSE block[i - Len(s)]
    BY <1>1, <1>2, ConcatProperties
  <2>2. \A i \in 1..Len(t) : t[i] = IF i <= Len(s) THEN s[i] ELSE block[i - Len(s)]
    BY <2>1
  <2>3. Len(t) = 14 * (n + 1)
    BY <1>1, <1>2, <2>1
  <2> HIDE DEF t
  <2>4. \A i \in 1..(14 * n) : t[i] = s[i]
    BY <1>2, <2>2, <2>3
  <2>5. ASSUME NEW k \in 1..14 PROVE t[14 * n + k] = block[k]
    <3>1. 14 * n + k \in 1..Len(t) /\ ~(14 * n + k <= Len(s)) /\ (14 * n + k) - Len(s) = k
      BY <1>2, <2>3
    <3> QED
      BY <2>2, <3>1
  <2> QED
    BY <2>1, <2>3, <2>4, <2>5
<1> HIDE DEF t
<1>4. ASSUME NEW b \in 1..(n + 1), NEW k \in 1..14
      PROVE  t[14 * (b - 1) + k] = NamespaceCalls(names[b])[k]
  <2>1. CASE b = n + 1
    <3>1. 14 * (b - 1) + k = 14 * n + k
      BY <2>1
    <3> QED
      BY <1>3, <2>1, <3>1 DEF block
  <2>2. CASE b # n + 1
    <3>1. b \in 1..n /\ 14 * (b - 1) + k \in 1..(14 * n)
      BY <2>2
    <3>2. s[14 * (b - 1) + k] = NamespaceCalls(names[b])[k]
      BY <3>1 DEF Laid
    <3>3. t[14 * (b - 1) + k] = s[14 * (b - 1) + k]
      BY <1>3, <3>1
    <3> QED
      BY <3>2, <3>3
  <2> QED
    BY <2>1, <2>2
<1>5. ASSUME NEW i \in 1..(14 * (n + 1))
      PROVE  \E b \in 1..(n + 1), k \in 1..14 : i = 14 * (b - 1) + k
  <2>1. CASE i \in 1..(14 * n)
    <3>1. PICK b \in 1..n, k \in 1..14 : i = 14 * (b - 1) + k
      BY <2>1 DEF Laid
    <3>2. b \in 1..(n + 1)
      OBVIOUS
    <3> QED
      BY <3>1, <3>2
  <2>2. CASE i \notin 1..(14 * n)
    <3>1. i - 14 * n \in 1..14 /\ n + 1 \in 1..(n + 1) /\ i = 14 * ((n + 1) - 1) + (i - 14 * n)
      BY <2>2
    <3> QED
      BY <3>1
  <2> QED
    BY <2>1, <2>2
<1> QED
  BY <1>3, <1>4, <1>5 DEF Laid, t, block

LEMMA BlocksLaid ==
    ASSUME NEW names, Proper(names), names # << >>
    PROVE  Laid(names, Len(names), FlattenSeq(Blocks(names)))
<1>1. PICK f : /\ Flattening(names, Len(names), f)
               /\ FlattenSeq(Blocks(names)) = f[Len(names)]
  BY FlattenBlocks
<1>2. Len(names) \in Nat /\ DOMAIN names = 1..Len(names) /\ Len(names) # 0
  BY DEF Proper
<1>3. \A i \in 1..Len(names) :
          f[i] = IF i = 1 THEN NamespaceCalls(names[i]) ELSE f[i - 1] \o NamespaceCalls(names[i])
  BY <1>1, <1>2 DEF Flattening, Blocks
<1> DEFINE G == {n \in Nat : n \in 1..Len(names) => Laid(names, n, f[n])}
<1>4. 0 \in G
  OBVIOUS
<1>5. ASSUME NEW n \in Nat, n \in G PROVE n + 1 \in G
  <2>1. SUFFICES ASSUME n + 1 \in 1..Len(names) PROVE Laid(names, n + 1, f[n + 1])
    OBVIOUS
  <2>2. CASE n = 0
    <3>1. Laid(names, 0, << >>)
      BY DEF Laid
    <3>2. Laid(names, 0 + 1, << >> \o NamespaceCalls(names[0 + 1]))
      BY <2>1, <2>2, <3>1, NextBlock
    <3>3. f[1] = NamespaceCalls(names[1])
      BY <1>3, <2>1, <2>2
    <3>4. << >> \o NamespaceCalls(names[1]) = NamespaceCalls(names[1])
      <4>1. NamespaceCalls(names[1]) \in Seq(BlockCalls(names))
        BY <2>1, <2>2, BlockShape
      <4> QED
        BY <4>1
    <3> QED
      BY <2>2, <3>2, <3>3, <3>4
  <2>3. CASE n # 0
    <3>1. n \in 1..Len(names) /\ Laid(names, n, f[n])
      BY <1>5, <2>1, <2>3
    <3>2. f[n + 1] = f[n] \o NamespaceCalls(names[n + 1])
      <4>1. n + 1 # 1 /\ (n + 1) - 1 = n
        BY <2>3
      <4> QED
        BY <1>3, <2>1, <4>1
    <3> QED
      BY <2>1, <3>1, <3>2, NextBlock
  <2> QED
    BY <2>2, <2>3
<1>6. \A n \in Nat : n \in G
  <2> HIDE DEF G
  <2> QED
    BY <1>4, <1>5, Induction
<1> QED
  BY <1>1, <1>2, <1>6

AllCalls(names) ==
    BlockCalls(names) \cup {ClusterCalls[i] : i \in 1..4} \cup {VolumeCalls[1], SuppressionCall}

Place(b, k) == 14 * (b - 1) + k + 4

LEMMA SingleCall ==
    ASSUME NEW call, NEW S, call \in S
    PROVE  <<call>> \in Seq(S) /\ Len(<<call>>) = 1 /\ <<call>>[1] = call
  OBVIOUS

LEMMA ClusterCallsShape ==
    ASSUME NEW names
    PROVE  ClusterCalls \in Seq(AllCalls(names)) /\ Len(ClusterCalls) = 4
<1>1. Len(ClusterCalls) = 4 /\ DOMAIN ClusterCalls = 1..4
      /\ ClusterCalls = [k \in 1..4 |-> ClusterCalls[k]]
  BY DEF ClusterCalls, MetricsCalls
<1>2. \A k \in 1..4 : ClusterCalls[k] \in AllCalls(names)
  BY DEF AllCalls
<1> QED
  BY <1>1, <1>2, SeqDef

LEMMA Layout ==
    ASSUME NEW names, Proper(names), names # << >>
    PROVE  /\ Calls(names) \in Seq(AllCalls(names))
           /\ Len(Calls(names)) = 14 * Len(names) + 6
           /\ \A i \in 1..4 : Calls(names)[i] = ClusterCalls[i]
           /\ \A b \in 1..Len(names), k \in 1..14 :
                  Calls(names)[Place(b, k)] = NamespaceCalls(names[b])[k]
           /\ \A i \in 5..(14 * Len(names) + 4) : \E b \in 1..Len(names), k \in 1..14 : i = Place(b, k)
           /\ Calls(names)[14 * Len(names) + 5] = VolumeCalls[1]
           /\ Calls(names)[14 * Len(names) + 6] = SuppressionCall
<1> DEFINE m == Len(names)
           blocks == FlattenSeq(Blocks(names))
           A == AllCalls(names)
           s1 == ClusterCalls \o blocks
           s2 == s1 \o VolumeCalls
           s3 == s2 \o <<SuppressionCall>>
<1>1. m \in Nat /\ Laid(names, m, blocks)
  BY BlocksLaid DEF Proper
<1>2. blocks \in Seq(A) /\ Len(blocks) = 14 * m
  <2>1. BlockCalls(names) \subseteq A
    BY DEF AllCalls
  <2>2. blocks \in Seq(A)
    BY <1>1, <2>1, SeqMonotonic DEF Laid
  <2> QED
    BY <1>1, <2>2 DEF Laid
<1>3. ClusterCalls \in Seq(A) /\ Len(ClusterCalls) = 4
  BY ClusterCallsShape
<1>4. VolumeCalls \in Seq(A) /\ Len(VolumeCalls) = 1
  <2>1. VolumeCalls = <<VolumeCalls[1]>> /\ VolumeCalls[1] \in A
    BY DEF VolumeCalls, AllCalls
  <2> QED
    BY <2>1, SingleCall
<1>5. <<SuppressionCall>> \in Seq(A) /\ Len(<<SuppressionCall>>) = 1
  <2>1. SuppressionCall \in A
    BY DEF AllCalls
  <2> QED
    BY <2>1, SingleCall
<1>6. Calls(names) = s3
  <2>1. Calls(names) = ClusterCalls \o blocks \o VolumeCalls \o <<SuppressionCall>>
    BY DEF Calls, Blocks
  <2> QED
    BY <2>1
<1> HIDE DEF blocks, A
<1>7. /\ s1 \in Seq(A) /\ Len(s1) = 4 + 14 * m
      /\ \A i \in 1..(4 + 14 * m) : s1[i] = IF i <= 4 THEN ClusterCalls[i] ELSE blocks[i - 4]
  <2>1. /\ s1 \in Seq(A) /\ Len(s1) = Len(ClusterCalls) + Len(blocks)
        /\ \A i \in 1..(Len(ClusterCalls) + Len(blocks)) :
               s1[i] = IF i <= Len(ClusterCalls) THEN ClusterCalls[i] ELSE blocks[i - Len(ClusterCalls)]
    BY <1>2, <1>3, ConcatProperties
  <2>2. Len(ClusterCalls) + Len(blocks) = 4 + 14 * m
    BY <1>1, <1>2, <1>3
  <2> QED
    BY <1>3, <2>1, <2>2
<1> HIDE DEF s1
<1>8. /\ s2 \in Seq(A) /\ Len(s2) = 5 + 14 * m
      /\ \A i \in 1..(5 + 14 * m) : s2[i] = IF i <= 4 + 14 * m THEN s1[i] ELSE VolumeCalls[i - (4 + 14 * m)]
  <2>1. /\ s2 \in Seq(A) /\ Len(s2) = Len(s1) + Len(VolumeCalls)
        /\ \A i \in 1..(Len(s1) + Len(VolumeCalls)) :
               s2[i] = IF i <= Len(s1) THEN s1[i] ELSE VolumeCalls[i - Len(s1)]
    BY <1>4, <1>7, ConcatProperties
  <2>2. Len(s1) + Len(VolumeCalls) = 5 + 14 * m
    BY <1>1, <1>4, <1>7
  <2> QED
    BY <1>7, <2>1, <2>2
<1> HIDE DEF s2
<1>9. /\ s3 \in Seq(A) /\ Len(s3) = 6 + 14 * m
      /\ \A i \in 1..(6 + 14 * m) : s3[i] = IF i <= 5 + 14 * m THEN s2[i] ELSE <<SuppressionCall>>[i - (5 + 14 * m)]
  <2>1. /\ s3 \in Seq(A) /\ Len(s3) = Len(s2) + Len(<<SuppressionCall>>)
        /\ \A i \in 1..(Len(s2) + Len(<<SuppressionCall>>)) :
               s3[i] = IF i <= Len(s2) THEN s2[i] ELSE <<SuppressionCall>>[i - Len(s2)]
    BY <1>5, <1>8, ConcatProperties
  <2>2. Len(s2) + Len(<<SuppressionCall>>) = 6 + 14 * m
    BY <1>1, <1>5, <1>8
  <2> QED
    BY <1>8, <2>1, <2>2
<1> HIDE DEF s3
<1>10. \A i \in 1..4 : s3[i] = ClusterCalls[i]
  BY <1>1, <1>7, <1>8, <1>9
<1>11. ASSUME NEW b \in 1..m, NEW k \in 1..14
       PROVE  s3[Place(b, k)] = NamespaceCalls(names[b])[k]
  <2>1. blocks[14 * (b - 1) + k] = NamespaceCalls(names[b])[k]
    BY <1>1 DEF Laid
  <2>2. Place(b, k) \in 5..(14 * m + 4) /\ Place(b, k) - 4 = 14 * (b - 1) + k
    BY <1>1 DEF Place
  <2>3. s3[Place(b, k)] = blocks[Place(b, k) - 4]
    BY <1>1, <1>7, <1>8, <1>9, <2>2
  <2> QED
    BY <2>1, <2>2, <2>3
<1>12. ASSUME NEW i \in 5..(14 * m + 4)
       PROVE  \E b \in 1..m, k \in 1..14 : i = Place(b, k)
  <2>1. i - 4 \in 1..(14 * m)
    BY <1>1
  <2>2. PICK b \in 1..m, k \in 1..14 : i - 4 = 14 * (b - 1) + k
    BY <1>1, <2>1 DEF Laid
  <2>3. i = Place(b, k)
    BY <1>1, <2>2 DEF Place
  <2> QED
    BY <2>3
<1>13. s3[14 * m + 5] = VolumeCalls[1]
  <2>1. 14 * m + 5 \in 1..(6 + 14 * m) /\ 14 * m + 5 <= 5 + 14 * m /\ ~(14 * m + 5 <= 4 + 14 * m)
        /\ (14 * m + 5) - (4 + 14 * m) = 1 /\ 14 * m + 5 \in 1..(5 + 14 * m)
    BY <1>1
  <2> QED
    BY <1>8, <1>9, <2>1
<1>14. s3[14 * m + 6] = SuppressionCall
  <2>1. 14 * m + 6 \in 1..(6 + 14 * m) /\ ~(14 * m + 6 <= 5 + 14 * m)
        /\ (14 * m + 6) - (5 + 14 * m) = 1
    BY <1>1
  <2>2. s3[14 * m + 6] = <<SuppressionCall>>[1]
    BY <1>9, <2>1
  <2> QED
    BY <2>2
<1>15. 6 + 14 * m = 14 * m + 6
  BY <1>1
<1> QED
  BY <1>6, <1>9, <1>10, <1>11, <1>12, <1>13, <1>14, <1>15 DEF A

ClusterKinds == <<"Node", "VolumeStats", "NodeMetrics", "PodMetrics">>
BlockKinds ==
    <<"PersistentVolumeClaim", "Event", "Secret", "ConfigMap", "ResourceQuota", "DaemonSet", "Pod",
      "NetworkPolicy", "Service", "EndpointSlice", "Ingress", "TLSSecret", "Deployment", "StatefulSet">>

\* The list a call reads.
ListOf(call) == <<ListedKind(call), call.ns>>

LEMMA Kinds ==
    /\ \A i \in 1..4 : ClusterCalls[i].kind = ClusterKinds[i] /\ ClusterCalls[i].ns = ClusterScope
    /\ \A ns : \A k \in 1..14 :
           NamespaceCalls(ns)[k].kind = BlockKinds[k] /\ NamespaceCalls(ns)[k].ns = ns
    /\ VolumeCalls[1].kind = "PersistentVolume" /\ VolumeCalls[1].ns = ClusterScope
    /\ SuppressionCall.kind = "Suppression" /\ SuppressionCall.ns = ClusterScope
<1>1. \A i \in 1..4 : ClusterCalls[i].kind = ClusterKinds[i] /\ ClusterCalls[i].ns = ClusterScope
  BY DEF ClusterCalls, MetricsCalls, ClusterKinds, Call
<1>2. \A ns : \A k \in 1..14 : NamespaceCalls(ns)[k].kind = BlockKinds[k] /\ NamespaceCalls(ns)[k].ns = ns
  BY DEF NamespaceCalls, BlockKinds, Call
<1>3. /\ VolumeCalls[1].kind = "PersistentVolume" /\ VolumeCalls[1].ns = ClusterScope
      /\ SuppressionCall.kind = "Suppression" /\ SuppressionCall.ns = ClusterScope
  BY DEF VolumeCalls, SuppressionCall, Call
<1> QED
  BY <1>1, <1>2, <1>3

Listed(kind) == IF kind = "TLSSecret" THEN "Secret" ELSE kind

LEMMA KindsApart ==
    /\ \A i, j \in 1..4 : Listed(ClusterKinds[i]) = Listed(ClusterKinds[j]) => i = j
    /\ \A k, l \in 1..14 :
           k < l /\ Listed(BlockKinds[k]) = Listed(BlockKinds[l]) => BlockKinds[l] = "TLSSecret"
    /\ \A i \in 1..4, k \in 1..14 : Listed(ClusterKinds[i]) # Listed(BlockKinds[k])
    /\ \A i \in 1..4 : Listed(ClusterKinds[i]) \notin {"PersistentVolume", "Suppression"}
    /\ \A k \in 1..14 : Listed(BlockKinds[k]) \notin {"PersistentVolume", "Suppression"}
    /\ \A i \in 1..4 : ClusterKinds[i] # "Suppression"
    /\ \A k \in 1..14 : BlockKinds[k] # "Suppression"
<1>1. \A i, j \in 1..4 : Listed(ClusterKinds[i]) = Listed(ClusterKinds[j]) => i = j
  BY DEF Listed, ClusterKinds
<1>2. \A k, l \in 1..14 :
          k < l /\ Listed(BlockKinds[k]) = Listed(BlockKinds[l]) => BlockKinds[l] = "TLSSecret"
  BY DEF Listed, BlockKinds
<1>3. \A i \in 1..4, k \in 1..14 : Listed(ClusterKinds[i]) # Listed(BlockKinds[k])
  BY DEF Listed, ClusterKinds, BlockKinds
<1>4. \A i \in 1..4 : Listed(ClusterKinds[i]) \notin {"PersistentVolume", "Suppression"}
                      /\ ClusterKinds[i] # "Suppression"
  BY DEF Listed, ClusterKinds
<1>5. \A k \in 1..14 : Listed(BlockKinds[k]) \notin {"PersistentVolume", "Suppression"}
                       /\ BlockKinds[k] # "Suppression"
  BY DEF Listed, BlockKinds
<1> QED
  BY <1>1, <1>2, <1>3, <1>4, <1>5

LEMMA CallOrder ==
    ASSUME NEW names, Proper(names)
    PROVE  /\ Len(Calls(names)) \in Nat \ {0}
           /\ \E S : Calls(names) \in Seq(S)
           /\ \A i \in 1..Len(Calls(names)) :
                  Calls(names)[i].kind = "Suppression" <=> i = Len(Calls(names))
           /\ \A i, j \in 1..Len(Calls(names)) :
                  i < j /\ ListOf(Calls(names)[i]) = ListOf(Calls(names)[j])
                  => Calls(names)[j].kind = "TLSSecret"
<1>1. CASE names = << >>
  <2>1. Calls(names) = <<SuppressionCall>>
    BY <1>1 DEF Calls
  <2>2. Calls(names) \in Seq({SuppressionCall}) /\ Len(Calls(names)) = 1
        /\ Calls(names)[1].kind = "Suppression"
    BY <2>1, Kinds
  <2> QED
    BY <2>2
<1>2. CASE names # << >>
  <2> DEFINE m == Len(names)
             n == Len(Calls(names))
             c == Calls(names)
  <2>1. m \in Nat /\ n = 14 * m + 6 /\ n \in Nat \ {0}
    BY <1>2, Layout DEF Proper
  <2>2. \A i \in 1..4 : c[i].kind = ClusterKinds[i] /\ c[i].ns = ClusterScope
    <3>1. \A i \in 1..4 : c[i] = ClusterCalls[i]
      BY <1>2, Layout
    <3> HIDE DEF c
    <3> QED
      BY <3>1, Kinds
  <2>3. ASSUME NEW b \in 1..m, NEW k \in 1..14
        PROVE  c[Place(b, k)].kind = BlockKinds[k] /\ c[Place(b, k)].ns = names[b]
    <3>1. c[Place(b, k)] = NamespaceCalls(names[b])[k]
      BY <1>2, Layout
    <3>2. NamespaceCalls(names[b])[k].kind = BlockKinds[k] /\ NamespaceCalls(names[b])[k].ns = names[b]
      BY Kinds
    <3> HIDE DEF c
    <3> QED
      BY <3>1, <3>2
  <2>4. c[n - 1].kind = "PersistentVolume" /\ c[n].kind = "Suppression"
    <3>1. c[14 * m + 5] = VolumeCalls[1] /\ c[14 * m + 6] = SuppressionCall
      BY <1>2, Layout
    <3>2. n - 1 = 14 * m + 5 /\ n = 14 * m + 6
      BY <2>1
    <3> HIDE DEF c, n
    <3> QED
      BY <3>1, <3>2, Kinds
  <2>5. \A i \in 5..(n - 2) : \E b \in 1..m, k \in 1..14 : i = Place(b, k)
    BY <1>2, <2>1, Layout
  <2>6. c \in Seq(AllCalls(names))
    BY <1>2, Layout
  <2>7. \A i : Listed(c[i].kind) = ListedKind(c[i])
    BY DEF Listed, ListedKind
  <2> HIDE DEF c, n
  <2>8. ASSUME NEW i \in 1..n PROVE c[i].kind = "Suppression" <=> i = n
    <3>1. CASE i \in 1..4
      <4>1. c[i].kind # "Suppression"
        BY <2>2, <3>1, KindsApart
      <4>2. i # n
        BY <2>1, <3>1
      <4> QED
        BY <4>1, <4>2
    <3>2. CASE i \in 5..(n - 2)
      <4>1. PICK b \in 1..m, k \in 1..14 : i = Place(b, k)
        BY <2>5, <3>2
      <4>2. c[i].kind = BlockKinds[k]
        BY <2>3, <4>1
      <4>3. c[i].kind # "Suppression"
        BY <4>2, KindsApart
      <4> QED
        BY <2>1, <3>2, <4>3
    <3>3. CASE i = n - 1
      BY <2>1, <2>4, <3>3
    <3>4. CASE i = n
      BY <2>4, <3>4
    <3> QED
      BY <2>1, <3>1, <3>2, <3>3, <3>4
  <2>9. ASSUME NEW i \in 1..n, NEW j \in 1..n, i < j, ListOf(c[i]) = ListOf(c[j])
        PROVE  c[j].kind = "TLSSecret"
    <3>0. Listed(c[i].kind) = Listed(c[j].kind) /\ c[i].ns = c[j].ns
      BY <2>7, <2>9 DEF ListOf
    <3>1. CASE i \in 1..4
      <4>1. CASE j \in 1..4
        BY <2>2, <2>9, <3>0, <3>1, <4>1, KindsApart
      <4>2. CASE j \in 5..(n - 2)
        <5>1. PICK b \in 1..m, k \in 1..14 : j = Place(b, k)
          BY <2>5, <4>2
        <5>2. c[i].kind = ClusterKinds[i] /\ c[j].kind = BlockKinds[k]
          BY <2>2, <2>3, <3>1, <5>1
        <5> QED
          BY <3>0, <3>1, <5>2, KindsApart
      <4>3. CASE j \in {n - 1, n}
        <5>1. Listed(c[j].kind) \in {"PersistentVolume", "Suppression"}
          BY <2>4, <4>3 DEF Listed
        <5> QED
          BY <2>2, <3>0, <3>1, <5>1, KindsApart
      <4> QED
        BY <2>1, <4>1, <4>2, <4>3
    <3>2. CASE i \in 5..(n - 2)
      <4>1. PICK a \in 1..m, k \in 1..14 : i = Place(a, k)
        BY <2>5, <3>2
      <4>2. CASE j \in 5..(n - 2)
        <5>1. PICK b \in 1..m, l \in 1..14 : j = Place(b, l)
          BY <2>5, <4>2
        <5>4. /\ c[i].kind = BlockKinds[k] /\ c[i].ns = names[a]
              /\ c[j].kind = BlockKinds[l] /\ c[j].ns = names[b]
          BY <2>3, <4>1, <5>1
        <5>2. a = b
          BY <3>0, <5>4 DEF Proper
        <5>3. k < l
          BY <2>1, <2>9, <4>1, <5>1, <5>2 DEF Place
        <5> QED
          BY <3>0, <5>3, <5>4, KindsApart
      <4>3. CASE j \in {n - 1, n}
        <5>1. Listed(c[j].kind) \in {"PersistentVolume", "Suppression"}
          BY <2>4, <4>3 DEF Listed
        <5>2. c[i].kind = BlockKinds[k]
          BY <2>3, <4>1
        <5> QED
          BY <3>0, <5>1, <5>2, KindsApart
      <4> QED
        BY <2>1, <2>9, <3>2, <4>2, <4>3
    <3>3. CASE i = n - 1
      <4>1. j = n
        BY <2>1, <2>9, <3>3
      <4> QED
        BY <2>4, <3>0, <3>3, <4>1 DEF Listed
    <3> QED
      BY <2>1, <2>9, <3>1, <3>2, <3>3
  <2> QED
    BY <2>1, <2>6, <2>8, <2>9 DEF c, n
<1> QED
  BY <1>1, <1>2

-----------------------------------------------------------------------------
(* What the calls tell of a cluster that stands still.                     *)

\* After call k of a query, given what was known after the call before.
Next1(c, q, k, known) ==
    IF Wanted(Calls(q.namespaces)[k], q.views)
    THEN Advance(q, known, Calls(q.namespaces)[k], c) ELSE known

Unfolding(c, q, n, f) == f = [k \in 0..n |-> IF k = 0 THEN Nothing ELSE Next1(c, q, k, f[k - 1])]

LEMMA UnfoldingExists ==
    ASSUME NEW c, NEW q, NEW m \in Nat
    PROVE  \E f : Unfolding(c, q, m, f)
<1> DEFINE G == {n \in Nat : \E f : Unfolding(c, q, n, f)}
           Value(k, f) == IF k = 0 THEN Nothing ELSE Next1(c, q, k, f[k - 1])
<1>1. 0 \in G
  <2> DEFINE f == [k \in 0..0 |-> Nothing]
  <2>1. f = [k \in 0..0 |-> Value(k, f)]
    OBVIOUS
  <2> QED
    BY <2>1 DEF Unfolding
<1>2. ASSUME NEW n \in Nat, n \in G PROVE n + 1 \in G
  <2>1. PICK f : f = [k \in 0..n |-> Value(k, f)]
    BY <1>2 DEF Unfolding
  <2> DEFINE g == [k \in 0..(n + 1) |-> Value(k, f)]
  <2>2. \A k \in 0..n : g[k] = f[k]
    <3> HIDE DEF Value
    <3> QED
      BY <2>1
  <2>3. \A k \in 0..(n + 1) : Value(k, g) = Value(k, f)
    <3> TAKE k \in 0..(n + 1)
    <3>1. CASE k = 0
      BY <3>1
    <3>2. CASE k # 0
      <4>1. g[k - 1] = f[k - 1]
        <5>1. k - 1 \in 0..n
          BY <3>2
        <5> HIDE DEF g
        <5> QED
          BY <2>2, <5>1
      <4> HIDE DEF g
      <4> QED
        BY <3>2, <4>1
    <3> QED
      BY <3>1, <3>2
  <2>4. g = [k \in 0..(n + 1) |-> Value(k, g)]
    <3>1. g = [k \in 0..(n + 1) |-> Value(k, f)]
      OBVIOUS
    <3> HIDE DEF g, Value
    <3> QED
      BY <2>3, <3>1
  <2>5. Unfolding(c, q, n + 1, g)
    <3> HIDE DEF g
    <3> QED
      BY <2>4 DEF Unfolding
  <2> QED
    BY <2>5
<1>3. \A n \in Nat : n \in G
  <2> HIDE DEF G
  <2> QED
    BY <1>1, <1>2, Induction
<1> QED
  BY <1>3

LEMMA KnownFacts ==
    ASSUME NEW c, NEW q, Proper(q.namespaces)
    PROVE  /\ Known(c, q)[0] = Nothing
           /\ \A k \in 1..Len(Calls(q.namespaces)) : Known(c, q)[k] = Next1(c, q, k, Known(c, q)[k - 1])
<1> DEFINE n == Len(Calls(q.namespaces))
           f == CHOOSE g : Unfolding(c, q, n, g)
<1>1. n \in Nat
  BY CallOrder
<1>2. Unfolding(c, q, n, f)
  BY <1>1, UnfoldingExists
<1>3. Known(c, q) = f
  BY DEF Known, Unfolding, Next1
<1> HIDE DEF f, n
<1>4. f[0] = Nothing /\ \A k \in 1..n : f[k] = Next1(c, q, k, f[k - 1])
  <2>1. f = [k \in 0..n |-> IF k = 0 THEN Nothing ELSE Next1(c, q, k, f[k - 1])]
    BY <1>2 DEF Unfolding
  <2>2. \A k \in 1..n : k \in 0..n /\ k # 0
    BY <1>1
  <2>3. 0 \in 0..n
    BY <1>1
  <2> QED
    BY <2>1, <2>2, <2>3
<1> QED
  BY <1>3, <1>4 DEF n

\* Calls nobody wants tell nothing.
LEMMA NothingBetween ==
    ASSUME NEW c, NEW q, Proper(q.namespaces),
           NEW j \in 0..Len(Calls(q.namespaces)), NEW k \in j..Len(Calls(q.namespaces)),
           \A i \in (j + 1)..k : ~Wanted(Calls(q.namespaces)[i], q.views)
    PROVE  Known(c, q)[k] = Known(c, q)[j]
<1> DEFINE n == Len(Calls(q.namespaces))
           K == Known(c, q)
           G == {d \in Nat : j + d <= k => K[j + d] = K[j]}
<1>1. n \in Nat /\ \A i \in 1..n : K[i] = Next1(c, q, i, K[i - 1])
  BY CallOrder, KnownFacts
<1>2. 0 \in G
  BY <1>1
<1>3. ASSUME NEW d \in Nat, d \in G PROVE d + 1 \in G
  <2>1. SUFFICES ASSUME j + (d + 1) <= k PROVE K[j + (d + 1)] = K[j]
    OBVIOUS
  <2>2. /\ j + (d + 1) \in 1..n /\ j + (d + 1) \in (j + 1)..k
        /\ (j + (d + 1)) - 1 = j + d /\ j + d <= k
    BY <1>1, <2>1
  <2>3. K[j + d] = K[j]
    BY <1>3, <2>2
  <2>4. K[j + (d + 1)] = Next1(c, q, j + (d + 1), K[(j + (d + 1)) - 1])
    BY <1>1, <2>2
  <2> HIDE DEF K
  <2> QED
    BY <2>2, <2>3, <2>4 DEF Next1
<1>4. \A d \in Nat : d \in G
  <2> HIDE DEF G
  <2> QED
    BY <1>2, <1>3, Induction
<1>5. k - j \in Nat /\ j + (k - j) = k
  BY <1>1
<1>6. K[j + (k - j)] = K[j]
  BY <1>4, <1>5
<1> QED
  BY <1>5, <1>6

\* The calls left to make begin with the next one wanted; the last one is.
LEMMA NextWanted ==
    ASSUME NEW names, Proper(names), NEW views, NEW j \in 1..Len(Calls(names))
    PROVE  \E k \in j..Len(Calls(names)) :
               /\ Upcoming(SubSeq(Calls(names), j, Len(Calls(names))), views)
                      = SubSeq(Calls(names), k, Len(Calls(names)))
               /\ Wanted(Calls(names)[k], views)
               /\ \A i \in j..(k - 1) : ~Wanted(Calls(names)[i], views)
<1> DEFINE c == Calls(names)
           n == Len(c)
           s == SubSeq(c, j, n)
           W == {i \in DOMAIN s : Wanted(s[i], views)}
<1>1. PICK S : c \in Seq(S)
  BY CallOrder
<1>2. n \in Nat \ {0} /\ c[n].kind = "Suppression" /\ j \in 1..n
  BY CallOrder
<1> HIDE DEF c
<1>3. /\ s \in Seq(S) /\ Len(s) = n - j + 1 /\ DOMAIN s = 1..(n - j + 1)
      /\ \A i \in 1..(n - j + 1) : s[i] = c[j + i - 1]
  BY <1>1, <1>2
<1> HIDE DEF s
<1>4. n - j + 1 \in W
  <2>1. n - j + 1 \in 1..(n - j + 1) /\ j + (n - j + 1) - 1 = n
    BY <1>2
  <2> QED
    BY <1>2, <1>3, <2>1 DEF Wanted
<1> DEFINE least == Min(W)
<1>5. least \in W /\ \A i \in W : least <= i
  <2>1. \E x \in W : \A y \in W : x <= y
    <3> DEFINE R == OpToRel(<, Nat)
    <3>1. PICK x \in W : \A y \in W : <<y, x>> \notin R
      <4>1. W \subseteq Nat
        BY <1>3
      <4>2. IsWellFoundedOn(R, Nat)
        BY NatLessThanWellFounded
      <4> HIDE DEF R, W
      <4> QED
        BY <1>4, <4>1, <4>2, WFMin
    <3>2. \A y \in W : y \in Nat /\ x \in Nat /\ ~(y < x)
      <4>1. \A y \in W : y \in Nat
        BY <1>3
      <4>2. \A y \in Nat : <<y, x>> \in R <=> y < x
        BY <4>1 DEF OpToRel
      <4> HIDE DEF W, R
      <4> QED
        BY <3>1, <4>1, <4>2
    <3> QED
      BY <3>2
  <2> HIDE DEF W
  <2> QED
    BY <2>1 DEF Min
<1> HIDE DEF least
<1> DEFINE k == j + least - 1
<1>6. least \in 1..(n - j + 1) /\ k \in j..n /\ Wanted(c[k], views)
  BY <1>2, <1>3, <1>5
<1>7. ASSUME NEW i \in j..(k - 1) PROVE ~Wanted(c[i], views)
  <2>1. i - j + 1 \in 1..(n - j + 1) /\ ~(least <= i - j + 1) /\ j + (i - j + 1) - 1 = i
    BY <1>2, <1>6
  <2>2. i - j + 1 \notin W
    BY <1>5, <2>1
  <2> QED
    BY <1>3, <2>1, <2>2
<1>8. Upcoming(s, views) = SubSeq(c, k, n)
  <2>1. Upcoming(s, views) = SubSeq(s, least, n - j + 1)
    BY <1>3 DEF Upcoming, least
  <2>2. SubSeq(s, least, n - j + 1) \in Seq(S) /\ Len(SubSeq(s, least, n - j + 1)) = n - k + 1
        /\ \A i \in 1..(n - k + 1) : SubSeq(s, least, n - j + 1)[i] = s[least + i - 1]
    BY <1>2, <1>3, <1>6
  <2>3. SubSeq(c, k, n) \in Seq(S) /\ Len(SubSeq(c, k, n)) = n - k + 1
        /\ \A i \in 1..(n - k + 1) : SubSeq(c, k, n)[i] = c[k + i - 1]
    <3>1. k \in Int /\ n \in Int /\ k <= n /\ n - k + 1 \in Nat
      BY <1>2, <1>6
    <3>2. \A i \in k..n : c[i] \in S
      BY <1>1, <1>2, <1>6
    <3> HIDE DEF n, k
    <3> QED
      BY <3>1, <3>2, SubSeqProperties
  <2>4. ASSUME NEW i \in 1..(n - k + 1) PROVE s[least + i - 1] = c[k + i - 1]
    <3>1. least + i - 1 \in 1..(n - j + 1) /\ j + (least + i - 1) - 1 = k + i - 1
      BY <1>2, <1>6
    <3> QED
      BY <1>3, <3>1
  <2>5. SubSeq(s, least, n - j + 1) = SubSeq(c, k, n)
    <3> DEFINE a == SubSeq(s, least, n - j + 1)
               b == SubSeq(c, k, n)
    <3>1. a \in Seq(S) /\ b \in Seq(S) /\ Len(a) = Len(b) /\ \A i \in 1..Len(a) : a[i] = b[i]
      BY <2>2, <2>3, <2>4
    <3>2. a = b
      <4> HIDE DEF a, b
      <4> QED
        BY <3>1, SeqEqual
    <3> QED
      BY <3>2
  <2> QED
    BY <2>1, <2>5
<1> QED
  BY <1>6, <1>7, <1>8 DEF c, s

-----------------------------------------------------------------------------
(* Clusters that differ in one object.                                     *)

AgreeBut(c, d, x) == \A o \in Objects : o # x => c[o] = d[o]

ListOfObject(o) == <<Kind(o), Namespace(o)>>

\* A list the object is not on reads the same of both.
LEMMA SameReads ==
    ASSUME NEW c, NEW d, NEW x, AgreeBut(c, d, x), NEW q, NEW known, NEW call,
           Needless(known, call) \/ ListOf(call) # ListOfObject(x)
    PROVE  Advance(q, known, call, c) = Advance(q, known, call, d)
<1> DEFINE kind == ListedKind(call)
<1>1. Reads(known, call, c) = Reads(known, call, d)
  <2>1. CASE Needless(known, call)
    BY <2>1 DEF Reads
  <2>2. CASE ListOf(call) # ListOfObject(x)
    <3>1. \A o \in Objects : Kind(o) = kind /\ Namespace(o) = call.ns => c[o] = d[o]
      BY <2>2 DEF AgreeBut, ListOf, ListOfObject
    <3>2. Listing(c, kind, call.ns) = Listing(d, kind, call.ns)
      BY <3>1 DEF Listing
    <3>3. \A o \in Listing(c, kind, call.ns) : c[o] = d[o]
      BY <3>1 DEF Listing
    <3> QED
      BY <3>2, <3>3 DEF Reads
  <2> QED
    BY <2>1, <2>2
<1> QED
  BY <1>1 DEF Advance

\* As long as its list was not read, what is known is the same of both.
LEMMA SameKnown ==
    ASSUME NEW c, NEW d, NEW x, AgreeBut(c, d, x), NEW q, Proper(q.namespaces)
    PROVE  \A k \in 0..Len(Calls(q.namespaces)) :
               ListOfObject(x) \notin Known(c, q)[k].read => Known(d, q)[k] = Known(c, q)[k]
<1> DEFINE n == Len(Calls(q.namespaces))
           G == {k \in Nat : k <= n /\ ListOfObject(x) \notin Known(c, q)[k].read
                                 => Known(d, q)[k] = Known(c, q)[k]}
<1>1. n \in Nat
  BY CallOrder
<1>2. 0 \in G
  BY KnownFacts
<1>3. ASSUME NEW k \in Nat, k \in G PROVE k + 1 \in G
  <2> DEFINE call == Calls(q.namespaces)[k + 1]
             a == Known(c, q)[k]
             b == Known(d, q)[k]
  <2>1. SUFFICES ASSUME k + 1 <= n, ListOfObject(x) \notin Known(c, q)[k + 1].read
                 PROVE  Known(d, q)[k + 1] = Known(c, q)[k + 1]
    OBVIOUS
  <2>2. k + 1 \in 1..n /\ (k + 1) - 1 = k /\ k <= n
    BY <1>1, <2>1
  <2>3. Known(c, q)[k + 1] = Next1(c, q, k + 1, a) /\ Known(d, q)[k + 1] = Next1(d, q, k + 1, b)
    BY <2>2, KnownFacts
  <2>4. CASE ~Wanted(call, q.views)
    BY <1>3, <2>1, <2>2, <2>3, <2>4 DEF Next1
  <2>5. CASE Wanted(call, q.views)
    <3>1. Known(c, q)[k + 1] = Advance(q, a, call, c) /\ Known(d, q)[k + 1] = Advance(q, b, call, d)
      BY <2>3, <2>5 DEF Next1
    <3>2. ListOfObject(x) \notin a.read /\ ListOf(call) # ListOfObject(x)
      BY <2>1, <3>1 DEF Advance, ListOf
    <3>3. a = b
      BY <1>3, <2>2, <3>2
    <3> QED
      BY <3>1, <3>2, <3>3, SameReads
  <2> QED
    BY <2>4, <2>5
<1>4. \A k \in Nat : k \in G
  <2> HIDE DEF G
  <2> QED
    BY <1>2, <1>3, Induction
<1> QED
  BY <1>1, <1>4

-----------------------------------------------------------------------------
(* What is measured.                                                       *)

AllAgreeBut(S, x) == \A c, d \in S : AgreeBut(c, d, x)

\* Which object a summary is.
IsSummary(x) == x \in Objects /\ Kind(x) = "Summary"

\* What kubelets answer depends on their objects and on the nodes.
LEMMA AnswersSame ==
    ASSUME NEW c, NEW d, NodesOf(c) = NodesOf(d), NEW endpoint,
           \A o \in Objects : Kind(o) = endpoint => c[o] = d[o], NEW nodes
    PROVE  Answers(c, endpoint, nodes) = Answers(d, endpoint, nodes)
<1>1. Listing(c, endpoint, ClusterScope) = Listing(d, endpoint, ClusterScope)
  BY DEF Listing
<1>2. \A o \in Listing(c, endpoint, ClusterScope) : c[o] = d[o]
  BY DEF Listing
<1> DEFINE K(e) == {k \in Listing(e, endpoint, ClusterScope) : Name(k) \in nodes \cap NodesOf(e)}
<1>3. K(c) = K(d) /\ \A o \in K(c) : c[o] = d[o]
  BY <1>1, <1>2
<1>4. Answers(c, endpoint, nodes) = {c[o] : o \in K(c)} /\ Answers(d, endpoint, nodes) = {d[o] : o \in K(d)}
  BY DEF Answers
<1> HIDE DEF K
<1> QED
  BY <1>3, <1>4

\* When the nodes stay and nothing changes that two calls measure by, both read the same of
\* any of the clusters, and so do the volumes unless a summary changed.
LEMMA SteadyMeasures ==
    ASSUME NEW S, Steady(S), NEW c \in S, NEW d \in S
    PROVE  /\ NodesOf(c) = NodesOf(d)
           /\ Pipeline(c, NodesOf(c)) = Pipeline(d, NodesOf(d))
           /\ \A scope : PodUse(c, NodesOf(c), scope) = PodUse(d, NodesOf(d), scope)
           /\ \A x : AgreeBut(c, d, x) /\ ~IsSummary(x) => VolumeUse(c, NodesOf(c)) = VolumeUse(d, NodesOf(d))
<1>1. /\ NodesOf(c) = NodesOf(d)
      /\ \A o \in Objects : Kind(o) \in {"Metrics", "Resource"} => c[o] = d[o]
  BY DEF Steady
<1>2. \A nodes : Answers(c, "Resource", nodes) = Answers(d, "Resource", nodes)
  BY <1>1, AnswersSame
<1>3. c[MetricsServer] = d[MetricsServer]
  <2>1. MetricsServer \in Objects /\ Kind(MetricsServer) = "Metrics"
    BY InsightsAssumption DEF InsightsAssumption, Sources, MetricsServer, Kind, Object
  <2> QED
    BY <1>1, <2>1
<1>4. Pipeline(c, NodesOf(c)) = Pipeline(d, NodesOf(d))
  BY <1>1, <1>2, <1>3 DEF Pipeline
<1>5. ASSUME NEW scope PROVE PodUse(c, NodesOf(c), scope) = PodUse(d, NodesOf(d), scope)
  BY <1>1, <1>2, <1>3 DEF PodUse
<1>6. ASSUME NEW x, AgreeBut(c, d, x), ~IsSummary(x)
      PROVE  VolumeUse(c, NodesOf(c)) = VolumeUse(d, NodesOf(d))
  <2>1. \A o \in Objects : Kind(o) = "Summary" => c[o] = d[o]
    BY <1>6 DEF AgreeBut, IsSummary
  <2>2. Answers(c, "Summary", NodesOf(c)) = Answers(d, "Summary", NodesOf(c))
    BY <1>1, <2>1, AnswersSame
  <2> QED
    BY <1>1, <2>2 DEF VolumeUse
<1> QED
  BY <1>1, <1>4, <1>5, <1>6

\* Each thing measured is of some cluster of the traversal, and so are the nodes listed.
Sampled(S, q, made, measured) ==
    /\ measured = [volumes |-> measured.volumes, pipeline |-> measured.pipeline, pods |-> measured.pods]
    /\ Steady(S) => /\ \E c \in S : measured.volumes = MeasuredThen(c, q, made).volumes
                    /\ \E c \in S : measured.pipeline = MeasuredThen(c, q, made).pipeline
                    /\ \E c \in S : measured.pods = MeasuredThen(c, q, made).pods

NodesLoaded(S, known) ==
    <<"Node", ClusterScope>> \in known.read
        => \E c \in S : Named(known.seen, "Node", ClusterScope) = NodesOf(c)

LEMMA SampledFirst ==
    ASSUME NEW c, NEW q
    PROVE  Sampled({c}, q, Nothing.read, Unmeasured) /\ NodesLoaded({c}, Nothing)
<1>1. Nothing.read = {}
  BY DEF Nothing
<1>2. /\ Unmeasured = [volumes |-> Unmeasured.volumes, pipeline |-> Unmeasured.pipeline, pods |-> Unmeasured.pods]
      /\ MeasuredThen(c, q, {}).volumes = Unmeasured.volumes
      /\ MeasuredThen(c, q, {}).pipeline = Unmeasured.pipeline
      /\ MeasuredThen(c, q, {}).pods = Unmeasured.pods
  BY DEF Unmeasured, MeasuredThen
<1> QED
  BY <1>1, <1>2 DEF Sampled, NodesLoaded

LEMMA SampledGrows ==
    ASSUME NEW S, NEW c, NEW q, NEW known, NEW measured,
           Sampled(S, q, known.read, measured), NodesLoaded(S, known)
    PROVE  Sampled(S \cup {c}, q, known.read, measured) /\ NodesLoaded(S \cup {c}, known)
<1>1. Steady(S \cup {c}) => Steady(S)
  BY DEF Steady
<1> QED
  BY <1>1 DEF Sampled, NodesLoaded

\* A call measures by the nodes there are, when they stay the same.
LEMMA NodesNext ==
    ASSUME NEW S, NEW c \in S, NEW q, NEW known, NodesLoaded(S, known), NEW call,
           call.kind = "Node" => call.ns = ClusterScope
    PROVE  NodesLoaded(S, Advance(q, known, call, c))
<1> DEFINE late == Advance(q, known, call, c)
           now == Listing(c, ListedKind(call), call.ns)
           kept == {o \in DOMAIN known.seen : Kind(o) # ListedKind(call) \/ Namespace(o) # call.ns}
<1>1. late.read = known.read \cup {<<ListedKind(call), call.ns>>} /\ late.seen = Reads(known, call, c)
  BY DEF Advance
<1>2. ~Needless(known, call)
          => Reads(known, call, c) = [o \in now \cup kept |-> IF o \in now THEN c[o] ELSE known.seen[o]]
  BY DEF Reads
<1>3. CASE call.kind = "Node"
  <2>1. ~Needless(known, call) /\ ListedKind(call) = "Node" /\ call.ns = ClusterScope
    BY <1>3 DEF Needless, ListedKind
  <2>2. DOMAIN late.seen = now \cup kept
    BY <1>1, <1>2, <2>1
  <2>3. Of(late.seen, "Node", ClusterScope) = Listing(c, "Node", ClusterScope)
    <3>1. \A o \in now : Kind(o) = "Node" /\ Namespace(o) = ClusterScope
      BY <2>1 DEF Listing
    <3> HIDE DEF late
    <3> QED
      BY <2>1, <2>2, <3>1 DEF Of
  <2>4. Named(late.seen, "Node", ClusterScope) = NodesOf(c)
    BY <2>3 DEF Named, NodesOf
  <2> QED
    BY <2>4 DEF NodesLoaded
<1>4. CASE call.kind # "Node"
  <2>1. ListedKind(call) # "Node"
    BY <1>4 DEF ListedKind
  <2>2. <<"Node", ClusterScope>> \in late.read => <<"Node", ClusterScope>> \in known.read
    BY <1>1, <2>1
  <2>3. Of(late.seen, "Node", ClusterScope) = Of(known.seen, "Node", ClusterScope)
    <3>1. CASE Needless(known, call)
      BY <1>1, <3>1 DEF Reads
    <3>2. CASE ~Needless(known, call)
      <4>1. DOMAIN late.seen = now \cup kept
        BY <1>1, <1>2, <3>2
      <4>2. \A o \in now : Kind(o) # "Node"
        BY <2>1 DEF Listing
      <4> HIDE DEF late
      <4> QED
        BY <2>1, <4>1, <4>2 DEF Of
    <3> QED
      BY <3>1, <3>2
  <2> QED
    BY <2>2, <2>3 DEF NodesLoaded, Named
<1> QED
  BY <1>3, <1>4

LEMMA SampledNext ==
    ASSUME NEW S, NEW c \in S, NEW q, NEW known, NEW measured, NEW call,
           Sampled(S, q, known.read, measured), NodesLoaded(S, known),
           call.kind \in {"VolumeStats", "NodeMetrics", "PodMetrics"} => call.ns = ClusterScope
    PROVE  Sampled(S, q, Advance(q, known, call, c).read, Measure(q, known, measured, call, c))
<1> DEFINE made == known.read
           made2 == Advance(q, known, call, c).read
           late == Measure(q, known, measured, call, c)
           nodes == IF <<"Node", ClusterScope>> \in known.read THEN Named(known.seen, "Node", ClusterScope)
                    ELSE NodesOf(c)
<1>1. made2 = made \cup {<<ListedKind(call), call.ns>>}
  BY DEF Advance
<1>2. measured = [volumes |-> measured.volumes, pipeline |-> measured.pipeline, pods |-> measured.pods]
  BY DEF Sampled
<1>3. /\ call.kind = "VolumeStats" => late = [measured EXCEPT !.volumes = VolumeUse(c, nodes)]
      /\ call.kind = "NodeMetrics" => late = [measured EXCEPT !.pipeline = Pipeline(c, nodes)]
      /\ call.kind = "PodMetrics" => late = [measured EXCEPT !.pods = PodUse(c, nodes, ToSet(q.namespaces))]
      /\ call.kind \notin {"VolumeStats", "NodeMetrics", "PodMetrics"} => late = measured
  BY DEF Measure
<1> HIDE DEF nodes, late
<1>4. /\ call.kind = "VolumeStats" =>
             late = [volumes |-> VolumeUse(c, nodes), pipeline |-> measured.pipeline, pods |-> measured.pods]
      /\ call.kind = "NodeMetrics" =>
             late = [volumes |-> measured.volumes, pipeline |-> Pipeline(c, nodes), pods |-> measured.pods]
      /\ call.kind = "PodMetrics" =>
             late = [volumes |-> measured.volumes, pipeline |-> measured.pipeline,
                     pods |-> PodUse(c, nodes, ToSet(q.namespaces))]
  <2>1. PICK v, p, u : measured = [volumes |-> v, pipeline |-> p, pods |-> u]
    BY <1>2
  <2> QED
    BY <1>3, <2>1
<1>5. late = [volumes |-> late.volumes, pipeline |-> late.pipeline, pods |-> late.pods]
  <2>1. CASE call.kind \in {"VolumeStats", "NodeMetrics", "PodMetrics"}
    BY <1>4, <2>1
  <2>2. CASE call.kind \notin {"VolumeStats", "NodeMetrics", "PodMetrics"}
    <3>1. late = measured
      BY <1>3, <2>2
    <3> QED
      BY <1>2, <3>1
  <2> QED
    BY <2>1, <2>2
<1>6. ASSUME Steady(S)
      PROVE  /\ \E d \in S : late.volumes = MeasuredThen(d, q, made2).volumes
             /\ \E d \in S : late.pipeline = MeasuredThen(d, q, made2).pipeline
             /\ \E d \in S : late.pods = MeasuredThen(d, q, made2).pods
  <2>1. nodes = NodesOf(c)
    BY <1>6, SteadyMeasures DEF nodes, NodesLoaded
  <2>2. ASSUME NEW kind \in {"VolumeStats", "NodeMetrics", "PodMetrics"}, call.kind # kind
        PROVE  <<kind, ClusterScope>> \in made2 <=> <<kind, ClusterScope>> \in made
    <3>1. ListedKind(call) # kind
      BY <2>2 DEF ListedKind
    <3> HIDE DEF made, made2
    <3> QED
      BY <1>1, <3>1
  <2>3. \A kind \in {"VolumeStats", "NodeMetrics", "PodMetrics"} :
            call.kind = kind => <<kind, ClusterScope>> \in made2
    BY <1>1 DEF ListedKind
  <2>4. \A d, m : /\ MeasuredThen(d, q, m).volumes
                         = IF <<"VolumeStats", ClusterScope>> \in m THEN VolumeUse(d, NodesOf(d)) ELSE << >>
                  /\ MeasuredThen(d, q, m).pipeline
                         = IF <<"NodeMetrics", ClusterScope>> \in m THEN Pipeline(d, NodesOf(d)) ELSE "unread"
                  /\ MeasuredThen(d, q, m).pods
                         = IF <<"PodMetrics", ClusterScope>> \in m
                           THEN PodUse(d, NodesOf(d), ToSet(q.namespaces)) ELSE << >>
    BY DEF MeasuredThen
  <2>5. /\ \E d \in S : measured.volumes = MeasuredThen(d, q, made).volumes
        /\ \E d \in S : measured.pipeline = MeasuredThen(d, q, made).pipeline
        /\ \E d \in S : measured.pods = MeasuredThen(d, q, made).pods
    BY <1>6 DEF Sampled
  <2> HIDE DEF made, made2
  <2>6. \E d \in S : late.volumes = MeasuredThen(d, q, made2).volumes
    <3>1. CASE call.kind = "VolumeStats"
      <4>1. late.volumes = VolumeUse(c, NodesOf(c))
        BY <1>4, <2>1, <3>1
      <4> QED
        BY <2>3, <2>4, <3>1, <4>1
    <3>2. CASE call.kind # "VolumeStats"
      <4>1. late.volumes = measured.volumes
        BY <1>3, <1>4, <3>2
      <4>2. \A d : MeasuredThen(d, q, made2).volumes = MeasuredThen(d, q, made).volumes
        BY <2>2, <2>4, <3>2
      <4> QED
        BY <2>5, <4>1, <4>2
    <3> QED
      BY <3>1, <3>2
  <2>7. \E d \in S : late.pipeline = MeasuredThen(d, q, made2).pipeline
    <3>1. CASE call.kind = "NodeMetrics"
      <4>1. late.pipeline = Pipeline(c, NodesOf(c))
        BY <1>4, <2>1, <3>1
      <4> QED
        BY <2>3, <2>4, <3>1, <4>1
    <3>2. CASE call.kind # "NodeMetrics"
      <4>1. late.pipeline = measured.pipeline
        BY <1>3, <1>4, <3>2
      <4>2. \A d : MeasuredThen(d, q, made2).pipeline = MeasuredThen(d, q, made).pipeline
        BY <2>2, <2>4, <3>2
      <4> QED
        BY <2>5, <4>1, <4>2
    <3> QED
      BY <3>1, <3>2
  <2>8. \E d \in S : late.pods = MeasuredThen(d, q, made2).pods
    <3>1. CASE call.kind = "PodMetrics"
      <4>1. late.pods = PodUse(c, NodesOf(c), ToSet(q.namespaces))
        BY <1>4, <2>1, <3>1
      <4> QED
        BY <2>3, <2>4, <3>1, <4>1
    <3>2. CASE call.kind # "PodMetrics"
      <4>1. late.pods = measured.pods
        BY <1>3, <1>4, <3>2
      <4>2. \A d : MeasuredThen(d, q, made2).pods = MeasuredThen(d, q, made).pods
        BY <2>2, <2>4, <3>2
      <4> QED
        BY <2>5, <4>1, <4>2
    <3> QED
      BY <3>1, <3>2
  <2> QED
    BY <2>6, <2>7, <2>8
<1> QED
  BY <1>5, <1>6 DEF Sampled, late

\* The answer, of what is known and measured, and its part that is not measured.
Page(q, known, measured) == Marked(known.items \cup MeasuredItems(q, known.seen, measured), known.seen)
NotMeasured(items) == {i \in items : i.check \notin MeasuredChecks}

\* What is reported of the metrics pipeline, of the claims and of the pods.
PipelineItems(measured) ==
    When(measured.pipeline \in {"kubelet", "none"},
         Item("metrics-pipeline", WholeCluster, IF measured.pipeline = "kubelet" THEN "warning" ELSE "critical"))

ClaimItems(seen, volumes) ==
    LET Key(o) == <<Namespace(o), Name(o)>>
    IN  {Warn("pvc-usage", o, volumes[Key(o)] >= VolumeFull) :
           o \in {p \in AllOf(seen, "PersistentVolumeClaim") : Key(p) \in DOMAIN volumes}}

UseItems(seen, pods) ==
    LET Key(o) == <<Namespace(o), Name(o)>>
    IN  UNION {UsageItems(o, seen[o], pods[Key(o)]) :
                 o \in {p \in AllOf(seen, "Pod") : seen[p].phase = "Running" /\ Key(p) \in DOMAIN pods}}

LEMMA MeasuredParts ==
    ASSUME NEW q, NEW seen, NEW measured
    PROVE  \A i : i \in MeasuredItems(q, seen, measured) <=>
               \/ "nodes" \in q.views /\ i \in PipelineItems(measured)
               \/ "storage" \in q.views /\ i \in ClaimItems(seen, measured.volumes)
               \/ "workloads" \in q.views /\ i \in UseItems(seen, measured.pods)
<1> DEFINE Key(o) == <<Namespace(o), Name(o)>>
           Full1(o) == Warn("pvc-usage", o, measured.volumes[Key(o)] >= VolumeFull)
           Uses(o) == UsageItems(o, seen[o], measured.pods[Key(o)])
           Claims == {o \in AllOf(seen, "PersistentVolumeClaim") : Key(o) \in DOMAIN measured.volumes}
           Pods   == {o \in AllOf(seen, "Pod") : seen[o].phase = "Running" /\ Key(o) \in DOMAIN measured.pods}
           Line == Item("metrics-pipeline", WholeCluster, IF measured.pipeline = "kubelet" THEN "warning" ELSE "critical")
           bad == measured.pipeline \in {"kubelet", "none"}
           A == When("nodes" \in q.views /\ bad, Line)
           B == {Full1(o) : o \in {p \in Claims : "storage" \in q.views}}
           C == UNION {Uses(o) : o \in {p \in Pods : "workloads" \in q.views}}
<1>1. MeasuredItems(q, seen, measured) = A \cup B \cup C
  BY DEF MeasuredItems
<1>2. PipelineItems(measured) = When(bad, Line)
  BY DEF PipelineItems
<1>3. ClaimItems(seen, measured.volumes) = {Full1(o) : o \in Claims}
  BY DEF ClaimItems
<1>4. UseItems(seen, measured.pods) = UNION {Uses(o) : o \in Pods}
  BY DEF UseItems
<1> HIDE DEF Full1, Uses, Claims, Pods, Line, bad
<1>5. \A i : i \in A <=> "nodes" \in q.views /\ i \in When(bad, Line)
  BY DEF When
<1>6. \A i : i \in B <=> "storage" \in q.views /\ i \in {Full1(o) : o \in Claims}
  OBVIOUS
<1>7. \A i : i \in C <=> "workloads" \in q.views /\ i \in UNION {Uses(o) : o \in Pods}
  OBVIOUS
<1> HIDE DEF A, B, C
<1> QED
  BY <1>1, <1>2, <1>3, <1>4, <1>5, <1>6, <1>7

LEMMA MeasuredNames ==
    /\ \A measured : \A i \in PipelineItems(measured) : i.check = "metrics-pipeline" /\ i.on = WholeCluster
    /\ \A seen, volumes : \A i \in ClaimItems(seen, volumes) : i.check = "pvc-usage"
    /\ \A seen, pods : \A i \in UseItems(seen, pods) : i.check \in {"pod-request-usage", "pod-under-request"}
<1>1. \A measured : \A i \in PipelineItems(measured) : i.check = "metrics-pipeline" /\ i.on = WholeCluster
  BY DEF PipelineItems, When, Item
<1>2. ASSUME NEW seen, NEW volumes, NEW i \in ClaimItems(seen, volumes) PROVE i.check = "pvc-usage"
  <2>1. PICK o : i = Warn("pvc-usage", o, volumes[<<Namespace(o), Name(o)>>] >= VolumeFull)
    BY <1>2 DEF ClaimItems
  <2> QED
    BY <2>1 DEF Warn, Item
<1>3. ASSUME NEW seen, NEW pods, NEW i \in UseItems(seen, pods)
      PROVE  i.check \in {"pod-request-usage", "pod-under-request"}
  <2>1. PICK o : i \in UsageItems(o, seen[o], pods[<<Namespace(o), Name(o)>>])
    BY <1>3 DEF UseItems
  <2> QED
    BY <2>1 DEF UsageItems, When, Warn, Item
<1> QED
  BY <1>1, <1>2, <1>3

LEMMA PagesAgree ==
    ASSUME NEW q, NEW known, NEW one, NEW two
    PROVE  NotMeasured(Page(q, known, one)) = NotMeasured(Page(q, known, two))
<1> DEFINE M(i) == [check |-> i.check, on |-> i.on, status |-> i.status,
                    suppressed |-> <<i.check, i.on>> \in known.seen[Object("Suppression", ClusterScope, "list")]]
           Own(m) == MeasuredItems(q, known.seen, m)
<1>1. \A m : Page(q, known, m) = {M(i) : i \in known.items \cup Own(m)}
  BY DEF Page, Marked
<1>2. \A m : \A i \in Own(m) : i.check \in MeasuredChecks
  BY MeasuredParts, MeasuredNames DEF MeasuredChecks
<1>3. \A i : M(i).check = i.check
  OBVIOUS
<1> HIDE DEF M, Own
<1>4. \A m : NotMeasured(Page(q, known, m)) = {M(i) : i \in {j \in known.items : j.check \notin MeasuredChecks}}
  BY <1>1, <1>2, <1>3 DEF NotMeasured
<1> QED
  BY <1>4

-----------------------------------------------------------------------------
(* A traversal during which one object changes.                            *)

Complete(c) == DOMAIN c = Objects /\ \A o \in Sources : c[o] # Absent

\* Queries of a request.
Posed(q) == \E r \in Requests : q = Query(NormalizeCategories(r.category), r.namespaces)

\* The clusters of a traversal.
Moments ==
    /\ Complete(cluster)
    /\ scan.at \in {"traversing", "answered"} =>
          /\ IsFiniteSet(scan.moments)
          /\ \A c \in scan.moments : Complete(c)
          /\ Cardinality(scan.moments) <= 2 => \E x : AllAgreeBut(scan.moments, x)

\* Before call k: what is known is what a cluster of the traversal told so far, and
\* as long as the list of the object that changes was not read, what each told.
Told(k, x) ==
    /\ \E c \in scan.moments : scan.known = Known(c, scan.query)[k - 1]
    /\ ListOfObject(x) \notin scan.known.read =>
           \A c \in scan.moments : scan.known = Known(c, scan.query)[k - 1]

AtCall(k) ==
    LET calls == Calls(scan.query.namespaces)
    IN  /\ scan.todo = SubSeq(calls, k, Len(calls))
        /\ Wanted(calls[k], scan.query.views)
        /\ \A l \in scan.known.read : \E j \in 1..(k - 1) : l = ListOf(calls[j])
        /\ \A x : AllAgreeBut(scan.moments, x) => Told(k, x)

UnderWay ==
    scan.at = "traversing" =>
        /\ scan = [at |-> "traversing", query |-> scan.query, todo |-> scan.todo, known |-> scan.known,
                    measured |-> scan.measured, moments |-> scan.moments]
        /\ Posed(scan.query)
        /\ cluster \in scan.moments
        /\ Sampled(scan.moments, scan.query, scan.known.read, scan.measured)
        /\ NodesLoaded(scan.moments, scan.known)
        /\ \E k \in 1..Len(Calls(scan.query.namespaces)) : AtCall(k)

\* The answer is that of a moment.
AnswerOf(S, q, items, m) ==
    /\ NotMeasured(items) = NotMeasured(Instant(m, q))
    /\ Steady(S) => items = Instant(m, q)

Done ==
    scan.at = "answered" =>
        /\ Posed(scan.query)
        /\ scan.moments # {}
        /\ \A x : AllAgreeBut(scan.moments, x) =>
               \E c \in scan.moments : AnswerOf(scan.moments, scan.query, scan.items, c)

IInv == Moments /\ UnderWay /\ Done

LEMMA PosedProper ==
    ASSUME NEW q, Posed(q)
    PROVE  Proper(q.namespaces) /\ q = Query(q.views, q.namespaces)
<1>1. PICK r \in Requests : q = Query(NormalizeCategories(r.category), r.namespaces)
  BY DEF Posed
<1>2. q.namespaces = r.namespaces /\ q = Query(q.views, q.namespaces)
  BY <1>1 DEF Query
<1>3. /\ r.namespaces \in Seq(ToSet(r.namespaces))
      /\ IsInjective(r.namespaces)
      /\ ClusterScope \notin ToSet(r.namespaces)
  BY InsightsAssumption DEF InsightsAssumption
<1>4. Proper(r.namespaces)
  BY <1>3 DEF Proper, IsInjective
<1> QED
  BY <1>2, <1>4

\* Only an edit changes the cluster.
LEMMA EditComplete ==
    ASSUME Complete(cluster), NEW e \in Edits, Edit(e[1], e[2])
    PROVE  Complete(cluster') /\ AgreeBut(cluster, cluster', e[1])
<1>1. cluster' = [cluster EXCEPT ![e[1]] = e[2]]
  BY DEF Edit
<1>2. DOMAIN cluster' = Objects
  BY <1>1 DEF Complete
<1>3. ASSUME NEW o \in Sources PROVE cluster'[o] # Absent
  BY <1>1, <1>3, InsightsAssumption DEF Complete, InsightsAssumption
<1>4. AgreeBut(cluster, cluster', e[1])
  BY <1>1 DEF AgreeBut, Complete
<1> QED
  BY <1>2, <1>3, <1>4 DEF Complete

LEMMA RequestStep ==
    ASSUME IInv, NEW r \in Requests, Request(r)
    PROVE  IInv'
<1> DEFINE q == Query(NormalizeCategories(r.category), r.namespaces)
           n == Len(Calls(q.namespaces))
<1>1. scan' = Begin(q, cluster) /\ cluster' = cluster
  BY DEF Request
<1>2. Posed(q)
  BY DEF Posed
<1>3. Proper(q.namespaces)
  BY <1>2, PosedProper
<1>4. n \in Nat \ {0} /\ 1 \in 1..n
  BY <1>3, CallOrder
<1>5. /\ scan'.at = "traversing" /\ scan'.query = q /\ scan'.known = Nothing /\ scan'.moments = {cluster}
      /\ scan'.todo = Upcoming(Calls(q.namespaces), q.views)
      /\ scan'.measured = Unmeasured
      /\ scan' = [at |-> "traversing", query |-> scan'.query, todo |-> scan'.todo, known |-> scan'.known,
                  measured |-> scan'.measured, moments |-> scan'.moments]
  BY <1>1 DEF Begin
<1> HIDE DEF q
<1>6. PICK k \in 1..n :
          /\ Upcoming(SubSeq(Calls(q.namespaces), 1, n), q.views) = SubSeq(Calls(q.namespaces), k, n)
          /\ Wanted(Calls(q.namespaces)[k], q.views)
          /\ \A i \in 1..(k - 1) : ~Wanted(Calls(q.namespaces)[i], q.views)
  BY <1>3, <1>4, NextWanted
<1>7. SubSeq(Calls(q.namespaces), 1, n) = Calls(q.namespaces)
  <2>1. PICK S : Calls(q.namespaces) \in Seq(S)
    BY <1>3, CallOrder
  <2> QED
    BY <2>1, SubSeqFull
<1>8. \A c : Known(c, q)[k - 1] = Nothing
  <2> TAKE c
  <2>1. 0 \in 0..n /\ k - 1 \in 0..n /\ \A i \in (0 + 1)..(k - 1) : ~Wanted(Calls(q.namespaces)[i], q.views)
    BY <1>4, <1>6
  <2>2. Known(c, q)[k - 1] = Known(c, q)[0]
    BY <1>3, <2>1, NothingBetween
  <2> QED
    BY <1>3, <2>2, KnownFacts
<1>9. AtCall(k)'
  <2>1. \A x : Told(k, x)'
    BY <1>5, <1>8 DEF Told
  <2>2. Nothing.read = {}
    BY DEF Nothing
  <2> QED
    BY <1>5, <1>6, <1>7, <2>1, <2>2 DEF AtCall
<1>10. UnderWay'
  <2>1. Sampled({cluster}, q, Nothing.read, Unmeasured) /\ NodesLoaded({cluster}, Nothing)
    BY SampledFirst
  <2> QED
    BY <1>1, <1>2, <1>5, <1>9, <2>1 DEF UnderWay
<1>11. Moments'
  <2>1. IsFiniteSet({cluster})
    BY FS_Singleton
  <2>2. \A x : AllAgreeBut({cluster}, x)
    BY DEF AllAgreeBut, AgreeBut
  <2> QED
    BY <1>1, <1>5, <2>1, <2>2 DEF IInv, Moments, Complete
<1>12. Done'
  BY <1>5 DEF Done
<1> QED
  BY <1>10, <1>11, <1>12 DEF IInv

\* A call that answers takes what is known one call further.
LEMMA TellsNext ==
    ASSUME IInv, scan.at = "traversing",
           NEW k \in 1..Len(Calls(scan.query.namespaces)), AtCall(k),
           NEW x, AllAgreeBut(scan.moments, x),
           NEW call, call = Calls(scan.query.namespaces)[k],
           NEW known, known = Advance(scan.query, scan.known, call, cluster)
    PROVE  /\ \E c \in scan.moments : known = Known(c, scan.query)[k]
           /\ ListOfObject(x) \notin known.read =>
                  \A c \in scan.moments : known = Known(c, scan.query)[k]
<1> DEFINE q == scan.query
<1>1. Posed(q) /\ Proper(q.namespaces) /\ cluster \in scan.moments
  BY PosedProper DEF IInv, UnderWay
<1>2. Wanted(call, q.views) /\ Told(k, x)
  BY DEF AtCall
<1>3. known.read = scan.known.read \cup {ListOf(call)}
  BY DEF Advance, ListOf
<1>4. ASSUME NEW c PROVE Known(c, q)[k] = Advance(q, Known(c, q)[k - 1], call, c)
  BY <1>1, <1>2, KnownFacts DEF Next1
<1>5. \A c \in scan.moments : AgreeBut(cluster, c, x)
  BY <1>1 DEF AllAgreeBut
<1>6. CASE Needless(scan.known, call) \/ ListOf(call) # ListOfObject(x)
  <2>1. \A c \in scan.moments : known = Advance(q, scan.known, call, c)
    BY <1>5, <1>6, SameReads
  <2>2. \A c \in scan.moments : scan.known = Known(c, q)[k - 1] => known = Known(c, q)[k]
    BY <1>4, <2>1
  <2> QED
    BY <1>2, <1>3, <2>2 DEF Told
<1>7. CASE ~Needless(scan.known, call) /\ ListOf(call) = ListOfObject(x)
  <2>1. ListOfObject(x) \notin scan.known.read
    <3>1. SUFFICES ASSUME ListOf(call) \in scan.known.read PROVE Needless(scan.known, call)
      BY <1>7
    <3>2. PICK j \in 1..(k - 1) : ListOf(call) = ListOf(Calls(q.namespaces)[j])
      BY <3>1 DEF AtCall
    <3>3. call.kind = "TLSSecret"
      <4>1. Len(Calls(q.namespaces)) \in Nat
        BY <1>1, CallOrder
      <4>2. j \in 1..Len(Calls(q.namespaces)) /\ j < k
        BY <4>1
      <4> QED
        BY <1>1, <3>2, <4>2, CallOrder
    <3> QED
      BY <3>1, <3>3 DEF ListOf, ListedKind, Needless
  <2>2. scan.known = Known(cluster, q)[k - 1]
    BY <1>1, <1>2, <2>1 DEF Told
  <2>3. known = Known(cluster, q)[k]
    BY <1>4, <2>2
  <2> QED
    BY <1>1, <1>3, <1>7, <2>3
<1> QED
  BY <1>6, <1>7

LEMMA CallAt ==
    ASSUME NEW names, Proper(names), NEW i \in 1..Len(Calls(names))
    PROVE  \/ Calls(names)[i] = SuppressionCall /\ i = Len(Calls(names))
           \/ /\ names # << >>
              /\ \/ i \in 1..4 /\ Calls(names)[i] = ClusterCalls[i]
                 \/ \E b \in 1..Len(names), k \in 1..14 :
                        i = Place(b, k) /\ Calls(names)[i] = NamespaceCalls(names[b])[k]
                 \/ Calls(names)[i] = VolumeCalls[1]
<1>1. CASE names = << >>
  BY <1>1 DEF Calls
<1>2. CASE names # << >>
  <2> DEFINE m == Len(names)
             calls == Calls(names)
  <2>1. m \in Nat /\ Len(calls) = 14 * m + 6
    BY <1>2, Layout DEF Proper
  <2>2. /\ \A j \in 1..4 : calls[j] = ClusterCalls[j]
        /\ \A b \in 1..m, k \in 1..14 : calls[Place(b, k)] = NamespaceCalls(names[b])[k]
        /\ \A j \in 5..(14 * m + 4) : \E b \in 1..m, k \in 1..14 : j = Place(b, k)
        /\ calls[14 * m + 5] = VolumeCalls[1]
        /\ calls[14 * m + 6] = SuppressionCall
    BY <1>2, Layout
  <2>3. i \in 1..4 \/ i \in 5..(14 * m + 4) \/ i = 14 * m + 5 \/ i = 14 * m + 6
    <3>1. i \in 1..Len(calls)
      OBVIOUS
    <3> HIDE DEF calls, m
    <3> QED
      BY <2>1, <3>1
  <2>4. CASE i \in 1..4 \/ i = 14 * m + 5 \/ i = 14 * m + 6
    BY <1>2, <2>1, <2>2, <2>4
  <2>5. CASE i \in 5..(14 * m + 4)
    <3>1. PICK b \in 1..m, k \in 1..14 : i = Place(b, k)
      BY <2>2, <2>5
    <3>2. calls[i] = NamespaceCalls(names[b])[k]
      BY <2>2, <3>1
    <3> QED
      BY <1>2, <3>1, <3>2
  <2> QED
    BY <2>3, <2>4, <2>5
<1> QED
  BY <1>1, <1>2

LEMMA ClusterCallsApart ==
    ASSUME NEW names, Proper(names), NEW j \in 1..Len(Calls(names))
    PROVE  LET call == Calls(names)[j]
           IN  /\ call.kind \in {"Node", "VolumeStats", "NodeMetrics", "PodMetrics", "Suppression"}
                      => call.ns = ClusterScope
               /\ ListOf(call)[1] # "Summary"
<1> DEFINE call == Calls(names)[j]
           Own == {"Node", "VolumeStats", "NodeMetrics", "PodMetrics", "Suppression"}
<1>1. \A i \in 1..14 : BlockKinds[i] \notin Own /\ BlockKinds[i] # "Summary"
  BY DEF BlockKinds
<1>2. \A i \in 1..4 : ClusterKinds[i] # "Summary"
  BY DEF ClusterKinds
<1>3. \A ns : \A i \in 1..14 : NamespaceCalls(ns)[i].kind \notin Own /\ NamespaceCalls(ns)[i].kind # "Summary"
  <2> HIDE DEF Own
  <2> QED
    BY <1>1, Kinds
<1>4. \/ call = SuppressionCall
      \/ \E i \in 1..4 : call = ClusterCalls[i]
      \/ \E b \in 1..Len(names), i \in 1..14 : call = NamespaceCalls(names[b])[i]
      \/ call = VolumeCalls[1]
  BY CallAt
<1> HIDE DEF call, Own
<1>5. (call.kind \in Own => call.ns = ClusterScope) /\ call.kind # "Summary"
  <2>1. CASE call = SuppressionCall \/ call = VolumeCalls[1]
    BY <2>1, Kinds
  <2>2. CASE \E i \in 1..4 : call = ClusterCalls[i]
    BY <1>2, <2>2, Kinds
  <2>3. CASE \E b \in 1..Len(names), i \in 1..14 : call = NamespaceCalls(names[b])[i]
    BY <1>3, <2>3
  <2> QED
    BY <1>4, <2>1, <2>2, <2>3
<1> QED
  BY <1>5 DEF call, Own, ListOf, ListedKind

\* A page of what one moment told and of measurements each of some moment.
LEMMA AnswerIs ==
    ASSUME NEW S, NEW x, AllAgreeBut(S, x), NEW q, NEW known, NEW measured,
           Sampled(S, q, known.read, measured),
           \E c \in S : known = Known(c, q)[Len(Calls(q.namespaces))],
           ListOfObject(x) \notin known.read => \A c \in S : known = Known(c, q)[Len(Calls(q.namespaces))],
           IsSummary(x) => ListOfObject(x) \notin known.read
    PROVE  \E m \in S : AnswerOf(S, q, Page(q, known, measured), m)
<1> DEFINE n == Len(Calls(q.namespaces))
           Then(c) == MeasuredThen(c, q, known.read)
<1>1. \A c : known = Known(c, q)[n] => Instant(c, q) = Page(q, known, Then(c))
  BY DEF Instant, Page
<1>2. \A c : known = Known(c, q)[n]
                => NotMeasured(Page(q, known, measured)) = NotMeasured(Instant(c, q))
  BY <1>1, PagesAgree
<1> HIDE DEF n
<1>3. CASE ~Steady(S)
  BY <1>2, <1>3 DEF AnswerOf, n
<1>4. CASE Steady(S)
  <2>1. /\ measured = [volumes |-> measured.volumes, pipeline |-> measured.pipeline, pods |-> measured.pods]
        /\ \E c \in S : measured.volumes = Then(c).volumes
        /\ \E c \in S : measured.pipeline = Then(c).pipeline
        /\ \E c \in S : measured.pods = Then(c).pods
    BY <1>4 DEF Sampled
  <2>2. \A c : /\ Then(c) = [volumes |-> Then(c).volumes, pipeline |-> Then(c).pipeline, pods |-> Then(c).pods]
               /\ Then(c).volumes
                     = IF <<"VolumeStats", ClusterScope>> \in known.read THEN VolumeUse(c, NodesOf(c)) ELSE << >>
               /\ Then(c).pipeline
                     = IF <<"NodeMetrics", ClusterScope>> \in known.read THEN Pipeline(c, NodesOf(c)) ELSE "unread"
               /\ Then(c).pods
                     = IF <<"PodMetrics", ClusterScope>> \in known.read
                       THEN PodUse(c, NodesOf(c), ToSet(q.namespaces)) ELSE << >>
    BY DEF MeasuredThen
  <2> HIDE DEF Then
  <2>3. \A c, d \in S : Then(c).pipeline = Then(d).pipeline /\ Then(c).pods = Then(d).pods
    <3> TAKE c, d \in S
    <3>1. /\ Pipeline(c, NodesOf(c)) = Pipeline(d, NodesOf(d))
          /\ PodUse(c, NodesOf(c), ToSet(q.namespaces)) = PodUse(d, NodesOf(d), ToSet(q.namespaces))
      BY <1>4, SteadyMeasures
    <3> QED
      BY <2>2, <3>1
  <2>4. \E c \in S : known = Known(c, q)[n] /\ measured.volumes = Then(c).volumes
    <3>1. CASE IsSummary(x)
      BY <2>1, <3>1 DEF n
    <3>2. CASE ~IsSummary(x)
      <4>1. PICK c \in S : known = Known(c, q)[n]
        BY DEF n
      <4>2. PICK d \in S : measured.volumes = Then(d).volumes
        BY <2>1
      <4>3. VolumeUse(c, NodesOf(c)) = VolumeUse(d, NodesOf(d))
        BY <1>4, <3>2, SteadyMeasures DEF AllAgreeBut
      <4>4. Then(c).volumes = Then(d).volumes
        BY <2>2, <4>3
      <4> QED
        BY <4>1, <4>2, <4>4
    <3> QED
      BY <3>1, <3>2
  <2>5. PICK c \in S : known = Known(c, q)[n] /\ measured.volumes = Then(c).volumes
    BY <2>4
  <2>6. measured.pipeline = Then(c).pipeline /\ measured.pods = Then(c).pods
    BY <2>1, <2>3
  <2>7. measured = Then(c)
    BY <2>1, <2>2, <2>5, <2>6
  <2>8. Page(q, known, measured) = Instant(c, q)
    BY <1>1, <2>5, <2>7
  <2> QED
    BY <2>8 DEF AnswerOf
<1> QED
  BY <1>3, <1>4

LEMMA ListStep ==
    ASSUME IInv, List
    PROVE  IInv'
<1> DEFINE q == scan.query
           calls == Calls(q.namespaces)
           n == Len(calls)
           call == Head(scan.todo)
           known == Advance(q, scan.known, call, cluster)
<1>1. scan.at = "traversing" /\ cluster' = cluster
  BY DEF List
<1>2. Posed(q) /\ Proper(q.namespaces) /\ cluster \in scan.moments
  BY <1>1, PosedProper DEF IInv, UnderWay
<1>3. PICK k \in 1..n : AtCall(k)
  BY <1>1 DEF IInv, UnderWay
<1>4. n \in Nat \ {0}
  BY <1>2, CallOrder
<1>5. PICK S : calls \in Seq(S)
  BY <1>2, CallOrder
<1>6. call = calls[k] /\ Tail(scan.todo) = SubSeq(calls, k + 1, n)
  <2>1. scan.todo = SubSeq(calls, k, n)
    BY <1>3 DEF AtCall
  <2> HIDE DEF calls, call
  <2>2. Head(SubSeq(calls, k, n)) = calls[k]
    BY <1>4, <1>5
  <2>3. Tail(SubSeq(calls, k, n)) = SubSeq(calls, k + 1, n)
    BY <1>4, <1>5, HeadTailOfSubSeq
  <2> QED
    BY <2>1, <2>2, <2>3 DEF call
<1>7. ASSUME NEW x, AllAgreeBut(scan.moments, x)
      PROVE  /\ \E c \in scan.moments : known = Known(c, q)[k]
             /\ ListOfObject(x) \notin known.read => \A c \in scan.moments : known = Known(c, q)[k]
  BY <1>1, <1>3, <1>6, <1>7, TellsNext
<1>8. call.kind = "Suppression" <=> k = n
  BY <1>2, <1>6, CallOrder
<1>11. call.kind \in {"Node", "VolumeStats", "NodeMetrics", "PodMetrics", "Suppression"} => call.ns = ClusterScope
  BY <1>2, <1>6, ClusterCallsApart
<1>12. /\ NodesLoaded(scan.moments, known)
       /\ Sampled(scan.moments, q, known.read, Measure(q, scan.known, scan.measured, call, cluster))
  <2>1. Sampled(scan.moments, q, scan.known.read, scan.measured) /\ NodesLoaded(scan.moments, scan.known)
    BY <1>1 DEF IInv, UnderWay
  <2> HIDE DEF q, call
  <2> QED
    BY <1>2, <1>11, <2>1, NodesNext, SampledNext
<1>9. CASE k = n
  <2>1. scan' = Answered(scan, known)
    BY <1>8, <1>9 DEF List
  <2>2. /\ scan'.at = "answered" /\ scan'.query = q /\ scan'.moments = scan.moments
        /\ scan'.items = Page(q, known, scan.measured)
    BY <2>1 DEF Answered, Page
  <2>3. Measure(q, scan.known, scan.measured, call, cluster) = scan.measured
    BY <1>8, <1>9 DEF Measure
  <2>7. Sampled(scan.moments, q, known.read, scan.measured)
    BY <1>12, <2>3
  <2>8. \A o : IsSummary(o) => ListOfObject(o) \notin known.read
    <3>1. \A l \in scan.known.read : \E j \in 1..n : l = ListOf(calls[j])
      <4>1. 1..(k - 1) \subseteq 1..n
        BY <1>4
      <4> QED
        BY <1>3, <4>1 DEF AtCall
    <3>2. known.read = scan.known.read \cup {ListOf(calls[n])} /\ n \in 1..n
      BY <1>4, <1>6, <1>9 DEF Advance, ListOf
    <3>3. \A j \in 1..n : ListOf(calls[j])[1] # "Summary"
      BY <1>2, ClusterCallsApart
    <3> HIDE DEF known, calls, n
    <3> QED
      BY <3>1, <3>2, <3>3 DEF IsSummary, ListOfObject
  <2> HIDE DEF known, q
  <2>9. ASSUME NEW x, AllAgreeBut(scan.moments, x)
        PROVE  \E m \in scan.moments : AnswerOf(scan.moments, q, scan'.items, m)
    <3>1. /\ \E c \in scan.moments : known = Known(c, q)[n]
          /\ ListOfObject(x) \notin known.read => \A c \in scan.moments : known = Known(c, q)[n]
      BY <1>7, <1>9, <2>9
    <3>2. IsSummary(x) => ListOfObject(x) \notin known.read
      BY <2>8
    <3> HIDE DEF n
    <3> QED
      BY <2>2, <2>7, <2>9, <3>1, <3>2, AnswerIs DEF n, calls
  <2>4. Done'
    BY <1>2, <2>2, <2>9 DEF Done
  <2>5. Moments'
    BY <1>1, <2>2 DEF IInv, Moments, Complete
  <2>6. UnderWay'
    BY <2>2 DEF UnderWay
  <2> QED
    BY <2>4, <2>5, <2>6 DEF IInv
<1>10. CASE k # n
  <2> DEFINE measured == Measure(q, scan.known, scan.measured, call, cluster)
  <2>1. scan' = [scan EXCEPT !.known = known, !.measured = measured, !.todo = Upcoming(Tail(@), q.views)]
    BY <1>8, <1>10 DEF List
  <2>2. /\ scan'.at = "traversing" /\ scan'.query = q /\ scan'.moments = scan.moments
        /\ scan'.known = known /\ scan'.todo = Upcoming(Tail(scan.todo), q.views)
        /\ scan'.measured = measured
        /\ scan' = [at |-> "traversing", query |-> scan'.query, todo |-> scan'.todo, known |-> scan'.known,
                    measured |-> scan'.measured, moments |-> scan'.moments]
    <3>1. scan = [at |-> "traversing", query |-> scan.query, todo |-> scan.todo, known |-> scan.known,
                  measured |-> scan.measured, moments |-> scan.moments]
      BY <1>1 DEF IInv, UnderWay
    <3> DEFINE rest == Upcoming(Tail(scan.todo), q.views)
    <3>2. scan' = [scan EXCEPT !.known = known, !.measured = measured, !.todo = rest]
      BY <2>1
    <3> HIDE DEF known, rest, q, measured
    <3>3. scan' = [at |-> "traversing", query |-> scan.query, todo |-> rest, known |-> known,
                   measured |-> measured, moments |-> scan.moments]
      <4>1. PICK a, b, c, d, e : scan = [at |-> "traversing", query |-> a, todo |-> b, known |-> c,
                                        measured |-> d, moments |-> e]
        BY <3>1
      <4> QED
        BY <3>2, <4>1
    <3> QED
      BY <3>3 DEF rest, q
  <2>3. PICK l \in (k + 1)..n :
            /\ Upcoming(SubSeq(calls, k + 1, n), q.views) = SubSeq(calls, l, n)
            /\ Wanted(calls[l], q.views)
            /\ \A i \in (k + 1)..(l - 1) : ~Wanted(calls[i], q.views)
    <3>1. k + 1 \in 1..n
      BY <1>4, <1>10
    <3> HIDE DEF q
    <3> QED
      BY <1>2, <3>1, NextWanted
  <2>4. \A c : Known(c, q)[l - 1] = Known(c, q)[k]
    <3> TAKE c
    <3>1. k \in 0..n /\ l - 1 \in k..n
      BY <1>4, <2>3
    <3> HIDE DEF q
    <3> QED
      BY <1>2, <2>3, <3>1, NothingBetween
  <2>5. known.read = scan.known.read \cup {ListOf(calls[k])}
    BY <1>6 DEF Advance, ListOf
  <2>6. \A list \in known.read : \E j \in 1..(l - 1) : list = ListOf(calls[j])
    <3>1. \A list \in scan.known.read : \E j \in 1..(k - 1) : list = ListOf(calls[j])
      BY <1>3 DEF AtCall
    <3>2. 1..(k - 1) \subseteq 1..(l - 1) /\ k \in 1..(l - 1)
      BY <1>4, <2>3
    <3> HIDE DEF known, calls
    <3> QED
      BY <2>5, <3>1, <3>2
  <2>7. AtCall(l)'
    <3>1. \A x : AllAgreeBut(scan.moments, x) => Told(l, x)'
      <4> HIDE DEF known, q
      <4> QED
        BY <1>7, <2>2, <2>4 DEF Told
    <3> HIDE DEF known
    <3> QED
      BY <1>6, <2>2, <2>3, <2>6, <3>1 DEF AtCall
  <2>8. l \in 1..Len(Calls(scan'.query.namespaces))
    BY <1>4, <2>2, <2>3
  <2>12. NodesLoaded(scan.moments, known) /\ Sampled(scan.moments, q, known.read, measured)
    BY <1>12
  <2> HIDE DEF known, q, calls, measured
  <2>9. UnderWay'
    BY <1>1, <1>2, <2>2, <2>7, <2>8, <2>12 DEF UnderWay
  <2>10. Moments'
    BY <1>1, <2>2 DEF IInv, Moments, Complete
  <2>11. Done'
    BY <2>2 DEF Done
  <2> QED
    BY <2>9, <2>10, <2>11 DEF IInv
<1> QED
  BY <1>9, <1>10
LEMMA EditStep ==
    ASSUME IInv, NEW e \in Edits, Edit(e[1], e[2])
    PROVE  IInv'
<1>1. Complete(cluster') /\ AgreeBut(cluster, cluster', e[1])
  BY EditComplete DEF IInv, Moments
<1>2. CASE scan.at = "traversing"
  <2> DEFINE q == scan.query
             S == scan.moments
  <2>1. scan' = [scan EXCEPT !.moments = @ \cup {cluster'}]
    BY <1>2 DEF Edit
  <2>2. /\ scan'.at = "traversing" /\ scan'.query = q /\ scan'.moments = S \cup {cluster'}
        /\ scan'.known = scan.known /\ scan'.todo = scan.todo /\ scan'.measured = scan.measured
        /\ scan' = [at |-> "traversing", query |-> scan'.query, todo |-> scan'.todo, known |-> scan'.known,
                    measured |-> scan'.measured, moments |-> scan'.moments]
    <3>1. scan = [at |-> "traversing", query |-> scan.query, todo |-> scan.todo, known |-> scan.known,
                  measured |-> scan.measured, moments |-> scan.moments]
      BY <1>2 DEF IInv, UnderWay
    <3> QED
      BY <2>1, <3>1
  <2>3. /\ IsFiniteSet(S) /\ cluster \in S /\ \A c \in S : Complete(c)
        /\ Cardinality(S) <= 2 => \E x : AllAgreeBut(S, x)
    BY <1>2 DEF IInv, Moments, UnderWay
  <2>4. Posed(q) /\ Proper(q.namespaces)
    BY <1>2, PosedProper DEF IInv, UnderWay
  <2>5. PICK k \in 1..Len(Calls(q.namespaces)) : AtCall(k)
    BY <1>2 DEF IInv, UnderWay
  <2>6. ASSUME NEW x, AllAgreeBut(S \cup {cluster'}, x) PROVE Told(k, x)'
    <3>1. AllAgreeBut(S, x) /\ AgreeBut(cluster, cluster', x)
      BY <2>3, <2>6 DEF AllAgreeBut
    <3>2. Told(k, x)
      BY <2>5, <3>1 DEF AtCall
    <3>3. PICK c \in S : scan.known = Known(c, q)[k - 1]
      BY <3>2 DEF Told
    <3>4. ASSUME ListOfObject(x) \notin scan.known.read
          PROVE  scan.known = Known(cluster', q)[k - 1]
      <4>1. scan.known = Known(cluster, q)[k - 1]
        BY <2>3, <3>2, <3>4 DEF Told
      <4>2. k - 1 \in 0..Len(Calls(q.namespaces))
        <5>1. Len(Calls(q.namespaces)) \in Nat
          BY <2>4, CallOrder
        <5> QED
          BY <5>1
      <4> HIDE DEF q
      <4> QED
        BY <2>4, <3>1, <3>4, <4>1, <4>2, SameKnown
    <3> QED
      BY <2>2, <3>2, <3>3, <3>4 DEF Told
  <2>7. AtCall(k)'
    BY <2>2, <2>5, <2>6 DEF AtCall
  <2>8. UnderWay'
    <3>1. Sampled(S, q, scan.known.read, scan.measured) /\ NodesLoaded(S, scan.known)
      BY <1>2 DEF IInv, UnderWay
    <3> HIDE DEF S, q
    <3>2. /\ Sampled(S \cup {cluster'}, q, scan.known.read, scan.measured)
          /\ NodesLoaded(S \cup {cluster'}, scan.known)
      BY <3>1, SampledGrows
    <3> QED
      BY <2>2, <2>4, <2>7, <3>2 DEF UnderWay, q
  <2>9. Cardinality(S \cup {cluster'}) <= 2 => \E x : AllAgreeBut(S \cup {cluster'}, x)
    <3>1. CASE cluster' \in S
      <4>1. S \cup {cluster'} = S
        BY <3>1
      <4> QED
        BY <2>3, <4>1
    <3>2. CASE cluster' \notin S
      <4>1. SUFFICES ASSUME Cardinality(S \cup {cluster'}) <= 2
                     PROVE  \E x : AllAgreeBut(S \cup {cluster'}, x)
        OBVIOUS
      <4>2. Cardinality(S) + 1 <= 2 /\ Cardinality(S) \in Nat
        <5>1. IsFiniteSet(S)
          BY <2>3
        <5> HIDE DEF S
        <5>2. Cardinality(S) \in Nat
          BY <5>1, FS_CardinalityType
        <5>3. Cardinality(S \cup {cluster'}) = Cardinality(S) + 1
          BY <3>2, <5>1, FS_AddElement
        <5> QED
          BY <4>1, <5>2, <5>3
      <4>3. S = {cluster}
        <5>1. Cardinality(S) # 0
          BY <2>3, FS_EmptySet
        <5>2. Cardinality(S) = 1
          BY <4>2, <5>1
        <5> QED
          BY <2>3, <5>2, FS_Singleton
      <4>4. AllAgreeBut(S \cup {cluster'}, e[1])
        BY <1>1, <4>3 DEF AllAgreeBut, AgreeBut
      <4> QED
        BY <4>4
    <3> QED
      BY <3>1, <3>2
  <2>10. Moments'
    <3>1. IsFiniteSet(S \cup {cluster'})
      BY <2>3, FS_AddElement
    <3>2. \A c \in S \cup {cluster'} : Complete(c)
      BY <1>1, <2>3
    <3> QED
      BY <1>1, <2>2, <2>9, <3>1, <3>2 DEF Moments, Complete
  <2>11. Done'
    BY <2>2 DEF Done
  <2> QED
    BY <2>8, <2>10, <2>11 DEF IInv
<1>3. CASE scan.at # "traversing"
  <2>1. scan' = scan
    BY <1>3 DEF Edit
  <2> QED
    BY <1>1, <1>3, <2>1 DEF IInv, Moments, Complete, UnderWay, Done
<1> QED
  BY <1>2, <1>3

LEMMA OtherSteps ==
    ASSUME IInv, ListFails \/ UNCHANGED vars
    PROVE  IInv'
<1>1. CASE ListFails
  <2>1. scan'.at = "failed" /\ cluster' = cluster
    BY <1>1 DEF ListFails, Failed
  <2> QED
    BY <2>1 DEF IInv, Moments, Complete, UnderWay, Done
<1>2. CASE UNCHANGED vars
  BY <1>2 DEF vars, IInv, Moments, Complete, UnderWay, Done, AtCall, Told
<1> QED
  BY <1>1, <1>2

LEMMA Inductive == Spec => []IInv
<1>1. Init => IInv
  <2>1. ASSUME Init PROVE Complete(cluster) /\ scan.at = "idle"
    BY <2>1, InsightsAssumption DEF Init, Idle, Complete, InsightsAssumption
  <2> QED
    BY <2>1 DEF IInv, Moments, UnderWay, Done
<1>2. IInv /\ [Next]_vars => IInv'
  BY RequestStep, ListStep, EditStep, OtherSteps DEF Next
<1> QED
  BY <1>1, <1>2, PTL DEF Spec

\* A traversal during which at most one object changed answers what the cluster was at
\* one moment of it, before the change or after, though its List calls are many and
\* their answers are used by many sections (BuildInsights). The items that rest on what
\* the kubelets and the metrics server measure say so too unless the change was a node's
\* coming or going or one in what answers the measurements (Steady): those are fetched
\* node by node, from a list of nodes that is read once for the page and once for them.
THEOREM AnswersOneMoment == Spec => []OneMoment
<1>1. IInv => OneMoment
  <2> SUFFICES ASSUME IInv, scan.at = "answered", Cardinality(scan.moments) <= 2
               PROVE  \E m \in scan.moments : AnswerOf(scan.moments, scan.query, scan.items, m)
    BY DEF OneMoment, AnswerOf, NotMeasured
  <2>1. PICK x : AllAgreeBut(scan.moments, x)
    BY DEF IInv, Moments
  <2> QED
    BY <2>1 DEF IInv, Done
<1> QED
  BY <1>1, Inductive, PTL

-----------------------------------------------------------------------------
(* A cluster that stands still: what is known is part of it, and whole for  *)
(* every list that was read.                                               *)

PartOf(seen, c) == \A o \in DOMAIN seen : o \in Objects /\ c[o] # Absent /\ seen[o] = c[o]

WholeList(seen, c, l) == \A o \in Objects : ListOfObject(o) = l /\ c[o] # Absent => o \in DOMAIN seen

\* The objects of a cluster, and those on the lists of a request.
Full(c) == [o \in {p \in Objects : c[p] # Absent} |-> c[o]]

Lists(names) == {ListOf(Calls(names)[k]) : k \in 1..Len(Calls(names))}

Chosen(c, names) == [o \in {p \in Objects : c[p] # Absent /\ ListOfObject(p) \in Lists(names)} |-> c[o]]

\* A list is whole once it was called for, unless nothing asks for it.
Covered(seen, c, call) ==
    \/ WholeList(seen, c, ListOf(call))
    \/ call.kind = "NetworkPolicy" /\ ActivePods(Full(c), call.ns) = {}
    \/ call.kind = "TLSSecret" /\ ~NamesSecret(Full(c), call.ns)

LEMMA FullFacts ==
    ASSUME NEW c
    PROVE  /\ DOMAIN Full(c) = {p \in Objects : c[p] # Absent}
           /\ \A o \in DOMAIN Full(c) : Full(c)[o] = c[o]
           /\ PartOf(Full(c), c)
BY DEF Full, PartOf

LEMMA SameOf ==
    ASSUME NEW c, NEW seen, PartOf(seen, c), NEW kind, NEW ns, WholeList(seen, c, <<kind, ns>>)
    PROVE  /\ Of(seen, kind, ns) = Of(Full(c), kind, ns)
           /\ \A o \in Of(Full(c), kind, ns) : seen[o] = Full(c)[o]
           /\ Named(seen, kind, ns) = Named(Full(c), kind, ns)
<1>1. \A o \in DOMAIN seen : o \in DOMAIN Full(c) /\ seen[o] = Full(c)[o]
  BY FullFacts DEF PartOf
<1>2. ASSUME NEW o \in DOMAIN Full(c), Kind(o) = kind, Namespace(o) = ns
      PROVE  o \in DOMAIN seen
  BY <1>2, FullFacts DEF WholeList, ListOfObject
<1>3. Of(seen, kind, ns) = Of(Full(c), kind, ns)
  BY <1>1, <1>2 DEF Of
<1>4. \A o \in Of(Full(c), kind, ns) : seen[o] = Full(c)[o]
  BY <1>1, <1>2 DEF Of
<1> QED
  BY <1>3, <1>4 DEF Named

\* One list more.
LEMMA ReadsFacts ==
    ASSUME NEW c, NEW known, PartOf(known.seen, c), NEW call
    PROVE  /\ PartOf(Reads(known, call, c), c)
           /\ \A l : WholeList(known.seen, c, l) => WholeList(Reads(known, call, c), c, l)
           /\ ~Needless(known, call) => WholeList(Reads(known, call, c), c, ListOf(call))
           /\ \A o \in DOMAIN Reads(known, call, c) :
                  o \in DOMAIN known.seen \/ ListOfObject(o) = ListOf(call)
<1>1. CASE Needless(known, call)
  BY <1>1 DEF Reads
<1>2. CASE ~Needless(known, call)
  <2> DEFINE kind == ListedKind(call)
             now  == Listing(c, kind, call.ns)
             kept == {o \in DOMAIN known.seen : Kind(o) # kind \/ Namespace(o) # call.ns}
             seen == Reads(known, call, c)
  <2>1. seen = [o \in now \cup kept |-> IF o \in now THEN c[o] ELSE known.seen[o]]
    BY <1>2 DEF Reads
  <2>2. now = {o \in Objects : Kind(o) = kind /\ Namespace(o) = call.ns /\ c[o] # Absent}
    BY DEF Listing
  <2> HIDE DEF now, seen
  <2>3. DOMAIN seen = now \cup kept /\ \A o \in now \cup kept : seen[o] = c[o]
    BY <2>1 DEF PartOf
  <2>4. PartOf(seen, c)
    BY <2>2, <2>3 DEF PartOf
  <2>5. ASSUME NEW l, WholeList(known.seen, c, l) PROVE WholeList(seen, c, l)
    BY <2>2, <2>3, <2>5 DEF WholeList
  <2>6. WholeList(seen, c, ListOf(call))
    BY <2>2, <2>3 DEF WholeList, ListOf, ListOfObject
  <2>7. \A o \in DOMAIN seen : o \in DOMAIN known.seen \/ ListOfObject(o) = ListOf(call)
    BY <2>2, <2>3 DEF ListOf, ListOfObject
  <2> QED
    BY <2>4, <2>5, <2>6, <2>7 DEF seen
<1> QED
  BY <1>1, <1>2

LEMMA SourceIs ==
    ASSUME NEW c, Complete(c), NEW seen, PartOf(seen, c), NEW o \in Sources,
           WholeList(seen, c, ListOfObject(o))
    PROVE  o \in DOMAIN seen /\ seen[o] = c[o] /\ Full(c)[o] = c[o]
<1>1. o \in Objects /\ c[o] # Absent
  BY InsightsAssumption DEF InsightsAssumption, Complete
<1> QED
  BY <1>1, FullFacts DEF PartOf, WholeList

\* The sections of a namespace, once its lists are whole, say what they say of the
\* whole cluster.
Same(seen, c, kind, ns) ==
    /\ Of(seen, kind, ns) = Of(Full(c), kind, ns)
    /\ \A o \in Of(Full(c), kind, ns) : seen[o] = Full(c)[o]

LEMMA PVCSame ==
    ASSUME NEW c, NEW seen, NEW ns, Same(seen, c, "PersistentVolumeClaim", ns)
    PROVE  PVCItems(seen, ns) = PVCItems(Full(c), ns)
BY DEF Same, PVCItems

LEMMA DaemonSetSame ==
    ASSUME NEW c, NEW seen, NEW ns, Same(seen, c, "DaemonSet", ns)
    PROVE  DaemonSetItems(seen, ns) = DaemonSetItems(Full(c), ns)
BY DEF Same, DaemonSetItems

LEMMA WorkloadSame ==
    ASSUME NEW c, NEW seen, NEW ns, Same(seen, c, "Pod", ns)
    PROVE  WorkloadItems(seen, ns) = WorkloadItems(Full(c), ns)
BY DEF Same, WorkloadItems

LEMMA SecuritySame ==
    ASSUME NEW c, NEW seen, NEW ns, Same(seen, c, "Pod", ns)
    PROVE  SecurityItems(seen, ns) = SecurityItems(Full(c), ns)
BY DEF Same, SecurityItems

LEMMA ActiveSame ==
    ASSUME NEW c, NEW seen, NEW ns, Same(seen, c, "Pod", ns)
    PROVE  /\ ActivePods(seen, ns) = ActivePods(Full(c), ns)
           /\ GPUPods(seen, ns) = GPUPods(Full(c), ns)
           /\ \A o \in ActivePods(Full(c), ns) : seen[o] = Full(c)[o]
           /\ \A o \in GPUPods(Full(c), ns) : seen[o] = Full(c)[o]
BY DEF Same, ActivePods, GPUPods

LEMMA GPUSame ==
    ASSUME NEW c, NEW seen, NEW ns, Same(seen, c, "Pod", ns), Same(seen, c, "ResourceQuota", ns)
    PROVE  /\ GPUPodItems(seen, ns) = GPUPodItems(Full(c), ns)
           /\ GPUNamespaceItems(seen, ns) = GPUNamespaceItems(Full(c), ns)
<1>1. GPUPodItems(seen, ns) = GPUPodItems(Full(c), ns)
  BY ActiveSame DEF GPUPodItems
<1>2. GPUNamespaceItems(seen, ns) = GPUNamespaceItems(Full(c), ns)
  <2>1. (\A o \in Of(seen, "ResourceQuota", ns) : ~seen[o].gpu)
            <=> \A o \in Of(Full(c), "ResourceQuota", ns) : ~Full(c)[o].gpu
    BY DEF Same
  <2> QED
    BY <2>1, ActiveSame DEF GPUNamespaceItems, When
<1> QED
  BY <1>1, <1>2

LEMMA ConfigurationSame ==
    ASSUME NEW c, NEW seen, NEW ns, Same(seen, c, "Pod", ns), Same(seen, c, "Secret", ns),
           Same(seen, c, "ConfigMap", ns)
    PROVE  ConfigurationItems(seen, ns) = ConfigurationItems(Full(c), ns)
<1>1. Named(seen, "Secret", ns) = Named(Full(c), "Secret", ns)
      /\ Named(seen, "ConfigMap", ns) = Named(Full(c), "ConfigMap", ns)
  BY DEF Same, Named
<1> QED
  BY <1>1, ActiveSame DEF ConfigurationItems

LEMMA NetworkPolicySame ==
    ASSUME NEW c, NEW seen, NEW ns, Same(seen, c, "Pod", ns),
           Same(seen, c, "NetworkPolicy", ns) \/ ActivePods(Full(c), ns) = {}
    PROVE  NetworkPolicyItems(seen, ns) = NetworkPolicyItems(Full(c), ns)
BY ActiveSame DEF NetworkPolicyItems, Same, When

LEMMA ServiceSame ==
    ASSUME NEW c, NEW seen, NEW ns, Same(seen, c, "Service", ns), Same(seen, c, "EndpointSlice", ns)
    PROVE  ServiceItems(seen, ns) = ServiceItems(Full(c), ns)
<1>1. \A s : ReadyEndpoints(seen, ns, s) <=> ReadyEndpoints(Full(c), ns, s)
  BY DEF Same, ReadyEndpoints
<1> QED
  BY <1>1 DEF Same, ServiceItems, When, Warn

LEMMA CoverageSame ==
    ASSUME NEW c, NEW seen, NEW ns, NEW kind, Same(seen, c, "Service", ns), Same(seen, c, kind, ns)
    PROVE  CoverageItems(seen, kind, ns) = CoverageItems(Full(c), kind, ns)
<1>1. \A l : HasService(seen, ns, l) <=> HasService(Full(c), ns, l)
  BY DEF Same, HasService
<1> QED
  BY <1>1 DEF Same, CoverageItems

LEMMA SecretsNamed ==
    ASSUME NEW c, NEW seen, PartOf(seen, c), NEW ns
    PROVE  "" \notin Named(seen, "Secret", ns)
BY InsightsAssumption DEF Named, Of, PartOf, InsightsAssumption

LEMMA IngressSame ==
    ASSUME NEW c, Complete(c), NEW seen, NEW ns, PartOf(seen, c), Same(seen, c, "Ingress", ns),
           Same(seen, c, "Service", ns),
           Same(seen, c, "Secret", ns) \/ ~NamesSecret(Full(c), ns)
    PROVE  IngressItems(seen, ns) = IngressItems(Full(c), ns)
<1>1. Named(seen, "Service", ns) = Named(Full(c), "Service", ns)
  BY DEF Same, Named
<1>2. ASSUME NEW o \in Of(Full(c), "Ingress", ns), NEW t \in Full(c)[o].tls
      PROVE  ValidTLS(seen, ns, t) <=> ValidTLS(Full(c), ns, t)
  <2>1. CASE Same(seen, c, "Secret", ns)
    <3>1. Named(seen, "Secret", ns) = Named(Full(c), "Secret", ns)
      BY <2>1 DEF Same, Named
    <3>2. ASSUME t \in Named(Full(c), "Secret", ns)
          PROVE  seen[Object("Secret", ns, t)] = Full(c)[Object("Secret", ns, t)]
      <4>1. PICK p \in Of(Full(c), "Secret", ns) : Name(p) = t
        BY <3>2 DEF Named
      <4>2. p = Object("Secret", ns, t)
        BY <4>1, FullFacts, InsightsAssumption DEF Of, InsightsAssumption
      <4> QED
        BY <2>1, <4>1, <4>2 DEF Same
    <3> QED
      BY <3>1, <3>2 DEF ValidTLS
  <2>2. CASE ~NamesSecret(Full(c), ns)
    <3>1. t = ""
      BY <2>2 DEF NamesSecret
    <3>2. t \notin Named(Full(c), "Secret", ns) /\ t \notin Named(seen, "Secret", ns)
      BY <3>1, FullFacts, SecretsNamed
    <3> QED
      BY <3>2 DEF ValidTLS
  <2> QED
    BY <2>1, <2>2
<1>3. ASSUME NEW o \in Of(Full(c), "Ingress", ns)
      PROVE  (\E t \in seen[o].tls : ~ValidTLS(seen, ns, t))
                 <=> \E t \in Full(c)[o].tls : ~ValidTLS(Full(c), ns, t)
  BY <1>2 DEF Same
<1> QED
  BY <1>1, <1>3 DEF Same, IngressItems, When, Critical

\* The sections of the whole selection, of two readings that agree on the kinds used.
Alike(seen, ref, kind) ==
    /\ AllOf(seen, kind) = AllOf(ref, kind)
    /\ \A o \in AllOf(ref, kind) : seen[o] = ref[o]

LEMMA NodesAlike ==
    ASSUME NEW seen, NEW ref, Alike(seen, ref, "Node")
    PROVE  NodeItems(seen) = NodeItems(ref)
BY DEF Alike, NodeItems

LEMMA VolumesAlike ==
    ASSUME NEW seen, NEW ref, Alike(seen, ref, "PersistentVolume"), NEW scope
    PROVE  VolumeItems(seen, scope) = VolumeItems(ref, scope)
BY DEF Alike, VolumeItems

LEMMA RoutesAlike ==
    ASSUME NEW seen, NEW ref, Alike(seen, ref, "Ingress")
    PROVE  RouteItems(seen) = RouteItems(ref)
<1> DEFINE Ingresses == AllOf(ref, "Ingress")
<1>1. AllOf(seen, "Ingress") = Ingresses /\ \A o \in Ingresses : seen[o] = ref[o]
  BY DEF Alike
<1>2. UNION {seen[o].routes : o \in Ingresses} = UNION {ref[o].routes : o \in Ingresses}
  BY <1>1
<1>3. \A t : {o \in Ingresses : t \in seen[o].routes} = {o \in Ingresses : t \in ref[o].routes}
  BY <1>1
<1> DEFINE Routes(r) == UNION {r[o].routes : o \in Ingresses}
           Count(r, t) == Cardinality({o \in Ingresses : t \in r[o].routes})
           Twice(r) == {t \in Routes(r) : Count(r, t) > 1}
<1>4. Twice(seen) = Twice(ref)
  <2>1. \A t : Count(seen, t) = Count(ref, t)
    BY <1>3
  <2>2. Routes(seen) = Routes(ref)
    BY <1>2
  <2> HIDE DEF Ingresses, Count, Routes
  <2> QED
    BY <2>1, <2>2
<1>5. /\ RouteItems(seen) = {Item("ingress-route-collision", Route(r), "warning") : r \in Twice(seen)}
      /\ RouteItems(ref) = {Item("ingress-route-collision", Route(r), "warning") : r \in Twice(ref)}
  BY <1>1 DEF RouteItems
<1> HIDE DEF Twice
<1> QED
  BY <1>4, <1>5

LEMMA NodeCapacityAlike ==
    ASSUME NEW seen, NEW ref, Alike(seen, ref, "Node"), Alike(seen, ref, "Pod"),
           \A n \in AllOf(ref, "Node") : n = Object("Node", ClusterScope, Name(n))
    PROVE  NodeCapacityItems(seen) = NodeCapacityItems(ref)
<1> DEFINE Pods(s)       == {o \in AllOf(s, "Pod") : Active(s[o]) /\ s[o].node # NoNode}
           Listed1(s)    == Named(s, "Node", ClusterScope)
           Node(s, n)    == s[Object("Node", ClusterScope, n)]
           Capacity(s, n, r) == IF n \in Listed1(s) THEN Node(s, n).capacity[r] ELSE 0
           On(s, n)      == {o \in Pods(s) : s[o].node = n}
           Asked(s, n, r)    == SumFunction([o \in On(s, n) |-> Requested(s[o], r)])
           Limits(s, n, r)   == SumFunction([o \in On(s, n) |-> Limited(s[o], r)])
           Over(s, n)    == \E r \in Resources : Asked(s, n, r) > Capacity(s, n, r) \/ Limits(s, n, r) > Capacity(s, n, r)
           Sized(s, n)   == (\A r \in Resources : Capacity(s, n, r) > 0) /\ ~Node(s, n).cordoned
           Under(s, n)   == \A r \in Resources :
                           Asked(s, n, r) * 100 < Capacity(s, n, r) * NodeUnderRequestPercent
           Here(s, n) == {Critical("node-capacity", Object("Node", ClusterScope, n), Over(s, n))}
                         \cup When(Sized(s, n), Warn("node-underutilized", Object("Node", ClusterScope, n), Under(s, n)))
           Named1(s) == Listed1(s) \cup {s[o].node : o \in Pods(s)}
<1>0. ASSUME NEW s PROVE NodeCapacityItems(s) = UNION {Here(s, n) : n \in Named1(s)}
  BY DEF NodeCapacityItems
<1>1. Pods(seen) = Pods(ref) /\ \A o \in Pods(ref) : seen[o] = ref[o]
  BY DEF Alike
<1>2. Of(seen, "Node", ClusterScope) = Of(ref, "Node", ClusterScope)
  BY DEF Alike, Of, AllOf
<1>3. Listed1(seen) = Listed1(ref)
  BY <1>2 DEF Named
<1>4. \A n \in Listed1(ref) : Node(seen, n) = Node(ref, n)
  BY DEF Named, Of, Alike, AllOf
<1>5. \A n : On(seen, n) = On(ref, n) /\ \A o \in On(ref, n) : seen[o] = ref[o]
  BY <1>1
<1>6. \A n, r : Asked(seen, n, r) = Asked(ref, n, r) /\ Limits(seen, n, r) = Limits(ref, n, r)
  <2> TAKE n, r
  <2>1. [o \in On(seen, n) |-> Requested(seen[o], r)] = [o \in On(ref, n) |-> Requested(ref[o], r)]
    BY <1>5
  <2>2. [o \in On(seen, n) |-> Limited(seen[o], r)] = [o \in On(ref, n) |-> Limited(ref[o], r)]
    BY <1>5
  <2> QED
    BY <2>1, <2>2
<1>7. \A n, r : Capacity(seen, n, r) = Capacity(ref, n, r)
  BY <1>3, <1>4
<1>8. \A n : (Over(seen, n) <=> Over(ref, n)) /\ (Under(seen, n) <=> Under(ref, n))
  <2> HIDE DEF Capacity, Asked, Limits
  <2> QED
    BY <1>6, <1>7
<1>9. ASSUME NEW n PROVE Sized(seen, n) <=> Sized(ref, n)
  <2>1. CASE n \in Listed1(ref)
    <3> HIDE DEF Capacity, Listed1
    <3> QED
      BY <1>4, <1>7, <2>1
  <2>2. CASE n \notin Listed1(ref)
    <3>1. "cpu" \in Resources /\ Capacity(seen, n, "cpu") = 0 /\ Capacity(ref, n, "cpu") = 0
      BY <1>3, <2>2 DEF Resources
    <3> HIDE DEF Capacity
    <3> QED
      BY <3>1
  <2> QED
    BY <2>1, <2>2
<1>10. ASSUME NEW n PROVE Here(seen, n) = Here(ref, n)
  <2> HIDE DEF Over, Under, Sized
  <2> QED
    BY <1>8, <1>9 DEF When, Warn, Critical
<1>11. Named1(seen) = Named1(ref)
  <2>1. {seen[o].node : o \in Pods(seen)} = {ref[o].node : o \in Pods(ref)}
    BY <1>1
  <2> HIDE DEF Pods, Listed1
  <2> QED
    BY <1>3, <2>1
<1>12. NodeCapacityItems(seen) = UNION {Here(seen, n) : n \in Named1(seen)}
       /\ NodeCapacityItems(ref) = UNION {Here(ref, n) : n \in Named1(ref)}
  BY <1>0
<1> HIDE DEF Here, Named1
<1> QED
  BY <1>10, <1>11, <1>12

LEMMA GPUClusterAlike ==
    ASSUME NEW seen, NEW ref, Alike(seen, ref, "Node"), Alike(seen, ref, "Pod")
    PROVE  GPUClusterItems(seen) = GPUClusterItems(ref)
<1> DEFINE Pods(s)      == {o \in AllOf(s, "Pod") : Active(s[o])}
           Asking(s)    == {o \in Pods(s) : GPURequest(s[o]) > 0}
           Nodes(s)     == {n \in AllOf(s, "Node") : s[n].gpus > 0}
           Gpus(s)      == [n \in Nodes(s) |-> s[n].gpus]
           On(s, n)     == [o \in {p \in Asking(s) : s[p].node = Name(n)} |-> GPURequest(s[o])]
           Taken(s)     == [n \in Nodes(s) |-> SumFunction(On(s, n))]
           Free(s)      == [n \in Nodes(s) |-> Max({Gpus(s)[n] - Taken(s)[n], 0})]
           Open(s)      == {n \in Nodes(s) : ~s[n].cordoned}
           Others(s, n) == {o \in Pods(s) \ Asking(s) : s[o].node = Name(n) /\ ~s[o].daemon}
           Fragmented(s) == {o \in Asking(s) :
                               /\ GPUPending(s[o])
                               /\ SumFunctionOnSet(Free(s), Open(s)) >= GPURequest(s[o])
                               /\ \A n \in Open(s) : Free(s)[n] < GPURequest(s[o])}
           Here(s, n)   == {Pressure(n, Gpus(s)[n], Taken(s)[n])}
                           \cup When(n \notin Open(s), Item("gpu-node-cordoned", n, "warning"))
                           \cup When(Taken(s)[n] = 0, Item("gpu-node-idle-allocation", n, "warning"))
                           \cup When(Others(s, n) # {}, Item("non-gpu-pods-on-gpu-node", n, "warning"))
           Wide(s)      == {Pressure(WholeCluster, SumFunction(Gpus(s)), SumFunction(Taken(s)))}
           Lost(s)      == {Item("gpu-fragmentation", o, "warning") : o \in Fragmented(s)}
           None(s)      == {Critical("gpu-capacity-discovery", WholeCluster, Asking(s) # {})}
<1>1. ASSUME NEW s
      PROVE  GPUClusterItems(s) = IF Nodes(s) = {} THEN None(s)
                 ELSE (UNION {Here(s, n) : n \in Nodes(s)}) \cup Wide(s) \cup Lost(s)
  BY DEF GPUClusterItems
<1>2. Pods(seen) = Pods(ref) /\ Asking(seen) = Asking(ref) /\ \A o \in Pods(ref) : seen[o] = ref[o]
  BY DEF Alike
<1>3. Nodes(seen) = Nodes(ref) /\ Open(seen) = Open(ref) /\ \A n \in Nodes(ref) : seen[n] = ref[n]
  BY DEF Alike
<1>4. Gpus(seen) = Gpus(ref)
  BY <1>3
<1>5. \A n : On(seen, n) = On(ref, n)
  BY <1>2
<1>6. Taken(seen) = Taken(ref)
  <2> HIDE DEF On, Nodes
  <2> QED
    BY <1>3, <1>5
<1>7. Free(seen) = Free(ref)
  <2> HIDE DEF Gpus, Taken, Nodes
  <2> QED
    BY <1>3, <1>4, <1>6
<1>8. \A n : Others(seen, n) = Others(ref, n)
  BY <1>2
<1>9. Fragmented(seen) = Fragmented(ref)
  <2>1. \A o \in Asking(ref) : seen[o] = ref[o]
    BY <1>2
  <2> HIDE DEF Free, Open, Asking
  <2> QED
    BY <1>2, <1>3, <1>7, <2>1
<1>10. ASSUME NEW n PROVE Here(seen, n) = Here(ref, n)
  <2> HIDE DEF Gpus, Taken, Open, Others
  <2> QED
    BY <1>3, <1>4, <1>6, <1>8
<1>11. Wide(seen) = Wide(ref) /\ Lost(seen) = Lost(ref) /\ None(seen) = None(ref)
  <2> HIDE DEF Gpus, Taken, Fragmented, Asking
  <2> QED
    BY <1>2, <1>4, <1>6, <1>9
<1> DEFINE U(s)     == UNION {Here(s, n) : n \in Nodes(s)}
           Other(s) == Wide(s) \cup Lost(s)
<1>12. /\ GPUClusterItems(seen) = IF Nodes(seen) = {} THEN None(seen) ELSE U(seen) \cup Other(seen)
       /\ GPUClusterItems(ref) = IF Nodes(ref) = {} THEN None(ref) ELSE U(ref) \cup Other(ref)
  <2> HIDE DEF Here, Wide, Lost, None, Nodes
  <2>1. \A s : GPUClusterItems(s) = IF Nodes(s) = {} THEN None(s) ELSE U(s) \cup Other(s)
    BY <1>1
  <2> QED
    BY <2>1
<1>13. U(seen) = U(ref)
  <2> HIDE DEF Here, Nodes
  <2>1. {Here(seen, n) : n \in Nodes(seen)} = {Here(ref, n) : n \in Nodes(ref)}
    BY <1>3, <1>10
  <2> QED
    BY <2>1
<1>14. Other(seen) = Other(ref)
  BY <1>11
<1> HIDE DEF U, Other, None, Nodes
<1> QED
  BY <1>3, <1>11, <1>12, <1>13, <1>14
-----------------------------------------------------------------------------
(* Every list a view asks for is whole when it is used.                    *)

LEMMA WholeSame ==
    ASSUME NEW c, NEW seen, PartOf(seen, c), NEW kind, NEW ns, WholeList(seen, c, <<kind, ns>>)
    PROVE  Same(seen, c, kind, ns)
BY SameOf DEF Same

\* The calls of a namespace come one after the other, after those of the cluster.
LEMMA Places ==
    ASSUME NEW names, Proper(names), names # << >>, NEW b \in 1..Len(names), NEW k \in 1..14
    PROVE  /\ Place(b, k) \in 1..Len(Calls(names))
           /\ \A j \in 1..k : /\ Place(b, j) \in 1..Place(b, k)
                              /\ j < k => Place(b, j) \in 1..(Place(b, k) - 1)
                              /\ Calls(names)[Place(b, j)] = NamespaceCalls(names[b])[j]
           /\ \A j \in 1..4 : j \in 1..(Place(b, k) - 1) /\ Calls(names)[j] = ClusterCalls[j]
<1>1. Len(names) \in Nat /\ Len(Calls(names)) = 14 * Len(names) + 6
  BY Layout DEF Proper
<1>2. Place(b, k) \in 1..Len(Calls(names))
  BY <1>1 DEF Place
<1>3. \A j \in 1..k : j \in 1..14 /\ Calls(names)[Place(b, j)] = NamespaceCalls(names[b])[j]
  <2>1. \A j \in 1..k : j \in 1..14
    OBVIOUS
  <2>2. \A j \in 1..14 : Calls(names)[Place(b, j)] = NamespaceCalls(names[b])[j]
    BY Layout
  <2> QED
    BY <2>1, <2>2
<1>4. \A j \in 1..k : Place(b, j) \in 1..Place(b, k) /\ (j < k => Place(b, j) \in 1..(Place(b, k) - 1))
  BY <1>1 DEF Place
<1>5. \A j \in 1..4 : j \in 1..(Place(b, k) - 1)
  BY <1>1 DEF Place
<1> QED
  BY <1>2, <1>3, <1>4, <1>5, Layout

LEMMA BlockIndex ==
    \A k \in 1..14 : /\ BlockKinds[k] = "NetworkPolicy" => k = 8
                     /\ BlockKinds[k] = "TLSSecret" => k = 12
BY DEF BlockKinds

LEMMA BlockKindsOnly ==
    \A k \in 1..14 : BlockKinds[k] \notin {"Node", "PersistentVolume", "Suppression"}
BY DEF BlockKinds

LEMMA BlockPods ==
    \A k \in 1..14 : BlockKinds[k] = "Pod" => k = 7
BY DEF BlockKinds

LEMMA BlockIngresses ==
    \A k \in 1..14 : BlockKinds[k] = "Ingress" => k = 11
BY DEF BlockKinds

PodCall(ns) == Call("Pod", ns, {"workloads", "nodes", "gpu", "security", "configuration"})

LEMMA ListsOfBlock ==
    \A ns : /\ NamespaceCalls(ns)[3] = Call("Secret", ns, {"configuration"})
            /\ NamespaceCalls(ns)[4] = Call("ConfigMap", ns, {"configuration"})
            /\ NamespaceCalls(ns)[5] = Call("ResourceQuota", ns, {"gpu"})
            /\ NamespaceCalls(ns)[7] = PodCall(ns)
            /\ NamespaceCalls(ns)[8] = Call("NetworkPolicy", ns, {"security"})
            /\ NamespaceCalls(ns)[9] = Call("Service", ns, {"networking"})
            /\ NamespaceCalls(ns)[11] = Call("Ingress", ns, {"networking"})
            /\ NamespaceCalls(ns)[12] = Call("TLSSecret", ns, {"networking"})
BY DEF NamespaceCalls, PodCall

\* A list that may be left out comes after the one that tells whether it may.
LEMMA Companions ==
    ASSUME NEW names, Proper(names), NEW i \in 1..Len(Calls(names))
    PROVE  /\ Calls(names)[i].kind = "NetworkPolicy" =>
                  /\ Calls(names)[i].of = {"security"}
                  /\ \E j \in 1..(i - 1) : Calls(names)[j] = PodCall(Calls(names)[i].ns)
           /\ Calls(names)[i].kind = "TLSSecret" =>
                  /\ Calls(names)[i].of = {"networking"}
                  /\ \E j \in 1..(i - 1) :
                         Calls(names)[j] = Call("Ingress", Calls(names)[i].ns, {"networking"})
<1> DEFINE call == Calls(names)[i]
           Network == call.of = {"security"} /\ \E j \in 1..(i - 1) : Calls(names)[j] = PodCall(call.ns)
           TLS == /\ call.of = {"networking"}
                  /\ \E j \in 1..(i - 1) : Calls(names)[j] = Call("Ingress", call.ns, {"networking"})
<1> SUFFICES ASSUME call.kind \in {"NetworkPolicy", "TLSSecret"}
             PROVE  (call.kind = "NetworkPolicy" => Network) /\ (call.kind = "TLSSecret" => TLS)
  OBVIOUS
<1>1. PICK b \in 1..Len(names), l \in 1..14 :
          names # << >> /\ i = Place(b, l) /\ call = NamespaceCalls(names[b])[l]
  <2>1. SuppressionCall.kind \notin {"NetworkPolicy", "TLSSecret"}
        /\ VolumeCalls[1].kind \notin {"NetworkPolicy", "TLSSecret"}
    BY Kinds
  <2>2. \A j \in 1..4 : ClusterCalls[j].kind \notin {"NetworkPolicy", "TLSSecret"}
    BY Kinds DEF ClusterKinds
  <2> QED
    BY <2>1, <2>2, CallAt
<1>2. NamespaceCalls(names[b])[l].kind = BlockKinds[l] /\ NamespaceCalls(names[b])[l].ns = names[b]
  BY Kinds
<1>3. call.ns = names[b] /\ call.kind = BlockKinds[l]
  BY <1>1, <1>2
<1>4. CASE call.kind = "NetworkPolicy"
  <2>1. l = 8
    BY <1>3, <1>4, BlockIndex
  <2>2. call = Call("NetworkPolicy", names[b], {"security"})
    BY <1>1, <2>1, ListsOfBlock
  <2>3. 7 \in 1..l /\ 7 < l
    BY <2>1
  <2>4. Place(b, 7) \in 1..(i - 1) /\ Calls(names)[Place(b, 7)] = NamespaceCalls(names[b])[7]
    <3>1. \A j \in 1..l : /\ j < l => Place(b, j) \in 1..(Place(b, l) - 1)
                          /\ Calls(names)[Place(b, j)] = NamespaceCalls(names[b])[j]
      BY <1>1, Places
    <3> QED
      BY <1>1, <2>3, <3>1
  <2>5. Calls(names)[Place(b, 7)] = PodCall(call.ns)
    BY <1>3, <2>4, ListsOfBlock
  <2> QED
    BY <1>4, <2>2, <2>4, <2>5 DEF Call
<1>5. CASE call.kind = "TLSSecret"
  <2>1. l = 12
    BY <1>3, <1>5, BlockIndex
  <2>2. call = Call("TLSSecret", names[b], {"networking"})
    BY <1>1, <2>1, ListsOfBlock
  <2>3. 11 \in 1..l /\ 11 < l
    BY <2>1
  <2>4. Place(b, 11) \in 1..(i - 1) /\ Calls(names)[Place(b, 11)] = NamespaceCalls(names[b])[11]
    <3>1. \A j \in 1..l : /\ j < l => Place(b, j) \in 1..(Place(b, l) - 1)
                          /\ Calls(names)[Place(b, j)] = NamespaceCalls(names[b])[j]
      BY <1>1, Places
    <3> QED
      BY <1>1, <2>3, <3>1
  <2>5. Calls(names)[Place(b, 11)] = Call("Ingress", call.ns, {"networking"})
    BY <1>3, <2>4, ListsOfBlock
  <2> QED
    BY <1>5, <2>2, <2>4, <2>5 DEF Call
<1> QED
  BY <1>4, <1>5

LEMMA CoveredWhole ==
    ASSUME NEW c, NEW seen, NEW call, Covered(seen, c, call), call.kind \notin {"NetworkPolicy", "TLSSecret"}
    PROVE  WholeList(seen, c, <<call.kind, call.ns>>)
BY DEF Covered, ListOf, ListedKind

LEMMA CoveredGrows ==
    ASSUME NEW c, NEW known, PartOf(known.seen, c), NEW call, NEW one, Covered(known.seen, c, one)
    PROVE  Covered(Reads(known, call, c), c, one)
BY ReadsFacts DEF Covered

LEMMA NamesSame ==
    ASSUME NEW c, NEW seen, NEW ns, Same(seen, c, "Ingress", ns)
    PROVE  NamesSecret(seen, ns) <=> NamesSecret(Full(c), ns)
<1>1. ASSUME NEW o \in Of(Full(c), "Ingress", ns) PROVE seen[o] = Full(c)[o]
  BY DEF Same
<1>2. Of(seen, "Ingress", ns) = Of(Full(c), "Ingress", ns)
  BY DEF Same
<1>3. \A o \in Of(Full(c), "Ingress", ns) :
          (\E t \in seen[o].tls : t # "") <=> \E t \in Full(c)[o].tls : t # ""
  BY <1>1
<1> QED
  BY <1>2, <1>3 DEF NamesSecret

\* What is known after k calls of a cluster that stands still.
Read(c, q, k) ==
    LET calls == Calls(q.namespaces)
        known == Known(c, q)[k]
    IN  /\ PartOf(known.seen, c)
        /\ \A o \in DOMAIN known.seen : ListOfObject(o) \in Lists(q.namespaces)
        /\ \A l \in known.read : \E j \in 1..k : Wanted(calls[j], q.views) /\ l = ListOf(calls[j])
        /\ \A j \in 1..k : Wanted(calls[j], q.views) => ListOf(calls[j]) \in known.read
        /\ \A j \in 1..k : Wanted(calls[j], q.views) => Covered(known.seen, c, calls[j])

LEMMA ReadNext ==
    ASSUME NEW c, NEW q, Proper(q.namespaces), NEW k \in 1..Len(Calls(q.namespaces)),
           Read(c, q, k - 1)
    PROVE  Read(c, q, k)
<1> DEFINE names == q.namespaces
           calls == Calls(names)
           call == calls[k]
           known == Known(c, q)[k - 1]
           next1 == Known(c, q)[k]
           W(j) == Wanted(calls[j], q.views)
<1>1. next1 = IF W(k) THEN Advance(q, known, call, c) ELSE known
  BY KnownFacts DEF Next1
<1>2. /\ PartOf(known.seen, c)
      /\ \A o \in DOMAIN known.seen : ListOfObject(o) \in Lists(names)
      /\ \A l \in known.read : \E j \in 1..(k - 1) : W(j) /\ l = ListOf(calls[j])
      /\ \A j \in 1..(k - 1) : W(j) => ListOf(calls[j]) \in known.read
      /\ \A j \in 1..(k - 1) : W(j) => Covered(known.seen, c, calls[j])
  BY DEF Read
<1>3. Len(calls) \in Nat /\ \A j \in 1..k : j = k \/ j \in 1..(k - 1)
  BY CallOrder
<1>4. CASE ~W(k)
  <2>1. next1 = known
    BY <1>1, <1>4
  <2> HIDE DEF known, next1, calls, names
  <2>2. \A l \in next1.read : \E j \in 1..k : W(j) /\ l = ListOf(calls[j])
    <3>1. 1..(k - 1) \subseteq 1..k
      BY <1>3
    <3> QED
      BY <1>2, <2>1, <3>1
  <2>3. \A j \in 1..k : W(j) => ListOf(calls[j]) \in next1.read /\ Covered(next1.seen, c, calls[j])
    <3> HIDE DEF W
    <3> QED
      BY <1>2, <1>3, <1>4, <2>1
  <2> QED
    BY <1>2, <2>1, <2>2, <2>3 DEF Read, known, next1, calls, names
<1>5. CASE W(k)
  <2>1. /\ next1.read = known.read \cup {ListOf(call)}
        /\ next1.seen = Reads(known, call, c)
    BY <1>1, <1>5 DEF Advance, ListOf
  <2>2. PartOf(next1.seen, c)
    <3> HIDE DEF known, next1, call
    <3> QED
      BY <1>2, <2>1, ReadsFacts
  <2>3. ASSUME NEW o \in DOMAIN next1.seen PROVE ListOfObject(o) \in Lists(names)
    <3>1. o \in DOMAIN known.seen \/ ListOfObject(o) = ListOf(call)
      <4> HIDE DEF known, next1, call
      <4> QED
        BY <1>2, <2>1, <2>3, ReadsFacts
    <3> HIDE DEF known, next1
    <3> QED
      BY <1>2, <3>1 DEF Lists
  <2>4. ASSUME NEW l \in next1.read PROVE \E j \in 1..k : W(j) /\ l = ListOf(calls[j])
    <3>1. CASE l \in known.read
      <4>1. PICK j \in 1..(k - 1) : W(j) /\ l = ListOf(calls[j])
        BY <1>2, <3>1
      <4>2. j \in 1..k
        BY <1>3
      <4> QED
        BY <4>1, <4>2
    <3>2. CASE l = ListOf(call)
      <4>1. k \in 1..k
        BY <1>3
      <4> QED
        BY <1>5, <3>2, <4>1
    <3> QED
      BY <2>1, <3>1, <3>2
  <2>5. ASSUME NEW j \in 1..(k - 1), W(j) PROVE Covered(next1.seen, c, calls[j])
    <3>1. Covered(known.seen, c, calls[j])
      BY <1>2, <2>5
    <3> HIDE DEF known, next1, calls, call
    <3> QED
      BY <1>2, <2>1, <3>1, CoveredGrows
  <2>6. Covered(next1.seen, c, call)
    <3>1. CASE ~Needless(known, call)
      <4>1. WholeList(Reads(known, call, c), c, ListOf(call))
        <5> HIDE DEF known, next1, call
        <5> QED
          BY <1>2, <3>1, ReadsFacts
      <4> QED
        BY <2>1, <4>1 DEF Covered
    <3>2. CASE Needless(known, call)
      <4>1. next1.seen = known.seen
        BY <2>1, <3>2 DEF Reads
      <4>2. Len(calls) \in Nat /\ Proper(names)
        BY <1>3
      <4>3. CASE call.kind = "NetworkPolicy"
        <5>1. call.of = {"security"} /\ \E j \in 1..(k - 1) : calls[j] = PodCall(call.ns)
          BY <4>2, <4>3, Companions
        <5>2. PICK j \in 1..(k - 1) : calls[j] = PodCall(call.ns)
          BY <5>1
        <5> HIDE DEF known, next1, call, calls
        <5>3. "security" \in q.views
          BY <1>5, <4>3, <5>1 DEF Wanted, call
        <5>4. W(j) /\ calls[j].kind = "Pod" /\ calls[j].ns = call.ns
          BY <5>2, <5>3 DEF Wanted, PodCall, Call
        <5>5. WholeList(known.seen, c, <<"Pod", call.ns>>)
          BY <1>2, <5>4, CoveredWhole
        <5>6. ActivePods(known.seen, call.ns) = {}
          BY <3>2, <4>3 DEF Needless
        <5>7. ActivePods(Full(c), call.ns) = {}
          BY <1>2, <5>5, <5>6, WholeSame, ActiveSame
        <5> QED
          BY <4>3, <5>7 DEF Covered
      <4>4. CASE call.kind = "TLSSecret"
        <5>1. call.of = {"networking"} /\ \E j \in 1..(k - 1) : calls[j] = Call("Ingress", call.ns, {"networking"})
          BY <4>2, <4>4, Companions
        <5>2. PICK j \in 1..(k - 1) : calls[j] = Call("Ingress", call.ns, {"networking"})
          BY <5>1
        <5>3. ListOf(call) = <<"Secret", call.ns>>
          BY <4>4 DEF ListOf, ListedKind
        <5> HIDE DEF known, next1, call, calls
        <5>4. CASE ~NamesSecret(known.seen, call.ns)
          <6>1. "networking" \in q.views
            BY <1>5, <4>4, <5>1 DEF Wanted, call
          <6>2. W(j) /\ calls[j].kind = "Ingress" /\ calls[j].ns = call.ns
            BY <5>2, <6>1 DEF Wanted, Call
          <6>3. WholeList(known.seen, c, <<"Ingress", call.ns>>)
            BY <1>2, <6>2, CoveredWhole
          <6>4. Same(known.seen, c, "Ingress", call.ns)
            BY <1>2, <6>3, WholeSame
          <6>5. ~NamesSecret(Full(c), call.ns)
            BY <5>4, <6>4, NamesSame
          <6> QED
            BY <4>4, <6>5 DEF Covered
        <5>5. CASE <<"Secret", call.ns>> \in known.read
          <6>1. PICK i \in 1..(k - 1) : W(i) /\ <<"Secret", call.ns>> = ListOf(calls[i])
            BY <1>2, <5>5
          <6>2. Covered(known.seen, c, calls[i])
            BY <1>2, <6>1
          <6>3. calls[i].ns = call.ns /\ calls[i].kind # "NetworkPolicy"
            BY <6>1 DEF ListOf, ListedKind
          <6> QED
            BY <4>1, <4>4, <5>3, <6>1, <6>2, <6>3 DEF Covered
        <5> QED
          BY <3>2, <4>4, <5>4, <5>5 DEF Needless
      <4> QED
        BY <3>2, <4>3, <4>4 DEF Needless
    <3> QED
      BY <3>1, <3>2
  <2>7. \A j \in 1..k : W(j) => Covered(next1.seen, c, calls[j])
    <3> HIDE DEF next1, W
    <3> QED
      BY <1>3, <2>5, <2>6
  <2>8. \A j \in 1..k : W(j) => ListOf(calls[j]) \in next1.read
    <3> HIDE DEF next1, W, known
    <3> QED
      BY <1>2, <1>3, <2>1
  <2> HIDE DEF next1, known, calls, names
  <2> QED
    BY <2>2, <2>3, <2>4, <2>7, <2>8 DEF Read, next1, calls, names
<1> QED
  BY <1>4, <1>5

LEMMA AlwaysRead ==
    ASSUME NEW c, NEW q, Proper(q.namespaces)
    PROVE  \A k \in 0..Len(Calls(q.namespaces)) : Read(c, q, k)
<1> DEFINE n == Len(Calls(q.namespaces))
           G == {k \in Nat : k <= n => Read(c, q, k)}
<1>1. n \in Nat
  BY CallOrder
<1>2. 0 \in G
  <2>1. Known(c, q)[0].read = {} /\ DOMAIN Known(c, q)[0].seen = {}
    BY KnownFacts DEF Nothing
  <2> QED
    BY <2>1 DEF Read, PartOf
<1>3. ASSUME NEW k \in Nat, k \in G PROVE k + 1 \in G
  <2>1. SUFFICES ASSUME k + 1 <= n PROVE Read(c, q, k + 1)
    OBVIOUS
  <2>2. k + 1 \in 1..n /\ (k + 1) - 1 = k /\ k <= n
    BY <1>1, <2>1
  <2>3. Read(c, q, (k + 1) - 1)
    BY <1>3, <2>2
  <2> QED
    BY <2>2, <2>3, ReadNext
<1>4. \A k \in Nat : k \in G
  <2> HIDE DEF G
  <2> QED
    BY <1>2, <1>3, Induction
<1> QED
  BY <1>1, <1>4

-----------------------------------------------------------------------------
(* What a section says is what it says of the cluster that stood still.    *)

LEMMA SectionsAre ==
    ASSUME NEW q, NEW call, NEW seen
    PROVE  /\ call.kind = "NodeMetrics" => Sections(q, call, seen) = NodeItems(seen)
           /\ call.kind = "PersistentVolumeClaim" => Sections(q, call, seen) = PVCItems(seen, call.ns)
           /\ call.kind = "DaemonSet" => Sections(q, call, seen) = DaemonSetItems(seen, call.ns)
           /\ call.kind = "Pod" =>
                  Sections(q, call, seen)
                      = (IF "workloads" \in q.views THEN WorkloadItems(seen, call.ns) ELSE {})
                        \cup (IF "security" \in q.views THEN SecurityItems(seen, call.ns) ELSE {})
                        \cup (IF "configuration" \in q.views THEN ConfigurationItems(seen, call.ns) ELSE {})
                        \cup (IF "gpu" \in q.views
                              THEN GPUPodItems(seen, call.ns) \cup GPUNamespaceItems(seen, call.ns) ELSE {})
           /\ call.kind = "NetworkPolicy" => Sections(q, call, seen) = NetworkPolicyItems(seen, call.ns)
           /\ call.kind = "EndpointSlice" => Sections(q, call, seen) = ServiceItems(seen, call.ns)
           /\ call.kind = "TLSSecret" => Sections(q, call, seen) = IngressItems(seen, call.ns)
           /\ call.kind \in {"Deployment", "StatefulSet"} =>
                  Sections(q, call, seen) = CoverageItems(seen, call.kind, call.ns)
           /\ call.kind = "Suppression" =>
                  Sections(q, call, seen)
                      = IF ToSet(q.namespaces) = {} THEN {} ELSE
                        (IF "networking" \in q.views THEN RouteItems(seen) ELSE {})
                        \cup (IF "gpu" \in q.views THEN GPUClusterItems(seen) ELSE {})
                        \cup (IF "storage" \in q.views THEN VolumeItems(seen, ToSet(q.namespaces)) ELSE {})
                        \cup (IF "nodes" \in q.views THEN NodeCapacityItems(seen) ELSE {})
           /\ call.kind \in {"Node", "VolumeStats", "PodMetrics", "Event", "Secret", "ConfigMap", "ResourceQuota",
                        "Service", "Ingress", "PersistentVolume"} => Sections(q, call, seen) = {}
<1>1. call.kind = "NodeMetrics" => Sections(q, call, seen) = NodeItems(seen)
  BY DEF Sections
<1>2. call.kind = "PersistentVolumeClaim" => Sections(q, call, seen) = PVCItems(seen, call.ns)
  BY DEF Sections
<1>3. call.kind = "DaemonSet" => Sections(q, call, seen) = DaemonSetItems(seen, call.ns)
  BY DEF Sections
<1>4. ASSUME call.kind = "Pod"
      PROVE  Sections(q, call, seen)
                 = (IF "workloads" \in q.views THEN WorkloadItems(seen, call.ns) ELSE {})
                   \cup (IF "security" \in q.views THEN SecurityItems(seen, call.ns) ELSE {})
                   \cup (IF "configuration" \in q.views THEN ConfigurationItems(seen, call.ns) ELSE {})
                   \cup (IF "gpu" \in q.views
                         THEN GPUPodItems(seen, call.ns) \cup GPUNamespaceItems(seen, call.ns) ELSE {})
  BY <1>4 DEF Sections
<1>5. call.kind = "NetworkPolicy" => Sections(q, call, seen) = NetworkPolicyItems(seen, call.ns)
  BY DEF Sections
<1>6. call.kind = "EndpointSlice" => Sections(q, call, seen) = ServiceItems(seen, call.ns)
  BY DEF Sections
<1>7. call.kind = "TLSSecret" => Sections(q, call, seen) = IngressItems(seen, call.ns)
  BY DEF Sections
<1>8. call.kind \in {"Deployment", "StatefulSet"} => Sections(q, call, seen) = CoverageItems(seen, call.kind, call.ns)
  BY DEF Sections
<1>9. ASSUME call.kind = "Suppression"
      PROVE  Sections(q, call, seen)
                 = IF ToSet(q.namespaces) = {} THEN {} ELSE
                   (IF "networking" \in q.views THEN RouteItems(seen) ELSE {})
                   \cup (IF "gpu" \in q.views THEN GPUClusterItems(seen) ELSE {})
                   \cup (IF "storage" \in q.views THEN VolumeItems(seen, ToSet(q.namespaces)) ELSE {})
                   \cup (IF "nodes" \in q.views THEN NodeCapacityItems(seen) ELSE {})
  BY <1>9 DEF Sections
<1>10. call.kind \in {"Node", "VolumeStats", "PodMetrics", "Event", "Secret", "ConfigMap", "ResourceQuota",
                 "Service", "Ingress", "PersistentVolume"} => Sections(q, call, seen) = {}
  BY DEF Sections
<1> QED
  BY <1>1, <1>2, <1>3, <1>4, <1>5, <1>6, <1>7, <1>8, <1>9, <1>10

LEMMA KindSame ==
    ASSUME NEW c, NEW seen, PartOf(seen, c), NEW views, NEW kind, NEW ns, NEW of,
           kind \notin {"NetworkPolicy", "TLSSecret", "Suppression"}, of \cap views # {},
           Wanted(Call(kind, ns, of), views) => Covered(seen, c, Call(kind, ns, of))
    PROVE  WholeList(seen, c, <<kind, ns>>) /\ Same(seen, c, kind, ns)
<1> DEFINE call == Call(kind, ns, of)
<1>1. call.kind = kind /\ call.ns = ns /\ call.of = of
  BY DEF Call
<1> HIDE DEF call
<1>2. Covered(seen, c, call)
  BY <1>1 DEF Wanted, call
<1>3. WholeList(seen, c, <<call.kind, call.ns>>)
  BY <1>1, <1>2, CoveredWhole
<1> QED
  BY <1>1, <1>3, WholeSame

LEMMA OtherLists ==
    /\ ClusterCalls[1] = Call("Node", ClusterScope, {"nodes", "gpu"})
    /\ ClusterCalls[2] = Call("VolumeStats", ClusterScope, {"storage"})
    /\ ClusterCalls[3] = Call("NodeMetrics", ClusterScope, {"nodes"})
    /\ ClusterCalls[4] = Call("PodMetrics", ClusterScope, {"workloads"})
    /\ VolumeCalls[1] = Call("PersistentVolume", ClusterScope, {"storage"})
    /\ \A ns : /\ NamespaceCalls(ns)[1] = Call("PersistentVolumeClaim", ns, {"storage"})
               /\ NamespaceCalls(ns)[2] = Call("Event", ns, {"workloads", "gpu"})
               /\ NamespaceCalls(ns)[6] = Call("DaemonSet", ns, {"workloads"})
               /\ NamespaceCalls(ns)[10] = Call("EndpointSlice", ns, {"networking"})
               /\ NamespaceCalls(ns)[13] = Call("Deployment", ns, {"networking"})
               /\ NamespaceCalls(ns)[14] = Call("StatefulSet", ns, {"networking"})
<1>1. ClusterCalls[1] = Call("Node", ClusterScope, {"nodes", "gpu"})
  BY DEF ClusterCalls, MetricsCalls
<1>2. ClusterCalls[2] = Call("VolumeStats", ClusterScope, {"storage"})
  BY DEF ClusterCalls, MetricsCalls
<1>3. ClusterCalls[3] = Call("NodeMetrics", ClusterScope, {"nodes"})
  BY DEF ClusterCalls, MetricsCalls
<1>4. ClusterCalls[4] = Call("PodMetrics", ClusterScope, {"workloads"})
  BY DEF ClusterCalls, MetricsCalls
<1>5. VolumeCalls[1] = Call("PersistentVolume", ClusterScope, {"storage"})
  BY DEF VolumeCalls
<1>6. \A ns : /\ NamespaceCalls(ns)[1] = Call("PersistentVolumeClaim", ns, {"storage"})
              /\ NamespaceCalls(ns)[2] = Call("Event", ns, {"workloads", "gpu"})
              /\ NamespaceCalls(ns)[6] = Call("DaemonSet", ns, {"workloads"})
              /\ NamespaceCalls(ns)[10] = Call("EndpointSlice", ns, {"networking"})
              /\ NamespaceCalls(ns)[13] = Call("Deployment", ns, {"networking"})
              /\ NamespaceCalls(ns)[14] = Call("StatefulSet", ns, {"networking"})
  BY DEF NamespaceCalls
<1> QED
  BY <1>1, <1>2, <1>3, <1>4, <1>5, <1>6

\* The lists of a namespace up to its l-th, and those of the cluster, were read.
UpTo(c, seen, views, ns, l) ==
    /\ PartOf(seen, c)
    /\ Wanted(NamespaceCalls(ns)[l], views)
    /\ \A j \in 1..l : Wanted(NamespaceCalls(ns)[j], views) => Covered(seen, c, NamespaceCalls(ns)[j])
    /\ \A j \in 1..4 : Wanted(ClusterCalls[j], views) => Covered(seen, c, ClusterCalls[j])

LEMMA BlockSettled ==
    ASSUME NEW c, Complete(c), NEW q, NEW seen, NEW ns, NEW l \in 1..14, UpTo(c, seen, q.views, ns, l)
    PROVE  Sections(q, NamespaceCalls(ns)[l], seen) = Sections(q, NamespaceCalls(ns)[l], Full(c))
<1> DEFINE V == q.views
           call == NamespaceCalls(ns)[l]
           Has(call1) == Wanted(call1, V) => Covered(seen, c, call1)
<1>1. \A j \in 1..l : Has(NamespaceCalls(ns)[j])
  BY DEF UpTo
<1>2. PartOf(seen, c) /\ \A j \in 1..4 : Has(ClusterCalls[j])
  BY DEF UpTo
<1>3. call.kind = BlockKinds[l] /\ call.ns = ns
  BY Kinds
<1>4. \A kind, ns1, of : /\ Call(kind, ns1, of).of = of
                         /\ Call(kind, ns1, of).kind = kind
                         /\ Call(kind, ns1, of).ns = ns1
  BY DEF Call
<1>5. call.kind # "Suppression" /\ call.of \cap V # {}
  BY <1>3, KindsApart DEF UpTo, Wanted
<1>0. call = NamespaceCalls(ns)[l]
  OBVIOUS
<1> SUFFICES Sections(q, call, seen) = Sections(q, call, Full(c))
  OBVIOUS
<1> HIDE DEF Has, call
<1>6. CASE l \in {2, 3, 4, 5, 9, 11}
  <2>1. call.kind \in {"Event", "Secret", "ConfigMap", "ResourceQuota", "Service", "Ingress"}
    BY <1>3, <1>6 DEF BlockKinds
  <2> QED
    BY <2>1, SectionsAre
<1>7. CASE l = 1
  <2>1. call = Call("PersistentVolumeClaim", ns, {"storage"})
    BY <1>0, <1>7, OtherLists
  <2>2. call.kind = "PersistentVolumeClaim" /\ {"storage"} \cap V # {}
    BY <1>4, <1>5, <2>1
  <2>3. Same(seen, c, "PersistentVolumeClaim", ns)
    <3>1. Has(Call("PersistentVolumeClaim", ns, {"storage"}))
      BY <1>1, <1>7, OtherLists
    <3> QED
      BY <2>2, <3>1, <1>2, KindSame DEF Has
  <2> QED
    BY <1>3, <2>2, <2>3, PVCSame, SectionsAre
<1>8. CASE l = 6
  <2>1. call = Call("DaemonSet", ns, {"workloads"})
    BY <1>0, <1>8, OtherLists
  <2>2. call.kind = "DaemonSet" /\ {"workloads"} \cap V # {}
    BY <1>4, <1>5, <2>1
  <2>3. Same(seen, c, "DaemonSet", ns)
    <3>1. Has(Call("DaemonSet", ns, {"workloads"}))
      BY <1>1, <1>8, OtherLists
    <3> QED
      BY <2>2, <3>1, <1>2, KindSame DEF Has
  <2> QED
    BY <1>3, <2>2, <2>3, DaemonSetSame, SectionsAre
<1>9. CASE l = 7
  <2> DEFINE of == {"workloads", "nodes", "gpu", "security", "configuration"}
  <2>1. call = Call("Pod", ns, of)
    BY <1>0, <1>9, ListsOfBlock DEF PodCall
  <2>2. call.kind = "Pod" /\ of \cap V # {}
    BY <1>4, <1>5, <2>1
  <2>3. Same(seen, c, "Pod", ns)
    <3>1. Has(Call("Pod", ns, of))
      BY <1>0, <1>1, <1>9, <2>1
    <3> HIDE DEF of
    <3> QED
      BY <2>2, <3>1, <1>2, KindSame DEF Has
  <2>4. WorkloadItems(seen, ns) = WorkloadItems(Full(c), ns)
    BY <2>3, WorkloadSame
  <2>5. SecurityItems(seen, ns) = SecurityItems(Full(c), ns)
    BY <2>3, SecuritySame
  <2>6. ASSUME "configuration" \in V PROVE ConfigurationItems(seen, ns) = ConfigurationItems(Full(c), ns)
    <3>1. Has(Call("Secret", ns, {"configuration"})) /\ Has(Call("ConfigMap", ns, {"configuration"}))
      BY <1>1, <1>9, ListsOfBlock
    <3>2. Same(seen, c, "Secret", ns) /\ Same(seen, c, "ConfigMap", ns)
      BY <2>6, <3>1, <1>2, KindSame DEF Has
    <3> QED
      BY <2>3, <3>2, ConfigurationSame
  <2>7. ASSUME "gpu" \in V
        PROVE  GPUPodItems(seen, ns) = GPUPodItems(Full(c), ns)
               /\ GPUNamespaceItems(seen, ns) = GPUNamespaceItems(Full(c), ns)
    <3>1. Has(Call("ResourceQuota", ns, {"gpu"}))
      BY <1>1, <1>9, ListsOfBlock
    <3>2. Same(seen, c, "ResourceQuota", ns)
      BY <2>7, <3>1, <1>2, KindSame DEF Has
    <3> QED
      BY <2>3, <3>2, GPUSame
  <2> DEFINE Parts(s) ==
                 (IF "workloads" \in V THEN WorkloadItems(s, ns) ELSE {})
                 \cup (IF "security" \in V THEN SecurityItems(s, ns) ELSE {})
                 \cup (IF "configuration" \in V THEN ConfigurationItems(s, ns) ELSE {})
                 \cup (IF "gpu" \in V THEN GPUPodItems(s, ns) \cup GPUNamespaceItems(s, ns) ELSE {})
  <2>8. Parts(seen) = Parts(Full(c))
    BY <2>4, <2>5, <2>6, <2>7
  <2>9. Sections(q, call, seen) = Parts(seen) /\ Sections(q, call, Full(c)) = Parts(Full(c))
    BY <1>3, <2>2, SectionsAre
  <2> HIDE DEF Parts
  <2> QED
    BY <2>8, <2>9
<1>10. CASE l = 8
  <2>1. call = Call("NetworkPolicy", ns, {"security"})
    BY <1>0, <1>10, ListsOfBlock
  <2>2. call.kind = "NetworkPolicy" /\ "security" \in V
    BY <1>4, <1>5, <2>1
  <2>3. Same(seen, c, "Pod", ns)
    <3> DEFINE of == {"workloads", "nodes", "gpu", "security", "configuration"}
    <3>1. Has(Call("Pod", ns, of))
      BY <1>1, <1>10, ListsOfBlock DEF PodCall
    <3>2. of \cap V # {}
      BY <2>2
    <3> HIDE DEF of
    <3> QED
      BY <3>1, <3>2, <1>2, KindSame DEF Has
  <2>4. Covered(seen, c, call)
    BY <1>0, <1>1, <1>5, <1>10 DEF Has, Wanted
  <2>5. Same(seen, c, "NetworkPolicy", ns) \/ ActivePods(Full(c), ns) = {}
    <3>1. ListOf(call) = <<"NetworkPolicy", ns>>
      BY <1>3, <2>2 DEF ListOf, ListedKind
    <3> QED
      BY <1>3, <2>2, <2>4, <3>1, <1>2, WholeSame DEF Covered
  <2> QED
    BY <1>3, <2>2, <2>3, <2>5, NetworkPolicySame, SectionsAre
<1>11. CASE l \in {10, 12, 13, 14}
  <2>1. "networking" \in V
    BY <1>0, <1>4, <1>5, <1>11, ListsOfBlock, OtherLists
  <2>2. Same(seen, c, "Service", ns)
    <3>1. Has(Call("Service", ns, {"networking"}))
      BY <1>1, <1>11, ListsOfBlock
    <3> QED
      BY <2>1, <3>1, <1>2, KindSame DEF Has
  <2>3. CASE l = 10
    <3>1. call.kind = "EndpointSlice" /\ Has(Call("EndpointSlice", ns, {"networking"}))
      BY <1>0, <1>1, <1>4, <2>3, OtherLists
    <3>2. Same(seen, c, "EndpointSlice", ns)
      BY <2>1, <3>1, <1>2, KindSame DEF Has
    <3> QED
      BY <1>3, <2>2, <3>1, <3>2, ServiceSame, SectionsAre
  <2>4. CASE l = 12
    <3>1. call.kind = "TLSSecret" /\ Has(Call("Ingress", ns, {"networking"}))
      BY <1>0, <1>1, <1>4, <2>4, ListsOfBlock
    <3>2. Same(seen, c, "Ingress", ns)
      BY <2>1, <3>1, <1>2, KindSame DEF Has
    <3>3. Covered(seen, c, call)
      BY <1>0, <1>1, <1>5, <2>4 DEF Has, Wanted
    <3>4. Same(seen, c, "Secret", ns) \/ ~NamesSecret(Full(c), ns)
      <4>1. ListOf(call) = <<"Secret", ns>>
        BY <1>3, <3>1 DEF ListOf, ListedKind
      <4> QED
        BY <1>3, <3>1, <3>3, <4>1, <1>2, WholeSame DEF Covered
    <3> QED
      BY <1>3, <2>2, <3>1, <3>2, <3>4, <1>2, IngressSame, SectionsAre
  <2>5. CASE l \in {13, 14}
    <3>1. PICK kind \in {"Deployment", "StatefulSet"} :
              call = Call(kind, ns, {"networking"}) /\ Has(Call(kind, ns, {"networking"}))
      BY <1>0, <1>1, <2>5, OtherLists
    <3>2. call.kind = kind
      BY <1>4, <3>1
    <3>3. Same(seen, c, kind, ns)
      BY <2>1, <3>1, <1>2, KindSame DEF Has
    <3> QED
      BY <1>3, <2>2, <3>2, <3>3, CoverageSame, SectionsAre
  <2> QED
    BY <1>11, <2>3, <2>4, <2>5
<1>12. l \in {2, 3, 4, 5, 9, 11} \/ l = 1 \/ l = 6 \/ l = 7 \/ l = 8 \/ l \in {10, 12, 13, 14}
  OBVIOUS
<1> QED
  BY <1>6, <1>7, <1>8, <1>9, <1>10, <1>11, <1>12

SaysAll(c, q, seen, ns, l) ==
    UpTo(c, seen, q.views, ns, l)
        => Sections(q, NamespaceCalls(ns)[l], seen) = Sections(q, NamespaceCalls(ns)[l], Full(c))

LEMMA BlocksSettled ==
    ASSUME NEW c, Complete(c)
    PROVE  \A q, seen, ns : \A l \in 1..14 : SaysAll(c, q, seen, ns, l)
<1> TAKE q, seen, ns
<1> TAKE l \in 1..14
<1> SUFFICES ASSUME UpTo(c, seen, q.views, ns, l)
             PROVE  Sections(q, NamespaceCalls(ns)[l], seen) = Sections(q, NamespaceCalls(ns)[l], Full(c))
  BY DEF SaysAll
<1> QED
  BY BlockSettled
LEMMA CallFacts ==
    ASSUME NEW names, Proper(names)
    PROVE  \A j \in 1..Len(Calls(names)) :
               LET call == Calls(names)[j]
               IN  /\ call.kind = "Node" => j = 1 /\ call.of = {"nodes", "gpu"} /\ call.ns = ClusterScope
                   /\ call.kind = "Pod" => call.of = {"workloads", "nodes", "gpu", "security", "configuration"}
                   /\ call.kind = "Ingress" => call.of = {"networking"}
                   /\ call.kind = "PersistentVolume" => call.of = {"storage"} /\ call.ns = ClusterScope
                   /\ call.kind = "PersistentVolumeClaim" => call.of = {"storage"}
<1> TAKE j \in 1..Len(Calls(names))
<1> DEFINE call == Calls(names)[j]
           Good == /\ call.kind = "Node" => j = 1 /\ call.of = {"nodes", "gpu"} /\ call.ns = ClusterScope
                   /\ call.kind = "Pod" => call.of = {"workloads", "nodes", "gpu", "security", "configuration"}
                   /\ call.kind = "Ingress" => call.of = {"networking"}
                   /\ call.kind = "PersistentVolume" => call.of = {"storage"} /\ call.ns = ClusterScope
                   /\ call.kind = "PersistentVolumeClaim" => call.of = {"storage"}
<1> SUFFICES Good
  OBVIOUS
<1>1. \A kind, ns1, of : /\ Call(kind, ns1, of).of = of
                         /\ Call(kind, ns1, of).kind = kind
                         /\ Call(kind, ns1, of).ns = ns1
  BY DEF Call
<1>2. CASE call = SuppressionCall
  BY <1>2, Kinds
<1>3. CASE call = VolumeCalls[1]
  BY <1>1, <1>3, OtherLists
<1>4. CASE j \in 1..4 /\ call = ClusterCalls[j]
  <2>1. call.kind = ClusterKinds[j]
    BY <1>4, Kinds
  <2>2. \A i \in 1..4 : /\ ClusterKinds[i] \notin {"Pod", "Ingress", "PersistentVolume", "PersistentVolumeClaim"}
                        /\ ClusterKinds[i] = "Node" => i = 1
    BY DEF ClusterKinds
  <2> QED
    BY <1>1, <1>4, <2>1, <2>2, OtherLists
<1>5. CASE \E b \in 1..Len(names), k \in 1..14 : j = Place(b, k) /\ call = NamespaceCalls(names[b])[k]
  <2>1. PICK b \in 1..Len(names), k \in 1..14 : call = NamespaceCalls(names[b])[k]
    BY <1>5
  <2>2. NamespaceCalls(names[b])[k].kind = BlockKinds[k]
    BY Kinds
  <2>3. /\ \A i \in 1..14 : BlockKinds[i] \notin {"Node", "PersistentVolume"}
        /\ \A i \in 1..14 : BlockKinds[i] = "Pod" => i = 7
        /\ \A i \in 1..14 : BlockKinds[i] = "Ingress" => i = 11
        /\ \A i \in 1..14 : BlockKinds[i] = "PersistentVolumeClaim" => i = 1
    BY BlockKindsOnly, BlockPods, BlockIngresses DEF BlockKinds
  <2>4. NamespaceCalls(names[b])[7].of = {"workloads", "nodes", "gpu", "security", "configuration"}
        /\ NamespaceCalls(names[b])[11].of = {"networking"} /\ NamespaceCalls(names[b])[1].of = {"storage"}
    <3>1. /\ NamespaceCalls(names[b])[7] = PodCall(names[b])
          /\ NamespaceCalls(names[b])[11] = Call("Ingress", names[b], {"networking"})
          /\ NamespaceCalls(names[b])[1] = Call("PersistentVolumeClaim", names[b], {"storage"})
      BY ListsOfBlock, OtherLists
    <3> QED
      BY <1>1, <3>1 DEF PodCall
  <2> QED
    BY <2>1, <2>2, <2>3, <2>4
<1> QED
  BY <1>2, <1>3, <1>4, <1>5, CallAt

\* The objects of a kind, once every list of it was read.
LEMMA KindAlike ==
    ASSUME NEW c, NEW q, Proper(q.namespaces), NEW k \in 1..Len(Calls(q.namespaces)),
           NEW kind \in {"Node", "Pod", "Ingress", "PersistentVolume", "PersistentVolumeClaim"},
           \A j \in 1..Len(Calls(q.namespaces)) :
               Calls(q.namespaces)[j].kind = kind => j \in 1..k /\ Wanted(Calls(q.namespaces)[j], q.views)
    PROVE  Alike(Known(c, q)[k].seen, Chosen(c, q.namespaces), kind)
<1> DEFINE names == q.namespaces
           calls == Calls(names)
           seen == Known(c, q)[k].seen
           ref == Chosen(c, names)
<1>1. Len(calls) \in Nat
  BY CallOrder
<1>2. Read(c, q, k)
  BY <1>1, AlwaysRead
<1>3. /\ PartOf(seen, c)
      /\ \A o \in DOMAIN seen : ListOfObject(o) \in Lists(names)
      /\ \A j \in 1..k : Wanted(calls[j], q.views) => Covered(seen, c, calls[j])
  BY <1>2 DEF Read
<1>4. /\ DOMAIN ref = {p \in Objects : c[p] # Absent /\ ListOfObject(p) \in Lists(names)}
      /\ \A o \in DOMAIN ref : ref[o] = c[o]
  BY DEF Chosen
<1>5. \A j \in 1..Len(calls) : calls[j].kind = kind => j \in 1..k /\ Wanted(calls[j], q.views)
  OBVIOUS
<1>6. \A l \in Lists(names) : \E j \in 1..Len(calls) : l = ListOf(calls[j])
  BY DEF Lists
<1> HIDE DEF seen, ref, calls
<1>7. \A o \in DOMAIN seen : o \in DOMAIN ref /\ seen[o] = ref[o]
  BY <1>3, <1>4 DEF PartOf
<1>8. ASSUME NEW o \in DOMAIN ref, Kind(o) = kind PROVE o \in DOMAIN seen
  <2>1. PICK j \in 1..Len(calls) : ListOfObject(o) = ListOf(calls[j])
    BY <1>4, <1>6, <1>8
  <2>2. calls[j].kind = kind
    BY <1>8, <2>1 DEF ListOf, ListedKind, ListOfObject
  <2>3. WholeList(seen, c, <<calls[j].kind, calls[j].ns>>)
    BY <1>3, <1>5, <2>2, CoveredWhole
  <2>4. ListOfObject(o) = <<calls[j].kind, calls[j].ns>>
    BY <2>1, <2>2 DEF ListOf, ListedKind
  <2> QED
    BY <1>4, <2>3, <2>4 DEF WholeList
<1>9. AllOf(seen, kind) = AllOf(ref, kind)
  BY <1>7, <1>8 DEF AllOf
<1>10. \A o \in AllOf(ref, kind) : seen[o] = ref[o]
  BY <1>7, <1>8 DEF AllOf
<1> QED
  BY <1>9, <1>10 DEF Alike, seen, ref

\* Nodes have no namespace.
LEMMA NodesOfChosen ==
    ASSUME NEW c, NEW names, Proper(names)
    PROVE  \A n \in AllOf(Chosen(c, names), "Node") : n = Object("Node", ClusterScope, Name(n))
<1> TAKE n \in AllOf(Chosen(c, names), "Node")
<1>1. n \in Objects /\ Kind(n) = "Node" /\ ListOfObject(n) \in Lists(names)
  BY DEF AllOf, Chosen
<1>2. PICK j \in 1..Len(Calls(names)) : ListOfObject(n) = ListOf(Calls(names)[j])
  BY <1>1 DEF Lists
<1>3. Calls(names)[j].kind = "Node" /\ Namespace(n) = Calls(names)[j].ns
  BY <1>1, <1>2 DEF ListOf, ListedKind, ListOfObject
<1>4. Namespace(n) = ClusterScope
  BY <1>3, CallFacts
<1> QED
  BY <1>1, <1>4, InsightsAssumption DEF InsightsAssumption

\* A section of the cluster speaks of the selected namespaces, one of a namespace of it.
Ref(c, names, call) == IF call.ns = ClusterScope THEN Chosen(c, names) ELSE Full(c)

LEMMA SectionsSettled ==
    ASSUME NEW c, Complete(c), NEW q, Proper(q.namespaces), NEW k \in 1..Len(Calls(q.namespaces)),
           Wanted(Calls(q.namespaces)[k], q.views)
    PROVE  Sections(q, Calls(q.namespaces)[k], Known(c, q)[k].seen)
               = Sections(q, Calls(q.namespaces)[k], Ref(c, q.namespaces, Calls(q.namespaces)[k]))
<1> DEFINE names == q.namespaces
           calls == Calls(names)
           call == calls[k]
           seen == Known(c, q)[k].seen
           V == q.views
           ref == Chosen(c, names)
<1>1. Len(calls) \in Nat
  BY CallOrder
<1>2. Read(c, q, k)
  BY <1>1, AlwaysRead
<1>3. /\ PartOf(seen, c)
      /\ \A j \in 1..k : Wanted(calls[j], V) => Covered(seen, c, calls[j])
  BY <1>2 DEF Read
<1>4. CASE \E b \in 1..Len(names), l \in 1..14 :
               names # << >> /\ k = Place(b, l) /\ call = NamespaceCalls(names[b])[l]
  <2>1. PICK b \in 1..Len(names), l \in 1..14 :
            names # << >> /\ k = Place(b, l) /\ call = NamespaceCalls(names[b])[l]
    BY <1>4
  <2>2. call.ns # ClusterScope
    <3>1. NamespaceCalls(names[b])[l].ns = names[b]
      BY Kinds
    <3>2. names[b] \in ToSet(names)
      BY DEF ToSet, Proper
    <3> QED
      BY <2>1, <3>1, <3>2 DEF Proper
  <2>3. \A j \in 1..l : Place(b, j) \in 1..k /\ calls[Place(b, j)] = NamespaceCalls(names[b])[j]
    BY <2>1, Places
  <2>4. \A j \in 1..4 : j \in 1..k /\ calls[j] = ClusterCalls[j]
    <3>1. \A j \in 1..4 : j \in 1..(k - 1) /\ calls[j] = ClusterCalls[j]
      BY <2>1, Places
    <3>2. 1..(k - 1) \subseteq 1..k
      BY <1>1
    <3> QED
      BY <3>1, <3>2
  <2>0. Wanted(call, V)
    OBVIOUS
  <2> HIDE DEF seen, calls, names, call
  <2>5. \A j \in 1..l : Wanted(NamespaceCalls(names[b])[j], V) => Covered(seen, c, NamespaceCalls(names[b])[j])
    BY <1>3, <2>3
  <2>6. \A j \in 1..4 : Wanted(ClusterCalls[j], V) => Covered(seen, c, ClusterCalls[j])
    BY <1>3, <2>4
  <2>7. Sections(q, NamespaceCalls(names[b])[l], seen) = Sections(q, NamespaceCalls(names[b])[l], Full(c))
    <3>1. Wanted(NamespaceCalls(names[b])[l], V)
      BY <2>0, <2>1
    <3>2. UpTo(c, seen, q.views, names[b], l)
      BY <1>3, <2>5, <2>6, <3>1 DEF UpTo
    <3>3. \A ns : \A i \in 1..14 : SaysAll(c, q, seen, ns, i)
      BY BlocksSettled
    <3>4. SaysAll(c, q, seen, names[b], l)
      BY <2>1, <3>3
    <3> QED
      BY <3>2, <3>4 DEF SaysAll
  <2> QED
    BY <2>1, <2>2, <2>7 DEF Ref, seen, call, calls, names
<1>5. CASE call = VolumeCalls[1]
  <2>1. call.kind = "PersistentVolume"
    BY <1>5, Kinds
  <2> HIDE DEF seen, call
  <2>2. \A s : Sections(q, call, s) = {}
    BY <2>1, SectionsAre
  <2> QED
    BY <2>2 DEF call, seen
<1>6. CASE names # << >> /\ k \in 1..4 /\ call = ClusterCalls[k]
  <2>1. CASE k # 3
    <3>1. call.kind = ClusterKinds[k]
      BY <1>6, Kinds
    <3>2. call.kind \in {"Node", "VolumeStats", "PodMetrics"}
      BY <1>6, <2>1, <3>1 DEF ClusterKinds
    <3> HIDE DEF seen, call
    <3>3. \A s : Sections(q, call, s) = {}
      BY <3>2, SectionsAre
    <3> QED
      BY <3>3 DEF call, seen
  <2>2. CASE k = 3
    <3>1. call = Call("NodeMetrics", ClusterScope, {"nodes"})
      BY <1>6, <2>2, OtherLists
    <3>2. call.kind = "NodeMetrics" /\ call.ns = ClusterScope /\ "nodes" \in V
      BY <3>1 DEF Call, Wanted
    <3>3. \A j \in 1..Len(calls) : calls[j].kind = "Node" => j \in 1..k /\ Wanted(calls[j], V)
      BY <2>2, <3>2, CallFacts DEF Wanted
    <3>4. Alike(seen, ref, "Node")
      BY <3>3, KindAlike
    <3>5. NodeItems(seen) = NodeItems(ref)
      BY <3>4, NodesAlike
    <3> QED
      BY <3>2, <3>5, SectionsAre DEF Ref
  <2> QED
    BY <2>1, <2>2
<1>7. CASE call = SuppressionCall /\ k = Len(calls)
  <2>1. call.kind = "Suppression" /\ call.ns = ClusterScope
    BY <1>7, Kinds
  <2>2. \A j \in 1..Len(calls) : j \in 1..k
    BY <1>7
  <2>3. ASSUME "networking" \in V PROVE RouteItems(seen) = RouteItems(ref)
    <3>1. \A j \in 1..Len(calls) : calls[j].kind = "Ingress" => j \in 1..k /\ Wanted(calls[j], V)
      BY <2>2, <2>3, CallFacts DEF Wanted
    <3> QED
      BY <3>1, KindAlike, RoutesAlike
  <2>4. ASSUME "storage" \in V PROVE VolumeItems(seen, ToSet(names)) = VolumeItems(ref, ToSet(names))
    <3>1. \A j \in 1..Len(calls) : calls[j].kind = "PersistentVolume" => j \in 1..k /\ Wanted(calls[j], V)
      BY <2>2, <2>4, CallFacts DEF Wanted
    <3> QED
      BY <3>1, KindAlike, VolumesAlike
  <2>5. ASSUME "gpu" \in V \/ "nodes" \in V PROVE Alike(seen, ref, "Node") /\ Alike(seen, ref, "Pod")
    <3>1. \A j \in 1..Len(calls) : calls[j].kind = "Node" => j \in 1..k /\ Wanted(calls[j], V)
      BY <2>2, <2>5, CallFacts DEF Wanted
    <3>2. \A j \in 1..Len(calls) : calls[j].kind = "Pod" => j \in 1..k /\ Wanted(calls[j], V)
      BY <2>2, <2>5, CallFacts DEF Wanted
    <3> QED
      BY <3>1, <3>2, KindAlike
  <2>6. ASSUME "gpu" \in V PROVE GPUClusterItems(seen) = GPUClusterItems(ref)
    BY <2>5, <2>6, GPUClusterAlike
  <2>7. ASSUME "nodes" \in V PROVE NodeCapacityItems(seen) = NodeCapacityItems(ref)
    BY <2>5, <2>7, NodesOfChosen, NodeCapacityAlike
  <2> DEFINE Parts(s) ==
                 IF ToSet(names) = {} THEN {} ELSE
                 (IF "networking" \in V THEN RouteItems(s) ELSE {})
                 \cup (IF "gpu" \in V THEN GPUClusterItems(s) ELSE {})
                 \cup (IF "storage" \in V THEN VolumeItems(s, ToSet(names)) ELSE {})
                 \cup (IF "nodes" \in V THEN NodeCapacityItems(s) ELSE {})
  <2>8. Parts(seen) = Parts(ref)
    BY <2>3, <2>4, <2>6, <2>7
  <2>9. Sections(q, call, seen) = Parts(seen) /\ Sections(q, call, ref) = Parts(ref)
    BY <2>1, SectionsAre
  <2> HIDE DEF Parts
  <2> QED
    BY <2>1, <2>8, <2>9 DEF Ref
<1> QED
  BY <1>4, <1>5, <1>6, <1>7, CallAt

-----------------------------------------------------------------------------
(* What a request answers when the cluster stands still, call by call.     *)

\* What a call adds to the answer.
Said(c, q, call) == Sections(q, call, Ref(c, q.namespaces, call))

SaidBy(c, q, k, i) ==
    \E j \in 1..k : Wanted(Calls(q.namespaces)[j], q.views) /\ i \in Said(c, q, Calls(q.namespaces)[j])

LEMMA ItemsSoFar ==
    ASSUME NEW c, Complete(c), NEW q, Proper(q.namespaces)
    PROVE  \A k \in 0..Len(Calls(q.namespaces)) :
               \A i : i \in Known(c, q)[k].items <=> SaidBy(c, q, k, i)
<1> DEFINE calls == Calls(q.namespaces)
           n == Len(calls)
           K == Known(c, q)
           Told1(k) == \A i : i \in K[k].items <=> SaidBy(c, q, k, i)
           G == {k \in Nat : k <= n => Told1(k)}
<1>1. n \in Nat
  BY CallOrder
<1>2. 0 \in G
  <2>1. K[0].items = {}
    BY KnownFacts DEF Nothing
  <2>2. \A i : ~SaidBy(c, q, 0, i)
    BY DEF SaidBy
  <2> QED
    BY <2>1, <2>2
<1>3. ASSUME NEW k \in Nat, k \in G PROVE k + 1 \in G
  <2>1. SUFFICES ASSUME k + 1 <= n PROVE Told1(k + 1)
    OBVIOUS
  <2>2. k + 1 \in 1..n /\ (k + 1) - 1 = k /\ k <= n
    BY <1>1, <2>1
  <2>3. Told1(k)
    BY <1>3, <2>2
  <2> DEFINE call == calls[k + 1]
  <2>4. K[k + 1] = IF Wanted(call, q.views) THEN Advance(q, K[k], call, c) ELSE K[k]
    BY <2>2, KnownFacts DEF Next1
  <2>5. \A j \in 1..(k + 1) : j = k + 1 \/ j \in 1..k
    BY <1>3
  <2>6. k + 1 \in 1..(k + 1) /\ \A j \in 1..k : j \in 1..(k + 1)
    BY <1>3
  <2>7. CASE ~Wanted(call, q.views)
    <3>1. \A i : SaidBy(c, q, k + 1, i) <=> SaidBy(c, q, k, i)
      BY <2>5, <2>6, <2>7 DEF SaidBy
    <3> QED
      BY <2>3, <2>4, <2>7, <3>1
  <2>8. CASE Wanted(call, q.views)
    <3>1. /\ K[k + 1].items = K[k].items \cup Sections(q, call, Reads(K[k], call, c))
          /\ K[k + 1].seen = Reads(K[k], call, c)
      BY <2>4, <2>8 DEF Advance
    <3>2. Sections(q, call, K[k + 1].seen) = Said(c, q, call)
      BY <2>2, <2>8, SectionsSettled DEF Said
    <3>3. K[k + 1].items = K[k].items \cup Said(c, q, call)
      BY <3>1, <3>2
    <3>4. \A i : SaidBy(c, q, k + 1, i) <=> SaidBy(c, q, k, i) \/ i \in Said(c, q, call)
      BY <2>5, <2>6, <2>8 DEF SaidBy
    <3> HIDE DEF K, call
    <3> QED
      BY <2>3, <3>3, <3>4
  <2> QED
    BY <2>7, <2>8
<1>4. \A k \in Nat : k \in G
  <2> HIDE DEF G
  <2> QED
    BY <1>2, <1>3, Induction
<1> QED
  BY <1>1, <1>4

Mark(c, i) ==
    [check |-> i.check, on |-> i.on, status |-> i.status,
     suppressed |-> <<i.check, i.on>> \in c[Object("Suppression", ClusterScope, "list")]]

SaidOf(c, q, i) == SaidBy(c, q, Len(Calls(q.namespaces)), i)

\* What is measured then, of the claims and pods on the lists of the request.
Made(names) == IF names = << >> THEN {} ELSE {<<ClusterKinds[i], ClusterScope>> : i \in 2..4}

Measured(c, q) == MeasuredItems(q, Chosen(c, q.namespaces), MeasuredThen(c, q, Made(q.namespaces)))

LEMMA ThenParts ==
    ASSUME NEW c, NEW q, NEW made
    PROVE  /\ MeasuredThen(c, q, made).volumes
                  = IF <<"VolumeStats", ClusterScope>> \in made THEN VolumeUse(c, NodesOf(c)) ELSE << >>
           /\ MeasuredThen(c, q, made).pipeline
                  = IF <<"NodeMetrics", ClusterScope>> \in made THEN Pipeline(c, NodesOf(c)) ELSE "unread"
           /\ MeasuredThen(c, q, made).pods
                  = IF <<"PodMetrics", ClusterScope>> \in made
                    THEN PodUse(c, NodesOf(c), ToSet(q.namespaces)) ELSE << >>
BY DEF MeasuredThen

LEMMA MadeAll ==
    ASSUME NEW names
    PROVE  \A kind \in {"VolumeStats", "NodeMetrics", "PodMetrics"} :
               <<kind, ClusterScope>> \in Made(names) <=> names # << >>
<1>1. ClusterKinds[2] = "VolumeStats" /\ ClusterKinds[3] = "NodeMetrics" /\ ClusterKinds[4] = "PodMetrics"
  BY DEF ClusterKinds
<1>2. 2 \in 2..4 /\ 3 \in 2..4 /\ 4 \in 2..4
  OBVIOUS
<1> QED
  BY <1>1, <1>2 DEF Made

LEMMA ClaimsAlike ==
    ASSUME NEW seen, NEW ref, Alike(seen, ref, "PersistentVolumeClaim"), NEW volumes
    PROVE  ClaimItems(seen, volumes) = ClaimItems(ref, volumes)
BY DEF Alike, ClaimItems

LEMMA UsesAlike ==
    ASSUME NEW seen, NEW ref, Alike(seen, ref, "Pod"), NEW pods
    PROVE  UseItems(seen, pods) = UseItems(ref, pods)
<1> DEFINE Key(o) == <<Namespace(o), Name(o)>>
           Uses(f, o) == UsageItems(o, f[o], pods[Key(o)])
           Of1(f) == {o \in AllOf(f, "Pod") : f[o].phase = "Running" /\ Key(o) \in DOMAIN pods}
<1>1. Of1(seen) = Of1(ref) /\ \A o \in Of1(ref) : seen[o] = ref[o]
  BY DEF Alike
<1>2. \A f : UseItems(f, pods) = UNION {Uses(f, o) : o \in Of1(f)}
  BY DEF UseItems
<1>3. \A o \in Of1(ref) : Uses(seen, o) = Uses(ref, o)
  BY <1>1
<1> HIDE DEF Of1, Uses
<1> QED
  BY <1>1, <1>2, <1>3

LEMMA MeasuredIs ==
    ASSUME NEW c, NEW q, Proper(q.namespaces)
    PROVE  LET known == Known(c, q)[Len(Calls(q.namespaces))]
           IN  MeasuredItems(q, known.seen, MeasuredThen(c, q, known.read)) = Measured(c, q)
<1> DEFINE names == q.namespaces
           calls == Calls(names)
           n == Len(calls)
           known == Known(c, q)[n]
           one == MeasuredThen(c, q, known.read)
           all == MeasuredThen(c, q, Made(names))
           ref == Chosen(c, names)
           V == q.views
<1>1. n \in Nat \ {0} /\ n \in 1..n /\ n \in 0..n
  BY CallOrder
<1>2. Read(c, q, n)
  BY <1>1, AlwaysRead
<1>3. /\ \A l \in known.read : \E j \in 1..n : l = ListOf(calls[j])
      /\ \A j \in 1..n : Wanted(calls[j], V) => ListOf(calls[j]) \in known.read
  BY <1>2 DEF Read
<1>4. CASE names = << >>
  <2>1. ASSUME NEW kind \in {"VolumeStats", "NodeMetrics", "PodMetrics"}
        PROVE  <<kind, ClusterScope>> \notin known.read
    <3>1. calls = <<SuppressionCall>>
      BY <1>4 DEF Calls
    <3>2. n = 1 /\ \A j \in 1..n : calls[j] = SuppressionCall
      BY <3>1
    <3>3. ListOf(SuppressionCall)[1] = "Suppression"
      BY Kinds DEF ListOf, ListedKind
    <3> HIDE DEF known, calls, n
    <3> QED
      BY <1>3, <3>2, <3>3
  <2>2. /\ one.volumes = << >> /\ one.pipeline = "unread" /\ one.pods = << >>
        /\ all.volumes = << >> /\ all.pipeline = "unread" /\ all.pods = << >>
    <3> HIDE DEF known
    <3> QED
      BY <1>4, <2>1, ThenParts, MadeAll
  <2>3. \A m : m.pipeline = "unread" => PipelineItems(m) = {}
    BY DEF PipelineItems, When
  <2>4. \A s : ClaimItems(s, << >>) = {} /\ UseItems(s, << >>) = {}
    <3>1. DOMAIN << >> = {}
      OBVIOUS
    <3> QED
      BY <3>1 DEF ClaimItems, UseItems
  <2> HIDE DEF known, one, all, ref
  <2>5. \A i : i \notin MeasuredItems(q, known.seen, one) /\ i \notin MeasuredItems(q, ref, all)
    BY <2>2, <2>3, <2>4, MeasuredParts
  <2> QED
    BY <2>5 DEF known, one, all, ref, Measured
<1>5. CASE names # << >>
  <2>1. \A i \in 1..4 : i \in 1..n /\ calls[i] = ClusterCalls[i]
    <3>1. Len(names) \in Nat /\ n = 14 * Len(names) + 6
      BY <1>5, Layout DEF Proper
    <3>2. \A i \in 1..4 : i \in 1..n
      BY <3>1
    <3>3. \A i \in 1..4 : calls[i] = ClusterCalls[i]
      BY <1>5, Layout
    <3> HIDE DEF calls, n
    <3> QED
      BY <3>2, <3>3
  <2>2. /\ ClusterCalls[2] = Call("VolumeStats", ClusterScope, {"storage"})
        /\ ClusterCalls[3] = Call("NodeMetrics", ClusterScope, {"nodes"})
        /\ ClusterCalls[4] = Call("PodMetrics", ClusterScope, {"workloads"})
    BY OtherLists
  <2>3. \A kind, ns, view : /\ view \in V => Wanted(Call(kind, ns, {view}), V)
                            /\ kind # "TLSSecret" => ListOf(Call(kind, ns, {view})) = <<kind, ns>>
    BY DEF Wanted, Call, ListOf, ListedKind
  <2>4. /\ "storage" \in V => <<"VolumeStats", ClusterScope>> \in known.read
        /\ "nodes" \in V => <<"NodeMetrics", ClusterScope>> \in known.read
        /\ "workloads" \in V => <<"PodMetrics", ClusterScope>> \in known.read
    <3> HIDE DEF known, calls, n, V
    <3>1. 2 \in 1..4 /\ 3 \in 1..4 /\ 4 \in 1..4
      OBVIOUS
    <3>2. ASSUME "storage" \in V PROVE <<"VolumeStats", ClusterScope>> \in known.read
      <4>1. Wanted(calls[2], V) /\ ListOf(calls[2]) = <<"VolumeStats", ClusterScope>> /\ 2 \in 1..n
        BY <2>1, <2>2, <2>3, <3>1, <3>2
      <4> QED
        BY <1>3, <4>1
    <3>3. ASSUME "nodes" \in V PROVE <<"NodeMetrics", ClusterScope>> \in known.read
      <4>1. Wanted(calls[3], V) /\ ListOf(calls[3]) = <<"NodeMetrics", ClusterScope>> /\ 3 \in 1..n
        BY <2>1, <2>2, <2>3, <3>1, <3>3
      <4> QED
        BY <1>3, <4>1
    <3>4. ASSUME "workloads" \in V PROVE <<"PodMetrics", ClusterScope>> \in known.read
      <4>1. Wanted(calls[4], V) /\ ListOf(calls[4]) = <<"PodMetrics", ClusterScope>> /\ 4 \in 1..n
        BY <2>1, <2>2, <2>3, <3>1, <3>4
      <4> QED
        BY <1>3, <4>1
    <3> QED
      BY <3>2, <3>3, <3>4
  <2>5. /\ "storage" \in V => one.volumes = all.volumes
        /\ "nodes" \in V => one.pipeline = all.pipeline
        /\ "workloads" \in V => one.pods = all.pods
    <3>1. \A kind \in {"VolumeStats", "NodeMetrics", "PodMetrics"} : <<kind, ClusterScope>> \in Made(names)
      BY <1>5, MadeAll
    <3> HIDE DEF known, V
    <3> QED
      BY <2>4, <3>1, ThenParts
  <2>6. ASSUME "storage" \in V PROVE Alike(known.seen, ref, "PersistentVolumeClaim")
    <3>1. \A j \in 1..n : calls[j].kind = "PersistentVolumeClaim" => j \in 1..n /\ Wanted(calls[j], V)
      BY <2>6, CallFacts DEF Wanted
    <3> QED
      BY <1>1, <3>1, KindAlike
  <2>7. ASSUME "workloads" \in V PROVE Alike(known.seen, ref, "Pod")
    <3>1. \A j \in 1..n : calls[j].kind = "Pod" => j \in 1..n /\ Wanted(calls[j], V)
      BY <2>7, CallFacts DEF Wanted
    <3> QED
      BY <1>1, <3>1, KindAlike
  <2> HIDE DEF known, one, all, ref
  <2>8. "nodes" \in V => PipelineItems(one) = PipelineItems(all)
    BY <2>5 DEF PipelineItems
  <2>9. "storage" \in V => ClaimItems(known.seen, one.volumes) = ClaimItems(ref, all.volumes)
    BY <2>5, <2>6, ClaimsAlike
  <2>10. "workloads" \in V => UseItems(known.seen, one.pods) = UseItems(ref, all.pods)
    BY <2>5, <2>7, UsesAlike
  <2>11. \A i : i \in MeasuredItems(q, known.seen, one) <=> i \in MeasuredItems(q, ref, all)
    BY <2>8, <2>9, <2>10, MeasuredParts
  <2> QED
    BY <2>11 DEF known, one, all, ref, Measured
<1> QED
  BY <1>4, <1>5

LEMMA InstantIs ==
    ASSUME NEW c, Complete(c), NEW q, Proper(q.namespaces)
    PROVE  \A x : x \in Instant(c, q)
                   <=> \E i : (SaidOf(c, q, i) \/ i \in Measured(c, q)) /\ x = Mark(c, i)
<1> DEFINE calls == Calls(q.namespaces)
           n == Len(calls)
           call == calls[n]
           all == Known(c, q)[n]
           o == Object("Suppression", ClusterScope, "list")
<1>1. n \in Nat \ {0} /\ call.kind = "Suppression"
  BY CallOrder
<1>2. n \in 0..n /\ n \in 1..n
  BY <1>1
<1>3. \A i : i \in all.items <=> SaidOf(c, q, i)
  BY <1>2, ItemsSoFar DEF SaidOf
<1>4. Read(c, q, n)
  BY <1>2, AlwaysRead
<1>5. PartOf(all.seen, c) /\ Covered(all.seen, c, call)
  BY <1>1, <1>2, <1>4 DEF Read, Wanted
<1>6. call.ns = ClusterScope
  <2>1. \A k \in 1..14 : BlockKinds[k] # "Suppression"
    BY BlockKindsOnly
  <2>2. \A k \in 1..4 : ClusterKinds[k] # "Suppression"
    BY DEF ClusterKinds
  <2>3. /\ SuppressionCall.ns = ClusterScope /\ VolumeCalls[1].ns = ClusterScope
        /\ \A k \in 1..4 : ClusterCalls[k].ns = ClusterScope
        /\ \A ns : \A k \in 1..14 : NamespaceCalls(ns)[k].kind # "Suppression"
    BY <2>1, Kinds
  <2>4. n \in 1..Len(calls)
    BY <1>2
  <2> HIDE DEF n
  <2>5. \/ call = SuppressionCall
        \/ \E k \in 1..4 : call = ClusterCalls[k]
        \/ \E b \in 1..Len(q.namespaces), k \in 1..14 : call = NamespaceCalls(q.namespaces[b])[k]
        \/ call = VolumeCalls[1]
    BY <2>4, CallAt
  <2> QED
    BY <1>1, <2>3, <2>5
<1>7. WholeList(all.seen, c, <<"Suppression", ClusterScope>>)
  BY <1>1, <1>5, <1>6, CoveredWhole
<1>8. all.seen[o] = c[o]
  BY <1>5, <1>7, SourceIs DEF Sources, ListOfObject, Object, Kind, Namespace
<1>9. Instant(c, q) = {Mark(c, i) : i \in all.items \cup Measured(c, q)}
  <2>1. Instant(c, q) = Marked(all.items \cup Measured(c, q), all.seen)
    <3>1. MeasuredItems(q, all.seen, MeasuredThen(c, q, all.read)) = Measured(c, q)
      BY MeasuredIs
    <3> QED
      BY <3>1 DEF Instant
  <2> HIDE DEF all
  <2> QED
    BY <1>8, <2>1 DEF Marked, Mark
<1> HIDE DEF all
<1> QED
  BY <1>3, <1>9

-----------------------------------------------------------------------------
(* Every item of a section is shown under the view its call serves.        *)

UnderView(items, view) == \A i \in items : ViewOf(i.check) = view

\* Only the fragmentation of the GPUs is about a pod.
LEMMA GPUClusterShape ==
    ASSUME NEW seen
    PROVE  \A i \in GPUClusterItems(seen) :
               \/ /\ i.check \in {"gpu-capacity-discovery", "gpu-allocation-pressure", "gpu-node-cordoned",
                                  "gpu-node-idle-allocation", "non-gpu-pods-on-gpu-node"}
                  /\ i.on = WholeCluster \/ i.on \in AllOf(seen, "Node")
               \/ i.check = "gpu-fragmentation"
<1> DEFINE Pods       == {o \in AllOf(seen, "Pod") : Active(seen[o])}
           Asking     == {o \in Pods : GPURequest(seen[o]) > 0}
           Nodes      == {n \in AllOf(seen, "Node") : seen[n].gpus > 0}
           Gpus       == [n \in Nodes |-> seen[n].gpus]
           Taken      == [n \in Nodes |->
                            SumFunction([o \in {p \in Asking : seen[p].node = Name(n)} |-> GPURequest(seen[o])])]
           Free       == [n \in Nodes |-> Max({Gpus[n] - Taken[n], 0})]
           Open       == {n \in Nodes : ~seen[n].cordoned}
           Others(n)  == {o \in Pods \ Asking : seen[o].node = Name(n) /\ ~seen[o].daemon}
           Fragmented == {o \in Asking : /\ GPUPending(seen[o])
                                         /\ SumFunctionOnSet(Free, Open) >= GPURequest(seen[o])
                                         /\ \A n \in Open : Free[n] < GPURequest(seen[o])}
           Here(n)    == {Pressure(n, Gpus[n], Taken[n])}
                         \cup When(n \notin Open, Item("gpu-node-cordoned", n, "warning"))
                         \cup When(Taken[n] = 0, Item("gpu-node-idle-allocation", n, "warning"))
                         \cup When(Others(n) # {}, Item("non-gpu-pods-on-gpu-node", n, "warning"))
           Wide       == Pressure(WholeCluster, SumFunction(Gpus), SumFunction(Taken))
           Lost       == {Item("gpu-fragmentation", o, "warning") : o \in Fragmented}
           None       == Critical("gpu-capacity-discovery", WholeCluster, Asking # {})
<1>1. GPUClusterItems(seen) = IF Nodes = {} THEN {None}
                              ELSE (UNION {Here(n) : n \in Nodes}) \cup {Wide} \cup Lost
  BY DEF GPUClusterItems
<1>2. \A check, o, s : Item(check, o, s).check = check /\ Item(check, o, s).on = o
  BY DEF Item
<1>3. \A o, a, b : Pressure(o, a, b).check = "gpu-allocation-pressure" /\ Pressure(o, a, b).on = o
  BY <1>2 DEF Pressure
<1>4. None.check = "gpu-capacity-discovery" /\ None.on = WholeCluster
  BY <1>2 DEF Critical
<1>5. \A n : \A i \in Here(n) :
          /\ i.check \in {"gpu-allocation-pressure", "gpu-node-cordoned", "gpu-node-idle-allocation",
                          "non-gpu-pods-on-gpu-node"}
          /\ i.on = n
  <2> HIDE DEF Gpus, Taken, Open, Others
  <2> QED
    BY <1>2, <1>3 DEF When
<1>6. \A i \in Lost : i.check = "gpu-fragmentation"
  <2> HIDE DEF Fragmented
  <2> QED
    BY <1>2
<1>7. Wide.check = "gpu-allocation-pressure" /\ Wide.on = WholeCluster
  BY <1>3
<1>8. Nodes \subseteq AllOf(seen, "Node")
  OBVIOUS
<1> HIDE DEF Here, Wide, Lost, None, Nodes
<1> TAKE i \in GPUClusterItems(seen)
<1>9. i = None \/ (\E n \in Nodes : i \in Here(n)) \/ i = Wide \/ i \in Lost
  <2> DEFINE U == UNION {Here(n) : n \in Nodes}
  <2>1. i \in U <=> \E n \in Nodes : i \in Here(n)
    OBVIOUS
  <2>2. GPUClusterItems(seen) = IF Nodes = {} THEN {None} ELSE U \cup {Wide} \cup Lost
    BY <1>1
  <2> HIDE DEF U
  <2> QED
    BY <2>1, <2>2
<1> QED
  BY <1>4, <1>5, <1>6, <1>7, <1>8, <1>9

LEMMA ClusterItemsUnder ==
    ASSUME NEW seen, NEW scope
    PROVE  /\ UnderView(NodeItems(seen), "nodes")
           /\ UnderView(NodeCapacityItems(seen), "nodes")
           /\ UnderView(GPUClusterItems(seen), "gpu")
           /\ UnderView(RouteItems(seen), "networking")
           /\ UnderView(VolumeItems(seen, scope), "storage")
<1>1. UnderView(NodeItems(seen), "nodes")
  BY DEF UnderView, NodeItems, When, Warn, Critical, Item, ViewOf
<1>2. UnderView(NodeCapacityItems(seen), "nodes")
  <2>1. \A i \in NodeCapacityItems(seen) : i.check \in {"node-capacity", "node-underutilized"}
    BY DEF NodeCapacityItems, When, Warn, Critical, Item
  <2> QED
    BY <2>1 DEF UnderView, ViewOf
<1>3. UnderView(GPUClusterItems(seen), "gpu")
  BY GPUClusterShape DEF UnderView, ViewOf
<1>4. UnderView(RouteItems(seen), "networking")
  <2>1. \A i \in RouteItems(seen) : i.check = "ingress-route-collision"
    <3> DEFINE Twice == {t \in UNION {seen[o].routes : o \in AllOf(seen, "Ingress")} :
                           Cardinality({o \in AllOf(seen, "Ingress") : t \in seen[o].routes}) > 1}
    <3>1. RouteItems(seen) = {Item("ingress-route-collision", Route(r), "warning") : r \in Twice}
      BY DEF RouteItems
    <3> HIDE DEF Twice
    <3> QED
      BY <3>1 DEF Item
  <2> QED
    BY <2>1 DEF UnderView, ViewOf
<1>5. UnderView(VolumeItems(seen, scope), "storage")
  BY DEF UnderView, VolumeItems, Warn, Item, ViewOf
<1> QED
  BY <1>1, <1>2, <1>3, <1>4, <1>5

LEMMA PodItemsUnder ==
    ASSUME NEW seen, NEW ns
    PROVE  /\ UnderView(WorkloadItems(seen, ns), "workloads")
           /\ UnderView(SecurityItems(seen, ns), "security")
           /\ UnderView(ConfigurationItems(seen, ns), "configuration")
           /\ UnderView(GPUPodItems(seen, ns) \cup GPUNamespaceItems(seen, ns), "gpu")
<1>1. UnderView(WorkloadItems(seen, ns), "workloads")
  <2> DEFINE pods == Of(seen, "Pod", ns)
             Troubled(check) == {o \in pods : WorkloadTrouble(check, seen[o])}
             Checks == {"pod-pending", "container-waiting", "oomkilled", "pod-restarts", "missing-requests"}
  <2>1. WorkloadItems(seen, ns) = UNION {{Item(check, o, "warning") : o \in Troubled(check)} : check \in Checks}
    BY DEF WorkloadItems
  <2>2. \A check, o : Item(check, o, "warning").check = check
    BY DEF Item
  <2> HIDE DEF Troubled, Checks
  <2>3. \A i \in WorkloadItems(seen, ns) : i.check \in Checks
    BY <2>1, <2>2
  <2> QED
    BY <2>3 DEF UnderView, ViewOf, Checks
<1>2. UnderView(SecurityItems(seen, ns), "security")
  <2>1. \A i \in SecurityItems(seen, ns) :
            i.check \in {"pod-privileged", "sensitive-env-literal", "root-user"}
    BY DEF SecurityItems, When, Warn, Item
  <2> QED
    BY <2>1 DEF UnderView, ViewOf
<1>3. UnderView(ConfigurationItems(seen, ns), "configuration")
  <2>1. \A i \in ConfigurationItems(seen, ns) : i.check = "missing-references"
    BY DEF ConfigurationItems, Item
  <2> QED
    BY <2>1 DEF UnderView, ViewOf
<1>4. UnderView(GPUPodItems(seen, ns) \cup GPUNamespaceItems(seen, ns), "gpu")
  <2>1. \A i \in GPUPodItems(seen, ns) : i.check \in {"gpu-pod-pending", "gpu-pod-unready", "gpu-pod-requests"}
    BY DEF GPUPodItems, When, Item
  <2>2. \A i \in GPUNamespaceItems(seen, ns) : i.check \in {"gpu-namespace-usage", "gpu-quota"}
    BY DEF GPUNamespaceItems, When, Item
  <2> QED
    BY <2>1, <2>2 DEF UnderView, ViewOf
<1> QED
  BY <1>1, <1>2, <1>3, <1>4

LEMMA OtherItemsUnder ==
    ASSUME NEW seen, NEW ns
    PROVE  /\ UnderView(PVCItems(seen, ns), "storage")
           /\ UnderView(DaemonSetItems(seen, ns), "workloads")
           /\ UnderView(NetworkPolicyItems(seen, ns), "security")
           /\ UnderView(ServiceItems(seen, ns), "networking")
           /\ UnderView(IngressItems(seen, ns), "networking")
           /\ \A kind : UnderView(CoverageItems(seen, kind, ns), "networking")
<1>1. UnderView(PVCItems(seen, ns), "storage")
  <2>1. \A i \in PVCItems(seen, ns) : i.check = "pvc-binding"
    BY DEF PVCItems, Critical, Item
  <2> QED
    BY <2>1 DEF UnderView, ViewOf
<1>2. UnderView(DaemonSetItems(seen, ns), "workloads")
  BY DEF UnderView, DaemonSetItems, Warn, Item, ViewOf
<1>3. UnderView(NetworkPolicyItems(seen, ns), "security")
  BY DEF UnderView, NetworkPolicyItems, When, Warn, Item, ViewOf
<1>4. UnderView(ServiceItems(seen, ns), "networking")
  <2>1. \A i \in ServiceItems(seen, ns) : i.check \in {"loadbalancer-pending", "service-endpoints"}
    BY DEF ServiceItems, When, Warn, Item
  <2> QED
    BY <2>1 DEF UnderView, ViewOf
<1>5. UnderView(IngressItems(seen, ns), "networking")
  <2>1. \A i \in IngressItems(seen, ns) : i.check \in {"ingress-tls", "ingress-backend"}
    BY DEF IngressItems, When, Critical, Item
  <2> QED
    BY <2>1 DEF UnderView, ViewOf
<1>6. \A kind : UnderView(CoverageItems(seen, kind, ns), "networking")
  BY DEF UnderView, CoverageItems, Warn, Item, ViewOf
<1> QED
  BY <1>1, <1>2, <1>3, <1>4, <1>5, <1>6

\* The view whose section a call is read for.
LEMMA CallViews ==
    ASSUME NEW names, Proper(names)
    PROVE  \A j \in 1..Len(Calls(names)) :
               LET call == Calls(names)[j]
               IN  /\ call.kind = "NodeMetrics" => call.of = {"nodes"}
                   /\ call.kind = "PersistentVolumeClaim" => call.of = {"storage"}
                   /\ call.kind = "DaemonSet" => call.of = {"workloads"}
                   /\ call.kind = "NetworkPolicy" => call.of = {"security"}
                   /\ call.kind \in {"EndpointSlice", "TLSSecret", "Deployment", "StatefulSet"} =>
                          call.of = {"networking"}
                   /\ call.kind \in {"NodeMetrics", "PersistentVolumeClaim", "DaemonSet", "Pod", "NetworkPolicy",
                                     "EndpointSlice", "TLSSecret", "Deployment", "StatefulSet", "Suppression",
                                     "Node", "VolumeStats", "PodMetrics", "Event", "Secret", "ConfigMap",
                                     "ResourceQuota", "Service", "Ingress", "PersistentVolume"}
<1> DEFINE Good(call) ==
               /\ call.kind = "NodeMetrics" => call.of = {"nodes"}
               /\ call.kind = "PersistentVolumeClaim" => call.of = {"storage"}
               /\ call.kind = "DaemonSet" => call.of = {"workloads"}
               /\ call.kind = "NetworkPolicy" => call.of = {"security"}
               /\ call.kind \in {"EndpointSlice", "TLSSecret", "Deployment", "StatefulSet"} =>
                      call.of = {"networking"}
               /\ call.kind \in {"NodeMetrics", "PersistentVolumeClaim", "DaemonSet", "Pod", "NetworkPolicy",
                                 "EndpointSlice", "TLSSecret", "Deployment", "StatefulSet", "Suppression",
                                 "Node", "VolumeStats", "PodMetrics", "Event", "Secret", "ConfigMap",
                                 "ResourceQuota", "Service", "Ingress", "PersistentVolume"}
<1>1. \A kind, ns, of : /\ Call(kind, ns, of).of = of
                        /\ Call(kind, ns, of).kind = kind
  BY DEF Call
<1>2. Good(SuppressionCall) /\ Good(VolumeCalls[1])
  BY <1>1, OtherLists DEF SuppressionCall
<1>3. \A j \in 1..4 : Good(ClusterCalls[j])
  <2>1. \A j \in 1..4 : j = 1 \/ j = 2 \/ j = 3 \/ j = 4
    OBVIOUS
  <2>2. Good(ClusterCalls[1]) /\ Good(ClusterCalls[2]) /\ Good(ClusterCalls[3]) /\ Good(ClusterCalls[4])
    BY <1>1, OtherLists
  <2> HIDE DEF Good
  <2> QED
    BY <2>1, <2>2
<1>4. ASSUME NEW ns PROVE \A l \in 1..14 : Good(NamespaceCalls(ns)[l])
  <2>1. \A l \in 1..14 : l \in {1, 2, 3, 4, 5, 6, 7} \/ l \in {8, 9, 10, 11, 12, 13, 14}
    OBVIOUS
  <2>2. Good(NamespaceCalls(ns)[1]) /\ Good(NamespaceCalls(ns)[2]) /\ Good(NamespaceCalls(ns)[3])
    BY <1>1, OtherLists, ListsOfBlock
  <2>3. Good(NamespaceCalls(ns)[4]) /\ Good(NamespaceCalls(ns)[5]) /\ Good(NamespaceCalls(ns)[6])
        /\ Good(NamespaceCalls(ns)[7])
    BY <1>1, OtherLists, ListsOfBlock DEF PodCall
  <2>4. Good(NamespaceCalls(ns)[8]) /\ Good(NamespaceCalls(ns)[9]) /\ Good(NamespaceCalls(ns)[10])
    BY <1>1, OtherLists, ListsOfBlock
  <2>5. Good(NamespaceCalls(ns)[11]) /\ Good(NamespaceCalls(ns)[12]) /\ Good(NamespaceCalls(ns)[13])
        /\ Good(NamespaceCalls(ns)[14])
    BY <1>1, OtherLists, ListsOfBlock
  <2> HIDE DEF Good
  <2> QED
    BY <2>1, <2>2, <2>3, <2>4, <2>5
<1>5. ASSUME NEW j \in 1..Len(Calls(names)) PROVE Good(Calls(names)[j])
  <2> HIDE DEF Good
  <2>1. \/ Calls(names)[j] = SuppressionCall
        \/ \E k \in 1..4 : Calls(names)[j] = ClusterCalls[k]
        \/ \E b \in 1..Len(names), k \in 1..14 : Calls(names)[j] = NamespaceCalls(names[b])[k]
        \/ Calls(names)[j] = VolumeCalls[1]
    BY CallAt
  <2> QED
    BY <1>2, <1>3, <1>4, <2>1
<1> QED
  BY <1>5

-----------------------------------------------------------------------------
(* A request for some views answers the part of the full page under them.  *)

\* What a call adds for some views is what it adds for all, under those views.
Divided(V, names, call, seen) ==
    \A i : Wanted(call, V) /\ i \in Sections(Query(V, names), call, seen)
           <=> Wanted(call, Views) /\ i \in Sections(Query(Views, names), call, seen) /\ ViewOf(i.check) \in V

LEMMA QueryParts ==
    \A V, names : Query(V, names).views = V /\ Query(V, names).namespaces = names
BY DEF Query

LEMMA PodDivided ==
    ASSUME NEW V \in SUBSET Views, NEW names, NEW call, NEW seen, call.kind = "Pod",
           call.of = {"workloads", "nodes", "gpu", "security", "configuration"}
    PROVE  Divided(V, names, call, seen)
<1> DEFINE ns == call.ns
           W == WorkloadItems(seen, ns)
           S == SecurityItems(seen, ns)
           C == ConfigurationItems(seen, ns)
           G == GPUPodItems(seen, ns) \cup GPUNamespaceItems(seen, ns)
           Part(X) == (IF "workloads" \in X THEN W ELSE {}) \cup (IF "security" \in X THEN S ELSE {})
                      \cup (IF "configuration" \in X THEN C ELSE {}) \cup (IF "gpu" \in X THEN G ELSE {})
<1>1. \A X : Sections(Query(X, names), call, seen) = Part(X)
  BY SectionsAre, QueryParts
<1>2. UnderView(W, "workloads") /\ UnderView(S, "security") /\ UnderView(C, "configuration")
      /\ UnderView(G, "gpu")
  BY PodItemsUnder
<1>3. \A X : \A i : i \in Part(X) <=>
          \/ "workloads" \in X /\ i \in W
          \/ "security" \in X /\ i \in S
          \/ "configuration" \in X /\ i \in C
          \/ "gpu" \in X /\ i \in G
  <2> HIDE DEF W, S, C, G
  <2> QED
    OBVIOUS
<1> HIDE DEF W, S, C, G, Part
<1>4. ("workloads" \in V \/ "security" \in V \/ "configuration" \in V \/ "gpu" \in V) => Wanted(call, V)
  BY DEF Wanted
<1>5. Wanted(call, Views) /\ {"workloads", "security", "configuration", "gpu"} \subseteq Views
  BY DEF Wanted, Views
<1> SUFFICES ASSUME NEW i
             PROVE  Wanted(call, V) /\ i \in Part(V) <=> i \in Part(Views) /\ ViewOf(i.check) \in V
  BY <1>1, <1>5 DEF Divided
<1>6. /\ i \in W => ViewOf(i.check) = "workloads"
      /\ i \in S => ViewOf(i.check) = "security"
      /\ i \in C => ViewOf(i.check) = "configuration"
      /\ i \in G => ViewOf(i.check) = "gpu"
  BY <1>2 DEF UnderView
<1>7. /\ i \in Part(V) <=> (("workloads" \in V /\ i \in W) \/ ("security" \in V /\ i \in S)
                              \/ ("configuration" \in V /\ i \in C) \/ ("gpu" \in V /\ i \in G))
      /\ i \in Part(Views) <=> i \in W \/ i \in S \/ i \in C \/ i \in G
  BY <1>3, <1>5
<1> QED
  BY <1>4, <1>6, <1>7

LEMMA ClusterDivided ==
    ASSUME NEW V \in SUBSET Views, NEW names, NEW call, NEW seen, call.kind = "Suppression"
    PROVE  Divided(V, names, call, seen)
<1> DEFINE R == RouteItems(seen)
           G == GPUClusterItems(seen)
           S == VolumeItems(seen, ToSet(names))
           N == NodeCapacityItems(seen)
           Part(X) == IF ToSet(names) = {} THEN {} ELSE
                      (IF "networking" \in X THEN R ELSE {}) \cup (IF "gpu" \in X THEN G ELSE {})
                      \cup (IF "storage" \in X THEN S ELSE {}) \cup (IF "nodes" \in X THEN N ELSE {})
<1>1. \A X : Sections(Query(X, names), call, seen) = Part(X)
  BY SectionsAre, QueryParts
<1>2. UnderView(R, "networking") /\ UnderView(G, "gpu") /\ UnderView(S, "storage") /\ UnderView(N, "nodes")
  BY ClusterItemsUnder
<1>3. \A X : \A i : i \in Part(X) <=> ToSet(names) # {} /\
          (\/ "networking" \in X /\ i \in R
           \/ "gpu" \in X /\ i \in G
           \/ "storage" \in X /\ i \in S
           \/ "nodes" \in X /\ i \in N)
  <2> HIDE DEF R, G, S, N
  <2> QED
    OBVIOUS
<1> HIDE DEF R, G, S, N, Part
<1>4. Wanted(call, V) /\ Wanted(call, Views)
  BY DEF Wanted
<1>5. {"networking", "gpu", "storage", "nodes"} \subseteq Views
  BY DEF Views
<1> SUFFICES ASSUME NEW i
             PROVE  i \in Part(V) <=> i \in Part(Views) /\ ViewOf(i.check) \in V
  BY <1>1, <1>4 DEF Divided
<1>6. /\ i \in R => ViewOf(i.check) = "networking"
      /\ i \in G => ViewOf(i.check) = "gpu"
      /\ i \in S => ViewOf(i.check) = "storage"
      /\ i \in N => ViewOf(i.check) = "nodes"
  BY <1>2 DEF UnderView
<1>7. /\ i \in Part(V) <=> ToSet(names) # {} /\ (("networking" \in V /\ i \in R) \/ ("gpu" \in V /\ i \in G)
                              \/ ("storage" \in V /\ i \in S) \/ ("nodes" \in V /\ i \in N))
      /\ i \in Part(Views) <=> ToSet(names) # {} /\ (i \in R \/ i \in G \/ i \in S \/ i \in N)
  BY <1>3, <1>5
<1> QED
  BY <1>6, <1>7

LEMMA OneViewDivided ==
    ASSUME NEW V \in SUBSET Views, NEW names, NEW call, NEW seen, NEW view \in Views, call.of = {view},
           NEW items, UnderView(items, view), call.kind # "Suppression",
           \A q : Sections(q, call, seen) = items
    PROVE  Divided(V, names, call, seen)
<1>1. \A X : Wanted(call, X) <=> view \in X
  BY DEF Wanted
<1> QED
  BY <1>1 DEF Divided, UnderView

LEMMA SectionsDivided ==
    ASSUME NEW V \in SUBSET Views, NEW names, Proper(names), NEW j \in 1..Len(Calls(names)), NEW seen
    PROVE  Divided(V, names, Calls(names)[j], seen)
<1> DEFINE call == Calls(names)[j]
           ns == call.ns
<1> SUFFICES Divided(V, names, call, seen)
  OBVIOUS
<1>1. /\ call.kind = "NodeMetrics" => call.of = {"nodes"}
      /\ call.kind = "PersistentVolumeClaim" => call.of = {"storage"}
      /\ call.kind = "DaemonSet" => call.of = {"workloads"}
      /\ call.kind = "NetworkPolicy" => call.of = {"security"}
      /\ call.kind \in {"EndpointSlice", "TLSSecret", "Deployment", "StatefulSet"} => call.of = {"networking"}
      /\ call.kind \in {"NodeMetrics", "PersistentVolumeClaim", "DaemonSet", "Pod", "NetworkPolicy",
                        "EndpointSlice", "TLSSecret", "Deployment", "StatefulSet", "Suppression",
                        "Node", "VolumeStats", "PodMetrics", "Event", "Secret", "ConfigMap",
                        "ResourceQuota", "Service", "Ingress", "PersistentVolume"}
  BY CallViews
<1>2. call.kind = "Pod" => call.of = {"workloads", "nodes", "gpu", "security", "configuration"}
  BY CallFacts
<1>3. {"nodes", "storage", "workloads", "security", "networking"} \subseteq Views
  BY DEF Views
<1> HIDE DEF call
<1>4. CASE call.kind = "NodeMetrics"
  <2>1. \A q : Sections(q, call, seen) = NodeItems(seen)
    BY <1>4, SectionsAre
  <2> QED
    BY <1>1, <1>3, <1>4, <2>1, ClusterItemsUnder, OneViewDivided
<1>5. CASE call.kind = "PersistentVolumeClaim"
  <2>1. \A q : Sections(q, call, seen) = PVCItems(seen, ns)
    BY <1>5, SectionsAre
  <2> QED
    BY <1>1, <1>3, <1>5, <2>1, OtherItemsUnder, OneViewDivided
<1>6. CASE call.kind = "DaemonSet"
  <2>1. \A q : Sections(q, call, seen) = DaemonSetItems(seen, ns)
    BY <1>6, SectionsAre
  <2> QED
    BY <1>1, <1>3, <1>6, <2>1, OtherItemsUnder, OneViewDivided
<1>7. CASE call.kind = "NetworkPolicy"
  <2>1. \A q : Sections(q, call, seen) = NetworkPolicyItems(seen, ns)
    BY <1>7, SectionsAre
  <2> QED
    BY <1>1, <1>3, <1>7, <2>1, OtherItemsUnder, OneViewDivided
<1>8. CASE call.kind = "EndpointSlice"
  <2>1. \A q : Sections(q, call, seen) = ServiceItems(seen, ns)
    BY <1>8, SectionsAre
  <2> QED
    BY <1>1, <1>3, <1>8, <2>1, OtherItemsUnder, OneViewDivided
<1>9. CASE call.kind = "TLSSecret"
  <2>1. \A q : Sections(q, call, seen) = IngressItems(seen, ns)
    BY <1>9, SectionsAre
  <2> QED
    BY <1>1, <1>3, <1>9, <2>1, OtherItemsUnder, OneViewDivided
<1>10. CASE call.kind \in {"Deployment", "StatefulSet"}
  <2>1. \A q : Sections(q, call, seen) = CoverageItems(seen, call.kind, ns)
    BY <1>10, SectionsAre
  <2>2. UnderView(CoverageItems(seen, call.kind, ns), "networking")
    BY OtherItemsUnder
  <2> QED
    BY <1>1, <1>3, <1>10, <2>1, <2>2, OneViewDivided
<1>11. CASE call.kind = "Pod"
  BY <1>2, <1>11, PodDivided
<1>12. CASE call.kind = "Suppression"
  BY <1>12, ClusterDivided
<1>13. CASE call.kind \in {"Node", "VolumeStats", "PodMetrics", "Event", "Secret", "ConfigMap", "ResourceQuota",
                           "Service", "Ingress", "PersistentVolume"}
  <2>1. \A q : Sections(q, call, seen) = {}
    BY <1>13, SectionsAre
  <2> QED
    BY <2>1 DEF Divided
<1> QED
  BY <1>1, <1>4, <1>5, <1>6, <1>7, <1>8, <1>9, <1>10, <1>11, <1>12, <1>13

LEMMA MeasuredDivided ==
    ASSUME NEW c, NEW V \in SUBSET Views, NEW names
    PROVE  \A i : i \in Measured(c, Query(V, names))
                  <=> i \in Measured(c, Query(Views, names)) /\ ViewOf(i.check) \in V
<1> DEFINE ref == Chosen(c, names)
           all == MeasuredThen(c, Query(Views, names), Made(names))
<1>1. MeasuredThen(c, Query(V, names), Made(names)) = all
  BY QueryParts DEF MeasuredThen
<1>2. /\ Measured(c, Query(V, names)) = MeasuredItems(Query(V, names), ref, all)
      /\ Measured(c, Query(Views, names)) = MeasuredItems(Query(Views, names), ref, all)
  BY <1>1, QueryParts DEF Measured
<1> HIDE DEF ref, all
<1>3. {"nodes", "storage", "workloads"} \subseteq Views
  BY DEF Views
<1>4. /\ \A i \in PipelineItems(all) : ViewOf(i.check) = "nodes"
      /\ \A i \in ClaimItems(ref, all.volumes) : ViewOf(i.check) = "storage"
      /\ \A i \in UseItems(ref, all.pods) : ViewOf(i.check) = "workloads"
  BY MeasuredNames DEF ViewOf
<1>5. \A X : \A i : i \in MeasuredItems(Query(X, names), ref, all) <=>
          \/ "nodes" \in X /\ i \in PipelineItems(all)
          \/ "storage" \in X /\ i \in ClaimItems(ref, all.volumes)
          \/ "workloads" \in X /\ i \in UseItems(ref, all.pods)
  BY MeasuredParts, QueryParts
<1> QED
  BY <1>2, <1>3, <1>4, <1>5

LEMMA PageDivided ==
    ASSUME NEW c, Complete(c), NEW V \in SUBSET Views, NEW names, Proper(names)
    PROVE  Instant(c, Query(V, names))
               = {x \in Instant(c, Query(Views, names)) : ViewOf(x.check) \in V}
<1> DEFINE q == Query(V, names)
           full == Query(Views, names)
           calls == Calls(names)
<1>1. /\ q.views = V /\ q.namespaces = names
      /\ full.views = Views /\ full.namespaces = names
  BY QueryParts
<1>2. ASSUME NEW i PROVE SaidOf(c, q, i) <=> SaidOf(c, full, i) /\ ViewOf(i.check) \in V
  <2>1. ASSUME NEW j \in 1..Len(calls)
        PROVE  Wanted(calls[j], V) /\ i \in Said(c, q, calls[j])
                   <=> Wanted(calls[j], Views) /\ i \in Said(c, full, calls[j]) /\ ViewOf(i.check) \in V
    <3>1. Divided(V, names, calls[j], Ref(c, names, calls[j]))
      BY SectionsDivided
    <3> QED
      BY <1>1, <3>1 DEF Divided, Said
  <2>2. /\ SaidOf(c, q, i) <=> \E j \in 1..Len(calls) : Wanted(calls[j], V) /\ i \in Said(c, q, calls[j])
        /\ SaidOf(c, full, i) <=> \E j \in 1..Len(calls) : Wanted(calls[j], Views) /\ i \in Said(c, full, calls[j])
    <3> HIDE DEF q, full
    <3> QED
      BY <1>1 DEF SaidOf, SaidBy
  <2> HIDE DEF q, full, calls
  <2> QED
    BY <2>1, <2>2
<1>3. \A i : Mark(c, i).check = i.check
  BY DEF Mark
<1>4. /\ \A x : x \in Instant(c, q) <=> \E i : (SaidOf(c, q, i) \/ i \in Measured(c, q)) /\ x = Mark(c, i)
      /\ \A x : x \in Instant(c, full)
                <=> \E i : (SaidOf(c, full, i) \/ i \in Measured(c, full)) /\ x = Mark(c, i)
  <2> HIDE DEF q, full
  <2> QED
    BY <1>1, InstantIs
<1>7. \A i : i \in Measured(c, q) <=> i \in Measured(c, full) /\ ViewOf(i.check) \in V
  BY MeasuredDivided
<1> HIDE DEF q, full
<1>5. ASSUME NEW x PROVE x \in Instant(c, q) <=> x \in Instant(c, full) /\ ViewOf(x.check) \in V
  BY <1>2, <1>3, <1>4, <1>7
<1>6. Instant(c, q) = {x \in Instant(c, full) : ViewOf(x.check) \in V}
  BY <1>5
<1> QED
  BY <1>6 DEF q, full

\* A traversal of a cluster that stood still answers what that cluster is.
LEMMA StillAnswer ==
    ASSUME IInv, scan.at = "answered", Cardinality(scan.moments) = 1, NEW m \in scan.moments
    PROVE  /\ Complete(m)
           /\ Proper(scan.query.namespaces)
           /\ scan.query = Query(scan.query.views, scan.query.namespaces)
           /\ scan.query.views \in SUBSET Views
           /\ scan.items = Instant(m, scan.query)
<1>1. IsFiniteSet(scan.moments) /\ Complete(m) /\ Posed(scan.query)
  BY DEF IInv, Moments, Done
<1>2. scan.moments = {m}
  <2>1. PICK x : scan.moments = {x}
    BY <1>1, FS_Singleton
  <2> QED
    BY <2>1
<1>3. AllAgreeBut(scan.moments, WholeCluster)
  BY <1>2 DEF AllAgreeBut, AgreeBut
<1>4. scan.items = Instant(m, scan.query)
  <2>1. PICK c \in scan.moments : AnswerOf(scan.moments, scan.query, scan.items, c)
    BY <1>3 DEF IInv, Done
  <2>2. c = m /\ Steady(scan.moments)
    BY <1>2 DEF Steady
  <2> QED
    BY <2>1, <2>2 DEF AnswerOf
<1>5. scan.query.views \in SUBSET Views
  <2>1. PICK r \in Requests : scan.query = Query(NormalizeCategories(r.category), r.namespaces)
    BY <1>1 DEF Posed
  <2>2. scan.query.views = NormalizeCategories(r.category)
    BY <2>1, QueryParts
  <2> QED
    BY <2>2 DEF NormalizeCategories
<1> QED
  BY <1>1, <1>4, <1>5, PosedProper

\* A request for some categories, of a cluster that stood still, answers what the full
\* page says under them, whatever the cluster holds and the namespaces are.
THEOREM ViewsAlwaysAgree == Spec => []ViewsAgree
<1>1. IInv => ViewsAgree
  <2> SUFFICES ASSUME IInv, scan.at = "answered", Cardinality(scan.moments) = 1, NEW m \in scan.moments
               PROVE  scan.items = {i \in Instant(m, Query(Views, scan.query.namespaces)) :
                                      ViewOf(i.check) \in scan.query.views}
    BY DEF ViewsAgree
  <2> DEFINE V == scan.query.views
             names == scan.query.namespaces
  <2>1. /\ Complete(m) /\ Proper(names) /\ V \in SUBSET Views
        /\ scan.query = Query(V, names)
        /\ scan.items = Instant(m, scan.query)
    BY StillAnswer
  <2> SUFFICES scan.items = {i \in Instant(m, Query(Views, names)) : ViewOf(i.check) \in V}
    OBVIOUS
  <2> HIDE DEF V, names
  <2>2. scan.items = Instant(m, Query(V, names))
    BY <2>1
  <2>3. Instant(m, Query(V, names)) = {i \in Instant(m, Query(Views, names)) : ViewOf(i.check) \in V}
    BY <2>1, PageDivided
  <2> QED
    BY <2>2, <2>3
<1> QED
  BY <1>1, Inductive, PTL

-----------------------------------------------------------------------------
(* What is said about a namespace comes from its own calls alone.          *)

LEMMA BlockItemsAbout ==
    ASSUME NEW ns, NEW seen
    PROVE  /\ \A i \in PVCItems(seen, ns) : Namespace(i.on) = ns
           /\ \A i \in DaemonSetItems(seen, ns) : Namespace(i.on) = ns
           /\ \A i \in WorkloadItems(seen, ns) : Namespace(i.on) = ns
           /\ \A i \in SecurityItems(seen, ns) : Namespace(i.on) = ns
           /\ \A i \in ConfigurationItems(seen, ns) : Namespace(i.on) = ns
           /\ \A i \in GPUPodItems(seen, ns) \cup GPUNamespaceItems(seen, ns) : Namespace(i.on) = ns
           /\ \A i \in NetworkPolicyItems(seen, ns) : Namespace(i.on) = ns
           /\ \A i \in ServiceItems(seen, ns) : Namespace(i.on) = ns
           /\ \A i \in IngressItems(seen, ns) : Namespace(i.on) = ns
           /\ \A kind : \A i \in CoverageItems(seen, kind, ns) : Namespace(i.on) = ns
<1>1. \A check, o, s : Item(check, o, s).on = o
  BY DEF Item
<1>2. \A check, o, b : Warn(check, o, b).on = o /\ Critical(check, o, b).on = o
  BY <1>1 DEF Warn, Critical
<1>3. \A kind : \A o \in Of(seen, kind, ns) : Namespace(o) = ns
  BY DEF Of
<1>4. Namespace(Whole(ns)) = ns
  BY DEF Whole, Namespace, Object
<1>5. \A i \in PVCItems(seen, ns) : Namespace(i.on) = ns
  BY <1>2, <1>3 DEF PVCItems
<1>6. \A i \in DaemonSetItems(seen, ns) : Namespace(i.on) = ns
  BY <1>2, <1>3 DEF DaemonSetItems
<1>7. \A i \in WorkloadItems(seen, ns) : Namespace(i.on) = ns
  <2> DEFINE pods == Of(seen, "Pod", ns)
             Troubled(check) == {o \in pods : WorkloadTrouble(check, seen[o])}
             Checks == {"pod-pending", "container-waiting", "oomkilled", "pod-restarts", "missing-requests"}
  <2>1. WorkloadItems(seen, ns) = UNION {{Item(check, o, "warning") : o \in Troubled(check)} : check \in Checks}
    BY DEF WorkloadItems
  <2>2. \A check : Troubled(check) \subseteq pods
    OBVIOUS
  <2>3. \A o \in pods : Namespace(o) = ns
    BY <1>3
  <2> HIDE DEF Troubled, Checks, pods
  <2> QED
    BY <1>1, <2>1, <2>2, <2>3
<1>8. \A i \in SecurityItems(seen, ns) : Namespace(i.on) = ns
  <2>1. \A i \in SecurityItems(seen, ns) : \E o \in Of(seen, "Pod", ns) : i.on = o
    BY <1>1, <1>2 DEF SecurityItems, When
  <2> QED
    BY <1>3, <2>1
<1>9. ActivePods(seen, ns) \subseteq Of(seen, "Pod", ns) /\ GPUPods(seen, ns) \subseteq Of(seen, "Pod", ns)
  BY DEF ActivePods, GPUPods
<1>10. \A i \in ConfigurationItems(seen, ns) : Namespace(i.on) = ns
  BY <1>1, <1>3, <1>9 DEF ConfigurationItems
<1>11. \A i \in GPUPodItems(seen, ns) : Namespace(i.on) = ns
  <2>1. \A i \in GPUPodItems(seen, ns) : \E o \in GPUPods(seen, ns) : i.on = o
    BY <1>1 DEF GPUPodItems, When
  <2> QED
    BY <1>3, <1>9, <2>1
<1>12. \A i \in GPUNamespaceItems(seen, ns) : Namespace(i.on) = ns
  <2>1. \A i \in GPUNamespaceItems(seen, ns) : i.on = Whole(ns)
    BY <1>1 DEF GPUNamespaceItems, When
  <2> QED
    BY <1>4, <2>1
<1>13. \A i \in NetworkPolicyItems(seen, ns) : Namespace(i.on) = ns
  BY <1>2, <1>4 DEF NetworkPolicyItems, When
<1>14. \A i \in ServiceItems(seen, ns) : Namespace(i.on) = ns
  <2>1. \A i \in ServiceItems(seen, ns) : \E o \in Of(seen, "Service", ns) : i.on = o
    BY DEF ServiceItems, When, Warn, Item
  <2> QED
    BY <1>3, <2>1
<1>15. \A i \in IngressItems(seen, ns) : Namespace(i.on) = ns
  <2>1. \A i \in IngressItems(seen, ns) : \E o \in Of(seen, "Ingress", ns) : i.on = o
    BY DEF IngressItems, When, Critical, Item
  <2> QED
    BY <1>3, <2>1
<1>16. \A kind : \A i \in CoverageItems(seen, kind, ns) : Namespace(i.on) = ns
  BY <1>2, <1>3 DEF CoverageItems
<1>17. \A i \in GPUPodItems(seen, ns) \cup GPUNamespaceItems(seen, ns) : Namespace(i.on) = ns
  BY <1>11, <1>12
<1> QED
  BY <1>5, <1>6, <1>7, <1>8, <1>10, <1>13, <1>14, <1>15, <1>16, <1>17

LEMMA VolumesOfChosen ==
    ASSUME NEW c, NEW names, Proper(names)
    PROVE  \A v \in AllOf(Chosen(c, names), "PersistentVolume") : Namespace(v) = ClusterScope
<1> TAKE v \in AllOf(Chosen(c, names), "PersistentVolume")
<1>1. v \in Objects /\ Kind(v) = "PersistentVolume" /\ ListOfObject(v) \in Lists(names)
  BY DEF AllOf, Chosen
<1>2. PICK j \in 1..Len(Calls(names)) : ListOfObject(v) = ListOf(Calls(names)[j])
  BY <1>1 DEF Lists
<1>3. Calls(names)[j].kind = "PersistentVolume" /\ Namespace(v) = Calls(names)[j].ns
  BY <1>1, <1>2 DEF ListOf, ListedKind, ListOfObject
<1> QED
  BY <1>3, CallFacts

\* The sections of the cluster say nothing of a namespace but the fragmentation of the GPUs.
LEMMA ClusterItemsApart ==
    ASSUME NEW c, NEW names, Proper(names), NEW scope
    PROVE  LET ref == Chosen(c, names)
           IN  /\ \A i \in NodeItems(ref) : Namespace(i.on) = ClusterScope
               /\ \A i \in NodeCapacityItems(ref) : Namespace(i.on) = ClusterScope
               /\ \A i \in RouteItems(ref) : Namespace(i.on) = ClusterScope
               /\ \A i \in VolumeItems(ref, scope) : Namespace(i.on) = ClusterScope
               /\ \A i \in GPUClusterItems(ref) : Namespace(i.on) = ClusterScope \/ i.check = "gpu-fragmentation"
<1> DEFINE ref == Chosen(c, names)
<1>1. \A n \in AllOf(ref, "Node") : Namespace(n) = ClusterScope
  BY NodesOfChosen DEF Namespace, Object
<1>2. /\ Namespace(WholeCluster) = ClusterScope
      /\ \A r : Namespace(Route(r)) = ClusterScope
      /\ \A kind, name : Namespace(Object(kind, ClusterScope, name)) = ClusterScope
  BY DEF Namespace, WholeCluster, Route, Object
<1>3. \A v \in AllOf(ref, "PersistentVolume") : Namespace(v) = ClusterScope
  BY VolumesOfChosen
<1> HIDE DEF ref
<1>4. \A i \in NodeItems(ref) : Namespace(i.on) = ClusterScope
  <2>1. \A i \in NodeItems(ref) : i.on = WholeCluster \/ \E n \in AllOf(ref, "Node") : i.on = n
    BY DEF NodeItems, When, Critical, Item
  <2> QED
    BY <1>1, <1>2, <2>1
<1>5. \A i \in NodeCapacityItems(ref) : Namespace(i.on) = ClusterScope
  <2>1. \A i \in NodeCapacityItems(ref) : \E n : i.on = Object("Node", ClusterScope, n)
    BY DEF NodeCapacityItems, When, Warn, Critical, Item
  <2> QED
    BY <1>2, <2>1
<1>6. \A i \in RouteItems(ref) : Namespace(i.on) = ClusterScope
  <2> DEFINE Twice == {t \in UNION {ref[o].routes : o \in AllOf(ref, "Ingress")} :
                         Cardinality({o \in AllOf(ref, "Ingress") : t \in ref[o].routes}) > 1}
  <2>1. RouteItems(ref) = {Item("ingress-route-collision", Route(r), "warning") : r \in Twice}
    BY DEF RouteItems
  <2> HIDE DEF Twice
  <2>2. \A i \in RouteItems(ref) : \E r : i.on = Route(r)
    BY <2>1 DEF Item
  <2> QED
    BY <1>2, <2>2
<1>7. \A i \in VolumeItems(ref, scope) : Namespace(i.on) = ClusterScope
  <2>1. \A i \in VolumeItems(ref, scope) : \E v \in AllOf(ref, "PersistentVolume") : i.on = v
    BY DEF VolumeItems, Warn, Item
  <2> QED
    BY <1>3, <2>1
<1>8. \A i \in GPUClusterItems(ref) : Namespace(i.on) = ClusterScope \/ i.check = "gpu-fragmentation"
  BY <1>1, <1>2, GPUClusterShape
<1> QED
  BY <1>4, <1>5, <1>6, <1>7, <1>8 DEF ref

\* What the calls of a namespace add does not depend on the selection.
LEMMA BlockApart ==
    ASSUME NEW V, NEW names, NEW names2, NEW ns, NEW l \in 1..14, NEW seen
    PROVE  \A i \in Sections(Query(V, names), NamespaceCalls(ns)[l], seen) :
               Namespace(i.on) = ns /\ i \in Sections(Query(V, names2), NamespaceCalls(ns)[l], seen)
<1> DEFINE call == NamespaceCalls(ns)[l]
           items == Sections(Query(V, names), call, seen)
<1>1. call.kind = BlockKinds[l] /\ call.ns = ns
  BY Kinds
<1>2. call.kind \in {"PersistentVolumeClaim", "Event", "Secret", "ConfigMap", "ResourceQuota", "DaemonSet", "Pod",
                     "NetworkPolicy", "Service", "EndpointSlice", "Ingress", "TLSSecret", "Deployment",
                     "StatefulSet"}
  BY <1>1 DEF BlockKinds
<1> SUFFICES items = Sections(Query(V, names2), call, seen) /\ \A i \in items : Namespace(i.on) = ns
  OBVIOUS
<1> HIDE DEF call
<1>3. items = Sections(Query(V, names2), call, seen)
  <2> DEFINE Part == (IF "workloads" \in V THEN WorkloadItems(seen, ns) ELSE {})
                     \cup (IF "security" \in V THEN SecurityItems(seen, ns) ELSE {})
                     \cup (IF "configuration" \in V THEN ConfigurationItems(seen, ns) ELSE {})
                     \cup (IF "gpu" \in V THEN GPUPodItems(seen, ns) \cup GPUNamespaceItems(seen, ns) ELSE {})
  <2>1. CASE call.kind = "Pod"
    <3>1. \A ms : Sections(Query(V, ms), call, seen) = Part
      BY <1>1, <2>1, SectionsAre, QueryParts
    <3> QED
      BY <3>1
  <2>2. CASE call.kind # "Pod"
    <3> DEFINE S(ms) == Sections(Query(V, ms), call, seen)
    <3>1. \A ms : /\ call.kind = "PersistentVolumeClaim" => S(ms) = PVCItems(seen, call.ns)
                  /\ call.kind = "DaemonSet" => S(ms) = DaemonSetItems(seen, call.ns)
                  /\ call.kind = "NetworkPolicy" => S(ms) = NetworkPolicyItems(seen, call.ns)
                  /\ call.kind = "EndpointSlice" => S(ms) = ServiceItems(seen, call.ns)
                  /\ call.kind = "TLSSecret" => S(ms) = IngressItems(seen, call.ns)
                  /\ call.kind \in {"Deployment", "StatefulSet"} => S(ms) = CoverageItems(seen, call.kind, call.ns)
                  /\ call.kind \in {"Event", "Secret", "ConfigMap", "ResourceQuota", "Service", "Ingress"} =>
                         S(ms) = {}
      BY SectionsAre
    <3> HIDE DEF S
    <3>2. S(names) = S(names2)
      BY <1>2, <2>2, <3>1
    <3> QED
      BY <3>2 DEF S
  <2> QED
    BY <2>1, <2>2
<1>4. \A i \in items : Namespace(i.on) = ns
  <2>1. CASE call.kind = "Pod"
    <3> DEFINE W == WorkloadItems(seen, ns)
               S == SecurityItems(seen, ns)
               C == ConfigurationItems(seen, ns)
               G == GPUPodItems(seen, ns) \cup GPUNamespaceItems(seen, ns)
               Part == (IF "workloads" \in V THEN W ELSE {}) \cup (IF "security" \in V THEN S ELSE {})
                       \cup (IF "configuration" \in V THEN C ELSE {}) \cup (IF "gpu" \in V THEN G ELSE {})
    <3>1. items = Part
      BY <1>1, <2>1, SectionsAre, QueryParts
    <3>2. /\ \A i \in W : Namespace(i.on) = ns
          /\ \A i \in S : Namespace(i.on) = ns
          /\ \A i \in C : Namespace(i.on) = ns
          /\ \A i \in G : Namespace(i.on) = ns
      BY BlockItemsAbout
    <3> HIDE DEF W, S, C, G, items
    <3>3. \A i \in Part : i \in W \/ i \in S \/ i \in C \/ i \in G
      OBVIOUS
    <3> HIDE DEF Part
    <3> QED
      BY <3>1, <3>2, <3>3
  <2>2. CASE call.kind \in {"Event", "Secret", "ConfigMap", "ResourceQuota", "Service", "Ingress"}
    BY <2>2, SectionsAre
  <2>3. CASE call.kind \notin {"Pod", "Event", "Secret", "ConfigMap", "ResourceQuota", "Service", "Ingress"}
    <3>1. /\ call.kind = "PersistentVolumeClaim" => items = PVCItems(seen, ns)
          /\ call.kind = "DaemonSet" => items = DaemonSetItems(seen, ns)
          /\ call.kind = "NetworkPolicy" => items = NetworkPolicyItems(seen, ns)
          /\ call.kind = "EndpointSlice" => items = ServiceItems(seen, ns)
          /\ call.kind = "TLSSecret" => items = IngressItems(seen, ns)
          /\ call.kind \in {"Deployment", "StatefulSet"} => items = CoverageItems(seen, call.kind, ns)
      BY <1>1, SectionsAre
    <3>2. /\ \A i \in PVCItems(seen, ns) : Namespace(i.on) = ns
          /\ \A i \in DaemonSetItems(seen, ns) : Namespace(i.on) = ns
          /\ \A i \in NetworkPolicyItems(seen, ns) : Namespace(i.on) = ns
          /\ \A i \in ServiceItems(seen, ns) : Namespace(i.on) = ns
          /\ \A i \in IngressItems(seen, ns) : Namespace(i.on) = ns
          /\ \A i \in CoverageItems(seen, call.kind, ns) : Namespace(i.on) = ns
      BY BlockItemsAbout
    <3> HIDE DEF items
    <3> QED
      BY <1>2, <2>3, <3>1, <3>2
  <2> QED
    BY <2>1, <2>2, <2>3
<1> QED
  BY <1>3, <1>4

LEMMA PlacesOfBlocks ==
    ASSUME NEW names, Proper(names), names # << >>
    PROVE  \A b \in 1..Len(names) : \A l \in 1..14 :
               /\ Place(b, l) \in 1..Len(Calls(names))
               /\ \A k \in 1..l : Calls(names)[Place(b, k)] = NamespaceCalls(names[b])[k]
<1> TAKE b \in 1..Len(names)
<1> TAKE l \in 1..14
<1> QED
  BY Places

\* What a request says about one of its namespaces, any other with the same views says.
LEMMA SaidAlike ==
    ASSUME NEW c, NEW V, NEW names, Proper(names), NEW names2, Proper(names2),
           NEW ns \in ToSet(names), ns \in ToSet(names2),
           NEW i, SaidOf(c, Query(V, names), i), Namespace(i.on) = ns, i.check \notin SelectionWide
    PROVE  SaidOf(c, Query(V, names2), i)
<1> DEFINE q == Query(V, names)
           q2 == Query(V, names2)
           ref == Chosen(c, names)
<1>1. /\ q.views = V /\ q.namespaces = names
      /\ q2.views = V /\ q2.namespaces = names2
  BY QueryParts
<1>2. PICK j \in 1..Len(Calls(names)) : Wanted(Calls(names)[j], V) /\ i \in Said(c, q, Calls(names)[j])
  BY <1>1 DEF SaidOf, SaidBy
<1> DEFINE call == Calls(names)[j]
<1>3. i \in Sections(q, call, Ref(c, names, call))
  BY <1>1, <1>2 DEF Said
<1>4. ns # ClusterScope /\ "gpu-fragmentation" \in SelectionWide
  BY DEF Proper, SelectionWide
<1>5. ASSUME call.ns = ClusterScope PROVE FALSE
  <2>1. i \in Sections(q, call, ref)
    BY <1>3, <1>5 DEF Ref
  <2>2. /\ i \notin NodeItems(ref) /\ i \notin NodeCapacityItems(ref) /\ i \notin RouteItems(ref)
        /\ i \notin VolumeItems(ref, ToSet(names)) /\ i \notin GPUClusterItems(ref)
    BY <1>4, ClusterItemsApart
  <2>3. call.kind \in {"Node", "VolumeStats", "NodeMetrics", "PodMetrics", "PersistentVolume", "Suppression"}
    <3> DEFINE Other == {"Node", "VolumeStats", "NodeMetrics", "PodMetrics", "PersistentVolume", "Suppression"}
    <3>1. SuppressionCall.kind \in Other /\ VolumeCalls[1].kind \in Other
      BY Kinds
    <3>2. \A k \in 1..4 : ClusterCalls[k].kind \in Other
      <4>1. \A k \in 1..4 : ClusterKinds[k] \in Other
        BY DEF ClusterKinds
      <4> HIDE DEF Other
      <4> QED
        BY <4>1, Kinds
    <3>3. \A b \in 1..Len(names) : \A k \in 1..14 : NamespaceCalls(names[b])[k].ns # ClusterScope
      <4>1. \A b \in 1..Len(names) : names[b] # ClusterScope
        BY DEF Proper, ToSet
      <4>2. \A n : \A k \in 1..14 : NamespaceCalls(n)[k].ns = n
        BY Kinds
      <4> QED
        BY <4>1, <4>2
    <3>4. \/ call = SuppressionCall
          \/ \E k \in 1..4 : call = ClusterCalls[k]
          \/ \E b \in 1..Len(names), k \in 1..14 : call = NamespaceCalls(names[b])[k]
          \/ call = VolumeCalls[1]
      BY CallAt
    <3> HIDE DEF call, Other
    <3>5. call.kind \in Other
      BY <1>5, <3>1, <3>2, <3>3, <3>4
    <3> QED
      BY <3>5 DEF Other
  <2> HIDE DEF call, ref
  <2>4. CASE call.kind = "NodeMetrics"
    BY <2>1, <2>2, <2>4, SectionsAre
  <2>5. CASE call.kind = "Suppression"
    <3>1. Sections(q, call, ref)
              = IF ToSet(names) = {} THEN {} ELSE
                (IF "networking" \in V THEN RouteItems(ref) ELSE {})
                \cup (IF "gpu" \in V THEN GPUClusterItems(ref) ELSE {})
                \cup (IF "storage" \in V THEN VolumeItems(ref, ToSet(names)) ELSE {})
                \cup (IF "nodes" \in V THEN NodeCapacityItems(ref) ELSE {})
      <4> HIDE DEF q, q2
      <4>1. Sections(q, call, ref)
                = IF ToSet(q.namespaces) = {} THEN {} ELSE
                  (IF "networking" \in q.views THEN RouteItems(ref) ELSE {})
                  \cup (IF "gpu" \in q.views THEN GPUClusterItems(ref) ELSE {})
                  \cup (IF "storage" \in q.views THEN VolumeItems(ref, ToSet(q.namespaces)) ELSE {})
                  \cup (IF "nodes" \in q.views THEN NodeCapacityItems(ref) ELSE {})
        BY <2>5, SectionsAre
      <4> QED
        BY <1>1, <4>1
    <3> QED
      BY <2>1, <2>2, <3>1
  <2>6. CASE call.kind \in {"Node", "VolumeStats", "PodMetrics", "PersistentVolume"}
    BY <2>1, <2>6, SectionsAre
  <2> QED
    BY <2>3, <2>4, <2>5, <2>6
<1>6. i \in Sections(q, call, Full(c))
  BY <1>3, <1>5 DEF Ref
<1>7. PICK b \in 1..Len(names), l \in 1..14 : call = NamespaceCalls(names[b])[l]
  <2>1. SuppressionCall.ns = ClusterScope /\ VolumeCalls[1].ns = ClusterScope
        /\ \A k \in 1..4 : ClusterCalls[k].ns = ClusterScope
    BY Kinds
  <2>2. \/ call = SuppressionCall
        \/ \E k \in 1..4 : call = ClusterCalls[k]
        \/ \E b \in 1..Len(names), k \in 1..14 : call = NamespaceCalls(names[b])[k]
        \/ call = VolumeCalls[1]
    BY CallAt
  <2> HIDE DEF call
  <2> QED
    BY <1>5, <2>1, <2>2
<1>8. \A n : \A k \in 1..14 : \A i1 \in Sections(q, NamespaceCalls(n)[k], Full(c)) :
          Namespace(i1.on) = n /\ i1 \in Sections(q2, NamespaceCalls(n)[k], Full(c))
  BY BlockApart
<1>9. i \in Sections(q, NamespaceCalls(names[b])[l], Full(c))
  BY <1>6, <1>7
<1>10. names[b] = ns /\ i \in Sections(q2, NamespaceCalls(names[b])[l], Full(c))
  <2> HIDE DEF q, q2
  <2> QED
    BY <1>8, <1>9
<1>11. PICK b2 \in 1..Len(names2) : names2[b2] = ns
  <2> HIDE DEF q, q2, call, ref
  <2>1. DOMAIN names2 = 1..Len(names2)
    BY DEF Proper
  <2>2. ns \in {names2[k] : k \in DOMAIN names2}
    BY DEF ToSet
  <2> QED
    BY <2>1, <2>2
<1>12. names2 # << >>
  BY <1>11
<1>13. Place(b2, l) \in 1..Len(Calls(names2)) /\ Calls(names2)[Place(b2, l)] = NamespaceCalls(ns)[l]
  <2>1. l \in 1..l
    OBVIOUS
  <2>2. /\ Place(b2, l) \in 1..Len(Calls(names2))
        /\ \A k \in 1..l : Calls(names2)[Place(b2, k)] = NamespaceCalls(names2[b2])[k]
    BY <1>11, <1>12, PlacesOfBlocks
  <2> QED
    BY <1>11, <2>1, <2>2
<1>14. NamespaceCalls(ns)[l].ns = ns
  BY Kinds
<1>15. i \in Said(c, q2, NamespaceCalls(ns)[l])
  BY <1>1, <1>4, <1>10, <1>14 DEF Said, Ref
<1>16. Wanted(NamespaceCalls(ns)[l], V)
  BY <1>2, <1>7, <1>10
<1> HIDE DEF q2
<1> QED
  BY <1>1, <1>13, <1>15, <1>16 DEF SaidOf, SaidBy, q2

LEMMA ClaimsListed ==
    ASSUME NEW names, Proper(names), NEW ns \in ToSet(names)
    PROVE  names # << >> /\ <<"PersistentVolumeClaim", ns>> \in Lists(names)
<1>1. PICK b \in 1..Len(names) : names[b] = ns
  <2>1. DOMAIN names = 1..Len(names)
    BY DEF Proper
  <2>2. ns \in {names[k] : k \in DOMAIN names}
    BY DEF ToSet
  <2> QED
    BY <2>1, <2>2
<1>2. names # << >>
  BY <1>1
<1>3. Place(b, 1) \in 1..Len(Calls(names)) /\ Calls(names)[Place(b, 1)] = NamespaceCalls(ns)[1]
  <2>1. 1 \in 1..14 /\ 1 \in 1..1
    OBVIOUS
  <2> QED
    BY <1>1, <1>2, <2>1, PlacesOfBlocks
<1>4. ListOf(NamespaceCalls(ns)[1]) = <<"PersistentVolumeClaim", ns>>
  <2>1. NamespaceCalls(ns)[1] = Call("PersistentVolumeClaim", ns, {"storage"})
    BY OtherLists
  <2> QED
    BY <2>1 DEF ListOf, ListedKind, Call
<1> QED
  BY <1>2, <1>3, <1>4 DEF Lists

\* What is measured of a namespace's claims does not depend on the selection.
LEMMA MeasuredAlike ==
    ASSUME NEW c, NEW V, NEW names, Proper(names), NEW names2, Proper(names2),
           NEW ns \in ToSet(names), ns \in ToSet(names2),
           NEW i \in Measured(c, Query(V, names)), Namespace(i.on) = ns, i.check \notin SelectionWide
    PROVE  i \in Measured(c, Query(V, names2))
<1> DEFINE Then(ms) == MeasuredThen(c, Query(V, ms), Made(ms))
           use == VolumeUse(c, NodesOf(c))
           Key(o) == <<Namespace(o), Name(o)>>
<1>1. \A ms : \A j : j \in Measured(c, Query(V, ms)) <=>
          \/ "nodes" \in V /\ j \in PipelineItems(Then(ms))
          \/ "storage" \in V /\ j \in ClaimItems(Chosen(c, ms), Then(ms).volumes)
          \/ "workloads" \in V /\ j \in UseItems(Chosen(c, ms), Then(ms).pods)
  BY MeasuredParts, QueryParts DEF Measured
<1>2. /\ <<"PersistentVolumeClaim", ns>> \in Lists(names2)
      /\ names # << >> /\ names2 # << >>
  BY ClaimsListed
<1>3. Then(names).volumes = use /\ Then(names2).volumes = use
  BY <1>2, ThenParts, MadeAll
<1> HIDE DEF Then, use
<1>4. "storage" \in V /\ i \in ClaimItems(Chosen(c, names), use)
  <2>1. \A j \in PipelineItems(Then(names)) : Namespace(j.on) = ClusterScope
    BY MeasuredNames DEF WholeCluster, Namespace, Object
  <2>2. \A j \in UseItems(Chosen(c, names), Then(names).pods) : j.check \in SelectionWide
    BY MeasuredNames DEF SelectionWide
  <2>3. ns # ClusterScope
    BY DEF Proper
  <2> QED
    BY <1>1, <1>3, <2>1, <2>2, <2>3
<1>5. PICK o \in AllOf(Chosen(c, names), "PersistentVolumeClaim") :
          Key(o) \in DOMAIN use /\ i = Warn("pvc-usage", o, use[Key(o)] >= VolumeFull)
  BY <1>4 DEF ClaimItems
<1>6. Namespace(o) = ns
  BY <1>5 DEF Warn, Item
<1>7. o \in AllOf(Chosen(c, names2), "PersistentVolumeClaim")
  <2>1. o \in Objects /\ c[o] # Absent /\ Kind(o) = "PersistentVolumeClaim"
    BY DEF AllOf, Chosen
  <2>2. ListOfObject(o) \in Lists(names2)
    BY <1>2, <1>6, <2>1 DEF ListOfObject
  <2> QED
    BY <2>1, <2>2 DEF AllOf, Chosen
<1>8. i \in ClaimItems(Chosen(c, names2), use)
  BY <1>5, <1>7 DEF ClaimItems
<1> QED
  BY <1>1, <1>3, <1>4, <1>8

LEMMA AloneProper ==
    ASSUME NEW names, Proper(names), NEW ns \in ToSet(names)
    PROVE  Proper(<<ns>>) /\ ns \in ToSet(<<ns>>)
<1>1. ToSet(<<ns>>) = {ns} /\ Len(<<ns>>) = 1 /\ <<ns>> \in Seq({ns})
  BY DEF ToSet
<1> QED
  BY <1>1 DEF Proper

\* What is said about a namespace, when the cluster stood still, does not depend on the
\* namespaces selected with it: neither on their number nor on their order.
THEOREM NamespacesAlwaysApart == Spec => []NamespacesApart
<1> DEFINE About(items, ns) == {i \in items : Namespace(i.on) = ns /\ i.check \notin SelectionWide}
<1>1. ASSUME NEW c, Complete(c), NEW V, NEW names, Proper(names), NEW names2, Proper(names2),
             NEW ns \in ToSet(names), ns \in ToSet(names2)
      PROVE  About(Instant(c, Query(V, names)), ns) \subseteq Instant(c, Query(V, names2))
  <2> SUFFICES ASSUME NEW x \in Instant(c, Query(V, names)), Namespace(x.on) = ns, x.check \notin SelectionWide
               PROVE  x \in Instant(c, Query(V, names2))
    OBVIOUS
  <2> DEFINE Says(ms, i) == SaidOf(c, Query(V, ms), i) \/ i \in Measured(c, Query(V, ms))
  <2>1. /\ \A y : y \in Instant(c, Query(V, names)) <=> \E i : Says(names, i) /\ y = Mark(c, i)
        /\ \A y : y \in Instant(c, Query(V, names2)) <=> \E i : Says(names2, i) /\ y = Mark(c, i)
    BY <1>1, QueryParts, InstantIs
  <2>2. PICK i : Says(names, i) /\ x = Mark(c, i)
    BY <2>1
  <2>3. Namespace(i.on) = ns /\ i.check \notin SelectionWide
    <3>1. x.on = i.on /\ x.check = i.check
      BY <2>2 DEF Mark
    <3> QED
      BY <3>1
  <2>4. Says(names2, i)
    BY <1>1, <2>2, <2>3, SaidAlike, MeasuredAlike
  <2> QED
    BY <2>1, <2>2, <2>4
<1>2. IInv => NamespacesApart
  <2> SUFFICES ASSUME IInv, scan.at = "answered", Cardinality(scan.moments) = 1, NEW m \in scan.moments,
                      NEW ns \in ToSet(scan.query.namespaces)
               PROVE  About(scan.items, ns) = About(Instant(m, Query(scan.query.views, <<ns>>)), ns)
    BY DEF NamespacesApart
  <2> DEFINE V == scan.query.views
             names == scan.query.namespaces
  <2>1. /\ Complete(m) /\ Proper(names)
        /\ scan.query = Query(V, names)
        /\ scan.items = Instant(m, scan.query)
    BY StillAnswer
  <2>2. ns \in ToSet(names)
    OBVIOUS
  <2> SUFFICES About(scan.items, ns) = About(Instant(m, Query(V, <<ns>>)), ns)
    OBVIOUS
  <2> HIDE DEF V, names
  <2>3. scan.items = Instant(m, Query(V, names))
    BY <2>1
  <2>4. Proper(<<ns>>) /\ ns \in ToSet(<<ns>>)
    BY <2>1, <2>2, AloneProper
  <2>5. About(Instant(m, Query(V, names)), ns) \subseteq Instant(m, Query(V, <<ns>>))
    BY <1>1, <2>1, <2>2, <2>4
  <2>6. About(Instant(m, Query(V, <<ns>>)), ns) \subseteq Instant(m, Query(V, names))
    BY <1>1, <2>1, <2>2, <2>4
  <2> QED
    BY <2>3, <2>5, <2>6
<1> QED
  BY <1>2, Inductive, PTL

-----------------------------------------------------------------------------
(* The suppression list.                                                   *)

Writing(r) == step[r] \in {"get", "create", "update"}

\* A request that is alone since its first read still sees what it read, and is
\* about to write that with its own check changed.
Current == \A r \in Updates : Writing(r) /\ alone[r] => map # "invalid" /\ next[r] = Changed(r)

SuppressionInv == TypeOK /\ Current

LEMMA ChangedFacts ==
    ASSUME TypeOK, NEW r \in Updates
    PROVE  /\ Changed(r) \subseteq Keys
           /\ key[r] \in Changed(r) <=> on[r]
           /\ Apart(keys, Changed(r)) \subseteq {key[r]}
<1>1. keys \subseteq Keys /\ key[r] \in Keys /\ on[r] \in BOOLEAN
  BY DEF TypeOK
<1>2. CASE on[r]
  <2>1. Changed(r) = keys \cup {key[r]}
    BY <1>2 DEF Changed
  <2> QED
    BY <1>1, <1>2, <2>1 DEF Apart
<1>3. CASE ~on[r]
  <2>1. Changed(r) = keys \ {key[r]}
    BY <1>3 DEF Changed
  <2> QED
    BY <1>1, <1>3, <2>1 DEF Apart
<1> QED
  BY <1>1, <1>2, <1>3

LEMMA GoToFacts ==
    ASSUME TypeOK, NEW r \in Updates, NEW s, GoTo(r, s),
           s \in {"idle", "list", "get", "create", "update", "failed", "acked"}
    PROVE  /\ step' \in [Updates -> {"idle", "list", "get", "create", "update", "failed", "acked"}]
           /\ step'[r] = s
           /\ \A q \in Updates : q # r => step'[q] = step[q]
BY DEF TypeOK, GoTo

LEMMA WriteFacts ==
    ASSUME TypeOK, NEW r \in Updates, Write(r)
    PROVE  /\ step[r] \in {"create", "update"} /\ step'[r] \in {"acked", "failed"}
           /\ step' \in [Updates -> {"idle", "list", "get", "create", "update", "failed", "acked"}]
           /\ \A q \in Updates : q # r => step'[q] = step[q]
           /\ map' = "there" /\ keys' = next[r]
           /\ UNCHANGED <<key, on, next>>
           /\ fresh' = [q \in Updates |-> FALSE]
           /\ alone' = [q \in Updates |-> FALSE]
BY DEF TypeOK, Write, MayWrite, GoTo, Outdate

-----------------------------------------------------------------------------
LEMMA AskInductive ==
    ASSUME SuppressionInv, NEW r \in Updates, NEW k \in Keys, NEW b \in BOOLEAN, Ask(r, k, b)
    PROVE  SuppressionInv'
<1>1. /\ step' \in [Updates -> {"idle", "list", "get", "create", "update", "failed", "acked"}]
      /\ step'[r] = "list"
      /\ \A q \in Updates : q # r => step'[q] = step[q]
  BY GoToFacts DEF SuppressionInv, Ask
<1>2. /\ key' \in [Updates -> Keys] /\ on' \in [Updates -> BOOLEAN]
      /\ \A q \in Updates : q # r => key'[q] = key[q] /\ on'[q] = on[q]
      /\ UNCHANGED <<map, keys, next, fresh, alone>>
  BY DEF SuppressionInv, TypeOK, Ask
<1>3. TypeOK'
  BY <1>1, <1>2 DEF SuppressionInv, TypeOK
<1>4. Current'
  BY <1>1, <1>2 DEF SuppressionInv, Current, Writing, Changed
<1> QED
  BY <1>3, <1>4 DEF SuppressionInv

LEMMA ListInductive ==
    ASSUME SuppressionInv, NEW r \in Updates, ListKeys(r)
    PROVE  SuppressionInv'
<1>1. /\ step' \in [Updates -> {"idle", "list", "get", "create", "update", "failed", "acked"}]
      /\ step'[r] = "get"
      /\ \A q \in Updates : q # r => step'[q] = step[q]
  BY GoToFacts DEF SuppressionInv, ListKeys
<1>2. /\ next' = [next EXCEPT ![r] = Changed(r)] /\ alone' = [alone EXCEPT ![r] = TRUE]
      /\ map # "invalid" /\ UNCHANGED <<map, keys, key, on, fresh>>
  BY DEF ListKeys
<1>3. next' \in [Updates -> SUBSET Keys] /\ alone' \in [Updates -> BOOLEAN]
      /\ next'[r] = Changed(r)
      /\ \A q \in Updates : q # r => next'[q] = next[q] /\ alone'[q] = alone[q]
  BY <1>2, ChangedFacts DEF SuppressionInv, TypeOK
<1>4. \A q \in Updates : Changed(q)' = Changed(q)
  BY <1>2 DEF Changed
<1>5. TypeOK'
  BY <1>1, <1>2, <1>3, ChangedFacts DEF SuppressionInv, TypeOK
<1>6. Current'
  BY <1>1, <1>2, <1>3, <1>4 DEF SuppressionInv, Current, Writing
<1> QED
  BY <1>5, <1>6 DEF SuppressionInv

LEMMA GetInductive ==
    ASSUME SuppressionInv, NEW r \in Updates, Get(r)
    PROVE  SuppressionInv'
<1>1. /\ step[r] = "get"
      /\ step' \in [Updates -> {"idle", "list", "get", "create", "update", "failed", "acked"}]
      /\ step'[r] \in {"create", "update"}
      /\ \A q \in Updates : q # r => step'[q] = step[q]
      /\ fresh' \in [Updates -> BOOLEAN]
      /\ UNCHANGED <<map, keys, key, on, next, alone>>
  BY DEF SuppressionInv, TypeOK, Get, GoTo
<1>2. TypeOK'
  BY <1>1 DEF SuppressionInv, TypeOK
<1>3. \A q \in Updates : Changed(q)' = Changed(q)
  BY <1>1 DEF Changed
<1>4. Current'
  BY <1>1, <1>3 DEF SuppressionInv, Current, Writing
<1> QED
  BY <1>2, <1>4 DEF SuppressionInv

LEMMA WriteInductive ==
    ASSUME SuppressionInv, NEW r \in Updates, Write(r)
    PROVE  SuppressionInv'
<1>1. TypeOK'
  <2>1. keys' \subseteq Keys /\ map' = "there"
    BY WriteFacts DEF SuppressionInv, TypeOK
  <2>2. fresh' \in [Updates -> BOOLEAN] /\ alone' \in [Updates -> BOOLEAN]
    BY WriteFacts DEF SuppressionInv
  <2>3. \A q \in Updates : step'[q] \in {"get", "create", "update"} =>
            (key'[q] \in next'[q] <=> on'[q])
    BY WriteFacts DEF SuppressionInv, TypeOK
  <2>4. step' \in [Updates -> {"idle", "list", "get", "create", "update", "failed", "acked"}]
        /\ UNCHANGED <<key, on, next>>
    BY WriteFacts DEF SuppressionInv
  <2> QED
    BY <2>1, <2>2, <2>3, <2>4 DEF SuppressionInv, TypeOK
<1>2. Current'
  BY WriteFacts DEF SuppressionInv, Current
<1> QED
  BY <1>1, <1>2 DEF SuppressionInv

LEMMA FailInductive ==
    ASSUME SuppressionInv, NEW r \in Updates, Fail(r)
    PROVE  SuppressionInv'
<1>1. /\ step' \in [Updates -> {"idle", "list", "get", "create", "update", "failed", "acked"}]
      /\ step'[r] = "failed"
      /\ \A q \in Updates : q # r => step'[q] = step[q]
      /\ UNCHANGED <<map, keys, key, on, next, fresh, alone>>
  BY GoToFacts DEF SuppressionInv, Fail
<1>2. TypeOK'
  BY <1>1 DEF SuppressionInv, TypeOK
<1>3. Current'
  BY <1>1 DEF SuppressionInv, Current, Writing, Changed
<1> QED
  BY <1>2, <1>3 DEF SuppressionInv

LEMMA OperatorInductive == SuppressionInv /\ OperatorEdits => SuppressionInv'
<1> SUFFICES ASSUME SuppressionInv, OperatorEdits PROVE SuppressionInv'
  OBVIOUS
<1>1. TypeOK'
  BY DEF SuppressionInv, TypeOK, OperatorEdits, Outdate
<1>2. Current'
  BY DEF OperatorEdits, Outdate, Current
<1> QED
  BY <1>1, <1>2 DEF SuppressionInv

LEMMA SuppressionsInductive == SuppressionSpec => []SuppressionInv
<1>1. SuppressionInit => SuppressionInv
  <2>1. SuppressionInit => TypeOK
    BY DEF SuppressionInit, TypeOK
  <2>2. SuppressionInit => Current
    BY DEF SuppressionInit, Current
  <2> QED
    BY <2>1, <2>2 DEF SuppressionInv
<1>2. SuppressionInv /\ [SuppressionNext]_suppressionVars => SuppressionInv'
  <2> SUFFICES ASSUME SuppressionInv, [SuppressionNext]_suppressionVars PROVE SuppressionInv'
    OBVIOUS
  <2>1. CASE UNCHANGED suppressionVars
    <3>1. TypeOK'
      BY <2>1 DEF suppressionVars, SuppressionInv, TypeOK
    <3>2. Current'
      BY <2>1 DEF suppressionVars, SuppressionInv, Current, Writing, Changed
    <3> QED
      BY <3>1, <3>2 DEF SuppressionInv
  <2> QED
    BY <2>1, AskInductive, ListInductive, GetInductive, WriteInductive, FailInductive,
       OperatorInductive DEF SuppressionNext
<1> QED
  BY <1>1, <1>2, PTL DEF SuppressionSpec

-----------------------------------------------------------------------------
\* Every variable keeps its type, and what a request is about to write does to its
\* check what was asked.
THEOREM SuppressionsTypeCorrect == SuppressionSpec => []TypeOK
<1>1. SuppressionInv => TypeOK
  BY DEF SuppressionInv
<1> QED
  BY <1>1, SuppressionsInductive, PTL

\* An answer of success is given by the write that brought the change about.
THEOREM AckAlwaysHonoured == SuppressionSpec => AckHonoured
<1>1. SuppressionInv /\ [SuppressionNext]_suppressionVars =>
          [\A r \in Updates :
              step'[r] = "acked" /\ step[r] # "acked" => (key[r] \in keys' <=> on[r])]_suppressionVars
  <2> SUFFICES ASSUME SuppressionInv, SuppressionNext, NEW r \in Updates, step'[r] = "acked", step[r] # "acked"
               PROVE  key[r] \in keys' <=> on[r]
    OBVIOUS
  <2>1. TypeOK
    BY DEF SuppressionInv
  <2>2. ASSUME NEW q \in Updates, Write(q) PROVE key[r] \in keys' <=> on[r]
    <3>1. q = r /\ keys' = next[r] /\ step[r] \in {"create", "update"}
      BY <2>1, <2>2, WriteFacts
    <3> QED
      BY <2>1, <3>1 DEF TypeOK
  <2>3. ASSUME NEW q \in Updates, NEW k \in Keys, NEW b \in BOOLEAN, Ask(q, k, b) PROVE FALSE
    BY <2>1, <2>3 DEF Ask, GoTo, TypeOK
  <2>4. ASSUME NEW q \in Updates, ListKeys(q) \/ Get(q) \/ Fail(q) PROVE FALSE
    BY <2>1, <2>4 DEF ListKeys, Get, Fail, GoTo, TypeOK
  <2>5. ~OperatorEdits
    BY DEF OperatorEdits
  <2> QED
    BY <2>2, <2>3, <2>4, <2>5 DEF SuppressionNext
<1> QED
  BY <1>1, SuppressionsInductive, PTL DEF SuppressionSpec, AckHonoured

\* Without an interloper between its first read and its write a request changes its
\* own check only, and never a value it could not read.
THEOREM UndisturbedWriteAlwaysExact == SuppressionSpec => UndisturbedWriteExact
<1>1. SuppressionInv /\ [SuppressionNext]_suppressionVars =>
          [\A r \in Updates :
              step[r] \in {"create", "update"} /\ alone[r] /\ ~alone'[r]
                  /\ step'[r] # step[r]
                  => map # "invalid" /\ Apart(keys, keys') \subseteq {key[r]}]_suppressionVars
  <2> SUFFICES ASSUME SuppressionInv, SuppressionNext, NEW r \in Updates, step[r] \in {"create", "update"},
                      alone[r], ~alone'[r], step'[r] # step[r]
               PROVE  map # "invalid" /\ Apart(keys, keys') \subseteq {key[r]}
    OBVIOUS
  <2>1. TypeOK /\ Current
    BY DEF SuppressionInv
  <2>2. ASSUME NEW q \in Updates, Write(q)
        PROVE  map # "invalid" /\ Apart(keys, keys') \subseteq {key[r]}
    <3>1. q = r /\ keys' = next[r]
      BY <2>1, <2>2, WriteFacts
    <3>2. map # "invalid" /\ next[r] = Changed(r)
      BY <2>1 DEF Current, Writing
    <3> QED
      BY <2>1, <3>1, <3>2, ChangedFacts
  <2>3. ASSUME NEW q \in Updates, NEW k \in Keys, NEW b \in BOOLEAN, Ask(q, k, b) PROVE FALSE
    BY <2>3 DEF Ask
  <2>4. ASSUME NEW q \in Updates, ListKeys(q) \/ Get(q) \/ Fail(q) PROVE FALSE
    BY <2>1, <2>4 DEF ListKeys, Get, Fail, TypeOK
  <2>5. ~OperatorEdits
    BY DEF OperatorEdits
  <2> QED
    BY <2>2, <2>3, <2>4, <2>5 DEF SuppressionNext
<1> QED
  BY <1>1, SuppressionsInductive, PTL DEF SuppressionSpec, UndisturbedWriteExact
=============================================================================
