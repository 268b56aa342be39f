--------------------------- MODULE CompactionProofs ---------------------------
(***************************************************************************)
(* Theorems about the compaction of a thread, for any bounds of the        *)
(* thread, the segments and the passes, any sizes of results and any       *)
(* needs: the segments of the checkpoint are whole old bundles, in order   *)
(* and apart, and a view is a tiling of the thread: its items, one after   *)
(* the other, stand for intervals that together are the whole of it. The   *)
(* projection makes such a tiling, leaving out turns merges its first      *)
(* items into one, and clipping changes no interval.                       *)
(***************************************************************************)
EXTENDS Compaction, RunningValues, SequenceTheorems

ThreadRoles == {"system", "user", "call", "tool"}
MessageType == [role : ThreadRoles, size : Nat]
ItemType == [role : ThreadRoles \cup {"memory", "note"}, size : Nat, stands : SUBSET Nat,
             whole : BOOLEAN]
SegmentType == [start : Nat, end : Nat, summary : Nat]

\* The thread begins with the system message and the owner's first one.
ThreadInv ==
    /\ thread \in Seq(MessageType) /\ Len(thread) \in 2..MaxLength
    /\ thread[1].role = "system" /\ thread[2].role = "user"
    /\ \A i \in 2..Len(thread) : thread[i].role # "system"

\* Segments archive whole old bundles, in order and apart.
Sound(s) == /\ s \in SegmentType /\ s.summary > 0 /\ s.end <= Len(thread) + 1
            /\ Complete(s, OldBundles)
InOrder(segments) ==
    \A k, l \in 1..Len(segments) : k < l => segments[k].end <= segments[l].start
SegmentsInv(segments) ==
    /\ segments \in Seq(SegmentType) /\ Len(segments) <= MaxSegments
    /\ \A k \in 1..Len(segments) : Sound(segments[k])
    /\ InOrder(segments)

\* The items of a view cut the first m messages into intervals: ends[k] is the last
\* message that item k stands for.
Tiling(v, ends, m) ==
    /\ v \in Seq(ItemType) /\ ends \in [0..Len(v) -> 0..Len(thread)]
    /\ ends[0] = 0 /\ ends[Len(v)] = m
    /\ \A k, l \in 0..Len(v) : k < l => ends[k] < ends[l]
    /\ \A k \in 1..Len(v) : v[k].stands = (ends[k - 1] + 1)..ends[k]

\* What an item is allowed to stand for.
Covered(i) == \E b \in OldBundles : b.start <= i /\ i < b.end
Stands(item, from, to) ==
    /\ item.role \in ThreadRoles =>
         from = to /\ item.role = thread[to].role /\ (item.role # "tool" => item.whole)
    /\ item.role = "memory" =>
         /\ thread[from].role = "call" /\ thread[to].role = "tool"
         /\ \A i \in from..to : Covered(i)
    /\ item.role = "note" => from = 2 /\ to < Len(thread) /\ thread[to + 1].role = "user"

Tiled(v, m) ==
    \E ends \in [0..Len(v) -> 0..Len(thread)] :
        /\ Tiling(v, ends, m)
        /\ \A k \in 1..Len(v) : Stands(v[k], ends[k - 1] + 1, ends[k])

CompactionInv ==
    /\ ThreadInv /\ SegmentsInv(memory) /\ SegmentsInv(fitted)
    /\ passes \in 0..MaxPasses /\ fitting \in -1..FitAttempts
    /\ view # <<>> => Tiled(view, Len(thread))
    /\ fitting # -1 => view # <<>>

-------------------------------------------------------------------------------
(* Sizes, extremes and sorted insertion.                                      *)

LEMMA SizeIsNat ==
    ASSUME NEW messages, Len(messages) \in Nat,
           \A k \in 1..Len(messages) : messages[k].size \in Nat
    PROVE  Size(messages) \in Nat
<1> DEFINE n == Len(messages)
           step == [k \in 1..n |-> [x \in Nat |-> x + messages[k].size]]
<1>1. n \in Nat /\ \A k \in 1..n : messages[k].size \in Nat
  OBVIOUS
<1>2. step \in StepsIn(Nat, n)
  BY <1>1 DEF StepsIn
<1> HIDE DEF n
<1>3. PICK g : Computed(g, Nat, n, 0, step)
  <2> HIDE DEF step
  <2> QED
    BY <1>1, <1>2, RunningValuesExist
<1>4. g \in [0..n -> Nat] /\ g[0] = 0 /\ \A k \in 1..n : g[k] = step[k][g[k - 1]]
  BY <1>3 DEF Computed
<1>5. g = [k \in 0..n |-> IF k = 0 THEN 0 ELSE g[k - 1] + messages[k].size]
  <2>1. \A k \in 1..n : g[k - 1] \in Nat
    BY <1>1, <1>4
  <2>2. \A k \in 1..n : g[k] = g[k - 1] + messages[k].size
    BY <1>4, <2>1
  <2> QED
    BY <1>1, <1>4, <2>2
<1> DEFINE total == CHOOSE h : h = [k \in 0..n |-> IF k = 0 THEN 0 ELSE h[k - 1] + messages[k].size]
<1>6. total = [k \in 0..n |-> IF k = 0 THEN 0 ELSE total[k - 1] + messages[k].size]
  BY <1>5
<1>7. Size(messages) = total[n]
  BY DEF Size, n
<1> HIDE DEF total
<1>8. total[0] \in Nat
  BY <1>1, <1>6
<1>9. ASSUME NEW k \in 1..n, total[k - 1] \in Nat PROVE total[k] \in Nat
  BY <1>1, <1>6, <1>9
<1>10. \A k \in 0..n : total[k] \in Nat
  BY <1>1, <1>8, <1>9, RunningStays
<1> QED
  BY <1>1, <1>7, <1>10

\* Of places that hold numbers one is the largest, and of equal ones the first.
LEMMA LargestExists ==
    ASSUME NEW n \in Nat, NEW S \in SUBSET (1..n), S # {}, NEW f,
           \A i \in S : f[i] \in Int
    PROVE  \E i \in S : \A j \in S : f[i] > f[j] \/ (f[i] = f[j] /\ i <= j)
<1> DEFINE Leads(i, m) == \A j \in S : j <= m => f[i] > f[j] \/ (f[i] = f[j] /\ i <= j)
           Led == {m \in Nat : (\E i \in S : i <= m) => \E i \in S : i <= m /\ Leads(i, m)}
<1>1. 0 \in Led
  OBVIOUS
<1>2. ASSUME NEW m \in Led PROVE m + 1 \in Led
  <2> SUFFICES ASSUME \E i \in S : i <= m + 1
               PROVE  \E i \in S : i <= m + 1 /\ Leads(i, m + 1)
    OBVIOUS
  <2>1. m \in Nat /\ \A j \in S : j \in Int /\ (j <= m + 1 <=> j <= m \/ j = m + 1)
    OBVIOUS
  <2>2. CASE m + 1 \notin S
    <3>1. \A j \in S : j <= m + 1 <=> j <= m
      BY <2>1, <2>2
    <3> QED
      BY <3>1
  <2>3. CASE m + 1 \in S /\ ~ \E i \in S : i <= m
    <3>1. Leads(m + 1, m + 1)
      BY <2>1, <2>3
    <3> QED
      BY <2>1, <2>3, <3>1
  <2>4. CASE m + 1 \in S /\ \E i \in S : i <= m
    <3>1. PICK i \in S : i <= m /\ Leads(i, m)
      BY <2>4
    <3>2. CASE f[i] >= f[m + 1]
      <4>1. Leads(i, m + 1)
        BY <2>1, <2>4, <3>1, <3>2
      <4> QED
        BY <2>1, <3>1, <4>1
    <3>3. CASE f[i] < f[m + 1]
      <4>1. \A j \in S : j <= m => f[m + 1] > f[j]
        BY <2>4, <3>1, <3>3
      <4>2. Leads(m + 1, m + 1)
        BY <2>1, <2>4, <4>1
      <4> QED
        BY <2>1, <2>4, <4>2
    <3> QED
      BY <2>4, <3>2, <3>3
  <2> QED
    BY <2>2, <2>3, <2>4
<1>3. Led \in SUBSET Nat
  OBVIOUS
<1>4. n \in Led
  <2> HIDE DEF Led
  <2> QED
    BY <1>1, <1>2, <1>3, InductionInNat
<1>5. n \in Nat /\ \A j \in S : j <= n
  OBVIOUS
<1>6. PICK i \in S : Leads(i, n)
  BY <1>4, <1>5
<1> QED
  BY <1>5, <1>6

LEMMA Extremes ==
    ASSUME NEW n \in Nat, NEW S \in SUBSET (1..n), S # {}
    PROVE  /\ Max(S) \in S /\ \A j \in S : Max(S) >= j
           /\ Min(S) \in S /\ \A j \in S : Min(S) <= j
<1>1. \E i \in S : \A j \in S : i >= j
  <2> DEFINE f == [i \in S |-> i]
  <2>1. \A i \in S : f[i] \in Int
    OBVIOUS
  <2>2. \E i \in S : \A j \in S : f[i] > f[j] \/ (f[i] = f[j] /\ i <= j)
    <3> HIDE DEF f
    <3> QED
      BY <2>1, LargestExists
  <2> QED
    BY <2>2
<1>2. \E i \in S : \A j \in S : i <= j
  <2> DEFINE f == [i \in S |-> 0]
  <2>1. \A i \in S : f[i] \in Int
    OBVIOUS
  <2>2. \E i \in S : \A j \in S : f[i] > f[j] \/ (f[i] = f[j] /\ i <= j)
    <3> HIDE DEF f
    <3> QED
      BY <2>1, LargestExists
  <2> QED
    BY <2>2
<1> QED
  BY <1>1, <1>2 DEF Max, Min

Apart(s, t) == s.end <= t.start \/ t.end <= s.start

\* Inserting keeps the order of segments that lie apart, and the segments.
LEMMA InsertionKeeps ==
    ASSUME NEW segments \in Seq(SegmentType), InOrder(segments), NEW s \in SegmentType,
           s.start < s.end,
           \A k \in 1..Len(segments) : segments[k].start < segments[k].end /\ Apart(s, segments[k])
    PROVE  LET new == Inserted(segments, s)
           IN /\ new \in Seq(SegmentType) /\ Len(new) = Len(segments) + 1
              /\ InOrder(new)
              /\ \A k \in 1..Len(new) : new[k] = s \/ \E i \in 1..Len(segments) : new[k] = segments[i]
<1> DEFINE n == Len(segments)
           P(p) == \A i \in 1..n : i <= p <=> segments[i].start < s.start
           Before == {i \in 1..n : segments[i].start < s.start}
<1>1. n \in Nat /\ DOMAIN segments = 1..n /\ \A k \in 1..n : segments[k] \in SegmentType
  BY LenProperties, ElementOfSeq
<1>2. /\ s.start \in Int /\ s.end \in Int
      /\ \A k \in 1..n : segments[k].start \in Int /\ segments[k].end \in Int
  BY <1>1 DEF SegmentType
<1>3. \A k, l \in 1..n : k < l => segments[k].start < segments[l].start
  BY <1>2 DEF InOrder
<1>4. \E p \in 0..n : P(p)
  <2>1. CASE Before = {}
    <3>1. P(0)
      BY <1>1, <2>1
    <3> QED
      BY <1>1, <3>1
  <2>2. CASE Before # {}
    <3>1. Max(Before) \in Before /\ \A j \in Before : Max(Before) >= j
      BY <1>1, <2>2, Extremes
    <3> DEFINE p == Max(Before)
    <3> HIDE DEF p
    <3>2. p \in 1..n /\ segments[p].start < s.start /\ \A j \in 1..n : segments[j].start < s.start => j <= p
      BY <3>1 DEF p
    <3>3. P(p)
      BY <1>2, <1>3, <3>2
    <3> QED
      BY <1>1, <3>2, <3>3
  <2> QED
    BY <2>1, <2>2
<1> DEFINE p == CHOOSE p \in 0..n : \A i \in DOMAIN segments : i <= p <=> segments[i].start < s.start
<1>5. p \in 0..n /\ P(p)
  BY <1>1, <1>4
<1> DEFINE left == SubSeq(segments, 1, p)
           right == SubSeq(segments, p + 1, n)
           new == (left \o <<s>>) \o right
<1>6. Inserted(segments, s) = new
  BY DEF Inserted
<1> HIDE DEF p, n
<1>7. p \in Int /\ p + 1 \in Int /\ n \in Int /\ 1 \in Int
  BY <1>1, <1>5
<1>8. /\ left \in Seq(SegmentType) /\ Len(left) = p
      /\ \A k \in 1..p : left[k] = segments[k]
  <2>1. \A i \in 1..p : segments[i] \in SegmentType
    BY <1>1, <1>5
  <2> QED
    BY <1>5, <1>7, <2>1, SubSeqProperties
<1>9. /\ right \in Seq(SegmentType) /\ Len(right) = n - p
      /\ \A k \in 1..(n - p) : right[k] = segments[p + k]
  <2>1. \A i \in (p + 1)..n : segments[i] \in SegmentType
    BY <1>1, <1>5
  <2>2. /\ right \in Seq(SegmentType)
        /\ Len(right) = IF p + 1 <= n THEN n - (p + 1) + 1 ELSE 0
        /\ \A i \in 1..(n - (p + 1) + 1) : right[i] = segments[(p + 1) + i - 1]
    BY <1>7, <2>1, SubSeqProperties
  <2>3. n - (p + 1) + 1 = n - p /\ \A i \in Int : (p + 1) + i - 1 = p + i
    BY <1>7
  <2> QED
    BY <1>1, <1>5, <2>2, <2>3
<1> HIDE DEF left, right
<1>10. /\ left \o <<s>> \in Seq(SegmentType) /\ Len(left \o <<s>>) = p + 1
       /\ \A k \in 1..(p + 1) : (left \o <<s>>)[k] = IF k <= p THEN segments[k] ELSE s
  <2>1. <<s>> \in Seq(SegmentType) /\ Len(<<s>>) = 1 /\ <<s>>[1] = s
    OBVIOUS
  <2>2. /\ left \o <<s>> \in Seq(SegmentType) /\ Len(left \o <<s>>) = Len(left) + Len(<<s>>)
        /\ \A i \in 1..(Len(left) + Len(<<s>>)) : (left \o <<s>>)[i] =
              IF i <= Len(left) THEN left[i] ELSE <<s>>[i - Len(left)]
    BY <1>8, <2>1, ConcatProperties
  <2>3. ASSUME NEW k \in 1..(p + 1) PROVE (left \o <<s>>)[k] = IF k <= p THEN segments[k] ELSE s
    <3>1. CASE k <= p
      BY <1>5, <1>8, <2>1, <2>2, <3>1
    <3>2. CASE k = p + 1
      <4>1. ~(k <= p) /\ k - p = 1
        BY <1>5, <3>2
      <4> QED
        BY <1>8, <2>1, <2>2, <4>1
    <3>3. k <= p \/ k = p + 1
      BY <1>5, <1>7
    <3> QED
      BY <3>1, <3>2, <3>3
  <2> QED
    BY <1>8, <2>1, <2>2, <2>3
<1> DEFINE begin == left \o <<s>>
<1> HIDE DEF begin
<1>11. /\ begin \in Seq(SegmentType) /\ Len(begin) = p + 1
       /\ \A k \in 1..(p + 1) : begin[k] = IF k <= p THEN segments[k] ELSE s
  BY <1>10 DEF begin
<1>12. new = begin \o right
  BY DEF begin
<1> HIDE DEF new
<1>13. /\ new \in Seq(SegmentType) /\ Len(new) = n + 1
       /\ \A k \in 1..(n + 1) : new[k] = IF k <= p THEN segments[k]
                                         ELSE IF k = p + 1 THEN s ELSE segments[k - 1]
  <2>1. /\ new \in Seq(SegmentType) /\ Len(new) = Len(begin) + Len(right)
        /\ \A i \in 1..(Len(begin) + Len(right)) : new[i] =
              IF i <= Len(begin) THEN begin[i] ELSE right[i - Len(begin)]
    BY <1>9, <1>11, <1>12, ConcatProperties
  <2>2. Len(begin) + Len(right) = n + 1
    BY <1>1, <1>5, <1>9, <1>11
  <2>3. ASSUME NEW k \in 1..(n + 1)
        PROVE  new[k] = IF k <= p THEN segments[k] ELSE IF k = p + 1 THEN s ELSE segments[k - 1]
    <3>1. CASE k <= p + 1
      BY <1>5, <1>11, <2>1, <2>2, <3>1
    <3>2. CASE k > p + 1
      <4>1. k - (p + 1) \in 1..(n - p) /\ p + (k - (p + 1)) = k - 1 /\ ~(k <= p) /\ k # p + 1
        BY <1>1, <1>5, <3>2
      <4> QED
        BY <1>9, <1>11, <2>1, <2>2, <3>2, <4>1
    <3> QED
      BY <1>5, <3>1, <3>2
  <2> QED
    BY <2>1, <2>2, <2>3
<1>14. \A k \in 1..n : (k <= p => segments[k].end <= s.start) /\ (k > p => s.end <= segments[k].start)
  BY <1>2, <1>5 DEF Apart, n
<1>15. InOrder(new)
  <2> SUFFICES ASSUME NEW k \in 1..(n + 1), NEW l \in 1..(n + 1), k < l
               PROVE  new[k].end <= new[l].start
    BY <1>13 DEF InOrder
  <2>1. \A i, j \in 1..n : i < j => segments[i].end <= segments[j].start
    BY DEF InOrder, n
  <2>2. CASE l <= p
    BY <1>1, <1>5, <1>13, <2>1, <2>2
  <2>3. CASE l = p + 1
    BY <1>1, <1>5, <1>13, <1>14, <2>3
  <2>4. CASE l > p + 1 /\ k = p + 1
    BY <1>1, <1>5, <1>13, <1>14, <2>4
  <2>5. CASE l > p + 1 /\ k <= p
    <3>1. k \in 1..n /\ l - 1 \in 1..n /\ k < l - 1
      BY <1>1, <1>5, <2>5
    <3>2. new[k] = segments[k] /\ new[l] = segments[l - 1]
      BY <1>5, <1>13, <2>5
    <3> QED
      BY <2>1, <3>1, <3>2
  <2>6. CASE l > p + 1 /\ k > p + 1
    <3>1. k - 1 \in 1..n /\ l - 1 \in 1..n /\ k - 1 < l - 1
      BY <1>1, <1>5, <2>6
    <3>2. new[k] = segments[k - 1] /\ new[l] = segments[l - 1]
      BY <1>5, <1>13, <2>6
    <3> QED
      BY <2>1, <3>1, <3>2
  <2> QED
    BY <1>5, <2>2, <2>3, <2>4, <2>5, <2>6
<1>16. \A k \in 1..(n + 1) : new[k] = s \/ \E i \in 1..n : new[k] = segments[i]
  BY <1>1, <1>5, <1>13
<1> QED
  BY <1>6, <1>13, <1>15, <1>16 DEF n

-------------------------------------------------------------------------------
(* Bundles and spans.                                                         *)

LEMMA BundleShape ==
    ASSUME ThreadInv, NEW b \in Bundles
    PROVE  /\ b.start \in 1..(Len(thread) - 1) /\ b.end = b.start + 2
           /\ b = [start |-> b.start, end |-> b.start + 2]
           /\ thread[b.start].role = "call" /\ thread[b.start + 1].role = "tool"
BY DEF Bundles

LEMMA PairsAreFinite ==
    ASSUME NEW messages, Len(messages) \in Nat
    PROVE  IsFiniteSet({[start |-> i, end |-> i + 2] :
               i \in {j \in 1..(Len(messages) - 1) :
                        messages[j].role = "call" /\ messages[j + 1].role = "tool"}})
<1> DEFINE n == Len(messages)
           Starts == {j \in 1..(n - 1) : messages[j].role = "call" /\ messages[j + 1].role = "tool"}
           Pairs == {[start |-> i, end |-> i + 2] : i \in Starts}
           f == [i \in Starts |-> [start |-> i, end |-> i + 2]]
<1>1. IsFiniteSet(Starts)
  <2>1. 1 \in Int /\ n - 1 \in Int
    OBVIOUS
  <2>2. IsFiniteSet(1..(n - 1))
    BY <2>1, FS_Interval
  <2>3. Starts \in SUBSET (1..(n - 1))
    OBVIOUS
  <2> HIDE DEF Starts
  <2> QED
    BY <2>2, <2>3, FS_Subset
<1>2. f \in Surjection(Starts, Pairs)
  BY DEF Surjection
<1>3. IsFiniteSet(Pairs)
  <2> HIDE DEF Starts, Pairs, f
  <2> QED
    BY <1>1, <1>2, FS_Surjection
<1> QED
  BY <1>3

LEMMA BundlesFinite ==
    ASSUME ThreadInv
    PROVE  /\ IsFiniteSet(Bundles)
           /\ \A b : /\ IsFiniteSet({c \in Bundles : c.start > b.start})
                     /\ Cardinality({c \in Bundles : c.start > b.start}) \in Nat
<1>3. IsFiniteSet(Bundles)
  BY PairsAreFinite DEF ThreadInv, Bundles
<1>4. ASSUME NEW b
      PROVE  /\ IsFiniteSet({c \in Bundles : c.start > b.start})
             /\ Cardinality({c \in Bundles : c.start > b.start}) \in Nat
  <2>1. {c \in Bundles : c.start > b.start} \in SUBSET Bundles
    OBVIOUS
  <2>2. IsFiniteSet({c \in Bundles : c.start > b.start})
    BY <1>3, <2>1, FS_Subset
  <2> QED
    BY <2>2, FS_CardinalityType
<1> QED
  BY <1>3, <1>4

LEMMA SpanShape ==
    ASSUME ThreadInv, NEW B \in SUBSET Bundles, NEW s, Complete(s, B),
           s.start \in Int, s.end \in Int
    PROVE  /\ s.start \in 2..Len(thread) /\ s.end \in 2..(Len(thread) + 1) /\ s.start < s.end
           /\ thread[s.start].role = "call" /\ thread[s.end - 1].role = "tool"
           /\ \A i \in s.start..(s.end - 1) : \E b \in B : b.start <= i /\ i < b.end
<1>1. s.start < s.end /\ \A i \in s.start..(s.end - 1) : \E b \in B : b.start <= i /\ i < b.end
  BY DEF Complete
<1>2. PICK a \in B : a.start <= s.start /\ s.start <= a.start
  <2>1. s.start \in s.start..(s.end - 1)
    BY <1>1
  <2> QED
    BY <2>1 DEF Complete
<1>3. PICK z \in B : z.end <= s.end /\ s.end - 1 < z.end
  <2>1. s.end - 1 \in s.start..(s.end - 1)
    BY <1>1
  <2> QED
    BY <2>1 DEF Complete
<1>4. /\ a.start \in 1..(Len(thread) - 1) /\ thread[a.start].role = "call"
      /\ z.start \in 1..(Len(thread) - 1) /\ z.end = z.start + 2
      /\ thread[z.start + 1].role = "tool"
  BY BundleShape
<1>5. Len(thread) \in Nat /\ thread[1].role # "call"
  BY DEF ThreadInv
<1>6. s.start = a.start /\ s.end = z.end /\ s.end - 1 = z.start + 1
  BY <1>2, <1>3, <1>4, <1>5
<1>7. s.start # 1
  BY <1>4, <1>5, <1>6
<1> QED
  BY <1>1, <1>4, <1>5, <1>6, <1>7

\* What may be archived lies apart from what is archived.
LEMMA FreeSpan ==
    ASSUME ThreadInv, NEW segments, SegmentsInv(segments), NEW s \in Spans(Free(segments))
    PROVE  /\ s = [start |-> s.start, end |-> s.end]
           /\ s.start \in 2..Len(thread) /\ s.end \in 2..(Len(thread) + 1) /\ s.start < s.end
           /\ Complete(s, Free(segments)) /\ Complete(s, OldBundles)
           /\ \A k \in 1..Len(segments) : Apart(s, segments[k])
<1>1. PICK a \in Free(segments), b \in Free(segments) :
          s = [start |-> a.start, end |-> b.end] /\ Complete(s, Free(segments))
  BY DEF Spans
<1>2. Free(segments) \subseteq OldBundles /\ OldBundles \subseteq Bundles
  BY DEF Free, OldBundles
<1>3. s.start \in Int /\ s.end \in Int /\ s = [start |-> s.start, end |-> s.end]
  BY <1>1, <1>2, BundleShape
<1>4. Complete(s, OldBundles)
  BY <1>1, <1>2 DEF Complete
<1>5. /\ s.start \in 2..Len(thread) /\ s.end \in 2..(Len(thread) + 1) /\ s.start < s.end
      /\ \A i \in s.start..(s.end - 1) : \E c \in Free(segments) : c.start <= i /\ i < c.end
  BY <1>1, <1>2, <1>3, SpanShape
<1>6. ASSUME NEW k \in 1..Len(segments), ~Apart(s, segments[k]) PROVE FALSE
  <2> DEFINE t == segments[k]
  <2>1. t \in SegmentType /\ DOMAIN segments = 1..Len(segments) /\ t.start < t.end
    BY LenProperties, ElementOfSeq DEF SegmentsInv, Sound, Complete
  <2>2. t.start \in Int /\ t.end \in Int
    BY <2>1 DEF SegmentType
  <2> HIDE DEF t
  <2>3. t.start < s.end /\ s.start < t.end
    BY <1>3, <1>6, <2>2 DEF Apart, t
  <2> DEFINE i == IF s.start < t.start THEN t.start ELSE s.start
  <2>4. i \in s.start..(s.end - 1) /\ t.start <= i /\ i < t.end
    BY <1>3, <1>5, <2>1, <2>2, <2>3
  <2> HIDE DEF i
  <2>5. PICK c \in Free(segments) : c.start <= i /\ i < c.end
    BY <1>5, <2>4
  <2>6. c.start \in Int /\ c.end \in Int /\ i \in Int
    BY <1>2, <2>4, BundleShape
  <2>7. c.start < t.end /\ t.start < c.end
    BY <2>2, <2>4, <2>5, <2>6
  <2>8. ~Overlap(c, segments[k])
    BY <2>1, <2>5 DEF Free
  <2> QED
    BY <2>7, <2>8 DEF Overlap, t
<1> QED
  BY <1>1, <1>3, <1>4, <1>5, <1>6

\* Two runs that cannot be made longer are the same or lie apart.
LEMMA RunsApart ==
    ASSUME ThreadInv, SegmentsInv(memory), NEW s \in FreeRuns, NEW t \in FreeRuns
    PROVE  s = t \/ Apart(s, t)
<1> SUFFICES ASSUME ~Apart(s, t) PROVE s = t
  OBVIOUS
<1> DEFINE spans == Spans(Free(memory))
<1>1. s \in spans /\ t \in spans
  BY DEF FreeRuns
<1>2. \A r \in spans : s # r => ~(r.start <= s.start /\ s.end <= r.end)
  BY DEF FreeRuns
<1>3. \A r \in spans : t # r => ~(r.start <= t.start /\ t.end <= r.end)
  BY DEF FreeRuns
<1>4. /\ s.start \in Int /\ s.end \in Int /\ s.start < s.end /\ Complete(s, Free(memory))
      /\ t.start \in Int /\ t.end \in Int /\ t.start < t.end /\ Complete(t, Free(memory))
  <2>1. \A r \in spans : /\ r.start \in Int /\ r.end \in Int /\ r.start < r.end
                         /\ Complete(r, Free(memory))
    BY FreeSpan
  <2> QED
    BY <1>1, <2>1
<1>5. s.start < t.end /\ t.start < s.end
  BY <1>4 DEF Apart
<1> DEFINE from == IF s.start <= t.start THEN s.start ELSE t.start
           to == IF s.end <= t.end THEN t.end ELSE s.end
           u == [start |-> from, end |-> to]
<1>6. u \in {[start |-> p[1].start, end |-> p[2].end] : p \in Free(memory) \X Free(memory)}
  <2>1. PICK a1 \in Free(memory), b1 \in Free(memory) : s = [start |-> a1.start, end |-> b1.end]
    BY <1>1 DEF Spans
  <2>2. PICK a2 \in Free(memory), b2 \in Free(memory) : t = [start |-> a2.start, end |-> b2.end]
    BY <1>1 DEF Spans
  <2>3. s.start = a1.start /\ s.end = b1.end /\ t.start = a2.start /\ t.end = b2.end
    BY <2>1, <2>2
  <2>4. (\E a \in Free(memory) : from = a.start) /\ (\E b \in Free(memory) : to = b.end)
    BY <2>3
  <2>5. PICK a \in Free(memory) : from = a.start
    BY <2>4
  <2>6. PICK b \in Free(memory) : to = b.end
    BY <2>4
  <2> HIDE DEF from, to
  <2>7. u = [start |-> a.start, end |-> b.end]
    BY <2>5, <2>6
  <2> DEFINE p == <<a, b>>
  <2>8. p \in Free(memory) \X Free(memory) /\ p[1] = a /\ p[2] = b
    OBVIOUS
  <2> HIDE DEF u, p
  <2> QED
    BY <2>7, <2>8
<1>7. Complete(u, Free(memory))
  <2>1. u.start = from /\ u.end = to /\ from < to
    BY <1>4
  <2>2. ASSUME NEW i \in from..(to - 1)
        PROVE  \E b \in Free(memory) : b.start <= i /\ i < b.end /\ from <= b.start /\ b.end <= to
    <3>0. Free(memory) \subseteq Bundles
      BY DEF Free, OldBundles
    <3>1. \A b \in Free(memory) : b.start \in Int /\ b.end \in Int
      BY <3>0, BundleShape
    <3>2. i \in s.start..(s.end - 1) \/ i \in t.start..(t.end - 1)
      BY <1>4, <1>5
    <3>3. CASE i \in s.start..(s.end - 1)
      <4>1. PICK b \in Free(memory) : b.start <= i /\ i < b.end /\ s.start <= b.start /\ b.end <= s.end
        BY <1>4, <3>3 DEF Complete
      <4> QED
        BY <1>4, <3>1, <4>1
    <3>4. CASE i \in t.start..(t.end - 1)
      <4>1. PICK b \in Free(memory) : b.start <= i /\ i < b.end /\ t.start <= b.start /\ b.end <= t.end
        BY <1>4, <3>4 DEF Complete
      <4> QED
        BY <1>4, <3>1, <4>1
    <3> QED
      BY <3>2, <3>3, <3>4
  <2> HIDE DEF from, to
  <2> QED
    BY <2>1, <2>2 DEF Complete
<1>8. u \in spans
  <2> HIDE DEF u
  <2> QED
    BY <1>6, <1>7 DEF Spans
<1>9. u.start <= s.start /\ s.end <= u.end /\ u.start <= t.start /\ t.end <= u.end
  BY <1>4
<1> HIDE DEF u, spans
<1> QED
  BY <1>2, <1>3, <1>8, <1>9

\* A longer thread has the bundles it had, and what was old stays old.
LEMMA ThreadGrows ==
    ASSUME ThreadInv, ThreadInv', Len(thread) <= Len(thread'),
           \A i \in 1..Len(thread) : thread'[i] = thread[i]
    PROVE  /\ OldBundles \subseteq OldBundles'
           /\ \A s : Sound(s) => Sound(s)'
<1>1. Bundles \subseteq Bundles'
  <2> SUFFICES ASSUME NEW b \in Bundles PROVE b \in Bundles'
    OBVIOUS
  <2>1. /\ b.start \in 1..(Len(thread) - 1) /\ b = [start |-> b.start, end |-> b.start + 2]
        /\ thread[b.start].role = "call" /\ thread[b.start + 1].role = "tool"
    BY BundleShape
  <2>2. Len(thread) \in Nat /\ Len(thread') \in Nat
    BY DEF ThreadInv
  <2>3. /\ b.start \in 1..(Len(thread') - 1)
        /\ thread'[b.start] = thread[b.start] /\ thread'[b.start + 1] = thread[b.start + 1]
    BY <2>1, <2>2
  <2> QED
    BY <2>1, <2>3 DEF Bundles
<1>2. OldBundles \subseteq OldBundles'
  <2> SUFFICES ASSUME NEW b \in OldBundles PROVE b \in OldBundles'
    OBVIOUS
  <2> DEFINE later == {c \in Bundles : c.start > b.start}
             laterNow == {c \in Bundles' : c.start > b.start}
  <2>1. b \in Bundles /\ Cardinality(later) >= 2 /\ Cardinality(later) \in Nat
    BY BundlesFinite DEF OldBundles
  <2>2. later \in SUBSET laterNow
    BY <1>1
  <2>3. IsFiniteSet(laterNow) /\ Cardinality(laterNow) \in Nat
    <3> DEFINE bundles == Bundles'
               some == {c \in bundles : c.start > b.start}
    <3>1. IsFiniteSet(bundles)
      <4> DEFINE messages == thread'
      <4>1. Len(messages) \in Nat
        BY DEF ThreadInv
      <4>2. bundles = {[start |-> i, end |-> i + 2] :
               i \in {j \in 1..(Len(messages) - 1) :
                        messages[j].role = "call" /\ messages[j + 1].role = "tool"}}
        BY DEF Bundles
      <4> HIDE DEF messages, bundles
      <4> QED
        BY <4>1, <4>2, PairsAreFinite
    <3> HIDE DEF bundles
    <3>2. some \in SUBSET bundles
      OBVIOUS
    <3>3. IsFiniteSet(some)
      BY <3>1, <3>2, FS_Subset
    <3>4. Cardinality(some) \in Nat
      BY <3>3, FS_CardinalityType
    <3> QED
      BY <3>3, <3>4 DEF bundles
  <2> HIDE DEF later, laterNow
  <2>4. Cardinality(later) <= Cardinality(laterNow)
    BY <2>2, <2>3, FS_Subset
  <2>5. Cardinality(laterNow) >= 2
    BY <2>1, <2>3, <2>4
  <2> QED
    BY <1>1, <2>1, <2>5 DEF OldBundles, laterNow
<1>3. ASSUME NEW s, Sound(s) PROVE Sound(s)'
  <2>1. Len(thread) \in Nat /\ Len(thread') \in Nat /\ s.end \in Nat
    BY <1>3 DEF ThreadInv, Sound, SegmentType
  <2>2. Complete(s, OldBundles)'
    BY <1>2, <1>3 DEF Sound, Complete
  <2> QED
    BY <1>3, <2>1, <2>2 DEF Sound
<1> QED
  BY <1>2, <1>3

-------------------------------------------------------------------------------
(* New segments: the paid pass and mechanical_fit.                            *)

LEMMA SourceSize ==
    ASSUME ThreadInv, NEW s, s.start \in 2..Len(thread), s.end \in 2..(Len(thread) + 1),
           s.start < s.end
    PROVE  /\ Size(Source(s)) \in Nat /\ SummaryLimit(s) \in Nat
           /\ Size(Source(s)) >= 2 => SummaryLimit(s) > 0
<1> DEFINE part == SubSeq(thread, s.start, s.end - 1)
<1>1. Len(thread) \in Nat /\ \A i \in 1..Len(thread) : thread[i] \in MessageType
  BY LenProperties, ElementOfSeq DEF ThreadInv
<1>2. s.start \in Int /\ s.end - 1 \in Int /\ \A i \in s.start..(s.end - 1) : thread[i] \in MessageType
  BY <1>1
<1>3. part \in Seq(MessageType)
  BY <1>2, SubSeqProperties
<1> HIDE DEF part
<1>4. Len(part) \in Nat /\ \A k \in 1..Len(part) : part[k].size \in Nat
  <2>1. Len(part) \in Nat /\ \A k \in 1..Len(part) : part[k] \in MessageType
    BY <1>3, LenProperties, ElementOfSeq
  <2> QED
    BY <2>1 DEF MessageType
<1>5. Size(part) \in Nat
  BY <1>4, SizeIsNat
<1>6. Source(s) = part
  BY DEF Source, part
<1> QED
  BY <1>5, <1>6 DEF SummaryLimit

\* A span that lies apart from the segments joins them.
Joined(new, segments, s) ==
    /\ SegmentsInv(new)
    /\ \A k \in 1..Len(new) : \/ new[k].start = s.start /\ new[k].end = s.end
                              \/ \E l \in 1..Len(segments) : new[k] = segments[l]

LEMMA SegmentJoins ==
    ASSUME ThreadInv, NEW segments, SegmentsInv(segments), Len(segments) < MaxSegments,
           NEW s, s.start \in 2..Len(thread), s.end \in 2..(Len(thread) + 1), s.start < s.end,
           Complete(s, OldBundles), \A k \in 1..Len(segments) : Apart(s, segments[k]),
           NEW size \in Nat \ {0}
    PROVE  Joined(Inserted(segments, Segment(s, size)), segments, s)
<1> DEFINE t == Segment(s, size)
           new == Inserted(segments, t)
<1>1. Len(thread) \in Nat /\ MaxSegments \in Nat
  BY CompactionAssumption DEF ThreadInv
<1>2. t \in SegmentType /\ t.start = s.start /\ t.end = s.end /\ t.summary = size
  BY <1>1 DEF Segment, SegmentType
<1>3. Sound(t)
  BY <1>1, <1>2 DEF Sound, Complete
<1>4. \A k \in 1..Len(segments) :
        segments[k].start < segments[k].end /\ Apart(t, segments[k])
  BY <1>2 DEF Apart, SegmentsInv, Sound, Complete
<1> HIDE DEF t
<1>5. segments \in Seq(SegmentType) /\ InOrder(segments) /\ Len(segments) \in Nat
  BY LenProperties DEF SegmentsInv
<1>6. t.start < t.end
  BY <1>2
<1>7. /\ new \in Seq(SegmentType) /\ Len(new) = Len(segments) + 1 /\ InOrder(new)
      /\ \A k \in 1..Len(new) : new[k] = t \/ \E i \in 1..Len(segments) : new[k] = segments[i]
  BY <1>2, <1>4, <1>5, <1>6, InsertionKeeps
<1> HIDE DEF new
<1>8. \A k \in 1..Len(new) : Sound(new[k])
  BY <1>3, <1>7 DEF SegmentsInv
<1>9. SegmentsInv(new)
  BY <1>1, <1>5, <1>7, <1>8 DEF SegmentsInv
<1> QED
  BY <1>2, <1>7, <1>9 DEF Joined, new, t

\* A plan of the paid pass becomes a segment the next step accepts.
LEMMA PlanJoins ==
    ASSUME ThreadInv, SegmentsInv(memory), NEW s \in Plans, NEW size \in 1..SummaryLimit(s)
    PROVE  SegmentsInv(Inserted(memory, Segment(s, size)))
<1>1. s \in Spans(Free(memory)) /\ ~(Len(memory) >= MaxSegments)
  BY DEF Plans
<1>2. Len(memory) \in Nat /\ MaxSegments \in Nat
  BY CompactionAssumption, LenProperties DEF SegmentsInv
<1>3. /\ s.start \in 2..Len(thread) /\ s.end \in 2..(Len(thread) + 1) /\ s.start < s.end
      /\ Complete(s, OldBundles)
      /\ \A k \in 1..Len(memory) : Apart(s, memory[k])
  BY <1>1, FreeSpan
<1>4. size \in Nat \ {0}
  BY <1>3, SourceSize
<1>5. Len(memory) < MaxSegments
  BY <1>1, <1>2
<1> QED
  BY <1>3, <1>4, <1>5, SegmentJoins DEF Joined

\* Where a segment can lie once the runs that start at i or before are archived.
SegmentPlaces(t, i) ==
    \/ \E k \in 1..Len(memory) : t.start = memory[k].start /\ t.end = memory[k].end
    \/ \E r \in FreeRuns : r.start <= i /\ t.start = r.start /\ t.end = r.end
Saving == [segments : Seq(SegmentType), saved : Int]
ArchivedTo(i) ==
    {acc \in Saving : /\ SegmentsInv(acc.segments)
                      /\ \A k \in 1..Len(acc.segments) : SegmentPlaces(acc.segments[k], i)}
Archiving(n) == {acc \in Saving : SegmentsInv(acc.segments) /\ Len(acc.segments) = n}

LEMMA PlacesGrow ==
    ASSUME ThreadInv, SegmentsInv(memory), NEW t, NEW i \in Int, SegmentPlaces(t, i - 1)
    PROVE  SegmentPlaces(t, i)
<1>1. \A r \in FreeRuns : r.start <= i - 1 => r.start <= i
  <2>1. \A r \in FreeRuns : r.start \in Int
    BY FreeSpan DEF FreeRuns
  <2> QED
    BY <2>1
<1> QED
  BY <1>1 DEF SegmentPlaces

LEMMA RunArchived ==
    ASSUME ThreadInv, SegmentsInv(memory), NEW i \in Int, NEW run \in FreeRuns, run.start = i,
           NEW acc \in ArchivedTo(i - 1), NEW need
    PROVE  WithRun(acc, run, need) \in ArchivedTo(i)
<1>1. /\ run \in Spans(Free(memory))
      /\ run.start \in 2..Len(thread) /\ run.end \in 2..(Len(thread) + 1) /\ run.start < run.end
      /\ Complete(run, OldBundles)
      /\ \A k \in 1..Len(memory) : Apart(run, memory[k])
  BY FreeSpan DEF FreeRuns
<1>2. /\ acc \in Saving /\ SegmentsInv(acc.segments)
      /\ \A k \in 1..Len(acc.segments) : SegmentPlaces(acc.segments[k], i - 1)
  BY DEF ArchivedTo
<1>3. \A k \in 1..Len(acc.segments) : SegmentPlaces(acc.segments[k], i)
  BY <1>2, PlacesGrow
<1>4. CASE acc.saved >= need \/ Len(acc.segments) >= MaxSegments
           \/ Size(Source(run)) < MechanicalMin
  BY <1>2, <1>3, <1>4 DEF WithRun, ArchivedTo
<1>5. CASE ~(acc.saved >= need \/ Len(acc.segments) >= MaxSegments
             \/ Size(Source(run)) < MechanicalMin)
  <2> DEFINE new == Inserted(acc.segments, Segment(run, SummaryLimit(run)))
  <2>1. Size(Source(run)) \in Nat /\ SummaryLimit(run) \in Nat
        /\ (Size(Source(run)) >= 2 => SummaryLimit(run) > 0)
    BY <1>1, SourceSize
  <2>2. SummaryLimit(run) \in Nat \ {0} /\ MaxSegments \in Nat
    BY <1>5, <2>1, CompactionAssumption
  <2>3. ASSUME NEW k \in 1..Len(acc.segments) PROVE Apart(run, acc.segments[k])
    <3> DEFINE t == acc.segments[k]
    <3>1. SegmentPlaces(t, i - 1)
      BY <1>2
    <3>2. CASE \E l \in 1..Len(memory) : t.start = memory[l].start /\ t.end = memory[l].end
      BY <1>1, <3>2 DEF Apart
    <3>3. CASE \E r \in FreeRuns : r.start <= i - 1 /\ t.start = r.start /\ t.end = r.end
      <4>1. PICK r \in FreeRuns : r.start <= i - 1 /\ t.start = r.start /\ t.end = r.end
        BY <3>3
      <4>2. r.start \in Int
        BY FreeSpan DEF FreeRuns
      <4>3. run # r
        BY <4>1, <4>2
      <4>4. Apart(run, r)
        BY <4>3, RunsApart
      <4> QED
        BY <4>1, <4>4 DEF Apart
    <3> QED
      BY <3>1, <3>2, <3>3 DEF SegmentPlaces
  <2>4. Len(acc.segments) < MaxSegments
    <3>1. Len(acc.segments) \in Nat
      BY <1>2, LenProperties DEF SegmentsInv
    <3> QED
      BY <1>5, <2>2, <3>1
  <2>5. /\ SegmentsInv(new)
        /\ \A k \in 1..Len(new) : \/ new[k].start = run.start /\ new[k].end = run.end
                                  \/ \E l \in 1..Len(acc.segments) : new[k] = acc.segments[l]
    <3> DEFINE segments == acc.segments
               size == SummaryLimit(run)
    <3>1. /\ SegmentsInv(segments) /\ Len(segments) < MaxSegments /\ size \in Nat \ {0}
          /\ \A k \in 1..Len(segments) : Apart(run, segments[k])
      BY <1>2, <2>2, <2>3, <2>4
    <3> HIDE DEF segments, size
    <3>2. Joined(Inserted(segments, Segment(run, size)), segments, run)
      BY <1>1, <3>1, SegmentJoins
    <3> QED
      BY <3>2 DEF Joined, segments, size
  <2> HIDE DEF new
  <2>6. \A k \in 1..Len(new) : SegmentPlaces(new[k], i)
    <3>1. \A t : t.start = run.start /\ t.end = run.end => SegmentPlaces(t, i)
      <4>1. run.start <= i
        OBVIOUS
      <4> QED
        BY <4>1 DEF SegmentPlaces
    <3> QED
      BY <1>3, <2>5, <3>1
  <2>7. acc.saved \in Int
    BY <1>2 DEF Saving
  <2>8. new \in Seq(SegmentType)
    BY <2>5 DEF SegmentsInv
  <2> DEFINE result == [segments |-> new,
                        saved |-> acc.saved + Size(Source(run)) - SummaryLimit(run)]
  <2>9. result \in Saving /\ result.segments = new
    BY <2>1, <2>7, <2>8 DEF Saving
  <2>10. WithRun(acc, run, need) = result
    BY <1>5 DEF WithRun, new
  <2> HIDE DEF result
  <2> QED
    BY <2>5, <2>6, <2>9, <2>10 DEF ArchivedTo
<1> QED
  BY <1>4, <1>5

LEMMA SummaryShortened ==
    ASSUME NEW n \in Nat, NEW i \in 1..n, NEW acc \in Archiving(n), NEW need
    PROVE  Shortened(acc, i, need) \in Archiving(n)
<1> DEFINE segs == acc.segments
           size == segs[i].summary
<1>1. acc \in Saving /\ SegmentsInv(segs) /\ Len(segs) = n /\ acc.saved \in Int
  BY DEF Archiving, Saving
<1>2. segs \in Seq(SegmentType) /\ segs[i] \in SegmentType /\ size \in Nat /\ ClippedSummary \in Nat \ {0}
  <2>1. segs \in Seq(SegmentType) /\ i \in 1..Len(segs)
    BY <1>1 DEF SegmentsInv
  <2> HIDE DEF segs
  <2>2. segs[i] \in SegmentType
    BY <2>1, ElementOfSeq
  <2>3. ClippedSummary \in Nat \ {0}
    BY CompactionAssumption
  <2> QED
    BY <2>1, <2>2, <2>3 DEF SegmentType
<1>3. CASE acc.saved >= need \/ size <= ClippedSummary
  BY <1>3 DEF Shortened
<1>4. CASE ~(acc.saved >= need \/ size <= ClippedSummary)
  <2> DEFINE e == [segs[i] EXCEPT !.summary = ClippedSummary]
             new == [segs EXCEPT ![i] = e]
             result == [segments |-> new, saved |-> acc.saved + size - ClippedSummary]
  <2>1. Shortened(acc, i, need) = result
    BY <1>4 DEF Shortened
  <2>2. e \in SegmentType /\ e.start = segs[i].start /\ e.end = segs[i].end
        /\ e.summary = ClippedSummary
    BY <1>2 DEF SegmentType
  <2> HIDE DEF e
  <2>3. i \in 1..Len(segs)
    BY <1>1
  <2>4. /\ new \in Seq(SegmentType) /\ Len(new) = n
        /\ \A k \in 1..n : new[k] = IF k = i THEN e ELSE segs[k]
    <3> HIDE DEF segs
    <3> QED
      BY <1>1, <1>2, <2>2, <2>3, ExceptSeq
  <2> HIDE DEF new
  <2>5. \A k \in 1..n : new[k].start = segs[k].start /\ new[k].end = segs[k].end
                        /\ new[k].summary > 0
    BY <1>1, <1>2, <2>2, <2>4 DEF SegmentsInv, Sound
  <2>6. \A k \in 1..n : new[k] \in SegmentType /\ Sound(segs[k])
    BY <1>1, <2>4, ElementOfSeq DEF SegmentsInv
  <2>7. \A k \in 1..n : Sound(new[k])
    BY <2>5, <2>6 DEF Sound, Complete
  <2>8. SegmentsInv(new)
    BY <1>1, <2>4, <2>5, <2>7 DEF SegmentsInv, InOrder
  <2>9. result \in Saving
    BY <1>1, <1>2, <2>4 DEF Saving
  <2> QED
    BY <2>1, <2>4, <2>8, <2>9 DEF Archiving
<1> QED
  BY <1>3, <1>4

LEMMA RunsArchived ==
    ASSUME ThreadInv, SegmentsInv(memory), NEW need
    PROVE  LET archived[i \in 0..Len(thread)] ==
                   IF i = 0 THEN [segments |-> memory, saved |-> 0]
                   ELSE IF \E run \in FreeRuns : run.start = i
                        THEN WithRun(archived[i - 1], CHOOSE run \in FreeRuns : run.start = i, need)
                        ELSE archived[i - 1]
           IN archived[Len(thread)] \in ArchivedTo(Len(thread))
<1> DEFINE n == Len(thread)
           x == [segments |-> memory, saved |-> 0]
           next(y, i) == IF \E run \in FreeRuns : run.start = i
                         THEN WithRun(y, CHOOSE run \in FreeRuns : run.start = i, need)
                         ELSE y
           P == [k \in 0..n |-> ArchivedTo(k)]
           step == [k \in 1..n |-> [y \in Saving |-> next(y, k)]]
<1>1. n \in Nat
  BY DEF ThreadInv
<1>2. x \in ArchivedTo(0)
  <2>1. memory \in Seq(SegmentType)
    BY DEF SegmentsInv
  <2>2. x \in Saving /\ x.segments = memory
    BY <2>1 DEF Saving
  <2>3. \A k \in 1..Len(memory) : SegmentPlaces(memory[k], 0)
    BY DEF SegmentPlaces
  <2> HIDE DEF x
  <2> QED
    BY <2>2, <2>3 DEF ArchivedTo
<1>3. ASSUME NEW k \in 1..n, NEW y \in ArchivedTo(k - 1) PROVE next(y, k) \in ArchivedTo(k)
  <2>1. CASE \E run \in FreeRuns : run.start = k
    <3> DEFINE run == CHOOSE run \in FreeRuns : run.start = k
    <3>1. run \in FreeRuns /\ run.start = k
      BY <2>1
    <3> HIDE DEF run
    <3>2. k \in Int
      OBVIOUS
    <3>3. WithRun(y, run, need) \in ArchivedTo(k)
      BY <3>1, <3>2, RunArchived
    <3> QED
      BY <2>1, <3>3 DEF run
  <2>2. CASE ~ \E run \in FreeRuns : run.start = k
    <3>1. \A j \in 1..Len(y.segments) : SegmentPlaces(y.segments[j], k)
      BY PlacesGrow DEF ArchivedTo
    <3> QED
      BY <2>2, <3>1 DEF ArchivedTo
  <2> QED
    BY <2>1, <2>2
<1>4. \A k : ArchivedTo(k) \subseteq Saving
  BY DEF ArchivedTo
<1> HIDE DEF n, next, x
<1>5. PICK g : Advancing(g, P, n, x, step)
  <2>1. x \in P[0]
    BY <1>1, <1>2
  <2>2. \A k \in 1..n : \A y \in P[k - 1] : step[k][y] \in P[k]
    <3> SUFFICES ASSUME NEW k \in 1..n, NEW y \in P[k - 1] PROVE step[k][y] \in P[k]
      OBVIOUS
    <3>1. y \in ArchivedTo(k - 1) /\ y \in Saving
      BY <1>1, <1>4
    <3>2. step[k][y] = next(y, k) /\ P[k] = ArchivedTo(k)
      BY <1>1, <3>1
    <3> QED
      BY <1>3, <3>1, <3>2
  <2> HIDE DEF P, step
  <2> QED
    BY <1>1, <2>1, <2>2, ValuesAdvance
<1>6. \A k \in 0..n : g[k] \in ArchivedTo(k) /\ g[k] \in Saving
  BY <1>4, <1>5 DEF Advancing
<1>7. \A k \in 1..n : g[k] = next(g[k - 1], k)
  <2> SUFFICES ASSUME NEW k \in 1..n PROVE g[k] = next(g[k - 1], k)
    OBVIOUS
  <2>1. k - 1 \in 0..n
    BY <1>1
  <2>2. g[k - 1] \in Saving
    BY <1>6, <2>1
  <2> QED
    BY <1>5, <2>2 DEF Advancing
<1>8. g = [k \in 0..n |-> IF k = 0 THEN x ELSE next(g[k - 1], k)]
  <2> HIDE DEF P, step
  <2>1. g = [k \in 0..n |-> g[k]]
    BY <1>5 DEF Advancing
  <2>2. g[0] = x
    BY <1>5 DEF Advancing
  <2>3. \A k \in 0..n : k = 0 \/ k \in 1..n
    BY <1>1
  <2>4. \A k \in 0..n : g[k] = IF k = 0 THEN x ELSE next(g[k - 1], k)
    BY <1>7, <2>2, <2>3
  <2> QED
    BY <2>1, <2>4
<1> DEFINE archived == CHOOSE h : h = [k \in 0..n |-> IF k = 0 THEN x ELSE next(h[k - 1], k)]
<1>9. archived = [k \in 0..n |-> IF k = 0 THEN x ELSE next(archived[k - 1], k)]
  BY <1>8
<1> HIDE DEF archived
<1>10. \A k \in 0..n : archived[k] \in ArchivedTo(k)
  <2>1. archived[0] \in P[0]
    BY <1>1, <1>2, <1>9
  <2>2. ASSUME NEW k \in 1..n, archived[k - 1] \in P[k - 1] PROVE archived[k] \in P[k]
    <3>1. archived[k - 1] \in ArchivedTo(k - 1) /\ P[k] = ArchivedTo(k)
      BY <1>1, <2>2
    <3>2. archived[k] = next(archived[k - 1], k)
      BY <1>1, <1>9
    <3> QED
      BY <1>3, <3>1, <3>2
  <2>3. \A k \in 0..n : archived[k] \in P[k]
    <3> HIDE DEF P
    <3> QED
      BY <1>1, <2>1, <2>2, ValuesMoveOn
  <2> QED
    BY <2>3
<1> QED
  BY <1>1, <1>10 DEF archived, x, next, n

LEMMA SummariesShortened ==
    ASSUME NEW all \in Saving, SegmentsInv(all.segments), NEW need
    PROVE  LET shortened[i \in 0..Len(all.segments)] ==
                   IF i = 0 THEN all ELSE Shortened(shortened[i - 1], i, need)
           IN SegmentsInv(shortened[Len(all.segments)].segments)
<1> DEFINE n == Len(all.segments)
           A == Archiving(n)
           step == [k \in 1..n |-> [y \in A |-> Shortened(y, k, need)]]
<1>1. n \in Nat
  BY LenProperties DEF SegmentsInv
<1>2. all \in A
  BY DEF Archiving
<1>3. \A y \in A : SegmentsInv(y.segments)
  BY DEF Archiving
<1> HIDE DEF n
<1>4. \A k \in 1..n, y \in A : Shortened(y, k, need) \in A
  BY <1>1, SummaryShortened
<1> HIDE DEF A
<1>5. step \in StepsIn(A, n)
  BY <1>4 DEF StepsIn
<1>6. PICK g : Computed(g, A, n, all, step)
  <2> HIDE DEF step
  <2> QED
    BY <1>1, <1>2, <1>5, RunningValuesExist
<1>7. g \in [0..n -> A] /\ g[0] = all /\ \A k \in 1..n : g[k] = step[k][g[k - 1]]
  BY <1>6 DEF Computed
<1>8. g = [k \in 0..n |-> IF k = 0 THEN all ELSE Shortened(g[k - 1], k, need)]
  <2>1. \A k \in 1..n : g[k - 1] \in A
    BY <1>1, <1>7
  <2>2. \A k \in 1..n : g[k] = Shortened(g[k - 1], k, need)
    BY <1>7, <2>1
  <2> QED
    BY <1>1, <1>7, <2>2
<1> DEFINE shortened == CHOOSE h : h = [k \in 0..n |-> IF k = 0 THEN all ELSE Shortened(h[k - 1], k, need)]
<1>9. shortened = [k \in 0..n |-> IF k = 0 THEN all ELSE Shortened(shortened[k - 1], k, need)]
  BY <1>8
<1> HIDE DEF shortened
<1>10. shortened[0] \in A
  BY <1>1, <1>2, <1>9
<1>11. ASSUME NEW k \in 1..n, shortened[k - 1] \in A PROVE shortened[k] \in A
  BY <1>1, <1>4, <1>9, <1>11
<1>12. \A k \in 0..n : shortened[k] \in A
  BY <1>1, <1>10, <1>11, RunningStays
<1> QED
  <2>1. SegmentsInv(shortened[n].segments)
    <3>1. n \in 0..n
      BY <1>1
    <3> QED
      BY <1>3, <1>12, <3>1
  <2> QED
    BY <2>1 DEF shortened, n

LEMMA MechanicalFitSound ==
    ASSUME ThreadInv, SegmentsInv(memory), NEW need
    PROVE  SegmentsInv(MechanicalFit(need))
<1> DEFINE archived == CHOOSE h : h = [i \in 0..Len(thread) |->
                IF i = 0 THEN [segments |-> memory, saved |-> 0]
                ELSE IF \E run \in FreeRuns : run.start = i
                     THEN WithRun(h[i - 1], CHOOSE run \in FreeRuns : run.start = i, need)
                     ELSE h[i - 1]]
           all == archived[Len(thread)]
           shortened == CHOOSE h : h = [i \in 0..Len(all.segments) |->
                IF i = 0 THEN all ELSE Shortened(h[i - 1], i, need)]
<1>1. all \in ArchivedTo(Len(thread))
  BY RunsArchived
<1>2. MechanicalFit(need) = shortened[Len(all.segments)].segments
  BY DEF MechanicalFit
<1> HIDE DEF all
<1>3. all \in Saving /\ SegmentsInv(all.segments)
  BY <1>1 DEF ArchivedTo
<1>4. SegmentsInv(shortened[Len(all.segments)].segments)
  BY <1>3, SummariesShortened
<1> QED
  BY <1>2, <1>4

-------------------------------------------------------------------------------
(* project_messages.                                                          *)

TiledBy(v, m, ends) ==
    /\ Tiling(v, ends, m)
    /\ \A k \in 1..Len(v) : Stands(v[k], ends[k - 1] + 1, ends[k])

LEMMA TileAdded ==
    ASSUME NEW m, NEW v, Tiled(v, m), NEW item \in ItemType, NEW to \in 0..Len(thread), m < to,
           item.stands = (m + 1)..to, Stands(item, m + 1, to)
    PROVE  Tiled(v \o <<item>>, to)
<1>1. PICK ends \in [0..Len(v) -> 0..Len(thread)] : TiledBy(v, m, ends)
  BY DEF Tiled, TiledBy
<1> DEFINE n == Len(v)
           new == v \o <<item>>
           e == [k \in 0..(n + 1) |-> IF k <= n THEN ends[k] ELSE to]
<1>2. v \in Seq(ItemType) /\ n \in Nat
  BY <1>1, LenProperties DEF TiledBy, Tiling
<1>3. /\ ends[0] = 0 /\ ends[n] = m
      /\ \A k, l \in 0..n : k < l => ends[k] < ends[l]
      /\ \A k \in 1..n : v[k].stands = (ends[k - 1] + 1)..ends[k]
      /\ \A k \in 1..n : Stands(v[k], ends[k - 1] + 1, ends[k])
  BY <1>1 DEF TiledBy, Tiling
<1>4. /\ new \in Seq(ItemType) /\ Len(new) = n + 1
      /\ \A k \in 1..(n + 1) : new[k] = IF k <= n THEN v[k] ELSE item
  <2>1. <<item>> \in Seq(ItemType) /\ Len(<<item>>) = 1 /\ <<item>>[1] = item
    OBVIOUS
  <2>2. /\ new \in Seq(ItemType) /\ Len(new) = n + 1
        /\ \A i \in 1..(n + 1) : new[i] = IF i <= n THEN v[i] ELSE <<item>>[i - n]
    BY <1>2, <2>1, ConcatProperties
  <2>3. ASSUME NEW k \in 1..(n + 1) PROVE new[k] = IF k <= n THEN v[k] ELSE item
    <3>1. CASE k <= n
      BY <1>2, <2>2, <3>1
    <3>2. CASE k = n + 1
      <4>1. ~(k <= n) /\ k - n = 1
        BY <1>2, <3>2
      <4> QED
        BY <2>1, <2>2, <4>1
    <3> QED
      BY <1>2, <3>1, <3>2
  <2> QED
    BY <2>2, <2>3
<1> HIDE DEF n, new
<1>5. \A k \in 0..n : ends[k] \in 0..Len(thread) /\ ends[k] \in Int
  BY DEF n
<1>6. e \in [0..(n + 1) -> 0..Len(thread)]
  BY <1>2, <1>5
<1>7. /\ e[0] = 0 /\ e[n + 1] = to /\ e[n] = m
      /\ \A k \in 0..n : e[k] = ends[k]
      /\ \A k \in 1..n : e[k] = ends[k] /\ e[k - 1] = ends[k - 1]
  BY <1>2, <1>3
<1> HIDE DEF e
<1>8. ASSUME NEW k \in 0..(n + 1), NEW l \in 0..(n + 1), k < l PROVE e[k] < e[l]
  <2>1. CASE l <= n
    BY <1>2, <1>3, <1>7, <1>8, <2>1
  <2>2. CASE l = n + 1 /\ k = n
    BY <1>7, <2>2
  <2>3. CASE l = n + 1 /\ k < n
    <3>1. k \in 0..n /\ n \in 0..n
      BY <1>2, <2>3
    <3>2. ends[k] < ends[n] /\ ends[k] \in Int /\ ends[n] \in Int /\ to \in Int
      BY <1>3, <1>5, <2>3, <3>1
    <3> QED
      BY <1>3, <1>7, <2>3, <3>1, <3>2
  <2> QED
    BY <1>2, <1>8, <2>1, <2>2, <2>3
<1>9. ASSUME NEW k \in 1..(n + 1)
      PROVE  /\ new[k].stands = (e[k - 1] + 1)..e[k]
             /\ Stands(new[k], e[k - 1] + 1, e[k])
  <2>1. CASE k <= n
    <3>1. k \in 1..n /\ new[k] = v[k] /\ e[k] = ends[k] /\ e[k - 1] = ends[k - 1]
      BY <1>2, <1>4, <1>7, <2>1
    <3> QED
      BY <1>3, <3>1
  <2>2. CASE k = n + 1
    <3>1. new[k] = item /\ e[k] = to /\ e[k - 1] = m
      BY <1>2, <1>4, <1>7, <2>2
    <3> QED
      BY <3>1
  <2> QED
    BY <1>2, <2>1, <2>2
<1>10. Tiling(new, e, to)
  BY <1>4, <1>6, <1>7, <1>8, <1>9 DEF Tiling
<1>11. Tiled(new, to)
  BY <1>4, <1>6, <1>9, <1>10 DEF Tiled
<1> QED
  BY <1>11 DEF new

\* The last message that has been shown when the projection has come to message m.
Archiver(segments, m) == segments[CHOOSE k \in Archives(segments, m) : TRUE]
Reach(segments, m) ==
    IF Archives(segments, m) = {} THEN m ELSE Archiver(segments, m).end - 1

LEMMA ArchiverIs ==
    ASSUME NEW segments, SegmentsInv(segments), NEW m \in Int, NEW k \in Archives(segments, m)
    PROVE  /\ k \in 1..Len(segments) /\ Archiver(segments, m) = segments[k]
           /\ Archives(segments, m) = {k}
<1>1. segments \in Seq(SegmentType) /\ DOMAIN segments = 1..Len(segments) /\ Len(segments) \in Nat
  BY LenProperties DEF SegmentsInv
<1>2. \A l \in 1..Len(segments) : segments[l].start \in Int /\ segments[l].end \in Int
  <2>1. \A l \in 1..Len(segments) : segments[l] \in SegmentType
    BY <1>1, ElementOfSeq
  <2> QED
    BY <2>1 DEF SegmentType
<1>3. \A l \in Archives(segments, m) : l \in 1..Len(segments)
        /\ segments[l].start <= m /\ m < segments[l].end
  BY <1>1 DEF Archives
<1>4. ASSUME NEW l \in Archives(segments, m) PROVE l = k
  <2>1. ~(l < k) /\ ~(k < l)
    BY <1>2, <1>3 DEF SegmentsInv, InOrder
  <2> QED
    BY <1>1, <1>3, <2>1
<1>5. Archives(segments, m) = {k}
  BY <1>4
<1> QED
  BY <1>3, <1>5 DEF Archiver

LEMMA ItemShown ==
    ASSUME ThreadInv, NEW segments, SegmentsInv(segments), NEW i \in 1..Len(thread),
           NEW v, Tiled(v, Reach(segments, i - 1))
    PROVE  Tiled(v \o ItemsAt(segments, i), Reach(segments, i))
<1>1. segments \in Seq(SegmentType) /\ DOMAIN segments = 1..Len(segments) /\ Len(segments) \in Nat
      /\ Len(thread) \in Nat /\ i \in Int /\ i - 1 \in Int
  BY LenProperties DEF SegmentsInv, ThreadInv
<1>2. ASSUME NEW l \in 1..Len(segments)
      PROVE  /\ segments[l].start \in 2..Len(thread) /\ segments[l].end \in 2..(Len(thread) + 1)
             /\ segments[l].start < segments[l].end
             /\ thread[segments[l].start].role = "call"
             /\ thread[segments[l].end - 1].role = "tool"
             /\ \A j \in segments[l].start..(segments[l].end - 1) : Covered(j)
             /\ segments[l].summary \in Nat
  <2> DEFINE s == segments[l]
  <2>1. s \in SegmentType /\ Complete(s, OldBundles)
    BY <1>1, ElementOfSeq DEF SegmentsInv, Sound
  <2> HIDE DEF s
  <2>2. s.start \in Int /\ s.end \in Int /\ s.summary \in Nat /\ OldBundles \in SUBSET Bundles
    BY <2>1 DEF SegmentType, OldBundles
  <2> QED
    BY <2>1, <2>2, SpanShape DEF s, Covered
<1>3. ASSUME i \notin UNION {segments[l].start + 1 .. segments[l].end - 1 : l \in 1..Len(segments)}
      PROVE  Reach(segments, i - 1) = i - 1
  <2>1. CASE Archives(segments, i - 1) = {}
    BY <2>1 DEF Reach
  <2>2. CASE Archives(segments, i - 1) # {}
    <3>1. PICK l \in Archives(segments, i - 1) : TRUE
      BY <2>2
    <3>2. l \in 1..Len(segments) /\ Reach(segments, i - 1) = segments[l].end - 1
      BY <1>1, <2>2, <3>1, ArchiverIs DEF Reach
    <3>3. segments[l].start <= i - 1 /\ i - 1 < segments[l].end
      BY <3>1 DEF Archives
    <3>4. segments[l].start \in Int /\ segments[l].end \in Int
      BY <1>2, <3>2
    <3>5. i \notin segments[l].start + 1 .. segments[l].end - 1
      BY <1>3, <3>2
    <3>6. segments[l].end = i
      BY <1>1, <3>3, <3>4, <3>5
    <3> QED
      BY <3>2, <3>6
  <2> QED
    BY <2>1, <2>2
<1>4. CASE Archives(segments, i) = {}
  <2> DEFINE item == Item(thread[i].role, thread[i].size, {i}, TRUE)
  <2>1. Reach(segments, i) = i /\ ItemsAt(segments, i) = <<item>>
    BY <1>4 DEF Reach, ItemsAt
  <2>2. Reach(segments, i - 1) = i - 1
    <3> SUFFICES ASSUME NEW l \in 1..Len(segments),
                        i \in segments[l].start + 1 .. segments[l].end - 1
                 PROVE  FALSE
      BY <1>3
    <3>1. l \in Archives(segments, i)
      <4>1. segments[l].start \in Int /\ segments[l].end \in Int
        BY <1>2
      <4>2. segments[l].start <= i /\ i < segments[l].end
        BY <4>1
      <4> QED
        BY <1>1, <4>2 DEF Archives
    <3> QED
      BY <1>4, <3>1
  <2>3. thread[i] \in MessageType
    BY ElementOfSeq DEF ThreadInv
  <2>4. item \in ItemType /\ item.role = thread[i].role /\ item.stands = {i} /\ item.whole = TRUE
        /\ item.role \in ThreadRoles
    BY <1>1, <2>3 DEF Item, ItemType, MessageType
  <2> HIDE DEF item
  <2>5. ((i - 1) + 1)..i = {i} /\ (i - 1) + 1 = i /\ i - 1 < i /\ i \in 0..Len(thread)
    BY <1>1
  <2>6. Stands(item, i, i)
    BY <2>4 DEF Stands, ThreadRoles
  <2> QED
    BY <2>1, <2>2, <2>4, <2>5, <2>6, TileAdded
<1>5. CASE Archives(segments, i) # {}
  <2>1. PICK l \in Archives(segments, i) : TRUE
    BY <1>5
  <2> DEFINE s == segments[l]
  <2>2. l \in 1..Len(segments) /\ Archiver(segments, i) = s /\ Archives(segments, i) = {l}
    BY <1>1, <2>1, ArchiverIs
  <2>3. s.start <= i /\ i < s.end
    BY <2>1 DEF Archives
  <2>4. Reach(segments, i) = s.end - 1
    BY <1>5, <2>2 DEF Reach
  <2>5. /\ s.start \in 2..Len(thread) /\ s.end \in 2..(Len(thread) + 1)
        /\ s.start < s.end
        /\ thread[s.start].role = "call" /\ thread[s.end - 1].role = "tool"
        /\ \A j \in s.start..(s.end - 1) : Covered(j)
        /\ s.summary \in Nat
    BY <1>2, <2>2
  <2>6. CASE i = s.start
    <3> DEFINE item == Item("memory", s.summary, s.start..(s.end - 1), FALSE)
    <3>1. ItemsAt(segments, i) = <<item>>
      BY <1>5, <2>2, <2>6 DEF ItemsAt, Archiver
    <3>2. Reach(segments, i - 1) = i - 1
      <4> SUFFICES ASSUME NEW k \in 1..Len(segments),
                          i \in segments[k].start + 1 .. segments[k].end - 1
                   PROVE  FALSE
        BY <1>3
      <4>1. segments[k].start \in Int /\ segments[k].end \in Int
        BY <1>2
      <4>2. segments[k].start <= i /\ i < segments[k].end /\ segments[k].start # i
        BY <4>1
      <4>3. k \in Archives(segments, i)
        BY <1>1, <4>2 DEF Archives
      <4> QED
        BY <2>2, <2>6, <4>2, <4>3
    <3>3. item \in ItemType /\ item.role = "memory" /\ item.stands = s.start..(s.end - 1)
      BY <2>5 DEF Item, ItemType
    <3> HIDE DEF item, s
    <3>4. s.end - 1 \in 0..Len(thread) /\ i - 1 < s.end - 1 /\ (i - 1) + 1 = s.start
      <4>1. Len(thread) \in Nat /\ i \in Int /\ s.start \in Int /\ s.end \in Int
        BY <1>1, <2>5
      <4> QED
        BY <2>5, <2>6, <4>1
    <3>5. Stands(item, s.start, s.end - 1)
      BY <2>5, <3>3 DEF Stands, ThreadRoles
    <3> QED
      BY <2>4, <3>1, <3>2, <3>3, <3>4, <3>5, TileAdded
  <2>7. CASE i # s.start
    <3>1. ItemsAt(segments, i) = <<>>
      BY <1>5, <2>2, <2>7 DEF ItemsAt, Archiver
    <3>2. s.start <= i - 1 /\ i - 1 < s.end
      BY <1>1, <2>3, <2>5, <2>7
    <3>3. l \in Archives(segments, i - 1)
      BY <1>1, <2>2, <3>2 DEF Archives
    <3>4. Reach(segments, i - 1) = s.end - 1
      BY <1>1, <3>3, ArchiverIs DEF Reach
    <3>5. v \in Seq(ItemType)
      BY DEF Tiled, Tiling
    <3>6. v \o <<>> = v
      BY <3>5, ConcatEmptySeq
    <3> QED
      BY <2>4, <3>1, <3>4, <3>6
  <2> QED
    BY <2>6, <2>7
<1> QED
  BY <1>4, <1>5

ShownTo(segments, m) == {v \in Seq(ItemType) : Tiled(v, Reach(segments, m))}

LEMMA NothingShown == ThreadInv => Tiled(<<>>, 0)
<1> SUFFICES ASSUME ThreadInv PROVE Tiled(<<>>, 0)
  OBVIOUS
<1> DEFINE e == [k \in 0..0 |-> 0]
           v == <<>>
<1>1. v \in Seq(ItemType) /\ Len(v) = 0 /\ Len(thread) \in Nat
  BY EmptySeq DEF ThreadInv
<1> HIDE DEF v
<1>2. e \in [0..Len(v) -> 0..Len(thread)] /\ e[0] = 0
  BY <1>1
<1> HIDE DEF e
<1>3. Tiling(v, e, 0)
  BY <1>1, <1>2 DEF Tiling
<1>4. Tiled(v, 0)
  BY <1>1, <1>2, <1>3 DEF Tiled
<1> QED
  BY <1>4 DEF v

LEMMA ReachesTheEnd ==
    ASSUME ThreadInv, NEW segments, SegmentsInv(segments)
    PROVE  Reach(segments, 0) = 0 /\ Reach(segments, Len(thread)) = Len(thread)
<1>1. ASSUME NEW l \in 1..Len(segments)
      PROVE  segments[l].start \in 2..Len(thread) /\ segments[l].end \in 2..(Len(thread) + 1)
  <2> DEFINE s == segments[l]
  <2>1. s \in SegmentType /\ Complete(s, OldBundles)
    BY LenProperties, ElementOfSeq DEF SegmentsInv, Sound
  <2> HIDE DEF s
  <2>2. s.start \in Int /\ s.end \in Int /\ OldBundles \in SUBSET Bundles
    BY <2>1 DEF SegmentType, OldBundles
  <2> QED
    BY <2>1, <2>2, SpanShape DEF s
<1>2. Len(thread) \in Nat /\ DOMAIN segments = 1..Len(segments)
  BY LenProperties DEF ThreadInv, SegmentsInv
<1>3. Archives(segments, 0) = {}
  <2> SUFFICES ASSUME NEW l \in Archives(segments, 0) PROVE FALSE
    OBVIOUS
  <2>1. l \in 1..Len(segments) /\ segments[l].start <= 0
    BY <1>2 DEF Archives
  <2> QED
    BY <1>1, <2>1
<1>4. CASE Archives(segments, Len(thread)) = {}
  BY <1>3, <1>4 DEF Reach
<1>5. CASE Archives(segments, Len(thread)) # {}
  <2>1. PICK l \in Archives(segments, Len(thread)) : TRUE
    BY <1>5
  <2>2. l \in 1..Len(segments) /\ Len(thread) < segments[l].end
    BY <1>2 DEF Archives
  <2>3. segments[l].end - 1 = Len(thread)
    BY <1>1, <1>2, <2>2
  <2>4. Reach(segments, Len(thread)) = segments[l].end - 1
    BY <1>2, <1>5, ArchiverIs DEF Reach
  <2> QED
    BY <1>3, <2>3, <2>4 DEF Reach
<1> QED
  BY <1>4, <1>5

LEMMA ProjectionTiled ==
    ASSUME ThreadInv, NEW segments, SegmentsInv(segments)
    PROVE  Tiled(Projection(segments), Len(thread))
<1> DEFINE n == Len(thread)
           x == <<>>
           P == [k \in 0..n |-> ShownTo(segments, k)]
           step == [k \in 1..n |-> [v \in Seq(ItemType) |-> v \o ItemsAt(segments, k)]]
<1>1. n \in Nat
  BY DEF ThreadInv
<1>2. x \in ShownTo(segments, 0)
  BY NothingShown, ReachesTheEnd, EmptySeq DEF ShownTo
<1>3. ASSUME NEW k \in 1..n, NEW v \in ShownTo(segments, k - 1)
      PROVE  v \o ItemsAt(segments, k) \in ShownTo(segments, k)
  <2>1. Tiled(v \o ItemsAt(segments, k), Reach(segments, k))
    BY ItemShown DEF ShownTo
  <2> QED
    BY <2>1 DEF ShownTo, Tiled, Tiling
<1>4. \A k : ShownTo(segments, k) \subseteq Seq(ItemType)
  BY DEF ShownTo
<1> HIDE DEF n, x
<1>5. PICK g : Advancing(g, P, n, x, step)
  <2>1. x \in P[0]
    BY <1>1, <1>2
  <2>2. \A k \in 1..n : \A v \in P[k - 1] : step[k][v] \in P[k]
    <3> SUFFICES ASSUME NEW k \in 1..n, NEW v \in P[k - 1] PROVE step[k][v] \in P[k]
      OBVIOUS
    <3>1. v \in ShownTo(segments, k - 1) /\ v \in Seq(ItemType)
      BY <1>1, <1>4
    <3>2. step[k][v] = v \o ItemsAt(segments, k) /\ P[k] = ShownTo(segments, k)
      BY <1>1, <3>1
    <3> QED
      BY <1>3, <3>1, <3>2
  <2> HIDE DEF P, step
  <2> QED
    BY <1>1, <2>1, <2>2, ValuesAdvance
<1>6. \A k \in 0..n : g[k] \in Seq(ItemType)
  BY <1>4, <1>5 DEF Advancing
<1>7. \A k \in 1..n : g[k] = g[k - 1] \o ItemsAt(segments, k)
  <2> SUFFICES ASSUME NEW k \in 1..n PROVE g[k] = g[k - 1] \o ItemsAt(segments, k)
    OBVIOUS
  <2>1. k - 1 \in 0..n
    BY <1>1
  <2>2. g[k - 1] \in Seq(ItemType)
    BY <1>6, <2>1
  <2> QED
    BY <1>5, <2>2 DEF Advancing
<1>8. g = [k \in 0..n |-> IF k = 0 THEN x ELSE g[k - 1] \o ItemsAt(segments, k)]
  <2> HIDE DEF P, step
  <2>1. g = [k \in 0..n |-> g[k]]
    BY <1>5 DEF Advancing
  <2>2. g[0] = x
    BY <1>5 DEF Advancing
  <2>3. \A k \in 0..n : k = 0 \/ k \in 1..n
    BY <1>1
  <2>4. \A k \in 0..n : g[k] = IF k = 0 THEN x ELSE g[k - 1] \o ItemsAt(segments, k)
    BY <1>7, <2>2, <2>3
  <2> QED
    BY <2>1, <2>4
<1> DEFINE shown == CHOOSE h : h = [k \in 0..n |-> IF k = 0 THEN x ELSE h[k - 1] \o ItemsAt(segments, k)]
<1>9. shown = [k \in 0..n |-> IF k = 0 THEN x ELSE shown[k - 1] \o ItemsAt(segments, k)]
  BY <1>8
<1> HIDE DEF shown
<1>10. \A k \in 0..n : shown[k] \in ShownTo(segments, k)
  <2>1. shown[0] \in P[0]
    BY <1>1, <1>2, <1>9
  <2>2. ASSUME NEW k \in 1..n, shown[k - 1] \in P[k - 1] PROVE shown[k] \in P[k]
    <3>1. shown[k - 1] \in ShownTo(segments, k - 1) /\ P[k] = ShownTo(segments, k)
      BY <1>1, <2>2
    <3>2. shown[k] = shown[k - 1] \o ItemsAt(segments, k)
      <4>1. k \in 0..n /\ k # 0
        BY <1>1
      <4> HIDE DEF P, step
      <4> QED
        BY <1>9, <4>1
    <3> QED
      BY <1>3, <3>1, <3>2
  <2>3. \A k \in 0..n : shown[k] \in P[k]
    <3> HIDE DEF P
    <3> QED
      BY <1>1, <2>1, <2>2, ValuesMoveOn
  <2> QED
    BY <2>3
<1>11. Projection(segments) = shown[n]
  BY DEF Projection, shown, x, n
<1>12. Tiled(shown[n], Reach(segments, n))
  <2>1. n \in 0..n
    BY <1>1
  <2> QED
    BY <1>10, <2>1 DEF ShownTo
<1> QED
  BY <1>11, <1>12, ReachesTheEnd DEF n

-------------------------------------------------------------------------------
(* fit_projection.                                                            *)

LEMMA TilesAre ==
    ASSUME ThreadInv, NEW v, NEW m, NEW ends \in [0..Len(v) -> 0..Len(thread)], TiledBy(v, m, ends)
    PROVE  /\ v \in Seq(ItemType) /\ Len(v) \in Nat /\ DOMAIN v = 1..Len(v)
           /\ Len(thread) \in Nat /\ ends[0] = 0 /\ ends[Len(v)] = m
           /\ \A k \in 0..Len(v) : ends[k] \in Int /\ ends[k] \in 0..Len(thread)
           /\ \A k, l \in 0..Len(v) : k < l => ends[k] < ends[l]
           /\ \A k \in 1..Len(v) : /\ v[k] \in ItemType
                                   /\ k \in 0..Len(v) /\ k - 1 \in 0..Len(v)
                                   /\ ends[k] \in 1..Len(thread) /\ ends[k - 1] \in 0..Len(thread)
                                   /\ ends[k - 1] < ends[k]
                                   /\ v[k].stands = (ends[k - 1] + 1)..ends[k]
                                   /\ Stands(v[k], ends[k - 1] + 1, ends[k])
<1>1. v \in Seq(ItemType) /\ Len(v) \in Nat /\ DOMAIN v = 1..Len(v) /\ Len(thread) \in Nat
  BY LenProperties DEF TiledBy, Tiling, ThreadInv
<1>2. /\ ends[0] = 0 /\ ends[Len(v)] = m
      /\ \A k, l \in 0..Len(v) : k < l => ends[k] < ends[l]
      /\ \A k \in 1..Len(v) : v[k].stands = (ends[k - 1] + 1)..ends[k]
      /\ \A k \in 1..Len(v) : Stands(v[k], ends[k - 1] + 1, ends[k])
  BY DEF TiledBy, Tiling
<1>3. \A k \in 0..Len(v) : ends[k] \in Int /\ ends[k] \in 0..Len(thread)
  OBVIOUS
<1>4. ASSUME NEW k \in 1..Len(v)
      PROVE  /\ v[k] \in ItemType
             /\ k \in 0..Len(v) /\ k - 1 \in 0..Len(v)
             /\ ends[k] \in 1..Len(thread) /\ ends[k - 1] \in 0..Len(thread)
             /\ ends[k - 1] < ends[k]
  <2>1. k \in 0..Len(v) /\ k - 1 \in 0..Len(v) /\ k - 1 < k
    BY <1>1
  <2>2. v[k] \in ItemType
    BY <1>1, ElementOfSeq
  <2>3. ends[k] \in 0..Len(thread) /\ ends[k - 1] \in 0..Len(thread) /\ ends[k - 1] < ends[k]
    BY <1>2, <1>3, <2>1
  <2> QED
    BY <1>1, <2>1, <2>2, <2>3
<1> QED
  BY <1>1, <1>2, <1>3, <1>4

\* Every message stands in one item of the view.
LEMMA TileAt ==
    ASSUME ThreadInv, NEW v, NEW m, NEW ends \in [0..Len(v) -> 0..Len(thread)], TiledBy(v, m, ends),
           NEW i \in 1..m
    PROVE  \E k \in 1..Len(v) : /\ i \in v[k].stands
                                /\ \A l \in 1..Len(v) : i \in v[l].stands => l = k
<1> DEFINE n == Len(v)
           Beyond == {k \in 1..n : i <= ends[k]}
<1>1. /\ n \in Nat /\ ends[0] = 0 /\ ends[n] = m
      /\ \A k \in 0..n : ends[k] \in Int
      /\ \A k, l \in 0..n : k < l => ends[k] < ends[l]
      /\ \A k \in 1..n : v[k].stands = (ends[k - 1] + 1)..ends[k]
  <2>1. n \in Nat /\ ends[0] = 0 /\ ends[n] = m
    BY TilesAre
  <2>2. \A k \in 0..n : ends[k] \in Int
    BY TilesAre
  <2>3. \A k, l \in 0..n : k < l => ends[k] < ends[l]
    BY TilesAre
  <2>4. \A k \in 1..n : v[k].stands = (ends[k - 1] + 1)..ends[k]
    BY DEF TiledBy, Tiling
  <2> QED
    BY <2>1, <2>2, <2>3, <2>4
<1> HIDE DEF n
<1>2. n \in 0..n /\ m \in Int /\ i \in Int /\ n # 0
  BY <1>1
<1>3. Beyond # {}
  <2>1. n \in 1..n /\ i <= ends[n]
    BY <1>1, <1>2
  <2> QED
    BY <2>1
<1>4. Min(Beyond) \in Beyond /\ \A j \in Beyond : Min(Beyond) <= j
  BY <1>1, <1>3, Extremes
<1> DEFINE k == Min(Beyond)
<1> HIDE DEF k
<1>5. k \in 1..n /\ i <= ends[k] /\ \A j \in 1..n : i <= ends[j] => k <= j
  BY <1>4 DEF k
<1>6. k - 1 \in 0..n /\ k \in 0..n /\ k - 1 < k
  BY <1>1, <1>5
<1>7. ends[k - 1] < i
  <2>1. CASE k = 1
    BY <1>1, <1>2, <2>1
  <2>2. CASE k # 1
    <3>1. k - 1 \in 1..n /\ ~(k <= k - 1)
      BY <1>1, <1>5, <2>2
    <3> QED
      BY <1>1, <1>2, <1>5, <1>6, <3>1
  <2> QED
    BY <2>1, <2>2
<1>8. i \in v[k].stands
  BY <1>1, <1>2, <1>5, <1>6, <1>7
<1>9. ASSUME NEW l \in 1..n, i \in v[l].stands PROVE l = k
  <2>1. l - 1 \in 0..n /\ l \in 0..n /\ ends[l - 1] \in Int /\ ends[l] \in Int
    BY <1>1
  <2>2. ends[l - 1] < i /\ i <= ends[l]
    <3>1. i \in (ends[l - 1] + 1)..ends[l]
      BY <1>1, <1>9
    <3> QED
      BY <1>2, <2>1, <3>1
  <2>3. CASE l < k
    BY <1>5, <2>2, <2>3
  <2>4. CASE k < l
    <3>1. k = l - 1 \/ k < l - 1
      BY <1>5, <2>4
    <3>2. ends[k] <= ends[l - 1]
      <4>1. CASE k = l - 1
        BY <2>1, <4>1
      <4>2. CASE k < l - 1
        <5>1. ends[k] < ends[l - 1] /\ ends[k] \in Int
          BY <1>1, <1>6, <2>1, <4>2
        <5> QED
          BY <2>1, <5>1
      <4> QED
        BY <3>1, <4>1, <4>2
    <3> QED
      BY <1>1, <1>2, <1>5, <1>6, <2>1, <2>2, <3>2
  <2> QED
    BY <1>5, <2>3, <2>4
<1> QED
  BY <1>5, <1>8, <1>9 DEF n

\* The first item is the system message.
LEMMA FirstItem ==
    ASSUME ThreadInv, NEW v, NEW m \in Int, 0 < m,
           NEW ends \in [0..Len(v) -> 0..Len(thread)], TiledBy(v, m, ends)
    PROVE  1 \in 1..Len(v) /\ ends[1] = 1 /\ v[1].role = "system"
<1>1. /\ Len(v) \in Nat /\ ends[0] = 0 /\ ends[Len(v)] = m
      /\ \A k \in 1..Len(v) : /\ v[k] \in ItemType
                              /\ Stands(v[k], ends[k - 1] + 1, ends[k])
                              /\ ends[k] \in 1..Len(thread)
  BY TilesAre
<1>2. 1 \in 1..Len(v) /\ 1 - 1 = 0 /\ 0 + 1 = 1
  BY <1>1
<1>3. v[1] \in ItemType /\ Stands(v[1], 1, ends[1]) /\ ends[1] \in Int
  BY <1>1, <1>2
<1>4. v[1].role \in ThreadRoles
  <2>1. v[1].role \in ThreadRoles \cup {"memory", "note"}
    BY <1>3 DEF ItemType
  <2>2. v[1].role # "memory" /\ v[1].role # "note"
    BY <1>3 DEF Stands, ThreadInv
  <2> QED
    BY <2>1, <2>2
<1> QED
  BY <1>2, <1>3, <1>4 DEF Stands, ThreadInv

\* A note takes the place of everything up to a message of the owner.
LEMMA NoteStands ==
    ASSUME ThreadInv, NEW v, NEW m \in Int, 0 < m,
           NEW ends \in [0..Len(v) -> 0..Len(thread)], TiledBy(v, m, ends),
           NEW cut \in 3..Len(v)
    PROVE  LET gone == Older(v, cut)
           IN gone # <<>> /\ UNION {gone[i].stands : i \in DOMAIN gone} = 2..ends[cut - 1]
<1> DEFINE gone == Older(v, cut)
           U == UNION {gone[i].stands : i \in DOMAIN gone}
           n == Len(v)
<1>1. n \in Nat /\ v \in Seq(ItemType) /\ ends[0] = 0
  BY TilesAre
<1>2. \A k \in 0..n : ends[k] \in Int
  BY TilesAre
<1>3. \A k, l \in 0..n : k < l => ends[k] < ends[l]
  BY TilesAre
<1>4. \A k \in 1..n : v[k] \in ItemType /\ v[k].stands = (ends[k - 1] + 1)..ends[k]
  <2>1. \A k \in 1..n : v[k] \in ItemType
    BY TilesAre
  <2>2. \A k \in 1..n : v[k].stands = (ends[k - 1] + 1)..ends[k]
    BY DEF TiledBy, Tiling
  <2> QED
    BY <2>1, <2>2
<1>5. ends[1] = 1
  BY FirstItem
<1> HIDE DEF n
<1>6. cut \in 3..n /\ cut \in Int /\ n \in Int
  BY DEF n
<1>7. /\ gone \in Seq(ItemType) /\ Len(gone) = cut - 2 /\ DOMAIN gone = 1..(cut - 2)
      /\ \A k \in 1..(cut - 2) : gone[k] = v[k + 1]
  <2>1. \A k \in 2..(cut - 1) : v[k] \in ItemType
    BY <1>1, <1>4, <1>6
  <2>2. 2 \in Int /\ cut - 1 \in Int
    BY <1>6
  <2>3. /\ gone \in Seq(ItemType)
        /\ Len(gone) = IF 2 <= cut - 1 THEN (cut - 1) - 2 + 1 ELSE 0
        /\ \A k \in 1..((cut - 1) - 2 + 1) : gone[k] = v[2 + k - 1]
    BY <2>1, <2>2, SubSeqProperties DEF Older
  <2>4. (cut - 1) - 2 + 1 = cut - 2 /\ 2 <= cut - 1 /\ \A k \in Int : 2 + k - 1 = k + 1
    BY <1>6
  <2> HIDE DEF gone
  <2>5. Len(gone) = cut - 2 /\ \A k \in 1..(cut - 2) : gone[k] = v[k + 1]
    BY <2>3, <2>4
  <2> QED
    BY <2>3, <2>5, LenProperties
<1> HIDE DEF gone
<1>8. gone # <<>>
  <2>1. Len(gone) # 0
    BY <1>6, <1>7
  <2> QED
    BY <2>1
<1>9. ASSUME NEW x \in U PROVE x \in 2..ends[cut - 1]
  <2>1. PICK k \in 1..(cut - 2) : x \in gone[k].stands
    BY <1>7
  <2>2. k + 1 \in 1..n /\ (k + 1) - 1 = k /\ k \in 0..n /\ k + 1 \in 0..n /\ cut - 1 \in 0..n
        /\ 1 \in 0..n /\ k \in Int /\ 1 <= k /\ k + 1 <= cut - 1
    BY <1>1, <1>6
  <2>3. x \in (ends[k] + 1)..ends[k + 1]
    BY <1>4, <1>7, <2>1, <2>2
  <2>4. ends[k] \in Int /\ ends[k + 1] \in Int /\ ends[cut - 1] \in Int
    BY <1>2, <2>2
  <2>5. ends[k] >= 1
    <3>1. CASE k = 1
      BY <1>5, <3>1
    <3>2. CASE 1 < k
      BY <1>3, <1>5, <2>2, <2>4, <3>2
    <3> QED
      BY <2>2, <3>1, <3>2
  <2>6. ends[k + 1] <= ends[cut - 1]
    <3>1. CASE k + 1 = cut - 1
      BY <2>4, <3>1
    <3>2. CASE k + 1 < cut - 1
      <4>1. ends[k + 1] < ends[cut - 1]
        BY <1>3, <2>2, <3>2
      <4> QED
        BY <2>4, <4>1
    <3> QED
      BY <1>6, <2>2, <3>1, <3>2
  <2> QED
    BY <2>3, <2>4, <2>5, <2>6
<1>10. ASSUME NEW x \in 2..ends[cut - 1] PROVE x \in U
  <2> DEFINE Beyond == {k \in 1..n : x <= ends[k]}
  <2>1. cut - 1 \in 1..n /\ cut - 1 \in 0..n /\ x \in Int /\ 2 <= x /\ x <= ends[cut - 1]
        /\ ends[cut - 1] \in Int
    BY <1>1, <1>2, <1>6
  <2>2. cut - 1 \in Beyond
    BY <2>1
  <2>3. Min(Beyond) \in Beyond /\ \A j \in Beyond : Min(Beyond) <= j
    BY <1>1, <2>2, Extremes
  <2> DEFINE k == Min(Beyond)
  <2> HIDE DEF k
  <2>4. k \in 1..n /\ x <= ends[k] /\ k <= cut - 1 /\ \A j \in 1..n : x <= ends[j] => k <= j
    BY <2>2, <2>3 DEF k
  <2>5. k # 1
    BY <1>5, <2>1, <2>4
  <2>6. k - 1 \in 1..n /\ k - 1 \in 0..n /\ k \in 0..n /\ ~(k <= k - 1) /\ k - 1 \in 1..(cut - 2)
        /\ (k - 1) + 1 = k
    BY <1>1, <1>6, <2>4, <2>5
  <2>7. ~(x <= ends[k - 1]) /\ ends[k - 1] \in Int /\ ends[k] \in Int
    BY <1>2, <2>4, <2>6
  <2>8. x \in (ends[k - 1] + 1)..ends[k]
    BY <2>1, <2>4, <2>7
  <2>9. x \in gone[k - 1].stands
    BY <1>4, <1>7, <2>4, <2>6, <2>8
  <2> QED
    BY <1>7, <2>6, <2>9
<1>11. U = 2..ends[cut - 1]
  <2> HIDE DEF U
  <2> QED
    BY <1>9, <1>10
<1> QED
  BY <1>8, <1>11 DEF gone

LEMMA LeftOutTiled ==
    ASSUME ThreadInv, NEW v, Tiled(v, Len(thread)), NEW cut \in LaterTurns(v)
    PROVE  Tiled(LeftOut(v, cut), Len(thread))
<1> DEFINE n == Len(v)
           m == Len(thread)
<1>0. m \in Int /\ 0 < m
  BY DEF ThreadInv
<1>1. PICK ends \in [0..n -> 0..m] : TiledBy(v, m, ends)
  BY DEF Tiled, TiledBy
<1>2. n \in Nat /\ v \in Seq(ItemType) /\ DOMAIN v = 1..n /\ ends[0] = 0 /\ ends[n] = m
  BY <1>1, TilesAre
<1>3. \A k \in 0..n : ends[k] \in Int /\ ends[k] \in 0..m
  BY <1>1, TilesAre
<1>4. \A k, l \in 0..n : k < l => ends[k] < ends[l]
  BY <1>1, TilesAre
<1>5. \A k \in 1..n : v[k] \in ItemType
  BY <1>1, TilesAre
<1>6. \A k \in 1..n : v[k].stands = (ends[k - 1] + 1)..ends[k]
  BY <1>1 DEF TiledBy, Tiling
<1>7. \A k \in 1..n : Stands(v[k], ends[k - 1] + 1, ends[k])
  BY <1>1 DEF TiledBy
<1>8. 1 \in 1..n /\ ends[1] = 1 /\ v[1].role = "system"
  BY <1>0, <1>1, FirstItem
<1>9. cut \in 1..n /\ v[cut].role = "user" /\ cut # 1
  BY <1>2, <1>8 DEF LaterTurns, Positions
<1>10. CASE cut = 2
  <2>1. Older(v, cut) = <<>>
    <3>1. 2 \in Int /\ cut - 1 \in Int /\ cut - 1 < 2
      BY <1>10
    <3> QED
      BY <3>1, SubSeqEmpty DEF Older
  <2> QED
    BY <2>1 DEF LeftOut
<1>11. CASE cut # 2
  <2> DEFINE gone == Older(v, cut)
             U == UNION {gone[i].stands : i \in DOMAIN gone}
             note == Item("note", 1, U, FALSE)
             head == <<v[1], note>>
             rest == SubSeq(v, cut, n)
             new == head \o rest
             size == n - cut + 3
             at == [k \in 0..size |-> IF k <= 1 THEN k ELSE k + cut - 3]
             e == [k \in 0..size |-> ends[at[k]]]
  <2>1. cut \in 3..n /\ cut \in Int /\ n \in Int /\ size \in Nat /\ size \in 3..n
    BY <1>2, <1>9, <1>11
  <2>2. gone # <<>> /\ U = 2..ends[cut - 1]
    BY <1>0, <1>1, <2>1, NoteStands
  <2>3. LeftOut(v, cut) = new
    BY <2>2 DEF LeftOut
  <2> HIDE DEF gone, U
  <2>4. cut - 1 \in 0..n /\ cut \in 0..n /\ 1 \in 0..n /\ ends[cut - 1] \in Int /\ ends[cut] \in Int
        /\ ends[cut - 1] \in 0..m
    BY <1>3, <2>1
  <2>5. note \in ItemType /\ note.role = "note" /\ note.stands = 2..ends[cut - 1]
    <3>1. U \in SUBSET Nat
      BY <2>2, <2>4
    <3> HIDE DEF U
    <3> QED
      BY <2>2, <3>1 DEF Item, ItemType
  <2> HIDE DEF note
  <2>6. head \in Seq(ItemType) /\ Len(head) = 2 /\ head[1] = v[1] /\ head[2] = note
    BY <1>5, <1>8, <2>5
  <2>7. rest \in Seq(ItemType) /\ Len(rest) = n - cut + 1
        /\ \A k \in 1..(n - cut + 1) : rest[k] = v[cut + k - 1]
    <3>1. \A k \in cut..n : v[k] \in ItemType
      BY <1>5, <2>1
    <3> QED
      BY <2>1, <3>1, SubSeqProperties
  <2> HIDE DEF head, rest, n
  <2>8. new \in Seq(ItemType) /\ Len(new) = size
    <3>1. new \in Seq(ItemType) /\ Len(new) = Len(head) + Len(rest)
      BY <2>6, <2>7, ConcatProperties
    <3> QED
      BY <2>1, <2>6, <2>7, <3>1
  <2>9. /\ new[1] = v[1] /\ new[2] = note
        /\ \A k \in 3..size : new[k] = v[k + cut - 3]
    <3>1. \A k \in 1..(Len(head) + Len(rest)) :
            new[k] = IF k <= Len(head) THEN head[k] ELSE rest[k - Len(head)]
      BY <2>6, <2>7, ConcatProperties
    <3>0. Len(head) = 2 /\ Len(head) + Len(rest) = size
      BY <2>1, <2>6, <2>7
    <3> HIDE DEF new, size
    <3>2. \A k \in 1..size : new[k] = IF k <= 2 THEN head[k] ELSE rest[k - 2]
      BY <3>0, <3>1
    <3>3. new[1] = v[1] /\ new[2] = note
      <4>1. 1 \in 1..size /\ 2 \in 1..size /\ 1 <= 2 /\ 2 <= 2
        BY <2>1
      <4>2. new[1] = head[1] /\ new[2] = head[2]
        BY <3>2, <4>1
      <4> QED
        BY <2>6, <4>2
    <3> USE DEF size
    <3>4. ASSUME NEW k \in 3..size PROVE new[k] = v[k + cut - 3]
      <4>1. k \in 1..size /\ ~(k <= 2) /\ k - 2 \in 1..(n - cut + 1) /\ cut + (k - 2) - 1 = k + cut - 3
        BY <2>1
      <4> QED
        BY <2>7, <3>2, <4>1
    <3> QED
      BY <3>3, <3>4
  <2> HIDE DEF new
  <2>10. /\ at[0] = 0 /\ at[1] = 1 /\ at[2] = cut - 1 /\ at[size] = n
         /\ \A k \in 0..size : at[k] \in 0..n
         /\ \A k, l \in 0..size : k < l => at[k] < at[l]
         /\ \A k \in 3..size : at[k] = k + cut - 3 /\ at[k - 1] = (k + cut - 3) - 1
    <3> HIDE DEF size
    <3>1. \A k \in 0..size : at[k] = IF k <= 1 THEN k ELSE k + cut - 3
      OBVIOUS
    <3> HIDE DEF at
    <3>2. size = n - cut + 3
      BY DEF size
    <3>3. at[0] = 0 /\ at[1] = 1 /\ at[2] = cut - 1 /\ at[size] = n
      BY <2>1, <3>1, <3>2
    <3>4. \A k \in 0..size : at[k] \in 0..n
      BY <2>1, <3>1, <3>2
    <3>5. \A k, l \in 0..size : k < l => at[k] < at[l]
      BY <2>1, <3>1
    <3>6. ASSUME NEW k \in 3..size PROVE at[k] = k + cut - 3 /\ at[k - 1] = (k + cut - 3) - 1
      <4>1. k \in 0..size /\ k - 1 \in 0..size /\ ~(k <= 1) /\ ~(k - 1 <= 1) /\ k \in Int
        BY <2>1
      <4>2. at[k] = k + cut - 3 /\ at[k - 1] = (k - 1) + cut - 3
        BY <3>1, <4>1
      <4> QED
        BY <2>1, <4>1, <4>2
    <3> QED
      BY <3>3, <3>4, <3>5, <3>6
  <2>11. \A k \in 0..size : e[k] = ends[at[k]]
    OBVIOUS
  <2>12. e \in [0..size -> 0..m]
    BY <1>3, <2>10
  <2> HIDE DEF at, e
  <2>13. e[0] = 0 /\ e[1] = 1 /\ e[2] = ends[cut - 1] /\ e[size] = m
    <3>1. 0 \in 0..size /\ 1 \in 0..size /\ 2 \in 0..size /\ size \in 0..size
      BY <2>1
    <3> QED
      BY <1>2, <1>8, <2>10, <2>11, <3>1
  <2>14. ASSUME NEW k \in 0..size, NEW l \in 0..size, k < l PROVE e[k] < e[l]
    BY <1>4, <2>10, <2>11, <2>14
  <2>15. ASSUME NEW k \in 1..size
         PROVE  new[k].stands = (e[k - 1] + 1)..e[k] /\ Stands(new[k], e[k - 1] + 1, e[k])
    <3>1. CASE k = 1
      <4>1. new[k] = v[1] /\ e[k] = ends[1] /\ e[k - 1] = ends[0] /\ 1 - 1 = 0
        BY <1>2, <1>8, <2>9, <2>13, <3>1
      <4>2. v[1].stands = (ends[0] + 1)..ends[1] /\ Stands(v[1], ends[0] + 1, ends[1])
        BY <1>6, <1>7, <1>8, <4>1
      <4> QED
        BY <4>1, <4>2
    <3>2. CASE k = 2
      <4>1. e[k - 1] + 1 = 2 /\ e[k] = ends[cut - 1] /\ new[k] = note
        BY <2>9, <2>13, <3>2
      <4>2. Stands(v[cut], ends[cut - 1] + 1, ends[cut]) /\ v[cut].role \in ThreadRoles
        BY <1>7, <1>9 DEF ThreadRoles
      <4>3. ends[cut - 1] + 1 = ends[cut] /\ thread[ends[cut]].role = "user"
        BY <1>9, <4>2 DEF Stands
      <4>4. ends[cut] \in 0..m
        BY <1>3, <2>4
      <4>5. ends[cut - 1] < m /\ thread[ends[cut - 1] + 1].role = "user"
        BY <1>0, <2>4, <4>3, <4>4
      <4>6. Stands(note, 2, ends[cut - 1])
        BY <2>5, <4>5 DEF Stands, ThreadRoles
      <4> QED
        BY <2>5, <4>1, <4>6
    <3>3. CASE k \in 3..size
      <4> DEFINE j == k + cut - 3
      <4>1. j \in 1..n /\ k \in 0..size /\ k - 1 \in 0..size
        BY <2>1, <3>3
      <4>2. e[k] = ends[j] /\ e[k - 1] = ends[j - 1] /\ new[k] = v[j]
        BY <2>9, <2>10, <2>11, <3>3, <4>1
      <4> HIDE DEF j
      <4> QED
        BY <1>6, <1>7, <4>1, <4>2
    <3> QED
      BY <2>1, <3>1, <3>2, <3>3
  <2>16. Tiling(new, e, m)
    <3>1. \A k \in 1..size : new[k].stands = (e[k - 1] + 1)..e[k]
      BY <2>15
    <3>2. \A k, l \in 0..size : k < l => e[k] < e[l]
      BY <2>14
    <3> HIDE DEF size
    <3> QED
      BY <2>8, <2>12, <2>13, <3>1, <3>2 DEF Tiling
  <2>17. \A k \in 1..size : Stands(new[k], e[k - 1] + 1, e[k])
    BY <2>15
  <2>18. Tiled(new, m)
    <3> HIDE DEF size
    <3> QED
      BY <2>8, <2>12, <2>16, <2>17 DEF Tiled
  <2> QED
    BY <2>3, <2>18
<1> QED
  BY <1>10, <1>11

\* A clipped result is still the result.
LEMMA ClippedTiled ==
    ASSUME NEW v, NEW m, Tiled(v, m), NEW i \in Clippable(v)
    PROVE  Tiled([v EXCEPT ![i].size = ToolClip, ![i].whole = FALSE], m)
<1> DEFINE n == Len(v)
           e == [v[i] EXCEPT !.size = ToolClip, !.whole = FALSE]
           new == [v EXCEPT ![i] = e]
<1>1. PICK ends \in [0..n -> 0..Len(thread)] : TiledBy(v, m, ends)
  BY DEF Tiled, TiledBy
<1>2. v \in Seq(ItemType) /\ DOMAIN v = 1..n
  BY <1>1, LenProperties DEF TiledBy, Tiling
<1>3. i \in 1..n /\ v[i] \in ItemType /\ v[i].role = "tool"
  BY <1>2, ElementOfSeq DEF Clippable, Positions
<1>4. e \in ItemType /\ e.role = "tool" /\ e.stands = v[i].stands
  <2>1. ToolClip \in Nat
    BY CompactionAssumption
  <2> QED
    BY <1>3, <2>1 DEF ItemType
<1>5. [v EXCEPT ![i].size = ToolClip, ![i].whole = FALSE] = new
  BY <1>2, <1>3
<1> HIDE DEF e
<1>6. new \in Seq(ItemType) /\ Len(new) = n /\ \A k \in 1..n : new[k] = IF k = i THEN e ELSE v[k]
  BY <1>2, <1>3, <1>4, ExceptSeq
<1> HIDE DEF new
<1>7. ASSUME NEW k \in 1..n
      PROVE  /\ new[k].stands = (ends[k - 1] + 1)..ends[k]
             /\ Stands(new[k], ends[k - 1] + 1, ends[k])
  <2>1. /\ v[k].stands = (ends[k - 1] + 1)..ends[k]
        /\ Stands(v[k], ends[k - 1] + 1, ends[k])
    BY <1>1 DEF TiledBy, Tiling
  <2>2. CASE k # i
    BY <1>6, <2>1, <2>2
  <2>3. CASE k = i
    BY <1>3, <1>4, <1>6, <2>1, <2>3 DEF Stands, ThreadRoles
  <2> QED
    BY <2>2, <2>3
<1>8. Tiling(new, ends, m)
  BY <1>1, <1>6, <1>7 DEF TiledBy, Tiling
<1>9. Tiled(new, m)
  BY <1>6, <1>7, <1>8 DEF Tiled
<1> QED
  BY <1>5, <1>9

\* Attempts at a view: its items and what they save.
Attempts == {acc \in [items : Seq(ItemType), saved : Int] : Tiled(acc.items, Len(thread))}

LEMMA OneClipped ==
    ASSUME NEW acc \in Attempts, NEW need
    PROVE  Clipped(acc, need) \in Attempts
<1>1. /\ acc.items \in Seq(ItemType) /\ acc.saved \in Int
      /\ Tiled(acc.items, Len(thread))
  BY DEF Attempts
<1>2. CASE acc.saved >= need \/ Clippable(acc.items) = {}
  BY <1>2 DEF Clipped
<1>3. CASE ~(acc.saved >= need \/ Clippable(acc.items) = {})
  <2> DEFINE v == acc.items
             S == Clippable(v)
             f == [j \in S |-> v[j].size]
             i == Largest(v)
  <2>1. Len(v) \in Nat /\ DOMAIN v = 1..Len(v) /\ S # {} /\ S \in SUBSET (1..Len(v))
    BY <1>1, <1>3, LenProperties DEF Clippable, Positions
  <2>2. \A j \in 1..Len(v) : v[j].size \in Int
    <3>1. \A j \in 1..Len(v) : v[j] \in ItemType
      BY <1>1, ElementOfSeq
    <3> QED
      BY <3>1 DEF ItemType
  <2>3. \A j \in S : f[j] = v[j].size /\ f[j] \in Int
    BY <2>1, <2>2
  <2> HIDE DEF S, f, v
  <2>4. \E l \in S : \A j \in S : f[l] > f[j] \/ (f[l] = f[j] /\ l <= j)
    BY <2>1, <2>3, LargestExists
  <2>5. \E l \in S : \A j \in S : v[l].size > v[j].size \/ (v[l].size = v[j].size /\ l <= j)
    BY <2>3, <2>4
  <2>6. i \in S
    BY <2>5 DEF Largest, S
  <2>7. i \in Clippable(v) /\ v[i].size \in Int /\ ToolClip \in Int
    BY <2>1, <2>2, <2>6, CompactionAssumption DEF S
  <2> HIDE DEF i
  <2> DEFINE new == [v EXCEPT ![i].size = ToolClip, ![i].whole = FALSE]
             result == [items |-> new, saved |-> acc.saved + v[i].size - ToolClip]
  <2>8. Tiled(new, Len(thread))
    BY <1>1, <2>7, ClippedTiled DEF v
  <2>9. Clipped(acc, need) = result
    BY <1>3 DEF Clipped, v, i
  <2> HIDE DEF new
  <2>10. new \in Seq(ItemType)
    BY <2>8 DEF Tiled, Tiling
  <2>11. result \in Attempts
    BY <1>1, <2>7, <2>8, <2>10 DEF Attempts
  <2> QED
    BY <2>9, <2>11
<1> QED
  BY <1>2, <1>3

LEMMA ViewSize ==
    ASSUME NEW v \in Seq(ItemType)
    PROVE  Size(v) \in Nat
<1>1. Len(v) \in Nat /\ \A k \in 1..Len(v) : v[k] \in ItemType
  BY LenProperties, ElementOfSeq
<1>2. \A k \in 1..Len(v) : v[k].size \in Nat
  BY <1>1 DEF ItemType
<1> QED
  BY <1>1, <1>2, SizeIsNat

LEMMA CutIsATurn ==
    ASSUME NEW v \in Seq(ItemType), LaterTurns(v) # {}, NEW need
    PROVE  Cut(v, need) \in LaterTurns(v)
<1> DEFINE turns == LaterTurns(v)
           enough == {i \in turns : Size(Older(v, i)) >= need}
<1>1. Len(v) \in Nat /\ turns \in SUBSET (1..Len(v)) /\ turns # {}
  BY LenProperties DEF LaterTurns, Positions
<1>2. enough \in SUBSET turns
  OBVIOUS
<1>3. Cut(v, need) = IF enough # {} THEN Min(enough) ELSE Max(turns)
  BY DEF Cut
<1> HIDE DEF turns, enough
<1>4. CASE enough # {}
  <2>1. enough \in SUBSET (1..Len(v))
    BY <1>1, <1>2
  <2>2. Min(enough) \in enough
    BY <1>1, <1>4, <2>1, Extremes
  <2> QED
    BY <1>2, <1>3, <1>4, <2>2 DEF turns
<1>5. CASE enough = {}
  <2>1. Max(turns) \in turns
    BY <1>1, Extremes
  <2> QED
    BY <1>3, <1>5, <2>1 DEF turns
<1> QED
  BY <1>4, <1>5

LEMMA FitTiled ==
    ASSUME ThreadInv, NEW v, Tiled(v, Len(thread)), NEW need
    PROVE  Tiled(FitView(v, need), Len(thread))
<1> DEFINE cut == IF LaterTurns(v) # {} THEN LeftOut(v, Cut(v, need)) ELSE v
           x == [items |-> cut, saved |-> Size(v) - Size(cut)]
           n == Len(cut)
           A == Attempts
           step == [k \in 1..n |-> [acc \in A |-> Clipped(acc, need)]]
<1>1. v \in Seq(ItemType)
  BY DEF Tiled, Tiling
<1>2. Tiled(cut, Len(thread))
  BY <1>1, CutIsATurn, LeftOutTiled
<1> HIDE DEF cut
<1>3. cut \in Seq(ItemType) /\ n \in Nat
  <2>1. cut \in Seq(ItemType)
    BY <1>2 DEF Tiled, Tiling
  <2> QED
    BY <2>1, LenProperties
<1>4. x \in A
  <2>1. Size(v) \in Nat /\ Size(cut) \in Nat
    BY <1>1, <1>3, ViewSize
  <2>2. x \in [items : Seq(ItemType), saved : Int] /\ x.items = cut
    BY <1>3, <2>1
  <2> HIDE DEF x
  <2> QED
    BY <1>2, <2>2 DEF Attempts
<1>5. \A acc \in A : Clipped(acc, need) \in A
  BY OneClipped
<1>6. \A acc \in A : Tiled(acc.items, Len(thread))
  BY DEF Attempts
<1> HIDE DEF A, x, n
<1>7. step \in StepsIn(A, n)
  BY <1>5 DEF StepsIn
<1>8. PICK g : Computed(g, A, n, x, step)
  <2> HIDE DEF step
  <2> QED
    BY <1>3, <1>4, <1>7, RunningValuesExist
<1>9. g \in [0..n -> A] /\ g[0] = x /\ \A k \in 1..n : g[k] = step[k][g[k - 1]]
  BY <1>8 DEF Computed
<1>10. g = [k \in 0..n |-> IF k = 0 THEN x ELSE Clipped(g[k - 1], need)]
  <2>1. \A k \in 1..n : g[k - 1] \in A
    BY <1>3, <1>9
  <2>2. \A k \in 1..n : g[k] = Clipped(g[k - 1], need)
    BY <1>9, <2>1
  <2> QED
    BY <1>3, <1>9, <2>2
<1> DEFINE clipped == CHOOSE h : h = [k \in 0..n |-> IF k = 0 THEN x ELSE Clipped(h[k - 1], need)]
<1>11. clipped = [k \in 0..n |-> IF k = 0 THEN x ELSE Clipped(clipped[k - 1], need)]
  BY <1>10
<1>12. FitView(v, need) = clipped[n].items
  BY DEF FitView, cut, x, n
<1> HIDE DEF clipped
<1>13. clipped[0] \in A
  BY <1>3, <1>4, <1>11
<1>14. ASSUME NEW k \in 1..n, clipped[k - 1] \in A PROVE clipped[k] \in A
  <2>1. k \in 0..n /\ k # 0
    BY <1>3
  <2> HIDE DEF step
  <2> QED
    BY <1>5, <1>11, <1>14, <2>1
<1>15. \A k \in 0..n : clipped[k] \in A
  <2> HIDE DEF step
  <2> QED
    BY <1>3, <1>13, <1>14, RunningStays
<1>16. n \in 0..n
  BY <1>3
<1> QED
  BY <1>6, <1>12, <1>15, <1>16

-------------------------------------------------------------------------------
(* What a tiled view promises.                                                *)

Bounds(ends, v) == \A k \in 1..Len(v), i \in 1..Len(thread) :
    i \in v[k].stands <=> ends[k - 1] < i /\ i <= ends[k]

LEMMA StandsBetween ==
    ASSUME ThreadInv, NEW v, NEW m, NEW ends \in [0..Len(v) -> 0..Len(thread)], TiledBy(v, m, ends)
    PROVE  Bounds(ends, v)
<1> SUFFICES ASSUME NEW k \in 1..Len(v), NEW i \in 1..Len(thread)
             PROVE  i \in v[k].stands <=> ends[k - 1] < i /\ i <= ends[k]
  BY DEF Bounds
<1>1. v[k].stands = (ends[k - 1] + 1)..ends[k]
  BY DEF TiledBy, Tiling
<1>2. ends[k - 1] \in 0..Len(thread) /\ ends[k] \in 1..Len(thread) /\ Len(thread) \in Nat
  BY TilesAre
<1> QED
  BY <1>1, <1>2

LEMMA ViewInOrder == CompactionInv /\ view # <<>> => OnceInOrder
<1> SUFFICES ASSUME CompactionInv, view # <<>> PROVE OnceInOrder
  OBVIOUS
<1> DEFINE n == Len(view)
           m == Len(thread)
<1>0. ThreadInv /\ Tiled(view, m) /\ m \in Nat /\ DOMAIN thread = 1..m
  BY LenProperties DEF CompactionInv, ThreadInv
<1>1. PICK ends \in [0..n -> 0..m] : TiledBy(view, m, ends)
  BY <1>0 DEF Tiled, TiledBy
<1>2. n \in Nat /\ DOMAIN view = 1..n
  BY <1>0, <1>1, TilesAre
<1>3. \A k \in 0..n : ends[k] \in Int
  BY <1>0, <1>1, TilesAre
<1>4. \A k, l \in 0..n : k < l => ends[k] < ends[l]
  BY <1>0, <1>1, TilesAre
<1>5. \A k \in 1..n, i \in 1..m : i \in view[k].stands <=> ends[k - 1] < i /\ i <= ends[k]
  BY <1>0, <1>1, StandsBetween DEF Bounds
<1>6. ASSUME NEW i \in DOMAIN thread PROVE Cardinality(Shown(i)) = 1
  <2>1. PICK k \in 1..n : i \in view[k].stands /\ \A l \in 1..n : i \in view[l].stands => l = k
    BY <1>0, <1>1, TileAt
  <2>2. Shown(i) = {k}
    BY <1>2, <2>1 DEF Shown
  <2> QED
    BY <2>2, FS_Singleton
<1>7. ASSUME NEW i \in 1..m, NEW j \in 1..m, i < j, NEW k \in Shown(i), NEW l \in Shown(j)
      PROVE  k <= l
  <2>1. k \in 1..n /\ l \in 1..n /\ ends[k - 1] < i /\ j <= ends[l]
    BY <1>2, <1>5 DEF Shown
  <2>2. CASE l < k
    <3>1. l \in 0..n /\ k - 1 \in 0..n /\ (l = k - 1 \/ l < k - 1)
      BY <1>2, <2>1, <2>2
    <3>2. ends[l] \in Int /\ ends[k - 1] \in Int /\ ends[l] <= ends[k - 1]
      <4>1. ends[l] \in Int /\ ends[k - 1] \in Int
        BY <1>3, <3>1
      <4>2. CASE l = k - 1
        BY <4>1, <4>2
      <4>3. CASE l < k - 1
        BY <1>4, <3>1, <4>1, <4>3
      <4> QED
        BY <3>1, <4>1, <4>2, <4>3
    <3> QED
      BY <1>0, <1>7, <2>1, <3>2
  <2> QED
    BY <2>1, <2>2
<1> QED
  BY <1>0, <1>6, <1>7 DEF OnceInOrder

\* Where the view has an item for the call and another for its result, they are the two.
LEMMA ViewKeepsPairs == CompactionInv /\ view # <<>> => PairsTogether
<1> SUFFICES ASSUME CompactionInv, view # <<>>, NEW b \in Bundles,
                    NEW k \in Shown(b.start), NEW l \in Shown(b.start + 1), k # l
             PROVE  view[k].role = "call" /\ view[l].role = "tool" /\ l = k + 1
  BY DEF PairsTogether
<1> DEFINE n == Len(view)
           m == Len(thread)
           i == b.start
<1>0. ThreadInv /\ Tiled(view, m) /\ m \in Nat /\ thread[2].role = "user"
  BY DEF CompactionInv, ThreadInv
<1>1. PICK ends \in [0..n -> 0..m] : TiledBy(view, m, ends)
  BY <1>0 DEF Tiled, TiledBy
<1>2. n \in Nat /\ DOMAIN view = 1..n
  BY <1>0, <1>1, TilesAre
<1>3. \A j \in 0..n : ends[j] \in Int
  BY <1>0, <1>1, TilesAre
<1>4. \A j, h \in 0..n : j < h => ends[j] < ends[h]
  BY <1>0, <1>1, TilesAre
<1>5. \A j \in 1..n, h \in 1..m : h \in view[j].stands <=> ends[j - 1] < h /\ h <= ends[j]
  BY <1>0, <1>1, StandsBetween DEF Bounds
<1>6. \A j \in 1..n : Stands(view[j], ends[j - 1] + 1, ends[j])
  BY <1>1 DEF TiledBy
<1>7. \A j \in 1..n : view[j] \in ItemType
  BY <1>0, <1>1, TilesAre
<1>8. i \in 1..(m - 1) /\ thread[i].role = "call" /\ thread[i + 1].role = "tool"
  BY <1>0, BundleShape
<1> HIDE DEF i
<1>9. i \in 1..m /\ i + 1 \in 1..m /\ i \in Int /\ i # 1 /\ i + 1 # 2
  <2>1. i \in 1..m /\ i + 1 \in 1..m /\ i \in Int
    BY <1>0, <1>8
  <2>2. i + 1 # 2
    BY <1>0, <1>8
  <2> QED
    BY <2>1, <2>2
<1>10. /\ k \in 1..n /\ ends[k - 1] < i /\ i <= ends[k]
       /\ l \in 1..n /\ ends[l - 1] < i + 1 /\ i + 1 <= ends[l]
  BY <1>2, <1>5, <1>9 DEF Shown, i
<1>11. k - 1 \in 0..n /\ k \in 0..n /\ l - 1 \in 0..n /\ l \in 0..n
  BY <1>2, <1>10
<1>12. ends[k - 1] \in Int /\ ends[k] \in Int /\ ends[l - 1] \in Int /\ ends[l] \in Int
  BY <1>3, <1>11
<1>13. k < l
  <2> SUFFICES ASSUME l < k PROVE FALSE
    BY <1>10
  <2>1. l = k - 1 \/ l < k - 1
    BY <1>10
  <2>2. ends[l] <= ends[k - 1]
    <3>1. CASE l = k - 1
      BY <1>12, <3>1
    <3>2. CASE l < k - 1
      <4>1. ends[l] < ends[k - 1]
        BY <1>4, <1>11, <3>2
      <4> QED
        BY <1>12, <4>1
    <3> QED
      BY <2>1, <3>1, <3>2
  <2> QED
    BY <1>9, <1>10, <1>12, <2>2
<1>14. l = k + 1
  <2> SUFFICES ASSUME k + 1 < l PROVE FALSE
    BY <1>10, <1>13
  <2>1. k < l - 1
    BY <1>10
  <2>2. ends[k] < ends[l - 1]
    BY <1>4, <1>11, <2>1
  <2> QED
    BY <1>9, <1>10, <1>12, <2>2
<1>15. ends[k] = i /\ ends[l - 1] + 1 = i + 1
  <2>1. l - 1 = k
    BY <1>10, <1>14
  <2> QED
    BY <1>9, <1>10, <1>12, <2>1
<1>16. view[k].role = "call"
  <2>1. Stands(view[k], ends[k - 1] + 1, i)
    BY <1>6, <1>10, <1>15
  <2>2. view[k].role \in ThreadRoles \cup {"memory", "note"}
    BY <1>7, <1>10 DEF ItemType
  <2> QED
    BY <1>8, <2>1, <2>2 DEF Stands
<1>17. view[l].role = "tool"
  <2>1. Stands(view[l], i + 1, ends[l])
    BY <1>6, <1>10, <1>15
  <2>2. view[l].role \in ThreadRoles \cup {"memory", "note"}
    BY <1>7, <1>10 DEF ItemType
  <2> QED
    BY <1>8, <1>9, <2>1, <2>2 DEF Stands
<1> QED
  BY <1>14, <1>16, <1>17

LEMMA ViewHearsOwner == CompactionInv /\ view # <<>> => OwnerIsHeard
<1> SUFFICES ASSUME CompactionInv, view # <<>> PROVE OwnerIsHeard
  OBVIOUS
<1> DEFINE n == Len(view)
           m == Len(thread)
           users == {i \in DOMAIN thread : thread[i].role = "user"}
<1>0. ThreadInv /\ Tiled(view, m) /\ m \in Nat /\ m >= 2 /\ DOMAIN thread = 1..m
      /\ thread[1].role = "system" /\ thread[2].role = "user"
      /\ \A i \in 2..m : thread[i].role # "system"
  BY LenProperties DEF CompactionInv, ThreadInv
<1>1. PICK ends \in [0..n -> 0..m] : TiledBy(view, m, ends)
  BY <1>0 DEF Tiled, TiledBy
<1>2. n \in Nat /\ DOMAIN view = 1..n
  BY <1>0, <1>1, TilesAre
<1>3. \A k \in 1..n, i \in 1..m : i \in view[k].stands <=> ends[k - 1] < i /\ i <= ends[k]
  BY <1>0, <1>1, StandsBetween DEF Bounds
<1>4. \A k \in 1..n : Stands(view[k], ends[k - 1] + 1, ends[k])
  BY <1>1 DEF TiledBy
<1>5. \A k \in 1..n : view[k] \in ItemType
  BY <1>0, <1>1, TilesAre
<1>6. \A k \in 1..n : view[k].stands = (ends[k - 1] + 1)..ends[k]
  BY <1>1 DEF TiledBy, Tiling
<1>7. \A k \in 1..n : ends[k] \in 1..m /\ ends[k - 1] \in 0..m
  BY <1>0, <1>1, TilesAre
<1>8. Latest("user") \in users /\ \A j \in users : Latest("user") >= j
  <2>1. users \in SUBSET (1..m) /\ users # {}
    BY <1>0
  <2>2. Latest("user") = Max(users)
    BY DEF Latest
  <2>3. m \in Nat
    BY <1>0
  <2> HIDE DEF users, m
  <2>4. Max(users) \in users /\ \A j \in users : Max(users) >= j
    BY <2>1, <2>3, Extremes
  <2> QED
    BY <2>2, <2>4
<1>9. \A b \in Bundles : /\ b.start \in 1..(m - 1) /\ b.end = b.start + 2
                         /\ thread[b.start].role = "call" /\ thread[b.start + 1].role = "tool"
                         /\ b = [start |-> b.start, end |-> b.start + 2]
  BY <1>0, BundleShape
<1>10. ASSUME NEW i \in 1..m, NEW b \in Bundles, b.start <= i, i < b.end
       PROVE  thread[i].role \in {"call", "tool"} /\ (thread[i].role = "call" => i = b.start)
  <2>1. i = b.start \/ i = b.start + 1
    BY <1>9, <1>10
  <2> QED
    BY <1>9, <2>1
<1>11. ASSUME NEW i \in 1..m, thread[i].role = "system" \/ i = Latest("user"), NEW k \in Shown(i)
       PROVE  view[k].stands = {i} /\ view[k].whole
  <2>1. k \in 1..n /\ ends[k - 1] < i /\ i <= ends[k]
    BY <1>2, <1>3 DEF Shown
  <2>2. ends[k - 1] \in Int /\ ends[k] \in Int /\ i \in Int
    BY <1>7, <2>1
  <2>3. Stands(view[k], ends[k - 1] + 1, ends[k]) /\ view[k].role \in ThreadRoles \cup {"memory", "note"}
    BY <1>4, <1>5, <2>1 DEF ItemType
  <2>4. thread[i].role \in {"system", "user"}
    BY <1>8, <1>11
  <2>5. view[k].role # "memory"
    <3> SUFFICES ASSUME view[k].role = "memory" PROVE FALSE
      OBVIOUS
    <3>1. i \in (ends[k - 1] + 1)..ends[k]
      BY <2>1, <2>2
    <3>2. Covered(i)
      BY <2>3, <3>1 DEF Stands, ThreadRoles
    <3>3. PICK b \in Bundles : b.start <= i /\ i < b.end
      BY <3>2 DEF Covered, OldBundles
    <3> QED
      BY <1>10, <2>4, <3>3
  <2>6. view[k].role # "note"
    <3> SUFFICES ASSUME view[k].role = "note" PROVE FALSE
      OBVIOUS
    <3>1. ends[k - 1] + 1 = 2 /\ ends[k] < m /\ thread[ends[k] + 1].role = "user"
      BY <2>3 DEF Stands, ThreadRoles
    <3>2. i \in 2..m
      BY <2>1, <2>2, <3>1
    <3>3. i = Latest("user")
      BY <1>0, <1>11, <3>2
    <3>4. ends[k] + 1 \in users
      <4>1. ends[k] + 1 \in 1..m
        BY <1>0, <1>7, <2>1, <3>1
      <4> QED
        BY <1>0, <3>1, <4>1
    <3>5. i >= ends[k] + 1
      BY <1>8, <3>3, <3>4
    <3> QED
      BY <2>1, <2>2, <3>5
  <2>7. view[k].role \in ThreadRoles
    BY <2>3, <2>5, <2>6
  <2>8. ends[k - 1] + 1 = ends[k] /\ view[k].role = thread[ends[k]].role
        /\ (view[k].role # "tool" => view[k].whole)
    BY <2>3, <2>7 DEF Stands
  <2>9. ends[k] = i
    BY <2>1, <2>2, <2>8
  <2>10. view[k].stands = i..i
    BY <1>6, <2>1, <2>8, <2>9
  <2> QED
    BY <2>2, <2>4, <2>8, <2>9, <2>10
<1>12. ASSUME NEW k \in 1..n, view[k].role = "user" PROVE view[k].whole
  BY <1>4, <1>12 DEF Stands, ThreadRoles
<1>13. ASSUME NEW b \in Bundles, Cardinality({c \in Bundles : c.start > b.start}) < 2,
              NEW k \in Shown(b.start), view[k].role = "memory"
       PROVE  FALSE
  <2> DEFINE i == b.start
  <2>1. i \in 1..m /\ thread[i].role = "call" /\ i \in Int
    BY <1>0, <1>9
  <2>2. k \in 1..n /\ ends[k - 1] < i /\ i <= ends[k]
    BY <1>2, <1>3, <2>1 DEF Shown
  <2>3. i \in (ends[k - 1] + 1)..ends[k]
    BY <1>7, <2>1, <2>2
  <2> HIDE DEF i
  <2>4. Covered(i)
    BY <1>4, <1>13, <2>2, <2>3 DEF Stands, ThreadRoles
  <2>5. PICK c \in OldBundles : c.start <= i /\ i < c.end
    BY <2>4 DEF Covered
  <2>6. c \in Bundles /\ Cardinality({d \in Bundles : d.start > c.start}) >= 2
    BY <2>5 DEF OldBundles
  <2>7. i = c.start
    BY <1>10, <2>1, <2>5, <2>6
  <2>8. c = b
    BY <1>9, <2>6, <2>7 DEF i
  <2>9. Cardinality({d \in Bundles : d.start > b.start}) \in Nat
    BY <1>0, BundlesFinite
  <2> QED
    BY <1>13, <2>6, <2>8, <2>9
<1> QED
  BY <1>0, <1>2, <1>11, <1>12, <1>13 DEF OwnerIsHeard

LEMMA InvAccepts == CompactionInv => MemoryAccepted
<1> SUFFICES ASSUME ThreadInv, NEW segments, SegmentsInv(segments) PROVE Accepted(segments)
  BY DEF CompactionInv, MemoryAccepted
<1>1. segments \in Seq(SegmentType) /\ DOMAIN segments = 1..Len(segments) /\ Len(segments) \in Nat
      /\ Len(segments) <= MaxSegments
  BY LenProperties DEF SegmentsInv
<1>2. \A i \in 1..Len(segments) : Sound(segments[i])
  BY DEF SegmentsInv
<1>3. \A i \in 1..Len(segments) : i > 1 => segments[i - 1].end <= segments[i].start
  <2> SUFFICES ASSUME NEW i \in 1..Len(segments), i > 1
               PROVE  segments[i - 1].end <= segments[i].start
    OBVIOUS
  <2>1. i - 1 \in 1..Len(segments) /\ i - 1 < i
    BY <1>1
  <2> QED
    BY <2>1 DEF SegmentsInv, InOrder
<1>4. OldBundles \subseteq Bundles
  BY DEF OldBundles
<1> QED
  BY <1>1, <1>2, <1>3, <1>4 DEF Accepted, Sound, Complete

LEMMA InvIsSound == CompactionInv => ProjectionSound
BY InvAccepts, ViewInOrder, ViewKeepsPairs, ViewHearsOwner DEF ProjectionSound

LEMMA InvIsTyped == CompactionInv => CompactionTypeOK
BY DEF CompactionInv, CompactionTypeOK, ThreadInv, SegmentsInv

-------------------------------------------------------------------------------
(* The invariant holds at first and every step keeps it.                      *)

LEMMA CompactionStarts == CompactionInit => CompactionInv
<1> SUFFICES ASSUME CompactionInit PROVE CompactionInv
  OBVIOUS
<1>1. thread = <<Message("system", 1), Message("user", 1)>> /\ memory = <<>> /\ fitted = <<>>
      /\ passes = 0 /\ view = <<>> /\ fitting = -1
  BY DEF CompactionInit
<1>2. MaxLength \in Nat /\ MaxLength >= 2 /\ MaxSegments \in Nat /\ MaxPasses \in Nat
      /\ FitAttempts \in Nat
  BY CompactionAssumption
<1>3. ThreadInv
  <2>1. Message("system", 1) \in MessageType /\ Message("user", 1) \in MessageType
    BY DEF Message, MessageType, ThreadRoles
  <2>2. thread \in Seq(MessageType) /\ Len(thread) = 2
    BY <1>1, <2>1
  <2>3. thread[1].role = "system" /\ thread[2].role = "user"
    BY <1>1 DEF Message
  <2> QED
    BY <1>2, <2>2, <2>3 DEF ThreadInv
<1>4. SegmentsInv(<<>>)
  BY <1>2 DEF SegmentsInv, InOrder
<1> QED
  BY <1>1, <1>2, <1>3, <1>4 DEF CompactionInv

LEMMA SegmentsStay ==
    ASSUME ThreadInv, ThreadInv', Len(thread) <= Len(thread'),
           \A i \in 1..Len(thread) : thread'[i] = thread[i],
           NEW segments, SegmentsInv(segments)
    PROVE  SegmentsInv(segments)'
BY ThreadGrows DEF SegmentsInv, InOrder

LEMMA SameThread ==
    ASSUME ThreadInv, thread' = thread
    PROVE  /\ ThreadInv'
           /\ \A segments : SegmentsInv(segments) => SegmentsInv(segments)'
           /\ \A v : Tiled(v, Len(thread)) => Tiled(v, Len(thread))'
<1>1. ThreadInv'
  BY DEF ThreadInv
<1>2. Len(thread) \in Nat /\ Len(thread') = Len(thread)
  BY DEF ThreadInv
<1>3. ASSUME NEW segments, SegmentsInv(segments) PROVE SegmentsInv(segments)'
  BY <1>1, <1>2, <1>3, SegmentsStay
<1>4. OldBundles' = OldBundles
  BY DEF OldBundles, Bundles
<1>5. ASSUME NEW v, Tiled(v, Len(thread)) PROVE Tiled(v, Len(thread))'
  <2>1. PICK ends \in [0..Len(v) -> 0..Len(thread)] :
            /\ Tiling(v, ends, Len(thread))
            /\ \A k \in 1..Len(v) : Stands(v[k], ends[k - 1] + 1, ends[k])
    BY <1>5 DEF Tiled
  <2>2. Tiling(v, ends, Len(thread))'
    BY <2>1 DEF Tiling
  <2>3. ASSUME NEW k \in 1..Len(v) PROVE Stands(v[k], ends[k - 1] + 1, ends[k])'
    <3>1. Stands(v[k], ends[k - 1] + 1, ends[k])
      BY <2>1
    <3> QED
      BY <1>4, <3>1 DEF Stands, Covered
  <2> QED
    BY <2>2, <2>3 DEF Tiled
<1> QED
  BY <1>1, <1>3, <1>5

LEMMA GrowsInv ==
    ASSUME CompactionInv, NEW messages \in Seq(MessageType), Grows(messages),
           \A k \in 1..Len(messages) : messages[k].role # "system"
    PROVE  CompactionInv'
<1> DEFINE w == thread \o messages
           n == Len(thread)
<1>1. ThreadInv /\ thread \in Seq(MessageType) /\ n \in Nat /\ n >= 2 /\ Len(messages) \in Nat
      /\ MaxLength \in Nat
  BY CompactionAssumption, LenProperties DEF CompactionInv, ThreadInv
<1>2. thread' = w /\ n + Len(messages) <= MaxLength
  BY DEF Grows
<1>3. /\ w \in Seq(MessageType) /\ Len(w) = n + Len(messages)
      /\ \A i \in 1..(n + Len(messages)) : w[i] = IF i <= n THEN thread[i] ELSE messages[i - n]
  BY <1>1, ConcatProperties
<1> HIDE DEF w
<1>4. ASSUME NEW i \in 1..n PROVE w[i] = thread[i]
  <2>1. i \in 1..(n + Len(messages)) /\ i <= n
    BY <1>1
  <2> QED
    BY <1>3, <2>1
<1>5. ThreadInv'
  <2>1. Len(w) \in 2..MaxLength
    BY <1>1, <1>2, <1>3
  <2>2. w[1].role = "system" /\ w[2].role = "user"
    BY <1>1, <1>4 DEF ThreadInv
  <2>3. ASSUME NEW i \in 2..Len(w) PROVE w[i].role # "system"
    <3>1. CASE i <= n
      BY <1>1, <1>4, <3>1 DEF ThreadInv
    <3>2. CASE ~(i <= n)
      <4>1. i \in 1..(n + Len(messages)) /\ i - n \in 1..Len(messages)
        BY <1>1, <1>3, <3>2
      <4> QED
        BY <1>3, <3>2, <4>1
    <3> QED
      BY <3>1, <3>2
  <2> QED
    BY <1>2, <1>3, <2>1, <2>2, <2>3 DEF ThreadInv
<1>6. n <= Len(thread') /\ \A i \in 1..n : thread'[i] = thread[i]
  BY <1>1, <1>2, <1>3, <1>4
<1>7. SegmentsInv(memory)' /\ SegmentsInv(fitted)'
  <2>1. \A segments : SegmentsInv(segments) => SegmentsInv(segments)'
    BY <1>1, <1>5, <1>6, SegmentsStay
  <2>2. memory' = memory /\ fitted' = fitted
    BY DEF Grows
  <2>3. SegmentsInv(memory) /\ SegmentsInv(fitted)
    BY DEF CompactionInv
  <2> QED
    BY <2>1, <2>2, <2>3
<1> QED
  BY <1>5, <1>7 DEF CompactionInv, Grows

\* A step that leaves the thread alone and works out segments and a view of it.
LEMMA StepKeeps ==
    ASSUME CompactionInv, thread' = thread,
           SegmentsInv(memory'), SegmentsInv(fitted'),
           view' # <<>> => Tiled(view', Len(thread)),
           passes' \in 0..MaxPasses, fitting' \in -1..FitAttempts,
           fitting' # -1 => view' # <<>>
    PROVE  CompactionInv'
<1>1. /\ ThreadInv'
      /\ \A segments : SegmentsInv(segments) => SegmentsInv(segments)'
      /\ \A v : Tiled(v, Len(thread)) => Tiled(v, Len(thread))'
  BY SameThread DEF CompactionInv
<1>2. SegmentsInv(memory)' /\ SegmentsInv(fitted)'
  BY <1>1
<1>3. view' # <<>> => Tiled(view, Len(thread))'
  BY <1>1
<1> QED
  BY <1>1, <1>2, <1>3 DEF CompactionInv

LEMMA TiledIsSomething ==
    ASSUME ThreadInv, NEW v, Tiled(v, Len(thread))
    PROVE  v # <<>>
<1>1. PICK ends \in [0..Len(v) -> 0..Len(thread)] : TiledBy(v, Len(thread), ends)
  BY DEF Tiled, TiledBy
<1>2. ends[0] = 0 /\ ends[Len(v)] = Len(thread) /\ Len(v) \in Nat
  BY <1>1, TilesAre
<1>3. Len(thread) # 0
  BY DEF ThreadInv
<1>4. Len(v) # 0
  BY <1>2, <1>3
<1> QED
  BY <1>4

LEMMA CompactionStep == CompactionInv /\ [CompactionNext]_compactionVars => CompactionInv'
<1> SUFFICES ASSUME CompactionInv, [CompactionNext]_compactionVars PROVE CompactionInv'
  OBVIOUS
<1>1. /\ ThreadInv /\ SegmentsInv(memory) /\ SegmentsInv(fitted)
      /\ passes \in 0..MaxPasses /\ fitting \in -1..FitAttempts
      /\ view # <<>> => Tiled(view, Len(thread))
      /\ fitting # -1 => view # <<>>
  BY DEF CompactionInv
<1>2. MaxPasses \in Nat /\ FitAttempts \in Nat /\ MaxSegments \in Nat
  BY CompactionAssumption
<1>3. SegmentsInv(<<>>)
  BY <1>2 DEF SegmentsInv, InOrder
<1>4. Message("user", 1) \in MessageType /\ Message("user", 1).role = "user"
      /\ Message("call", 1) \in MessageType /\ Message("call", 1).role = "call"
  BY DEF Message, MessageType, ThreadRoles
<1>5. CASE OwnerWrites
  <2> DEFINE messages == <<Message("user", 1)>>
  <2>1. messages \in Seq(MessageType) /\ \A k \in 1..Len(messages) : messages[k].role # "system"
    BY <1>4
  <2>2. Grows(messages)
    BY <1>5 DEF OwnerWrites
  <2> HIDE DEF messages
  <2> QED
    BY <2>1, <2>2, GrowsInv
<1>6. CASE ToolReturns
  <2>1. PICK size \in ResultSizes : Grows(<<Message("call", 1), Message("tool", size)>>)
    BY <1>6 DEF ToolReturns
  <2> DEFINE messages == <<Message("call", 1), Message("tool", size)>>
  <2>2. size \in Nat
    BY CompactionAssumption
  <2>3. Message("tool", size) \in MessageType /\ Message("tool", size).role = "tool"
    BY <2>2 DEF Message, MessageType, ThreadRoles
  <2>4. messages \in Seq(MessageType) /\ \A k \in 1..Len(messages) : messages[k].role # "system"
    BY <1>4, <2>3
  <2> HIDE DEF messages
  <2> QED
    BY <2>1, <2>4, GrowsInv DEF messages
<1>7. CASE CallAbandoned
  <2> DEFINE messages == <<Message("call", 1), Message("user", 1)>>
  <2>1. messages \in Seq(MessageType) /\ \A k \in 1..Len(messages) : messages[k].role # "system"
    BY <1>4
  <2>2. Grows(messages)
    BY <1>7 DEF CallAbandoned
  <2> HIDE DEF messages
  <2> QED
    BY <2>1, <2>2, GrowsInv
<1>8. CASE ShowAsIs
  <2>1. Tiled(Projection(memory), Len(thread))
    BY <1>1, ProjectionTiled
  <2>2. /\ thread' = thread /\ memory' = memory /\ fitted' = fitted
        /\ passes' \in {0, passes} /\ fitting' = -1 /\ view' = Projection(memory)
    BY <1>8 DEF ShowAsIs, RoundAfter
  <2>3. passes' \in 0..MaxPasses
    BY <1>1, <1>2, <2>2
  <2> QED
    BY <1>1, <1>2, <2>1, <2>2, <2>3, StepKeeps
<1>9. CASE PaidPass
  <2>1. PICK s \in Plans : \E size \in 1..SummaryLimit(s) :
            Best(s) /\ memory' = Inserted(memory, Segment(s, size))
    BY <1>9 DEF PaidPass
  <2>2. PICK size \in 1..SummaryLimit(s) : memory' = Inserted(memory, Segment(s, size))
    BY <2>1
  <2>3. SegmentsInv(memory')
    BY <1>1, <2>2, PlanJoins
  <2>4. /\ thread' = thread /\ fitted' = fitted /\ fitting' = -1 /\ view' = <<>>
        /\ passes < MaxPasses /\ passes' = passes + 1
    BY <1>9 DEF PaidPass
  <2>5. passes' \in 0..MaxPasses /\ fitting' \in -1..FitAttempts
    BY <1>1, <1>2, <2>4
  <2> QED
    BY <1>1, <2>3, <2>4, <2>5, StepKeeps
<1>10. CASE BeginFit
  <2>1. PICK need \in Needs : fitted' = MechanicalFit(need)
    BY <1>10 DEF BeginFit
  <2>2. SegmentsInv(fitted')
    BY <1>1, <2>1, MechanicalFitSound
  <2>3. /\ thread' = thread /\ memory' = memory /\ passes' = passes /\ fitting' = 0
        /\ view' = Projection(fitted')
    BY <1>10 DEF BeginFit
  <2>4. Tiled(view', Len(thread))
    <3>1. \A segments : SegmentsInv(segments) => Tiled(Projection(segments), Len(thread))
      BY <1>1, ProjectionTiled
    <3> QED
      BY <2>2, <2>3, <3>1
  <2>5. view' # <<>>
    <3>1. \A v : Tiled(v, Len(thread)) => v # <<>>
      BY <1>1, TiledIsSomething
    <3> QED
      BY <2>4, <3>1
  <2>6. fitting' \in -1..FitAttempts
    BY <1>2, <2>3
  <2> QED
    BY <1>1, <2>2, <2>3, <2>4, <2>5, <2>6, StepKeeps
<1>11. CASE FitMore
  <2>1. PICK need \in Needs : view' = FitView(view, need)
    BY <1>11 DEF FitMore
  <2>2. /\ thread' = thread /\ memory' = memory /\ passes' = passes /\ fitted' = fitted
        /\ fitting \in 0..(FitAttempts - 1) /\ fitting' = fitting + 1
    BY <1>11 DEF FitMore
  <2>3. Tiled(view, Len(thread))
    BY <1>1, <2>2
  <2>4. Tiled(view', Len(thread))
    BY <1>1, <2>1, <2>3, FitTiled
  <2>5. view' # <<>>
    <3>1. \A v : Tiled(v, Len(thread)) => v # <<>>
      BY <1>1, TiledIsSomething
    <3> QED
      BY <2>4, <3>1
  <2>6. fitting' \in -1..FitAttempts
    BY <1>2, <2>2
  <2> QED
    BY <1>1, <2>2, <2>4, <2>5, <2>6, StepKeeps
<1>12. CASE ShowFitted
  <2>1. /\ thread' = thread /\ memory' = fitted /\ passes' \in {0, passes}
        /\ fitted' = <<>> /\ fitting' = -1 /\ view' = view
    BY <1>12 DEF ShowFitted, RoundAfter
  <2>2. passes' \in 0..MaxPasses /\ fitting' \in -1..FitAttempts
    BY <1>1, <1>2, <2>1
  <2>3. SegmentsInv(memory') /\ SegmentsInv(fitted')
    BY <1>1, <1>3, <2>1
  <2>4. view' # <<>> => Tiled(view', Len(thread))
    BY <1>1, <2>1
  <2> QED
    BY <2>1, <2>2, <2>3, <2>4, StepKeeps
<1>13. CASE FitRefused
  <2>1. /\ thread' = thread /\ memory' = memory /\ passes' = passes /\ fitted' = <<>>
        /\ fitting' = -1 /\ view' = <<>>
    BY <1>13 DEF FitRefused
  <2>2. fitting' \in -1..FitAttempts
    BY <1>2, <2>1
  <2>3. SegmentsInv(memory') /\ SegmentsInv(fitted')
    BY <1>1, <1>3, <2>1
  <2> QED
    BY <1>1, <2>1, <2>2, <2>3, StepKeeps
<1>14. CASE UNCHANGED compactionVars
  <2>1. thread' = thread /\ memory' = memory /\ passes' = passes /\ fitted' = fitted
        /\ fitting' = fitting /\ view' = view
    BY <1>14 DEF compactionVars
  <2>2. view' # <<>> => Tiled(view', Len(thread))
    BY <1>1, <2>1
  <2> QED
    BY <1>1, <2>1, <2>2, StepKeeps
<1> QED
  BY <1>5, <1>6, <1>7, <1>8, <1>9, <1>10, <1>11, <1>12, <1>13, <1>14 DEF CompactionNext

LEMMA CompactionHolds == CompactionSpec => []CompactionInv
<1> QED
  BY CompactionStarts, CompactionStep, PTL DEF CompactionSpec

\* The bounds of what compaction keeps: the thread, the passes, the segments.
THEOREM CompactionTypeCorrect == CompactionSpec => []CompactionTypeOK
<1> QED
  BY CompactionHolds, InvIsTyped, PTL

\* What the model is shown of a thread is sound after any number of passes, fits and
\* clippings: every message once and in order, no call cut off from its result, the owner
\* whole; and the segments of the checkpoint are ones the next step accepts.
THEOREM ViewIsSound == CompactionSpec => []ProjectionSound
<1> QED
  BY CompactionHolds, InvIsSound, PTL
===============================================================================
