----------------------------- MODULE PrdProofs -----------------------------
(***************************************************************************)
(* What the assembly, the decisions and a repair make of the PRD: nothing  *)
(* is missing in silence, the decisions hold and a good PRD stays, for any *)
(* features, names taken for each other, decisions, answers and patches,   *)
(* and any limits.                                                         *)
(***************************************************************************)
EXTENDS Prd, SequenceTheorems, FiniteSetTheorems, WellFoundedInduction, TLAPS

-----------------------------------------------------------------------------
(* Sifting a sequence *)

LEMMA NatSetInduction ==
  ASSUME NEW T, 0 \in T, \A n \in Nat : n \in T => n + 1 \in T
  PROVE  Nat \subseteq T
  <1> SUFFICES ASSUME Nat \ T # {} PROVE FALSE
    OBVIOUS
  <1> DEFINE Less == {ss \in Nat \X Nat : ss[1] < ss[2]}
  <1>1. IsWellFoundedOn(Less, Nat)
    BY NatLessThanWellFounded DEF OpToRel
  <1>2. Nat \ T \subseteq Nat
    OBVIOUS
  <1> HIDE DEF Less
  <1>3. PICK n \in Nat \ T : \A m \in Nat \ T : ~(<<m, n>> \in Less)
    BY <1>1, <1>2, WFMin
  <1>4. n # 0 /\ n - 1 \in Nat /\ <<n - 1, n>> \in Nat \X Nat /\ n - 1 < n
    BY <1>3
  <1>5. <<n - 1, n>> \in Less
    BY <1>4 DEF Less
  <1>6. n - 1 + 1 \in T
    BY <1>3, <1>4, <1>5
  <1> QED
    BY <1>3, <1>4, <1>6

\* The table Sifted fills: what is kept of the first i elements.
Keep(k, x, out, repeats) ==
  IF x \in out \/ \E y \in ToSet(k) : <<y, x>> \in repeats THEN k ELSE Append(k, x)
Kept(m, seq, out, repeats, i) == IF i = 0 THEN <<>> ELSE Keep(m[i - 1], seq[i], out, repeats)
Keeps(m, seq, out, repeats, n) == m = [i \in 0 .. n |-> Kept(m, seq, out, repeats, i)]

LEMMA KeepsExist ==
  ASSUME NEW seq, NEW out, NEW repeats, NEW N \in Nat
  PROVE  \E m : Keeps(m, seq, out, repeats, N)
  <1> DEFINE T == {n \in Nat : \E m : Keeps(m, seq, out, repeats, n)}
  <1>1. 0 \in T
    <2> DEFINE m == [i \in 0 .. 0 |-> <<>>]
    <2>1. m = [i \in 0 .. 0 |-> Kept(m, seq, out, repeats, i)]
      BY DEF Kept
    <2> QED
      BY <2>1 DEF Keeps
  <1>2. ASSUME NEW n \in Nat, n \in T PROVE n + 1 \in T
    <2>1. PICK m : Keeps(m, seq, out, repeats, n)
      BY <1>2
    <2>2. m = [i \in 0 .. n |-> Kept(m, seq, out, repeats, i)]
      BY <2>1 DEF Keeps
    <2> DEFINE g == [i \in 0 .. (n + 1) |-> IF i <= n THEN m[i] ELSE Kept(m, seq, out, repeats, n + 1)]
    <2>3. ASSUME NEW i \in 0 .. (n + 1) PROVE g[i] = Kept(g, seq, out, repeats, i)
      <3>1. i <= n => m[i] = Kept(m, seq, out, repeats, i)
        BY <2>2
      <3>2. ~(i <= n) => i = n + 1
        OBVIOUS
      <3>3. g[i] = Kept(m, seq, out, repeats, i)
        BY <3>1, <3>2
      <3>4. i # 0 => g[i - 1] = m[i - 1]
        OBVIOUS
      <3> HIDE DEF g
      <3> QED
        BY <3>3, <3>4 DEF Kept
    <2>4. g = [i \in 0 .. (n + 1) |-> Kept(g, seq, out, repeats, i)]
      BY <2>3
    <2> HIDE DEF g
    <2> QED
      BY <2>4 DEF Keeps
  <1> HIDE DEF T
  <1>3. N \in T
    BY <1>1, <1>2, NatSetInduction
  <1> QED
    BY <1>3 DEF T

LEMMA SiftedTable ==
  ASSUME NEW seq, Len(seq) \in Nat, NEW out, NEW repeats
  PROVE  \E m : /\ Sifted(seq, out, repeats) = m[Len(seq)]
                /\ m[0] = <<>>
                /\ \A i \in 1 .. Len(seq) : m[i] = Keep(m[i - 1], seq[i], out, repeats)
  <1> DEFINE kept[i \in 0 .. Len(seq)] ==
               IF i = 0 THEN <<>>
               ELSE IF seq[i] \in out \/ \E x \in ToSet(kept[i - 1]) : <<x, seq[i]>> \in repeats
                    THEN kept[i - 1]
                    ELSE Append(kept[i - 1], seq[i])
  <1>1. Sifted(seq, out, repeats) = kept[Len(seq)]
    BY DEF Sifted
  <1>2. kept = CHOOSE m : Keeps(m, seq, out, repeats, Len(seq))
    BY DEF Keeps, Kept, Keep
  <1> HIDE DEF kept
  <1>3. Keeps(kept, seq, out, repeats, Len(seq))
    BY <1>2, KeepsExist
  <1>4. \A i \in 0 .. Len(seq) : kept[i] = Kept(kept, seq, out, repeats, i)
    BY <1>3 DEF Keeps
  <1>5. kept[0] = <<>>
    BY <1>4 DEF Kept
  <1>6. \A i \in 1 .. Len(seq) : kept[i] = Keep(kept[i - 1], seq[i], out, repeats)
    BY <1>4 DEF Kept
  <1> QED
    BY <1>1, <1>5, <1>6

LEMMA InSeq ==
  ASSUME NEW E, NEW s \in Seq(E)
  PROVE  /\ DOMAIN s = 1 .. Len(s) /\ Len(s) \in Nat /\ ToSet(s) \subseteq E
         /\ \A i \in 1 .. Len(s) : s[i] \in ToSet(s)
         /\ \A x \in ToSet(s) : \E i \in 1 .. Len(s) : x = s[i]
  BY DEF ToSet

Upto(seq, i) == {seq[j] : j \in 1 .. i}

LEMMA AppendedSet ==
  ASSUME NEW E, NEW k \in Seq(E), NEW x
  PROVE  /\ ToSet(Append(k, x)) = ToSet(k) \cup {x}
         /\ Len(Append(k, x)) = Len(k) + 1 /\ Append(k, x)[Len(k) + 1] = x
         /\ \A a \in 1 .. Len(k) : Append(k, x)[a] = k[a]
  <1>1. k \in Seq(E \cup {x}) /\ x \in E \cup {x}
    OBVIOUS
  <1>2. /\ Append(k, x) \in Seq(E \cup {x})
        /\ Len(Append(k, x)) = Len(k) + 1 /\ Append(k, x)[Len(k) + 1] = x
        /\ \A a \in 1 .. Len(k) : Append(k, x)[a] = k[a]
    BY <1>1, AppendProperties
  <1>3. DOMAIN k = 1 .. Len(k) /\ DOMAIN Append(k, x) = 1 .. (Len(k) + 1) /\ Len(k) \in Nat
    BY <1>1, <1>2
  <1>4. \A y \in ToSet(Append(k, x)) : y \in ToSet(k) \cup {x}
    <2> TAKE y \in ToSet(Append(k, x))
    <2>1. PICK a \in 1 .. (Len(k) + 1) : y = Append(k, x)[a]
      BY <1>3 DEF ToSet
    <2>2. a = Len(k) + 1 \/ a \in 1 .. Len(k)
      BY <1>3
    <2> QED
      BY <1>2, <1>3, <2>1, <2>2 DEF ToSet
  <1>5. x \in ToSet(Append(k, x))
    BY <1>2, <1>3 DEF ToSet
  <1>6. \A y \in ToSet(k) : y \in ToSet(Append(k, x))
    <2> TAKE y \in ToSet(k)
    <2>1. PICK a \in 1 .. Len(k) : y = k[a]
      BY <1>3 DEF ToSet
    <2>2. a \in 1 .. (Len(k) + 1) /\ Append(k, x)[a] = y
      BY <1>2, <1>3, <2>1
    <2> QED
      BY <1>3, <2>2 DEF ToSet
  <1> QED
    BY <1>2, <1>4, <1>5, <1>6

SiftHolds(k, S, out, repeats) ==
  /\ k \in Seq(S \ out)
  /\ \A x \in S \ out : x \in ToSet(k) \/ \E y \in ToSet(k) : <<y, x>> \in repeats
  /\ \A a, b \in 1 .. Len(k) : a < b => <<k[a], k[b]>> \notin repeats

LEMMA KeepHolds ==
  ASSUME NEW k, NEW S, NEW out, NEW repeats, NEW x, SiftHolds(k, S, out, repeats)
  PROVE  SiftHolds(Keep(k, x, out, repeats), S \cup {x}, out, repeats)
  <1>1. CASE x \in out \/ \E y \in ToSet(k) : <<y, x>> \in repeats
    <2>1. Keep(k, x, out, repeats) = k
      BY <1>1 DEF Keep
    <2>2. k \in Seq((S \cup {x}) \ out)
      BY DEF SiftHolds
    <2> QED
      BY <1>1, <2>1, <2>2 DEF SiftHolds
  <1>2. CASE ~(x \in out \/ \E y \in ToSet(k) : <<y, x>> \in repeats)
    <2> DEFINE q == Append(k, x)
    <2>1. Keep(k, x, out, repeats) = q
      BY <1>2 DEF Keep
    <2>2. k \in Seq((S \cup {x}) \ out) /\ x \in (S \cup {x}) \ out
      BY <1>2 DEF SiftHolds
    <2>3. q \in Seq((S \cup {x}) \ out)
      BY <2>2, AppendProperties
    <2>4. /\ ToSet(q) = ToSet(k) \cup {x} /\ Len(q) = Len(k) + 1 /\ q[Len(k) + 1] = x
          /\ \A a \in 1 .. Len(k) : q[a] = k[a]
      BY <2>2, AppendedSet
    <2>5. Len(k) \in Nat /\ \A a \in 1 .. Len(k) : k[a] \in ToSet(k)
      BY <2>2 DEF ToSet
    <2> HIDE DEF q
    <2>6. ASSUME NEW a \in 1 .. Len(q), NEW b \in 1 .. Len(q), a < b
          PROVE  <<q[a], q[b]>> \notin repeats
      <3>1. a \in 1 .. Len(k) /\ (b \in 1 .. Len(k) \/ b = Len(k) + 1)
        BY <2>4, <2>5, <2>6
      <3>2. q[a] = k[a] /\ k[a] \in ToSet(k)
        BY <2>4, <2>5, <3>1
      <3>3. CASE b = Len(k) + 1
        BY <1>2, <2>4, <3>2, <3>3
      <3>4. CASE b \in 1 .. Len(k)
        BY <2>4, <2>6, <3>1, <3>4 DEF SiftHolds
      <3> QED
        BY <3>1, <3>3, <3>4
    <2> QED
      BY <2>1, <2>3, <2>4, <2>6 DEF SiftHolds
  <1> QED
    BY <1>1, <1>2

\* What sifting keeps: only elements that are not left out, and of those every one that
\* does not repeat one that is kept.
LEMMA SiftedHolds ==
  ASSUME NEW E, NEW seq \in Seq(E), NEW out, NEW repeats
  PROVE  SiftHolds(Sifted(seq, out, repeats), ToSet(seq), out, repeats)
  <1>0. Len(seq) \in Nat /\ DOMAIN seq = 1 .. Len(seq)
    OBVIOUS
  <1>1. PICK m : /\ Sifted(seq, out, repeats) = m[Len(seq)]
                 /\ m[0] = <<>>
                 /\ \A i \in 1 .. Len(seq) : m[i] = Keep(m[i - 1], seq[i], out, repeats)
    BY <1>0, SiftedTable
  <1> DEFINE T == {n \in Nat : n <= Len(seq) => SiftHolds(m[n], Upto(seq, n), out, repeats)}
  <1>2. 0 \in T
    <2>1. SiftHolds(<<>>, {}, out, repeats)
      BY DEF SiftHolds
    <2>2. Upto(seq, 0) = {}
      BY DEF Upto
    <2> QED
      BY <1>1, <2>1, <2>2
  <1>3. ASSUME NEW n \in Nat, n \in T PROVE n + 1 \in T
    <2> SUFFICES ASSUME n + 1 <= Len(seq)
                 PROVE  SiftHolds(m[n + 1], Upto(seq, n + 1), out, repeats)
      OBVIOUS
    <2>1. n <= Len(seq) /\ n + 1 \in 1 .. Len(seq) /\ (n + 1) - 1 = n
      BY <1>0
    <2>2. SiftHolds(m[n], Upto(seq, n), out, repeats)
      BY <1>3, <2>1
    <2>3. m[n + 1] = Keep(m[n], seq[n + 1], out, repeats)
      BY <1>1, <2>1
    <2>4. Upto(seq, n + 1) = Upto(seq, n) \cup {seq[n + 1]}
      <3>1. 1 .. (n + 1) = (1 .. n) \cup {n + 1}
        OBVIOUS
      <3> QED
        BY <3>1 DEF Upto
    <2> QED
      BY <2>2, <2>3, <2>4, KeepHolds
  <1> HIDE DEF T
  <1>4. Len(seq) \in T
    BY <1>0, <1>2, <1>3, NatSetInduction
  <1>5. Upto(seq, Len(seq)) = ToSet(seq)
    BY <1>0 DEF Upto, ToSet
  <1> QED
    BY <1>0, <1>1, <1>4, <1>5 DEF T

\* The places of the first i elements that are kept, when only equal elements repeat.
Stay(seq, out, repeats, i) ==
  {j \in 1 .. i : seq[j] \notin out /\ \A k \in 1 .. j - 1 : <<seq[k], seq[j]>> \notin repeats}
Counted(k, seq, out, repeats, i) ==
  /\ SiftHolds(k, Upto(seq, i), out, repeats)
  /\ Len(k) = Cardinality(Stay(seq, out, repeats, i))
  /\ \A a, b \in 1 .. Len(k) : k[a] = k[b] => (a = b \/ ~IsInjective(seq))

LEMMA KeepCounted ==
  ASSUME NEW E, NEW seq \in Seq(E), NEW out, NEW repeats, NEW k, NEW i \in 0 .. (Len(seq) - 1),
         \A x, y : <<x, y>> \in repeats => x = y,
         Counted(k, seq, out, repeats, i)
  PROVE  Counted(Keep(k, seq[i + 1], out, repeats), seq, out, repeats, i + 1)
  <1> DEFINE x == seq[i + 1]
             S == Upto(seq, i)
             stay == Stay(seq, out, repeats, i)
             more == Stay(seq, out, repeats, i + 1)
             q == Append(k, x)
             stays == x \notin out /\ \A j \in 1 .. i : <<seq[j], x>> \notin repeats
  <1>0. Len(seq) \in Nat /\ DOMAIN seq = 1 .. Len(seq) /\ i \in Nat /\ i + 1 \in 1 .. Len(seq) /\ (i + 1) - 1 = i
    OBVIOUS
  <1>1. SiftHolds(k, S, out, repeats) /\ Len(k) = Cardinality(stay)
    BY DEF Counted
  <1>2. Upto(seq, i + 1) = S \cup {x}
    <2>1. 1 .. (i + 1) = (1 .. i) \cup {i + 1}
      BY <1>0
    <2> QED
      BY <2>1 DEF Upto
  <1>3. SiftHolds(Keep(k, x, out, repeats), S \cup {x}, out, repeats)
    BY <1>1, KeepHolds
  <1>4. more = IF stays THEN stay \cup {i + 1} ELSE stay
    <2>1. 1 .. (i + 1) = (1 .. i) \cup {i + 1}
      BY <1>0
    <2>2. \A j : j \in more <=> /\ j \in 1 .. (i + 1) /\ seq[j] \notin out
                               /\ \A m \in 1 .. j - 1 : <<seq[m], seq[j]>> \notin repeats
      BY DEF Stay
    <2>3. \A j : j \in stay <=> /\ j \in 1 .. i /\ seq[j] \notin out
                               /\ \A m \in 1 .. j - 1 : <<seq[m], seq[j]>> \notin repeats
      BY DEF Stay
    <2>4. i + 1 \in more <=> stays
      BY <1>0, <2>1, <2>2
    <2> HIDE DEF more, stay, stays
    <2>5. \A j : j \in more <=> j \in stay \/ (j = i + 1 /\ stays)
      BY <2>1, <2>2, <2>3, <2>4
    <2> QED
      BY <2>5
  <1>5. IsFiniteSet(stay) /\ i + 1 \notin stay
    <2>1. IsFiniteSet(1 .. i)
      BY <1>0, FS_Interval
    <2>2. stay \in SUBSET (1 .. i)
      BY DEF Stay
    <2>3. i + 1 \notin 1 .. i
      BY <1>0
    <2> HIDE DEF stay
    <2> QED
      BY <2>1, <2>2, <2>3, FS_Subset
  <1>6. stays <=> ~(x \in out \/ \E y \in ToSet(k) : <<y, x>> \in repeats)
    <2>1. ASSUME x \notin out, NEW y \in ToSet(k), <<y, x>> \in repeats PROVE ~stays
      <3>1. y = x
        BY <2>1
      <3>2. x \in S
        BY <1>1, <2>1, <3>1, InSeq DEF SiftHolds
      <3>3. PICK j \in 1 .. i : x = seq[j]
        BY <3>2 DEF Upto
      <3>4. <<seq[j], x>> \in repeats
        BY <2>1, <3>1, <3>3
      <3> QED
        BY <3>4
    <2>2. ASSUME x \notin out, NEW j \in 1 .. i, <<seq[j], x>> \in repeats
          PROVE  \E y \in ToSet(k) : <<y, x>> \in repeats
      <3>1. seq[j] = x /\ <<x, x>> \in repeats
        BY <2>2
      <3>2. x \in S \ out
        BY <2>2, <3>1 DEF Upto
      <3>3. x \in ToSet(k) \/ \E y \in ToSet(k) : <<y, x>> \in repeats
        BY <1>1, <3>2 DEF SiftHolds
      <3> QED
        BY <3>1, <3>3
    <2> QED
      BY <2>1, <2>2
  <1> HIDE DEF stay, more
  <1>7. Len(k) \in Nat /\ k \in Seq(S \ out)
    BY <1>1 DEF SiftHolds
  <1>8. CASE ~stays
    <2>1. Keep(k, x, out, repeats) = k
      BY <1>6, <1>8 DEF Keep
    <2>2. Len(k) = Cardinality(more)
      BY <1>1, <1>4, <1>8
    <2> QED
      BY <1>2, <1>3, <2>1, <2>2 DEF Counted, more
  <1>9. CASE stays
    <2>1. Keep(k, x, out, repeats) = q
      BY <1>6, <1>9 DEF Keep
    <2>2. /\ Len(q) = Len(k) + 1 /\ q[Len(k) + 1] = x
          /\ \A a \in 1 .. Len(k) : q[a] = k[a]
      BY <1>7, AppendedSet
    <2> HIDE DEF q
    <2>3. Cardinality(more) = Cardinality(stay) + 1
      BY <1>4, <1>5, <1>9, FS_AddElement
    <2>4. Len(q) = Cardinality(more)
      BY <1>1, <2>2, <2>3
    <2>5. ASSUME IsInjective(seq), NEW a \in 1 .. Len(k) PROVE k[a] # x
      <3>1. k[a] \in S
        BY <1>7
      <3>2. PICK j \in 1 .. i : k[a] = seq[j]
        BY <3>1 DEF Upto
      <3>3. j \in DOMAIN seq /\ i + 1 \in DOMAIN seq /\ j # i + 1
        BY <1>0
      <3> QED
        BY <2>5, <3>2, <3>3 DEF IsInjective
    <2>6. ASSUME IsInjective(seq), NEW a \in 1 .. Len(q), NEW b \in 1 .. Len(q), q[a] = q[b]
          PROVE  a = b
      <3>1. (a \in 1 .. Len(k) \/ a = Len(k) + 1) /\ (b \in 1 .. Len(k) \/ b = Len(k) + 1)
        BY <1>7, <2>2
      <3>2. CASE a \in 1 .. Len(k) /\ b \in 1 .. Len(k)
        BY <2>2, <2>6, <3>2 DEF Counted
      <3>3. CASE a = Len(k) + 1 /\ b = Len(k) + 1
        BY <3>3
      <3>4. CASE a \in 1 .. Len(k) /\ b = Len(k) + 1
        BY <2>2, <2>5, <2>6, <3>4
      <3>5. CASE a = Len(k) + 1 /\ b \in 1 .. Len(k)
        BY <2>2, <2>5, <2>6, <3>5
      <3> QED
        BY <3>1, <3>2, <3>3, <3>4, <3>5
    <2> QED
      BY <1>2, <1>3, <2>1, <2>4, <2>6 DEF Counted, more
  <1> QED
    BY <1>8, <1>9

\* How many sifting keeps, when only equal elements repeat; and of different elements it
\* keeps different ones.
LEMMA SiftedCounted ==
  ASSUME NEW E, NEW seq \in Seq(E), NEW out, NEW repeats,
         \A x, y : <<x, y>> \in repeats => x = y
  PROVE  Counted(Sifted(seq, out, repeats), seq, out, repeats, Len(seq))
  <1>0. Len(seq) \in Nat
    OBVIOUS
  <1>1. PICK m : /\ Sifted(seq, out, repeats) = m[Len(seq)]
                 /\ m[0] = <<>>
                 /\ \A i \in 1 .. Len(seq) : m[i] = Keep(m[i - 1], seq[i], out, repeats)
    BY <1>0, SiftedTable
  <1> DEFINE T == {n \in Nat : n <= Len(seq) => Counted(m[n], seq, out, repeats, n)}
  <1>2. 0 \in T
    <2>1. SiftHolds(<<>>, {}, out, repeats)
      BY DEF SiftHolds
    <2>2. Upto(seq, 0) = {} /\ Stay(seq, out, repeats, 0) = {}
      BY DEF Upto, Stay
    <2>3. Len(<<>>) = 0 /\ Cardinality({}) = 0
      BY FS_EmptySet
    <2>4. Counted(<<>>, seq, out, repeats, 0)
      <3>1. \A a \in 1 .. Len(<<>>) : FALSE
        BY <2>3
      <3> QED
        BY <2>1, <2>2, <2>3, <3>1 DEF Counted
    <2> QED
      BY <1>1, <2>4
  <1>3. ASSUME NEW n \in Nat, n \in T PROVE n + 1 \in T
    <2> SUFFICES ASSUME n + 1 <= Len(seq)
                 PROVE  Counted(m[n + 1], seq, out, repeats, n + 1)
      OBVIOUS
    <2>1. n <= Len(seq) /\ n + 1 \in 1 .. Len(seq) /\ (n + 1) - 1 = n /\ n \in 0 .. (Len(seq) - 1)
      BY <1>0
    <2>2. Counted(m[n], seq, out, repeats, n)
      BY <1>3, <2>1
    <2>3. m[n + 1] = Keep(m[n], seq[n + 1], out, repeats)
      BY <1>1, <2>1
    <2> QED
      BY <2>1, <2>2, <2>3, KeepCounted
  <1> HIDE DEF T
  <1>4. Len(seq) \in T
    BY <1>0, <1>2, <1>3, NatSetInduction
  <1> QED
    BY <1>0, <1>1, <1>4 DEF T

-----------------------------------------------------------------------------
(* The scope *)

HasScope(doc) == {"core", "included", "excluded", "kpi", "by"} \subseteq DOMAIN doc

\* The scope of a document leaves out what it excludes and what was decided.
ScopeHolds(doc) == doc.included \cap (doc.excluded \cup choice.excluded \cup choice.out) = {}

Unwritten == {Absent, Emergency("earlier")}

\* Before the workers are back the PRD is the earlier one, if there is one;
\* afterwards there is a document, whose scope is that of the decisions when the
\* workers wrote it.
IInv ==
  /\ stage \in {"writing", "stopped", "done"}
  /\ stage # "done" => prd \in Unwritten
  /\ stage = "done" => HasScope(prd) /\ (prd.by = "workers" => ScopeHolds(prd))

LEMMA EmergencyShape ==
  ASSUME NEW by
  PROVE  HasScope(Emergency(by)) /\ Emergency(by).by = by
  BY DEF Emergency, HasScope

\* align_project_scope moves every exclusion out of the included features.
LEMMA AlignedHolds ==
  ASSUME NEW doc, HasScope(doc)
  PROVE  HasScope(Aligned(doc)) /\ ScopeHolds(Aligned(doc)) /\ Aligned(doc).by = doc.by
  BY DEF Aligned, HasScope, ScopeHolds

LEMMA DecidedShape ==
  ASSUME NEW doc, HasScope(doc)
  PROVE  HasScope(Decided(doc)) /\ Decided(doc).by = doc.by
  <1> DEFINE ranked == Reconciled([i \in DOMAIN doc.core |-> ByChoice(doc.core[i])],
                         doc.included \cup choice.must,
                         doc.excluded \ (Confirmed \cup choice.must))
  <1>1. Decided(doc) = doc
          \/ Decided(doc) = [doc EXCEPT !.included = doc.included \cup choice.must,
                                        !.excluded = doc.excluded \ (Confirmed \cup choice.must),
                                        !.core = ranked]
    BY DEF Decided
  <1> HIDE DEF ranked
  <1> QED
    BY <1>1 DEF HasScope

\* Whatever the workers wrote, the document execute publishes keeps to the decisions.
LEMMA DocumentHolds ==
  ASSUME NEW written
  PROVE  /\ HasScope(Document(written)) /\ ScopeHolds(Document(written))
         /\ Document(written).by = "workers"
  <1> DEFINE core == Ensured(Deduplicated(Reconciled(Clean(written), First, Rest)))
             kpi == Assembled(written, "kpi")
             personas == Assembled(written, "persona")
             raw == [core |-> Reconciled(core, First, Rest), included |-> First, excluded |-> Rest,
                     kpi |-> kpi.items, personas |-> personas.items,
                     gaps |-> kpi.gaps \cup personas.gaps,
                     fallbacks |-> {slot \in Slots : written[slot] = Fallback}, by |-> "workers"]
  <1>1. HasScope(raw) /\ raw.by = "workers"
    BY DEF HasScope
  <1>2. Document(written) = Aligned(Decided(raw))
    BY DEF Document
  <1> HIDE DEF raw
  <1> QED
    BY <1>1, <1>2, DecidedShape, AlignedHolds

\* A repair that may touch the scope aligns it again; any other leaves it alone.
LEMMA PatchedHolds ==
  ASSUME NEW doc, NEW feedback, NEW patch, HasScope(doc)
  PROVE  /\ HasScope(Patched(doc, feedback, patch))
         /\ Patched(doc, feedback, patch).by = doc.by
         /\ ScopeHolds(doc) => ScopeHolds(Patched(doc, feedback, patch))
  <1> DEFINE may == Allowed(feedback) \cap patch.sections
             core == IF "core" \in may THEN PatchedCore(doc.core, feedback.names, patch.core)
                     ELSE doc.core
             kpi == IF "kpi" \in may THEN patch.kpi ELSE doc.kpi
             now == [doc EXCEPT !.core = core, !.kpi = kpi]
             moved == [now EXCEPT !.included = patch.included, !.excluded = patch.excluded]
  <1>1. Patched(doc, feedback, patch) = IF "scope" \in may THEN Aligned(moved) ELSE now
    BY DEF Patched
  <1> HIDE DEF may, core, kpi
  <1>2. HasScope(now) /\ now.by = doc.by /\ now.included = doc.included /\ now.excluded = doc.excluded
    BY DEF HasScope
  <1>3. HasScope(moved) /\ moved.by = doc.by
    BY <1>2 DEF HasScope
  <1> HIDE DEF now, moved
  <1>4. CASE "scope" \in may
    BY <1>1, <1>3, <1>4, AlignedHolds
  <1>5. CASE "scope" \notin may
    BY <1>1, <1>2, <1>5 DEF ScopeHolds
  <1> QED
    BY <1>4, <1>5

LEMMA InitHolds == Init => IInv
  BY DEF Init, IInv, Unwritten

\* The lists and the decisions are those the run began with.
LEMMA InputsStay == [Next]_vars => UNCHANGED <<features, choice>>
  BY DEF Next, vars, Accept, Reject, Review, Transport, Crash, Repair

\* An earlier PRD is the same document after every step.
LEMMA EarlierStays ==
  ASSUME UNCHANGED <<features, choice>>
  PROVE  Unwritten' = Unwritten
  BY DEF Unwritten, Emergency, First, Rest

LEMMA StepHolds == IInv /\ [Next]_vars => IInv'
  <1> SUFFICES ASSUME IInv, [Next]_vars PROVE IInv'
    OBVIOUS
  <1>0. UNCHANGED <<features, choice>> /\ Unwritten' = Unwritten
    BY InputsStay, EarlierStays
  <1>1. ASSUME prd' = prd, stage' = stage PROVE IInv'
    BY <1>0, <1>1 DEF IInv, HasScope, ScopeHolds
  <1>2. ASSUME NEW slot \in Slots, NEW text, Accept(slot, text) PROVE IInv'
    BY <1>1, <1>2 DEF Accept
  <1>3. ASSUME NEW slot \in Slots, NEW meaning, Reject(slot, meaning) PROVE IInv'
    BY <1>1, <1>3 DEF Reject
  <1>4. CASE Review
    <2>1. stage' = "done" /\ prd' = Document(sections)
      BY <1>4 DEF Review
    <2>2. HasScope(prd') /\ prd'.included \cap (prd'.excluded \cup choice.excluded \cup choice.out) = {}
      BY <2>1, DocumentHolds DEF ScopeHolds
    <2> QED
      BY <1>0, <2>1, <2>2 DEF IInv, HasScope, ScopeHolds
  <1>5. CASE Transport
    <2>1. stage = "writing" /\ stage' = "stopped" /\ prd' = prd
      BY <1>5 DEF Transport
    <2> QED
      BY <1>0, <2>1 DEF IInv
  <1>6. CASE Crash
    <2>1. /\ stage = "writing" /\ stage' = "done"
          /\ prd' = IF prd = Absent THEN Emergency("nobody") ELSE prd
      BY <1>6 DEF Crash
    <2>2. prd' = Emergency("nobody") \/ prd' = Emergency("earlier")
      BY <2>1 DEF IInv, Unwritten
    <2>3. HasScope(prd') /\ prd'.by # "workers"
      BY <2>2, EmergencyShape
    <2> QED
      BY <2>1, <2>3 DEF IInv, HasScope
  <1>7. ASSUME NEW feedback \in Feedback, NEW patch \in Patches, Repair(feedback, patch)
        PROVE  IInv'
    <2>1. stage = "done" /\ stage' = "done"
      BY <1>7 DEF Repair
    <2>2. prd' = prd \/ prd' = Patched(prd, feedback, patch)
      BY <1>7 DEF Repair
    <2>3. HasScope(prd) /\ (prd.by = "workers" => ScopeHolds(prd))
      BY <2>1 DEF IInv
    <2>4. HasScope(prd') /\ (prd'.by = "workers" =>
            prd'.included \cap (prd'.excluded \cup choice.excluded \cup choice.out) = {})
      BY <2>2, <2>3, PatchedHolds DEF ScopeHolds
    <2> QED
      BY <1>0, <2>1, <2>4 DEF IInv, HasScope, ScopeHolds
  <1>8. CASE UNCHANGED vars
    BY <1>1, <1>8 DEF vars
  <1> QED
    BY <1>2, <1>3, <1>4, <1>5, <1>6, <1>7, <1>8 DEF Next

LEMMA Invariance == Spec => []IInv
  BY InitHolds, StepHolds, PTL DEF Spec

\* Neither the assembly nor a repair brings back into the scope what the user or
\* the plan excluded.
THEOREM ExclusionsAreKept == Spec => []ExcludedStaysOut
  <1>1. IInv => ExcludedStaysOut
    BY DEF IInv, ExcludedStaysOut, ScopeHolds
  <1> QED
    BY <1>1, Invariance, PTL

\* A run that stops or crashes leaves an earlier PRD as it was: only a review of
\* all workers' answers replaces it.
THEOREM FailuresKeepThePrd == Spec => FailureKeepsThePrd
  <1>1. ASSUME [Next]_vars, stage = "writing", prd # Absent, prd' # prd
        PROVE  \A slot \in Slots : sections[slot] # Waiting
    <2>1. CASE Review
      BY <2>1 DEF Review
    <2>2. ~Transport /\ ~Crash /\ ~UNCHANGED vars
      BY <1>1 DEF Transport, Crash, vars
    <2>3. /\ \A slot, text : ~Accept(slot, text)
          /\ \A slot, meaning : ~Reject(slot, meaning)
          /\ \A feedback, patch : ~Repair(feedback, patch)
      BY <1>1 DEF Accept, Reject, Repair
    <2> QED
      BY <1>1, <2>1, <2>2, <2>3 DEF Next
  <1> QED
    BY <1>1, PTL DEF Spec, FailureKeepsThePrd

-----------------------------------------------------------------------------
(* The features of a document *)

Prios == Priorities \cup {Absent, "P0", "P1", "P2", "P3", "EXCLUDE"}
Feature == [name : Names, scope : {Absent, "mvp", "excluded"},
            text : {"written", "template", "boilerplate", "repaired"}, prio : Prios]

Beyond(f, excluded) == f.name \in excluded \/ f.prio = "EXCLUDE" \/ f.scope = "excluded"

\* normalize_priorities: one feature for each, with its name and text.
LEMMA ReconciledHolds ==
  ASSUME NEW core \in Seq(Feature), NEW included, NEW excluded
  PROVE  /\ Reconciled(core, included, excluded) \in Seq(Feature)
         /\ Len(Reconciled(core, included, excluded)) = Len(core)
         /\ \A i \in 1 .. Len(core) :
              LET f == Reconciled(core, included, excluded)[i]
              IN  /\ f \in Feature /\ f.name = core[i].name /\ f.text = core[i].text
                  /\ f.prio # "EXCLUDE"
                  /\ f.scope = IF Beyond(core[i], excluded) THEN "excluded" ELSE "mvp"
  <1> DEFINE Raw(f) == IF f.prio # Absent THEN f.prio ELSE IF f.name \in included THEN "P0" ELSE "P1"
             before(i) == {j \in 1 .. i - 1 : ~Beyond(core[j], excluded) /\ Raw(core[j]) = "P0"}
             Rank(f, full) == IF Beyond(f, excluded) THEN "P3"
                              ELSE IF Raw(f) = "P0" /\ full THEN "P1" ELSE Raw(f)
             R == Reconciled(core, included, excluded)
  <1>1. R = [i \in DOMAIN core |->
               [core[i] EXCEPT !.scope = IF Beyond(core[i], excluded) THEN "excluded" ELSE "mvp",
                               !.prio = Rank(core[i], Cardinality(before(i)) >= MaxP0)]]
    BY DEF Reconciled, Beyond
  <1>2. DOMAIN core = 1 .. Len(core) /\ Len(core) \in Nat /\ \A i \in 1 .. Len(core) : core[i] \in Feature
    OBVIOUS
  <1>3. ASSUME NEW f \in Feature, NEW full
        PROVE  Rank(f, full) \in Prios /\ Rank(f, full) # "EXCLUDE"
    <2>1. Raw(f) \in Prios /\ (~Beyond(f, excluded) => Raw(f) # "EXCLUDE")
      BY DEF Feature, Prios, Beyond
    <2> HIDE DEF Raw
    <2> QED
      BY <2>1 DEF Prios
  <1> HIDE DEF R, Rank, before
  <1>4. ASSUME NEW i \in 1 .. Len(core)
        PROVE  /\ R[i] \in Feature /\ R[i].name = core[i].name /\ R[i].text = core[i].text
               /\ R[i].prio # "EXCLUDE"
               /\ R[i].scope = IF Beyond(core[i], excluded) THEN "excluded" ELSE "mvp"
    <2> DEFINE prio == Rank(core[i], Cardinality(before(i)) >= MaxP0)
               scope == IF Beyond(core[i], excluded) THEN "excluded" ELSE "mvp"
    <2>1. R[i] = [core[i] EXCEPT !.scope = scope, !.prio = prio]
      BY <1>1, <1>2
    <2>2. prio \in Prios /\ prio # "EXCLUDE" /\ scope \in {"mvp", "excluded"} /\ core[i] \in Feature
      BY <1>2, <1>3
    <2> HIDE DEF prio, scope
    <2>3. /\ R[i] \in Feature /\ R[i].name = core[i].name /\ R[i].text = core[i].text
          /\ R[i].prio = prio /\ R[i].scope = scope
      BY <2>1, <2>2 DEF Feature
    <2> QED
      BY <2>2, <2>3 DEF scope
  <1>5. DOMAIN R = 1 .. Len(core) /\ R \in [1 .. Len(core) -> Feature]
    BY <1>1, <1>2, <1>4
  <1>6. R \in Seq(Feature) /\ Len(R) = Len(core)
    BY <1>2, <1>5
  <1> QED
    BY <1>4, <1>6 DEF R

\* What a worker may have given a feature.
Written(written) ==
  \A i \in DOMAIN features :
    written[<<"core", i>>] \in {Waiting, Fallback} \cup {Wrote(p) : p \in Priorities}

LEMMA CleanHolds ==
  ASSUME NEW written, features \in Seq(Names), Written(written)
  PROVE  /\ Clean(written) \in Seq(Feature) /\ Len(Clean(written)) = Len(features)
         /\ \A i \in 1 .. Len(features) :
              /\ Clean(written)[i].name = features[i]
              /\ Clean(written)[i].scope = Absent /\ Clean(written)[i].prio # "EXCLUDE"
              /\ Clean(written)[i].text = "written" \/ written[<<"core", i>>] = Fallback
  <1>1. DOMAIN features = 1 .. Len(features) /\ Len(features) \in Nat
        /\ \A i \in 1 .. Len(features) : features[i] \in Names
    OBVIOUS
  <1>2. ASSUME NEW i \in 1 .. Len(features)
        PROVE  /\ Clean(written)[i] \in Feature
               /\ Clean(written)[i].name = features[i]
               /\ Clean(written)[i].scope = Absent /\ Clean(written)[i].prio # "EXCLUDE"
               /\ Clean(written)[i].text = "written" \/ written[<<"core", i>>] = Fallback
    <2> DEFINE item == written[<<"core", i>>]
               prio == IF item = Fallback THEN Absent ELSE item[2]
               text == IF item = Fallback THEN "template" ELSE "written"
    <2>1. Clean(written)[i] = [name |-> features[i], scope |-> Absent, text |-> text, prio |-> prio]
      BY <1>1 DEF Clean
    <2>2. item \in {Waiting, Fallback} \cup {Wrote(p) : p \in Priorities}
      BY <1>1 DEF Written
    <2>3. prio \in Priorities \cup {Absent}
      BY <2>2 DEF Waiting, Wrote
    <2>4. prio \in Prios /\ prio # "EXCLUDE"
      BY <2>3, PrdAssumption DEF Prios
    <2>5. text \in {"written", "template"} /\ (text = "written" \/ item = Fallback)
      OBVIOUS
    <2> HIDE DEF prio, text, item
    <2>6. Clean(written)[i] \in Feature
      BY <1>1, <2>1, <2>4, <2>5 DEF Feature
    <2> QED
      BY <2>1, <2>4, <2>5, <2>6 DEF item
  <1>3. Clean(written) \in [1 .. Len(features) -> Feature]
    BY <1>1, <1>2 DEF Clean
  <1>4. Clean(written) \in Seq(Feature) /\ Len(Clean(written)) = Len(features)
    BY <1>1, <1>3
  <1> QED
    BY <1>2, <1>4

LEMMA DeduplicatedHolds ==
  ASSUME NEW core \in Seq(Feature)
  PROVE  LET D == Deduplicated(core)
         IN  /\ D \in Seq(Feature) /\ ToSet(D) \subseteq ToSet(core)
             /\ \A f \in ToSet(core) : f \in ToSet(D) \/ \E g \in ToSet(D) : Similar(g.name, f.name)
             /\ \A a, b \in 1 .. Len(D) : a < b => ~Similar(D[a].name, D[b].name)
  <1> DEFINE repeats == {p \in ToSet(core) \X ToSet(core) : Similar(p[1].name, p[2].name)}
             D == Deduplicated(core)
  <1>1. SiftHolds(D, ToSet(core), {}, repeats)
    BY SiftedHolds DEF Deduplicated
  <1>2. \A f, g : <<f, g>> \in repeats <=>
                  f \in ToSet(core) /\ g \in ToSet(core) /\ Similar(f.name, g.name)
    OBVIOUS
  <1> HIDE DEF repeats, D
  <1>3. D \in Seq(ToSet(core)) /\ ToSet(core) \subseteq Feature
    BY <1>1, InSeq DEF SiftHolds
  <1>4. D \in Seq(Feature)
    BY <1>3
  <1>5. ToSet(D) \subseteq ToSet(core) /\ \A i \in 1 .. Len(D) : D[i] \in ToSet(core)
    BY <1>3, InSeq
  <1>6. \A f \in ToSet(core) : f \in ToSet(D) \/ \E g \in ToSet(D) : Similar(g.name, f.name)
    BY <1>1, <1>2 DEF SiftHolds
  <1>7. \A a, b \in 1 .. Len(D) : a < b => ~Similar(D[a].name, D[b].name)
    BY <1>1, <1>2, <1>5 DEF SiftHolds
  <1> QED
    BY <1>4, <1>5, <1>6, <1>7 DEF D

Boilerplate(n) == [name |-> n, scope |-> Absent, text |-> "boilerplate", prio |-> "P0"]

LEMMA EnsuredHolds ==
  ASSUME NEW core \in Seq(Feature), features \in Seq(Names)
  PROVE  \E missing \in Seq(Names) :
           /\ missing = Sifted(features, NamesOf(core), {})
           /\ ToSet(missing) = ToSet(features) \ NamesOf(core)
           /\ Ensured(core) \in Seq(Feature)
           /\ Len(Ensured(core)) = Len(core) + Len(missing)
           /\ \A i \in 1 .. Len(core) + Len(missing) :
                Ensured(core)[i] = IF i <= Len(core) THEN core[i] ELSE Boilerplate(missing[i - Len(core)])
  <1> DEFINE missing == Sifted(features, NamesOf(core), {})
             added == [i \in DOMAIN missing |-> Boilerplate(missing[i])]
  <1>1. SiftHolds(missing, ToSet(features), NamesOf(core), {})
    BY SiftedHolds
  <1>2. Ensured(core) = core \o added
    BY DEF Ensured, Boilerplate
  <1> HIDE DEF missing
  <1>3. missing \in Seq(ToSet(features) \ NamesOf(core)) /\ ToSet(features) \subseteq Names
    BY <1>1, InSeq DEF SiftHolds
  <1>4. missing \in Seq(Names)
    BY <1>3
  <1>5. ToSet(missing) = ToSet(features) \ NamesOf(core)
    <2>1. ToSet(missing) \subseteq ToSet(features) \ NamesOf(core)
      BY <1>3, InSeq
    <2> QED
      BY <1>1, <2>1 DEF SiftHolds
  <1>6. added \in Seq(Feature) /\ Len(added) = Len(missing)
    <2>1. DOMAIN missing = 1 .. Len(missing) /\ Len(missing) \in Nat
          /\ \A i \in 1 .. Len(missing) : missing[i] \in Names
      BY <1>4
    <2>2. \A n \in Names : Boilerplate(n) \in Feature
      BY DEF Boilerplate, Feature, Prios
    <2>3. added \in [1 .. Len(missing) -> Feature]
      BY <2>1, <2>2
    <2> HIDE DEF added
    <2> QED
      BY <2>1, <2>3
  <1>7. DOMAIN missing = 1 .. Len(missing) /\ Len(missing) \in Nat /\ Len(core) \in Nat
    BY <1>4
  <1>8. \A i \in 1 .. Len(missing) : added[i] = Boilerplate(missing[i])
    BY <1>7
  <1> HIDE DEF added
  <1>9. /\ Ensured(core) \in Seq(Feature) /\ Len(Ensured(core)) = Len(core) + Len(missing)
        /\ \A i \in 1 .. Len(core) + Len(missing) :
             Ensured(core)[i] = IF i <= Len(core) THEN core[i] ELSE added[i - Len(core)]
    <2> DEFINE both == core \o added
    <2>1. /\ both \in Seq(Feature) /\ Len(both) = Len(core) + Len(added)
          /\ \A i \in 1 .. Len(core) + Len(added) :
               both[i] = IF i <= Len(core) THEN core[i] ELSE added[i - Len(core)]
      BY <1>6, ConcatProperties
    <2> HIDE DEF both
    <2>2. Ensured(core) = both
      BY <1>2 DEF both
    <2> QED
      BY <1>6, <2>1, <2>2
  <1>10. ASSUME NEW i \in 1 .. Len(core) + Len(missing)
         PROVE  Ensured(core)[i] =
                  IF i <= Len(core) THEN core[i] ELSE Boilerplate(missing[i - Len(core)])
    <2>1. CASE i <= Len(core)
      BY <1>9, <2>1
    <2>2. CASE ~(i <= Len(core))
      <3>1. i - Len(core) \in 1 .. Len(missing)
        BY <1>7, <2>2
      <3> QED
        BY <1>8, <1>9, <2>2, <3>1
    <2> QED
      BY <2>1, <2>2
  <1> QED
    BY <1>4, <1>5, <1>9, <1>10 DEF missing

\* No feature is out of the release but for the order of the list.
Fair(core) == \A i \in 1 .. Len(core) :
  core[i].prio # "EXCLUDE" /\ (core[i].scope = "excluded" => core[i].name \in Rest)

LEMMA FairReconciled ==
  ASSUME NEW core \in Seq(Feature), Fair(core)
  PROVE  Fair(Reconciled(core, First, Rest))
  BY ReconciledHolds DEF Fair, Beyond

\* The features of the document before the user's decisions.
Core(written) == Ensured(Deduplicated(Reconciled(Clean(written), First, Rest)))

LEMMA CoreHolds ==
  ASSUME NEW written, features \in Seq(Names), Written(written)
  PROVE  Core(written) \in Seq(Feature) /\ Fair(Core(written))
  <1> DEFINE A == Clean(written)
             B == Reconciled(A, First, Rest)
             C == Deduplicated(B)
  <1>1. A \in Seq(Feature) /\ Fair(A)
    <2>1. \A i \in 1 .. Len(A) : A[i].scope = Absent /\ A[i].prio # "EXCLUDE"
      BY CleanHolds
    <2>2. Absent # "excluded"
      BY PrdAssumption
    <2> QED
      BY CleanHolds, <2>1, <2>2 DEF Fair
  <1> HIDE DEF A
  <1>2. B \in Seq(Feature) /\ Fair(B)
    BY <1>1, ReconciledHolds, FairReconciled
  <1> HIDE DEF B
  <1>3. C \in Seq(Feature) /\ ToSet(C) \subseteq ToSet(B)
    BY <1>2, DeduplicatedHolds
  <1> HIDE DEF C
  <1>4. \A i \in 1 .. Len(C) : C[i].prio # "EXCLUDE" /\ (C[i].scope = "excluded" => C[i].name \in Rest)
    <2> TAKE i \in 1 .. Len(C)
    <2>1. C[i] \in ToSet(B)
      BY <1>3, InSeq
    <2>2. PICK j \in 1 .. Len(B) : C[i] = B[j]
      BY <1>2, <2>1, InSeq
    <2> QED
      BY <1>2, <2>2 DEF Fair
  <1>5. PICK missing \in Seq(Names) :
           /\ Ensured(C) \in Seq(Feature)
           /\ Len(Ensured(C)) = Len(C) + Len(missing)
           /\ \A i \in 1 .. Len(C) + Len(missing) :
                Ensured(C)[i] = IF i <= Len(C) THEN C[i] ELSE Boilerplate(missing[i - Len(C)])
    BY <1>3, EnsuredHolds
  <1>6. \A n : Boilerplate(n).prio # "EXCLUDE" /\ Boilerplate(n).scope # "excluded"
    BY PrdAssumption DEF Boilerplate
  <1>7. Len(C) \in Nat /\ Len(missing) \in Nat
    BY <1>3
  <1>8. ASSUME NEW i \in 1 .. Len(Ensured(C))
        PROVE  /\ Ensured(C)[i].prio # "EXCLUDE"
               /\ Ensured(C)[i].scope = "excluded" => Ensured(C)[i].name \in Rest
    <2>1. CASE i <= Len(C)
      <3>1. i \in 1 .. Len(C) /\ Ensured(C)[i] = C[i]
        BY <1>5, <1>7, <2>1
      <3> QED
        BY <1>4, <3>1
    <2>2. CASE ~(i <= Len(C))
      <3>1. Ensured(C)[i] = Boilerplate(missing[i - Len(C)])
        BY <1>5, <2>2
      <3> QED
        BY <1>6, <3>1
    <2> QED
      BY <2>1, <2>2
  <1>9. Core(written) = Ensured(C)
    BY DEF Core, A, B, C
  <1> QED
    BY <1>5, <1>8, <1>9 DEF Fair

\* _apply_phase1_priorities: a decision for a name like the feature's ranks it.
Confirms(name) == \E n \in choice.must \cup choice.should \cup choice.could : Similar(name, n)
Excludes(name) == \E n \in choice.excluded : Similar(name, n)

LEMMA ByChoiceHolds ==
  ASSUME NEW f \in Feature
  PROVE  /\ ByChoice(f) \in Feature
         /\ ByChoice(f).name = f.name /\ ByChoice(f).text = f.text
         /\ Confirms(f.name) => ByChoice(f).prio # "EXCLUDE" /\ ByChoice(f).scope = "mvp"
         /\ ~Confirms(f.name) /\ ~Excludes(f.name) => ByChoice(f) = f
  <1> DEFINE Put(prio, scope) == [f EXCEPT !.prio = prio, !.scope = scope]
  <1>1. ASSUME NEW prio \in Prios, NEW scope \in {"mvp", "excluded"}
        PROVE  /\ Put(prio, scope) \in Feature
               /\ Put(prio, scope).name = f.name /\ Put(prio, scope).text = f.text
               /\ Put(prio, scope).prio = prio /\ Put(prio, scope).scope = scope
    BY <1>1 DEF Feature
  <1>2. {"P0", "P1", "P2", "EXCLUDE"} \subseteq Prios
    BY DEF Prios
  <1>3. \/ \E prio \in {"P2", "P1", "P0"} : ByChoice(f) = Put(prio, "mvp")
        \/ ~Confirms(f.name) /\ Excludes(f.name) /\ ByChoice(f) = Put("EXCLUDE", "excluded")
        \/ ~Confirms(f.name) /\ ~Excludes(f.name) /\ ByChoice(f) = f
    <2> DEFINE could == \E n \in choice.could : Similar(f.name, n)
               should == \E n \in choice.should : Similar(f.name, n)
               must == \E n \in choice.must : Similar(f.name, n)
    <2>1. ByChoice(f) = IF could THEN Put("P2", "mvp") ELSE IF should THEN Put("P1", "mvp")
                        ELSE IF must THEN Put("P0", "mvp")
                        ELSE IF Excludes(f.name) THEN Put("EXCLUDE", "excluded") ELSE f
      BY DEF ByChoice, Excludes
    <2>2. Confirms(f.name) => could \/ should \/ must
      BY DEF Confirms
    <2> HIDE DEF could, should, must, Put
    <2> QED
      BY <2>1, <2>2
  <1>4. ByChoice(f) = f => ByChoice(f) \in Feature
    OBVIOUS
  <1>5. ~Confirms(f.name) /\ ~Excludes(f.name) => ByChoice(f) = f
    BY DEF ByChoice, Confirms, Excludes
  <1> HIDE DEF Put
  <1> QED
    BY <1>1, <1>2, <1>3, <1>4, <1>5

\* Confirmed, ScopesAgree: what a document the workers wrote says of the decisions.
Heeded(core, included, excluded) ==
  /\ \A i \in 1 .. Len(core) :
       LET f == core[i]
       IN  /\ f.name \in Confirmed \ choice.out => f.scope = "mvp" /\ f.name \notin excluded
           /\ f.scope = "excluded" => f.name \in excluded \/ Excludes(f.name)
           /\ f.name \in excluded => \/ f.scope = "excluded" \/ f.name \in choice.out
                                     \/ f.name \in choice.excluded /\ Confirms(f.name)
  /\ choice.must \ (choice.out \cup choice.excluded) \subseteq included

LEMMA SimilarToItself == \A n : Similar(n, n)
  BY DEF Similar

\* The plan's and the user's exclusions, laid over the ranked features.
Laid(excluded) == excluded \cup choice.out \cup choice.excluded

LEMMA UndecidedHeeded ==
  ASSUME NEW core \in Seq(Feature), Fair(core),
         choice.must \cup choice.should \cup choice.could \cup choice.excluded = {}
  PROVE  Heeded(Reconciled(core, First, Rest), First \ Laid(Rest), Laid(Rest))
  <1> DEFINE R == Reconciled(core, First, Rest)
  <1>1. R \in Seq(Feature) /\ Len(R) = Len(core)
    BY ReconciledHolds
  <1>2. ASSUME NEW i \in 1 .. Len(core)
        PROVE  R[i].scope = IF R[i].name \in Rest THEN "excluded" ELSE "mvp"
    BY ReconciledHolds DEF Fair, Beyond
  <1>3. Confirmed = {} /\ choice.must = {} /\ choice.excluded = {}
    BY DEF Confirmed
  <1> HIDE DEF R
  <1> QED
    BY <1>1, <1>2, <1>3 DEF Heeded, Laid, R

LEMMA DecidedHeeded ==
  ASSUME NEW core \in Seq(Feature), \A i \in 1 .. Len(core) :
           /\ core[i].prio # "EXCLUDE"
           /\ core[i].scope = "excluded" => core[i].name \in Rest
  PROVE  LET chosen == [i \in DOMAIN core |-> ByChoice(core[i])]
             included == First \cup choice.must
             excluded == Rest \ (Confirmed \cup choice.must)
         IN  /\ chosen \in Seq(Feature) /\ Len(chosen) = Len(core)
             /\ \A i \in 1 .. Len(core) : chosen[i].name = core[i].name /\ chosen[i].text = core[i].text
             /\ Heeded(Reconciled(chosen, included, excluded), included \ Laid(excluded), Laid(excluded))
  <1> DEFINE chosen == [i \in DOMAIN core |-> ByChoice(core[i])]
             included == First \cup choice.must
             excluded == Rest \ (Confirmed \cup choice.must)
             R == Reconciled(chosen, included, excluded)
  <1>1. DOMAIN core = 1 .. Len(core) /\ Len(core) \in Nat /\ \A i \in 1 .. Len(core) : core[i] \in Feature
    OBVIOUS
  <1>2. \A i \in 1 .. Len(core) : chosen[i] = ByChoice(core[i])
    BY <1>1
  <1>3. chosen \in Seq(Feature) /\ Len(chosen) = Len(core)
    <2>1. chosen \in [1 .. Len(core) -> Feature]
      BY <1>1, ByChoiceHolds
    <2> HIDE DEF chosen
    <2> QED
      BY <1>1, <2>1
  <1> HIDE DEF chosen
  <1>4. R \in Seq(Feature) /\ Len(R) = Len(core)
    BY <1>3, ReconciledHolds
  <1>5. ASSUME NEW i \in 1 .. Len(core)
        PROVE  /\ R[i].name = core[i].name
               /\ R[i].scope = IF Beyond(chosen[i], excluded) THEN "excluded" ELSE "mvp"
               /\ chosen[i].name = core[i].name /\ chosen[i].text = core[i].text
               /\ Confirms(core[i].name) => chosen[i].prio # "EXCLUDE" /\ chosen[i].scope = "mvp"
               /\ ~Confirms(core[i].name) /\ ~Excludes(core[i].name) => chosen[i] = core[i]
    <2>1. core[i] \in Feature /\ chosen[i] = ByChoice(core[i])
      BY <1>1, <1>2
    <2>2. /\ chosen[i].name = core[i].name /\ chosen[i].text = core[i].text
          /\ Confirms(core[i].name) => chosen[i].prio # "EXCLUDE" /\ chosen[i].scope = "mvp"
          /\ ~Confirms(core[i].name) /\ ~Excludes(core[i].name) => chosen[i] = core[i]
      BY <2>1, ByChoiceHolds
    <2>3. R[i].name = chosen[i].name
          /\ R[i].scope = IF Beyond(chosen[i], excluded) THEN "excluded" ELSE "mvp"
      BY <1>3, ReconciledHolds
    <2> QED
      BY <2>2, <2>3
  <1> HIDE DEF R
  <1>6. ASSUME NEW n \in Confirmed \cup choice.must PROVE Confirms(n)
    BY SimilarToItself DEF Confirms, Confirmed
  <1>7. ASSUME NEW i \in 1 .. Len(core)
        PROVE  LET f == R[i]
               IN  /\ f.name \in Confirmed \ choice.out => f.scope = "mvp" /\ f.name \notin Laid(excluded)
                   /\ f.scope = "excluded" => f.name \in Laid(excluded) \/ Excludes(f.name)
                   /\ f.name \in Laid(excluded) =>
                        \/ f.scope = "excluded" \/ f.name \in choice.out
                        \/ f.name \in choice.excluded /\ Confirms(f.name)
    <2> DEFINE n == core[i].name
    <2>1. R[i].name = n /\ chosen[i].name = n
      BY <1>5
    <2>2. R[i].scope = IF n \in excluded \/ chosen[i].prio = "EXCLUDE" \/ chosen[i].scope = "excluded"
                       THEN "excluded" ELSE "mvp"
      BY <1>5, <2>1 DEF Beyond
    <2>3. /\ Confirms(n) => chosen[i].prio # "EXCLUDE" /\ chosen[i].scope = "mvp"
          /\ ~Confirms(n) /\ ~Excludes(n) => chosen[i].prio # "EXCLUDE" /\ (chosen[i].scope = "excluded" => n \in Rest)
      BY <1>5
    <2>4. n \in Rest => n \in excluded \/ Confirms(n)
      BY <1>6
    <2>5. n \in choice.excluded => Excludes(n)
      BY SimilarToItself DEF Excludes
    <2>6. n \in Confirmed => n \notin choice.excluded /\ n \notin excluded /\ Confirms(n)
      BY <1>6 DEF Confirmed
    <2>7. ~Confirms(n) /\ n \in choice.excluded => chosen[i].scope = "excluded"
      <3>1. SUFFICES ASSUME ~Confirms(n), n \in choice.excluded
                     PROVE  ByChoice(core[i]).scope = "excluded"
        BY <1>2
      <3>2. core[i] \in Feature /\ Excludes(n)
        BY <1>1, <2>5, <3>1
      <3>3. ByChoice(core[i]) = [core[i] EXCEPT !.prio = "EXCLUDE", !.scope = "excluded"]
        BY <3>1, <3>2 DEF ByChoice, Confirms, Excludes
      <3> QED
        BY <3>2, <3>3 DEF Feature
    <2> HIDE DEF n, excluded
    <2>8. n \in Laid(excluded) <=> n \in excluded \/ n \in choice.out \/ n \in choice.excluded
      BY DEF Laid
    <2>9. n \in Confirmed \ choice.out => R[i].scope = "mvp" /\ n \notin Laid(excluded)
      BY <2>2, <2>3, <2>6, <2>8
    <2>10. R[i].scope = "excluded" => n \in Laid(excluded) \/ Excludes(n)
      BY <2>2, <2>3, <2>4, <2>8
    <2>11. n \in Laid(excluded) => \/ R[i].scope = "excluded" \/ n \in choice.out
                                   \/ n \in choice.excluded /\ Confirms(n)
      BY <2>2, <2>7, <2>8
    <2> QED
      BY <2>1, <2>9, <2>10, <2>11
  <1>8. choice.must \ (choice.out \cup choice.excluded) \subseteq included \ Laid(excluded)
    BY DEF Laid
  <1>9. Heeded(R, included \ Laid(excluded), Laid(excluded))
    BY <1>4, <1>7, <1>8 DEF Heeded
  <1> QED
    BY <1>3, <1>5, <1>9 DEF chosen, R

\* The document before the decisions.
Drafted(core, kpi, personas, fallbacks) ==
  [core |-> core, included |-> First, excluded |-> Rest,
   kpi |-> kpi.items, personas |-> personas.items, gaps |-> kpi.gaps \cup personas.gaps,
   fallbacks |-> fallbacks, by |-> "workers"]

\* What the decisions and the alignment make of the document: the features keep their names
\* and texts, the other sections stay.
LEMMA DocumentHeeds ==
  ASSUME NEW written, features \in Seq(Names), Written(written)
  PROVE  LET D == Document(written)
             core == Core(written)
         IN  /\ D.core \in Seq(Feature) /\ Len(D.core) = Len(core)
             /\ \A i \in 1 .. Len(core) : D.core[i].name = core[i].name /\ D.core[i].text = core[i].text
             /\ Heeded(D.core, D.included, D.excluded)
             /\ D.kpi = Assembled(written, "kpi").items /\ D.personas = Assembled(written, "persona").items
             /\ D.gaps = Assembled(written, "kpi").gaps \cup Assembled(written, "persona").gaps
             /\ D.fallbacks = {slot \in Slots : written[slot] = Fallback}
  <1> DEFINE core == Core(written)
             first == Reconciled(core, First, Rest)
             kpi == Assembled(written, "kpi")
             personas == Assembled(written, "persona")
             fallbacks == {slot \in Slots : written[slot] = Fallback}
             raw == Drafted(first, kpi, personas, fallbacks)
             D == Document(written)
  <1>1. D = Aligned(Decided(raw))
    BY DEF Document, Core, Drafted
  <1>2. core \in Seq(Feature) /\ Fair(core)
    BY CoreHolds
  <1> HIDE DEF core, kpi, personas, fallbacks, D
  <1>3. /\ first \in Seq(Feature) /\ Len(first) = Len(core) /\ Fair(first)
        /\ \A i \in 1 .. Len(core) : first[i].name = core[i].name /\ first[i].text = core[i].text
    BY <1>2, ReconciledHolds, FairReconciled
  <1>4. /\ raw.core = first /\ raw.included = First /\ raw.excluded = Rest
        /\ raw.kpi = kpi.items /\ raw.personas = personas.items
        /\ raw.gaps = kpi.gaps \cup personas.gaps /\ raw.fallbacks = fallbacks
        /\ DOMAIN raw = {"core", "included", "excluded", "kpi", "personas", "gaps", "fallbacks", "by"}
    BY DEF Drafted
  <1> DEFINE none == choice.must \cup choice.should \cup choice.could \cup choice.excluded = {}
             chosen == [i \in DOMAIN first |-> ByChoice(first[i])]
             included == First \cup choice.must
             excluded == Rest \ (Confirmed \cup choice.must)
             second == Reconciled(chosen, included, excluded)
             decided == [raw EXCEPT !.included = included, !.excluded = excluded, !.core = second]
  <1>5. Decided(raw) = IF none THEN raw ELSE decided
    BY <1>4 DEF Decided
  <1>6. ASSUME NEW doc, DOMAIN doc = DOMAIN raw
        PROVE  /\ Aligned(doc).core = doc.core
               /\ Aligned(doc).included = doc.included \ Laid(doc.excluded)
               /\ Aligned(doc).excluded = Laid(doc.excluded)
               /\ Aligned(doc).kpi = doc.kpi /\ Aligned(doc).personas = doc.personas
               /\ Aligned(doc).gaps = doc.gaps /\ Aligned(doc).fallbacks = doc.fallbacks
    BY <1>4, <1>6 DEF Aligned, Laid
  <1>7. CASE none
    <2>1. D = Aligned(raw)
      BY <1>1, <1>5, <1>7
    <2>2. /\ D.core = first /\ D.included = First \ Laid(Rest) /\ D.excluded = Laid(Rest)
          /\ D.kpi = kpi.items /\ D.personas = personas.items
          /\ D.gaps = kpi.gaps \cup personas.gaps /\ D.fallbacks = fallbacks
      BY <1>4, <1>6, <2>1
    <2>3. Heeded(first, First \ Laid(Rest), Laid(Rest))
      BY <1>2, <1>7, UndecidedHeeded
    <2> HIDE DEF first
    <2> QED
      BY <1>3, <2>2, <2>3 DEF core, kpi, personas, fallbacks, D
  <1>8. CASE ~none
    <2>1. D = Aligned(decided)
      BY <1>1, <1>5, <1>8
    <2> HIDE DEF second, included, excluded, raw, first
    <2>2. /\ decided.core = second /\ decided.included = included /\ decided.excluded = excluded
          /\ decided.kpi = kpi.items /\ decided.personas = personas.items
          /\ decided.gaps = kpi.gaps \cup personas.gaps /\ decided.fallbacks = fallbacks
          /\ DOMAIN decided = DOMAIN raw
      BY <1>4
    <2> HIDE DEF decided
    <2>3. /\ D.core = second /\ D.included = included \ Laid(excluded) /\ D.excluded = Laid(excluded)
          /\ D.kpi = kpi.items /\ D.personas = personas.items
          /\ D.gaps = kpi.gaps \cup personas.gaps /\ D.fallbacks = fallbacks
      BY <1>6, <2>1, <2>2
    <2>4. \A i \in 1 .. Len(first) :
            first[i].prio # "EXCLUDE" /\ (first[i].scope = "excluded" => first[i].name \in Rest)
      BY <1>3 DEF Fair
    <2>5. /\ chosen \in Seq(Feature) /\ Len(chosen) = Len(first)
          /\ \A i \in 1 .. Len(first) : chosen[i].name = first[i].name /\ chosen[i].text = first[i].text
          /\ Heeded(second, included \ Laid(excluded), Laid(excluded))
      BY <1>3, <2>4, DecidedHeeded DEF included, excluded, second
    <2> HIDE DEF chosen
    <2>6. /\ second \in Seq(Feature) /\ Len(second) = Len(first)
          /\ \A i \in 1 .. Len(first) : second[i].name = first[i].name /\ second[i].text = first[i].text
      BY <2>5, ReconciledHolds DEF second
    <2> QED
      BY <1>3, <2>3, <2>5, <2>6 DEF core, kpi, personas, fallbacks, D
  <1> QED
    BY <1>7, <1>8

LEMMA EmergencyHolds ==
  ASSUME NEW by, features \in Seq(Names)
  PROVE  /\ Emergency(by).core \in Seq(Feature) /\ Len(Emergency(by).core) = Len(features)
         /\ \A i \in 1 .. Len(features) : Emergency(by).core[i].name = features[i]
  <1> DEFINE plain == [i \in DOMAIN features |-> [name |-> features[i], scope |-> Absent,
                                                  text |-> "template", prio |-> Absent]]
  <1>1. Emergency(by).core = Reconciled(plain, First, Rest)
    BY DEF Emergency
  <1>2. DOMAIN features = 1 .. Len(features) /\ Len(features) \in Nat
        /\ \A i \in 1 .. Len(features) : features[i] \in Names
    OBVIOUS
  <1>3. plain \in [1 .. Len(features) -> Feature] /\ \A i \in 1 .. Len(features) : plain[i].name = features[i]
    BY <1>2 DEF Feature, Prios
  <1> HIDE DEF plain
  <1>4. plain \in Seq(Feature) /\ Len(plain) = Len(features)
    BY <1>2, <1>3
  <1> QED
    BY <1>1, <1>3, <1>4, ReconciledHolds

\* A repair of the features leaves those alone the feedback does not name.
LEMMA PatchedCoreHolds ==
  ASSUME NEW core \in Seq(Feature), NEW targets, NEW ops,
         ops.rewrite \subseteq Names, IsFiniteSet(ops.rewrite)
  PROVE  LET P == PatchedCore(core, targets, ops)
         IN  /\ P \in Seq(Feature)
             /\ targets # {} =>
                  \A f \in ToSet(core) \cup ToSet(P) :
                    f.name \notin targets => f \in ToSet(core) /\ f \in ToSet(P)
  <1> DEFINE May(n) == targets = {} \/ n \in targets
             Now(f) == IF f.name \in ops.rewrite /\ May(f.name) THEN [f EXCEPT !.text = "repaired"] ELSE f
             gone == {f \in ToSet(core) : f.name \in ops.remove /\ May(f.name)}
             kept == Sifted(core, gone, {})
             names == {n \in ops.rewrite \ NamesOf(core) : May(n)}
             come == SetToSeq(names)
             left == [i \in DOMAIN kept |-> Now(kept[i])]
             new(n) == [name |-> n, scope |-> Absent, text |-> "repaired", prio |-> Absent]
             right == [i \in DOMAIN come |-> new(come[i])]
             P == PatchedCore(core, targets, ops)
  <1>1. P = left \o right
    BY DEF PatchedCore
  <1>2. SiftHolds(kept, ToSet(core), gone, {})
    BY SiftedHolds
  <1> HIDE DEF kept
  <1>3. ToSet(core) \subseteq Feature
    BY InSeq
  <1>4. kept \in Seq(ToSet(core) \ gone)
    BY <1>2 DEF SiftHolds
  <1>5. /\ DOMAIN kept = 1 .. Len(kept) /\ Len(kept) \in Nat
        /\ \A i \in 1 .. Len(kept) : kept[i] \in ToSet(core) /\ kept[i] \in Feature
        /\ \A f \in ToSet(core) \ gone : \E i \in 1 .. Len(kept) : f = kept[i]
    <2>1. DOMAIN kept = 1 .. Len(kept) /\ Len(kept) \in Nat /\ \A i \in 1 .. Len(kept) : kept[i] \in ToSet(core) \ gone
      BY <1>4
    <2>2. \A f \in ToSet(core) \ gone : f \in ToSet(kept)
      BY <1>2 DEF SiftHolds
    <2> QED
      BY <1>3, <1>4, <2>1, <2>2, InSeq
  <1>6. IsFiniteSet(names)
    BY FS_Subset
  <1> HIDE DEF gone
  <1>7. come \in Seq(names)
    <2> DEFINE n == Cardinality(names)
    <2>1. n \in Nat /\ ExistsBijection(1 .. n, names)
      BY <1>6, FS_CardinalityType
    <2>2. \E q \in [1 .. n -> names] : IsInjective(q)
      BY <2>1 DEF ExistsBijection, Bijection, Injection, IsInjective
    <2> HIDE DEF names
    <2>3. come \in [1 .. n -> names]
      BY <2>2 DEF SetToSeq
    <2> HIDE DEF n
    <2> QED
      BY <2>1, <2>3
  <1>8. \A n \in names : n \in Names /\ (targets # {} => n \in targets)
    OBVIOUS
  <1> HIDE DEF names, come
  <1>9. /\ DOMAIN come = 1 .. Len(come) /\ Len(come) \in Nat
        /\ \A i \in 1 .. Len(come) : come[i] \in names
    BY <1>7
  <1>10. /\ right \in Seq(Feature) /\ Len(right) = Len(come)
         /\ \A i \in 1 .. Len(come) : right[i].name = come[i]
    <2>1. \A n \in Names : new(n) \in Feature /\ new(n).name = n
      BY DEF Feature, Prios
    <2> HIDE DEF new
    <2>2. right \in [1 .. Len(come) -> Feature] /\ \A i \in 1 .. Len(come) : right[i].name = come[i]
      BY <1>8, <1>9, <2>1
    <2> HIDE DEF right
    <2> QED
      BY <1>9, <2>2
  <1>11. \A f \in Feature : /\ Now(f) \in Feature /\ Now(f).name = f.name
                            /\ (targets # {} /\ f.name \notin targets => Now(f) = f)
    BY DEF Feature
  <1> HIDE DEF Now
  <1>12. /\ left \in Seq(Feature) /\ Len(left) = Len(kept)
         /\ \A i \in 1 .. Len(kept) : left[i] = Now(kept[i])
    <2>1. left \in [1 .. Len(kept) -> Feature] /\ \A i \in 1 .. Len(kept) : left[i] = Now(kept[i])
      BY <1>5, <1>11
    <2> HIDE DEF left
    <2> QED
      BY <1>5, <2>1
  <1> HIDE DEF left, right
  <1>13. /\ P \in Seq(Feature) /\ Len(P) = Len(left) + Len(right)
         /\ \A i \in 1 .. Len(left) + Len(right) : P[i] = IF i <= Len(left) THEN left[i] ELSE right[i - Len(left)]
    <2> DEFINE both == left \o right
    <2>1. /\ both \in Seq(Feature) /\ Len(both) = Len(left) + Len(right)
          /\ \A i \in 1 .. Len(left) + Len(right) :
               both[i] = IF i <= Len(left) THEN left[i] ELSE right[i - Len(left)]
      <3>1. left \in Seq(Feature) /\ right \in Seq(Feature)
        BY <1>10, <1>12
      <3> QED
        BY <3>1, ConcatProperties
    <2> HIDE DEF both, P
    <2>2. P = both
      BY <1>1 DEF both
    <2> QED
      BY <2>1, <2>2
  <1> HIDE DEF P
  <1>14. ASSUME targets # {}, NEW f \in ToSet(core), f.name \notin targets
         PROVE  f \in ToSet(P)
    <2>1. f \notin gone
      BY <1>14 DEF gone
    <2>2. PICK i \in 1 .. Len(kept) : f = kept[i]
      BY <1>5, <2>1
    <2>3. left[i] = f
      BY <1>3, <1>11, <1>12, <1>14, <2>2
    <2>4. i \in 1 .. Len(left) + Len(right) /\ i <= Len(left)
      BY <1>5, <1>9, <1>10, <1>12
    <2>5. P[i] = f /\ i \in 1 .. Len(P)
      BY <1>13, <2>3, <2>4
    <2> QED
      BY <1>13, <2>5, InSeq
  <1>15. ASSUME targets # {}, NEW f \in ToSet(P), f.name \notin targets
         PROVE  f \in ToSet(core)
    <2>1. PICK i \in 1 .. Len(left) + Len(right) : f = P[i]
      BY <1>13, InSeq
    <2>2. CASE i <= Len(left)
      <3>1. i \in 1 .. Len(kept)
        BY <1>5, <1>12, <2>2
      <3>2. f = Now(kept[i])
        BY <1>12, <1>13, <2>1, <2>2, <3>1
      <3>3. f = kept[i]
        BY <1>5, <1>11, <1>15, <3>1, <3>2
      <3> QED
        BY <1>5, <3>1, <3>3
    <2>3. CASE ~(i <= Len(left))
      <3>1. i - Len(left) \in 1 .. Len(come)
        BY <1>5, <1>9, <1>10, <1>12, <2>3
      <3>2. f = right[i - Len(left)]
        BY <1>13, <2>1, <2>3
      <3>3. f.name \in targets
        BY <1>8, <1>9, <1>10, <1>15, <3>1, <3>2
      <3> QED
        BY <1>15, <3>3
    <2> QED
      BY <2>2, <2>3
  <1> QED
    BY <1>13, <1>14, <1>15 DEF P

-----------------------------------------------------------------------------
(* The run *)

Known ==
  /\ features \in Lists /\ repairs \in Nat
  /\ DOMAIN sections = Slots /\ Written(sections)

\* A finished run has a list of features, and one that the workers finished and nobody
\* repaired heeds the decisions.
Finished ==
  /\ stage = "done" => prd.core \in Seq(Feature)
  /\ Ready /\ prd.by = "workers" => Heeded(prd.core, prd.included, prd.excluded)

FInv == IInv /\ Known /\ Finished

LEMMA ListsAreNames ==
  ASSUME features \in Lists
  PROVE  features \in Seq(Names) /\ IsInjective(features) /\ DOMAIN features = 1 .. Len(features)
         /\ Len(features) \in Nat
  <1>1. features \in Seq(Names) /\ IsInjective(features)
    BY PrdAssumption
  <1> QED
    BY <1>1

LEMMA CoreSlots == \A i \in DOMAIN features : <<"core", i>> \in Slots
  BY DEF Slots, Items

LEMMA IdleWritten == DOMAIN Idle = Slots /\ Written(Idle)
  BY CoreSlots DEF Idle, Written

LEMMA InitKnown == Init => FInv
  <1> SUFFICES ASSUME Init PROVE FInv
    OBVIOUS
  <1>1. Known
    BY IdleWritten DEF Init, Known
  <1>2. Finished
    BY DEF Init, Finished, Ready
  <1> QED
    BY <1>1, <1>2, InitHolds DEF FInv

\* One answer of one worker.
LEMMA AnswerKnown ==
  ASSUME Known, NEW slot \in Slots, NEW item, UNCHANGED <<features, repairs>>,
         sections' = [sections EXCEPT ![slot] = item],
         slot[1] = "core" => item \in {Waiting, Fallback} \cup {Wrote(p) : p \in Priorities}
  PROVE  Known'
  <1>1. Slots' = Slots
    BY DEF Slots, Items
  <1>2. DOMAIN sections = Slots /\ DOMAIN sections' = Slots
    BY DEF Known
  <1>3. ASSUME NEW i \in DOMAIN features
        PROVE  sections'[<<"core", i>>] \in {Waiting, Fallback} \cup {Wrote(p) : p \in Priorities}
    <2>1. <<"core", i>> \in Slots /\ <<"core", i>>[1] = "core"
      BY CoreSlots
    <2>2. sections[<<"core", i>>] \in {Waiting, Fallback} \cup {Wrote(p) : p \in Priorities}
      BY DEF Known, Written
    <2> QED
      BY <1>2, <2>1, <2>2
  <1>4. Written(sections)'
    BY <1>3 DEF Written, Waiting, Fallback, Wrote
  <1> QED
    BY <1>1, <1>2, <1>4 DEF Known

LEMMA IdleKnown ==
  ASSUME Known, features' = features, repairs' = repairs, sections' = Idle
  PROVE  Known'
  <1>1. Slots' = Slots
    BY DEF Slots, Items
  <1>2. DOMAIN sections' = Slots
    BY IdleWritten
  <1>3. Written(sections)'
    BY IdleWritten DEF Written, Waiting, Fallback, Wrote
  <1> QED
    BY <1>1, <1>2, <1>3 DEF Known

LEMMA SameKnown ==
  ASSUME Known, features' = features, repairs' \in Nat, sections' = sections
  PROVE  Known'
  <1>1. Slots' = Slots
    BY DEF Slots, Items
  <1>2. Written(sections)'
    BY DEF Known, Written, Waiting, Fallback, Wrote
  <1> QED
    BY <1>1, <1>2 DEF Known

LEMMA StepKnown == Known /\ [Next]_vars => Known'
  <1> SUFFICES ASSUME Known, [Next]_vars PROVE Known'
    OBVIOUS
  <1>1. ASSUME NEW slot \in Slots, NEW text \in Texts(slot), Accept(slot, text) PROVE Known'
    <2>1. UNCHANGED <<features, repairs>> /\ sections' = [sections EXCEPT ![slot] = Wrote(text)]
      BY <1>1 DEF Accept
    <2>2. slot[1] = "core" => text \in Priorities
      BY DEF Texts
    <2> QED
      BY <2>1, <2>2, AnswerKnown
  <1>2. ASSUME NEW slot \in Slots, NEW meaning, Reject(slot, meaning) PROVE Known'
    <2>1. PICK item \in {Waiting, Omitted, Fallback} :
            /\ sections' = [sections EXCEPT ![slot] = item]
            /\ slot[1] = "core" => item # Omitted
      <3> DEFINE again == ~meaning /\ tries[slot] + 1 < Attempts(slot)
                 item == IF again THEN Waiting
                         ELSE IF slot[1] \in {"kpi", "persona"} THEN Omitted ELSE Fallback
      <3>1. sections' = [sections EXCEPT ![slot] = item]
        BY <1>2 DEF Reject
      <3>2. Waiting # Omitted /\ Fallback # Omitted
        BY DEF Waiting, Omitted, Fallback
      <3>3. item \in {Waiting, Omitted, Fallback} /\ (slot[1] = "core" => item # Omitted)
        BY <3>2
      <3> HIDE DEF item
      <3> QED
        BY <3>1, <3>3
    <2>2. UNCHANGED <<features, repairs>>
      BY <1>2 DEF Reject
    <2> QED
      BY <2>1, <2>2, AnswerKnown
  <1>3. CASE Review \/ Transport \/ Crash
    <2>1. features' = features /\ repairs' = repairs /\ sections' = Idle
      BY <1>3 DEF Review, Transport, Crash
    <2> QED
      BY <2>1, IdleKnown
  <1>4. ASSUME NEW feedback, NEW patch, Repair(feedback, patch) PROVE Known'
    <2>1. features' = features /\ repairs' = repairs + 1 /\ sections' = sections
      BY <1>4 DEF Repair
    <2>2. repairs' \in Nat
      BY <2>1 DEF Known
    <2> QED
      BY <2>1, <2>2, SameKnown
  <1>5. CASE UNCHANGED vars
    <2>1. features' = features /\ repairs' \in Nat /\ sections' = sections
      BY <1>5 DEF vars, Known
    <2> QED
      BY <2>1, SameKnown
  <1> QED
    BY <1>1, <1>2, <1>3, <1>4, <1>5 DEF Next

LEMMA PatchedCoreOf ==
  ASSUME NEW doc, NEW feedback, NEW patch, HasScope(doc)
  PROVE  Patched(doc, feedback, patch).core =
           IF "core" \in Allowed(feedback) \cap patch.sections
           THEN PatchedCore(doc.core, feedback.names, patch.core) ELSE doc.core
  <1> DEFINE may == Allowed(feedback) \cap patch.sections
             core == IF "core" \in may THEN PatchedCore(doc.core, feedback.names, patch.core)
                     ELSE doc.core
             kpi == IF "kpi" \in may THEN patch.kpi ELSE doc.kpi
             now == [doc EXCEPT !.core = core, !.kpi = kpi]
             moved == [now EXCEPT !.included = patch.included, !.excluded = patch.excluded]
  <1>1. Patched(doc, feedback, patch) = IF "scope" \in may THEN Aligned(moved) ELSE now
    BY DEF Patched
  <1> HIDE DEF core, kpi, may
  <1>2. HasScope(now) /\ now.core = core
    BY DEF HasScope
  <1> HIDE DEF now
  <1>3. HasScope(moved) /\ moved.core = core
    BY <1>2 DEF HasScope
  <1> HIDE DEF moved
  <1>4. Aligned(moved).core = core
    BY <1>3 DEF Aligned, HasScope
  <1>5. Patched(doc, feedback, patch).core = core
    BY <1>1, <1>2, <1>4
  <1> QED
    BY <1>5 DEF core, may

LEMMA StepFinished == FInv /\ [Next]_vars => Finished'
  <1> SUFFICES ASSUME FInv, [Next]_vars PROVE Finished'
    OBVIOUS
  <1>0. /\ UNCHANGED <<features, choice>> /\ features \in Seq(Names)
        /\ IInv /\ Known /\ Finished
    BY InputsStay, ListsAreNames DEF FInv, Known
  <1>1. ASSUME stage' # "done" PROVE Finished'
    BY <1>1 DEF Finished, Ready
  <1>2. ASSUME NEW slot, NEW text, Accept(slot, text) PROVE Finished'
    BY <1>1, <1>2 DEF Accept
  <1>3. ASSUME NEW slot, NEW meaning, Reject(slot, meaning) PROVE Finished'
    BY <1>1, <1>3 DEF Reject
  <1>4. CASE Review
    <2> DEFINE D == Document(sections)
    <2>1. stage' = "done" /\ prd' = D
      BY <1>4 DEF Review
    <2>2. D.core \in Seq(Feature) /\ Heeded(D.core, D.included, D.excluded)
      BY <1>0, DocumentHeeds DEF Known
    <2> HIDE DEF D
    <2>3. prd'.core \in Seq(Feature)
      BY <2>1, <2>2
    <2>4. Heeded(prd.core, prd.included, prd.excluded)'
      BY <1>0, <2>1, <2>2 DEF Heeded, Confirmed, Confirms, Excludes, Similar
    <2> QED
      BY <2>3, <2>4 DEF Finished
  <1>5. CASE Transport
    BY <1>1, <1>5 DEF Transport
  <1>6. CASE Crash
    <2>1. /\ stage = "writing" /\ stage' = "done"
          /\ prd' = IF prd = Absent THEN Emergency("nobody") ELSE prd
      BY <1>6 DEF Crash
    <2>2. prd' = Emergency("nobody") \/ prd' = Emergency("earlier")
      BY <1>0, <2>1 DEF IInv, Unwritten
    <2>3. prd'.by # "workers" /\ prd'.core \in Seq(Feature)
      BY <1>0, <2>2, EmergencyShape, EmergencyHolds
    <2> QED
      BY <2>3 DEF Finished
  <1>7. ASSUME NEW feedback \in Feedback, NEW patch \in Patches, Repair(feedback, patch)
        PROVE  Finished'
    <2>1. /\ stage = "done" /\ repairs' = repairs + 1
          /\ prd' = prd \/ prd' = Patched(prd, feedback, patch)
      BY <1>7 DEF Repair
    <2>2. HasScope(prd) /\ prd.core \in Seq(Feature) /\ repairs \in Nat
      BY <1>0, <2>1 DEF IInv, Finished, Known
    <2>3. PatchedCore(prd.core, feedback.names, patch.core) \in Seq(Feature)
      BY <2>2, PatchedCoreHolds, PrdAssumption
    <2>4. prd'.core \in Seq(Feature)
      BY <2>1, <2>2, <2>3, PatchedCoreOf
    <2>5. repairs' # 0
      BY <2>1, <2>2
    <2> QED
      BY <2>4, <2>5 DEF Finished, Ready
  <1>8. CASE UNCHANGED vars
    BY <1>0, <1>8 DEF vars, Finished, Ready, Heeded, Confirmed, Confirms, Excludes, Similar
  <1> QED
    BY <1>2, <1>3, <1>4, <1>5, <1>6, <1>7, <1>8 DEF Next

LEMMA FullInvariance == Spec => []FInv
  <1>1. FInv /\ [Next]_vars => FInv'
    BY StepHolds, StepKnown, StepFinished DEF FInv
  <1> QED
    BY <1>1, InitKnown, PTL DEF Spec

-----------------------------------------------------------------------------
(* The theorems *)

\* What the user decided about a feature is what the PRD says of it, whatever the order of
\* the list, the workers' answers and priorities, and the names taken for each other.
THEOREM DecisionsAreHeeded == Spec => []DecisionsHold
  <1>1. ASSUME FInv PROVE ExcludedStaysOut
    BY <1>1 DEF FInv, IInv, ExcludedStaysOut, ScopeHolds
  <1>2. ASSUME FInv, Ready, prd.by = "workers"
        PROVE  /\ prd.core \in Seq(Feature)
               /\ Heeded(prd.core, prd.included, prd.excluded)
    BY <1>2 DEF FInv, Finished, Ready
  <1>3. ASSUME FInv PROVE ConfirmedIsInScope
    <2> SUFFICES ASSUME Ready, prd.by = "workers"
                 PROVE  /\ \A f \in ToSet(prd.core) :
                             f.name \in Confirmed \ choice.out => f.scope = "mvp" /\ f.name \notin prd.excluded
                        /\ choice.must \ (choice.out \cup choice.excluded) \subseteq prd.included
      BY DEF ConfirmedIsInScope
    <2>1. \A f \in ToSet(prd.core) : \E i \in 1 .. Len(prd.core) : f = prd.core[i]
      BY <1>2, <1>3, InSeq
    <2> QED
      BY <1>2, <1>3, <2>1 DEF Heeded
  <1>4. ASSUME FInv PROVE ScopesAgree
    <2> SUFFICES ASSUME Ready, prd.by = "workers", NEW f \in ToSet(prd.core)
                 PROVE  /\ f.scope = "excluded" => f.name \in prd.excluded \/ Excludes(f.name)
                        /\ f.name \in prd.excluded =>
                             \/ f.scope = "excluded" \/ f.name \in choice.out
                             \/ f.name \in choice.excluded /\ Confirms(f.name)
      BY DEF ScopesAgree, Excludes, Confirms
    <2>1. PICK i \in 1 .. Len(prd.core) : f = prd.core[i]
      BY <1>2, <1>4, InSeq
    <2> QED
      BY <1>2, <1>4, <2>1 DEF Heeded
  <1> QED
    BY <1>1, <1>3, <1>4, FullInvariance, PTL DEF DecisionsHold

\* A run or a repair that goes wrong takes nothing from a good PRD: a run that stops leaves an
\* earlier one as it was, and a repair changes what the feedback names.
THEOREM GoodPrdsStay == Spec => GoodPrdStays
  <1>1. ASSUME FInv, NEW feedback \in Feedback, NEW patch \in Patches, Repair(feedback, patch)
        PROVE  /\ "scope" \notin Allowed(feedback) =>
                    prd'.included = prd.included /\ prd'.excluded = prd.excluded
               /\ "kpi" \notin Allowed(feedback) => prd'.kpi = prd.kpi
               /\ feedback.names # {} =>
                    \A f \in ToSet(prd.core) \cup ToSet(prd'.core) :
                      f.name \notin feedback.names => f \in ToSet(prd.core) /\ f \in ToSet(prd'.core)
    <2>1. stage = "done" /\ (prd' = prd \/ prd' = Patched(prd, feedback, patch))
      BY <1>1 DEF Repair
    <2>2. HasScope(prd) /\ prd.core \in Seq(Feature)
      BY <1>1, <2>1 DEF FInv, IInv, Finished
    <2> DEFINE may == Allowed(feedback) \cap patch.sections
               core == IF "core" \in may THEN PatchedCore(prd.core, feedback.names, patch.core)
                       ELSE prd.core
               kpi == IF "kpi" \in may THEN patch.kpi ELSE prd.kpi
               now == [prd EXCEPT !.core = core, !.kpi = kpi]
               moved == [now EXCEPT !.included = patch.included, !.excluded = patch.excluded]
    <2>3. Patched(prd, feedback, patch) = IF "scope" \in may THEN Aligned(moved) ELSE now
      BY DEF Patched
    <2>4. /\ "scope" \in may => "scope" \in Allowed(feedback)
          /\ "kpi" \in may => "kpi" \in Allowed(feedback)
      OBVIOUS
    <2> HIDE DEF may, core
    <2>5. now.included = prd.included /\ now.excluded = prd.excluded /\ now.kpi = kpi /\ HasScope(now)
      BY <2>2 DEF HasScope
    <2> HIDE DEF now
    <2>6. moved.kpi = kpi /\ HasScope(moved)
      BY <2>5 DEF HasScope
    <2> HIDE DEF moved
    <2>7. Aligned(moved).kpi = kpi
      BY <2>6 DEF Aligned, HasScope
    <2>8. \A f \in ToSet(prd.core) \cup ToSet(core) :
            feedback.names # {} /\ f.name \notin feedback.names => f \in ToSet(prd.core) /\ f \in ToSet(core)
      BY <2>2, PatchedCoreHolds, PrdAssumption DEF core
    <2>9. Patched(prd, feedback, patch).core = core
      BY <2>2, PatchedCoreOf DEF core, may
    <2>10. "scope" \notin Allowed(feedback) => prd'.included = prd.included /\ prd'.excluded = prd.excluded
      BY <2>1, <2>3, <2>4, <2>5
    <2>11. "kpi" \notin Allowed(feedback) => prd'.kpi = prd.kpi
      BY <2>1, <2>3, <2>4, <2>5, <2>7
    <2>12. feedback.names # {} =>
             \A f \in ToSet(prd.core) \cup ToSet(prd'.core) :
               f.name \notin feedback.names => f \in ToSet(prd.core) /\ f \in ToSet(prd'.core)
      BY <2>1, <2>8, <2>9
    <2> QED
      BY <2>10, <2>11, <2>12
  <1>2. ASSUME FInv
        PROVE  \A feedback \in Feedback, patch \in Patches :
                 Repair(feedback, patch) =>
                   /\ "scope" \notin Allowed(feedback) =>
                        prd'.included = prd.included /\ prd'.excluded = prd.excluded
                   /\ "kpi" \notin Allowed(feedback) => prd'.kpi = prd.kpi
                   /\ feedback.names # {} =>
                        \A f \in ToSet(prd.core) \cup ToSet(prd'.core) :
                          f.name \notin feedback.names => f \in ToSet(prd.core) /\ f \in ToSet(prd'.core)
    BY <1>1, <1>2
  <1>3. Spec => RepairStaysInScope
    BY <1>2, FullInvariance, PTL DEF Spec, RepairStaysInScope
  <1> QED
    BY <1>3, FailuresKeepThePrd, PTL DEF GoodPrdStays

-----------------------------------------------------------------------------
(* Nothing is missing *)

\* A sequence without repetitions has as many places as elements.
LEMMA InjectiveLen ==
  ASSUME NEW S, NEW n \in Nat, NEW f \in [1 .. n -> S],
         \A a, b \in 1 .. n : f[a] = f[b] => a = b,
         \A x \in S : \E a \in 1 .. n : x = f[a]
  PROVE  IsFiniteSet(S) /\ Cardinality(S) = n
  <1>1. f \in Bijection(1 .. n, S)
    BY DEF Bijection, Injection, Surjection, IsInjective
  <1>2. ExistsBijection(1 .. n, S)
    BY <1>1 DEF ExistsBijection
  <1> QED
    BY <1>2, FS_NatBijection, FS_CountingElements

\* Whatever is taken for a repetition, the listed features are all there, once each.
LEMMA CoreNames ==
  ASSUME NEW written, features \in Lists, Written(written)
  PROVE  /\ Len(Core(written)) = Len(features)
         /\ \A i \in 1 .. Len(Core(written)) : Core(written)[i].name \in ToSet(features)
         /\ \A n \in ToSet(features) : \E i \in 1 .. Len(Core(written)) : n = Core(written)[i].name
  <1> DEFINE A == Clean(written)
             B == Reconciled(A, First, Rest)
             C == Deduplicated(B)
             E == Ensured(C)
  <1>0. /\ features \in Seq(Names) /\ IsInjective(features) /\ Len(features) \in Nat
        /\ DOMAIN features = 1 .. Len(features)
    BY ListsAreNames
  <1>1. A \in Seq(Feature) /\ Len(A) = Len(features) /\ \A i \in 1 .. Len(features) : A[i].name = features[i]
    BY <1>0, CleanHolds
  <1> HIDE DEF A
  <1>2. B \in Seq(Feature) /\ Len(B) = Len(features) /\ \A i \in 1 .. Len(features) : B[i].name = features[i]
    BY <1>1, ReconciledHolds
  <1> HIDE DEF B
  <1>3. /\ C \in Seq(Feature) /\ ToSet(C) \subseteq ToSet(B)
        /\ \A a, b \in 1 .. Len(C) : a < b => ~Similar(C[a].name, C[b].name)
    BY <1>2, DeduplicatedHolds
  <1> HIDE DEF C
  <1>4. ASSUME NEW i \in 1 .. Len(C) PROVE C[i].name \in ToSet(features) /\ C[i].name \in NamesOf(C)
    <2>1. C[i] \in ToSet(B) /\ C[i] \in ToSet(C)
      BY <1>3, InSeq
    <2>2. PICK j \in 1 .. Len(features) : C[i] = B[j]
      BY <1>2, <2>1, InSeq
    <2>3. features[j] \in ToSet(features)
      BY <1>0, InSeq
    <2> QED
      BY <1>2, <2>1, <2>2, <2>3 DEF NamesOf
  <1>5. PICK missing \in Seq(Names) :
          /\ missing = Sifted(features, NamesOf(C), {})
          /\ ToSet(missing) = ToSet(features) \ NamesOf(C)
          /\ E \in Seq(Feature)
          /\ Len(E) = Len(C) + Len(missing)
          /\ \A i \in 1 .. Len(C) + Len(missing) :
               E[i] = IF i <= Len(C) THEN C[i] ELSE Boilerplate(missing[i - Len(C)])
    BY <1>0, <1>3, EnsuredHolds
  <1>6. \A a, b \in 1 .. Len(missing) : missing[a] = missing[b] => a = b
    <2>1. \A x, y : <<x, y>> \in {} => x = y
      OBVIOUS
    <2>2. Counted(missing, features, NamesOf(C), {}, Len(features))
      BY <1>0, <1>5, <2>1, SiftedCounted
    <2> QED
      BY <1>0, <2>2 DEF Counted
  <1>7. Len(C) \in Nat /\ Len(missing) \in Nat
    BY <1>3
  <1>8. \A i \in 1 .. Len(missing) : missing[i] \in ToSet(features) \ NamesOf(C)
    BY <1>5, InSeq
  <1> DEFINE m == Len(C) + Len(missing)
             name == [i \in 1 .. m |-> E[i].name]
  <1> HIDE DEF E
  <1>9. \A i \in 1 .. m : \/ i \in 1 .. Len(C) /\ name[i] = C[i].name
                         \/ /\ i - Len(C) \in 1 .. Len(missing) /\ i > Len(C)
                            /\ name[i] = missing[i - Len(C)]
    <2> TAKE i \in 1 .. m
    <2>1. name[i] = E[i].name
      OBVIOUS
    <2>2. CASE i <= Len(C)
      BY <1>5, <1>7, <2>1, <2>2
    <2>3. CASE ~(i <= Len(C))
      <3>1. E[i] = Boilerplate(missing[i - Len(C)])
        BY <1>5, <2>3
      <3>2. i - Len(C) \in 1 .. Len(missing) /\ i > Len(C)
        BY <1>7, <2>3
      <3> QED
        BY <2>1, <3>1, <3>2 DEF Boilerplate
    <2> QED
      BY <2>2, <2>3
  <1>10. name \in [1 .. m -> ToSet(features)]
    <2>1. \A i \in 1 .. m : name[i] \in ToSet(features)
      BY <1>4, <1>8, <1>9
    <2> QED
      BY <2>1
  <1> HIDE DEF name
  <1>11. ASSUME NEW a \in 1 .. m, NEW b \in 1 .. m, name[a] = name[b] PROVE a = b
    <2>1. CASE a \in 1 .. Len(C) /\ name[a] = C[a].name /\ b \in 1 .. Len(C) /\ name[b] = C[b].name
      <3>1. Similar(C[a].name, C[b].name) /\ Similar(C[b].name, C[a].name)
        BY <1>11, <2>1, SimilarToItself
      <3>2. ~(a < b) /\ ~(b < a)
        BY <1>3, <2>1, <3>1
      <3> QED
        BY <1>7, <2>1, <3>2
    <2>2. CASE /\ a - Len(C) \in 1 .. Len(missing) /\ name[a] = missing[a - Len(C)]
               /\ b - Len(C) \in 1 .. Len(missing) /\ name[b] = missing[b - Len(C)]
      <3>1. a - Len(C) = b - Len(C)
        BY <1>6, <1>11, <2>2
      <3> QED
        BY <1>7, <3>1
    <2>3. CASE a \in 1 .. Len(C) /\ name[a] = C[a].name
               /\ b - Len(C) \in 1 .. Len(missing) /\ name[b] = missing[b - Len(C)]
      BY <1>4, <1>8, <1>11, <2>3
    <2>4. CASE b \in 1 .. Len(C) /\ name[b] = C[b].name
               /\ a - Len(C) \in 1 .. Len(missing) /\ name[a] = missing[a - Len(C)]
      BY <1>4, <1>8, <1>11, <2>4
    <2> QED
      BY <1>9, <2>1, <2>2, <2>3, <2>4
  <1>12. ASSUME NEW n \in ToSet(features) PROVE \E a \in 1 .. m : n = name[a]
    <2>1. CASE n \in NamesOf(C)
      <3>1. PICK f \in ToSet(C) : n = f.name
        BY <2>1 DEF NamesOf
      <3>2. PICK i \in 1 .. Len(C) : f = C[i]
        BY <1>3, <3>1, InSeq
      <3>3. i \in 1 .. m /\ ~(i > Len(C))
        BY <1>7, <3>2
      <3> QED
        BY <1>9, <3>1, <3>2, <3>3
    <2>2. CASE n \notin NamesOf(C)
      <3>1. PICK i \in 1 .. Len(missing) : n = missing[i]
        BY <1>5, <2>2, InSeq
      <3>2. i + Len(C) \in 1 .. m /\ i + Len(C) \notin 1 .. Len(C) /\ (i + Len(C)) - Len(C) = i
        BY <1>7, <3>1
      <3> QED
        BY <1>9, <3>1, <3>2
    <2> QED
      BY <2>1, <2>2
  <1>13. m \in Nat
    BY <1>7
  <1> HIDE DEF m
  <1>14. Cardinality(ToSet(features)) = m
    BY <1>10, <1>11, <1>12, <1>13, InjectiveLen
  <1>15. Cardinality(ToSet(features)) = Len(features)
    <2>1. features \in [1 .. Len(features) -> ToSet(features)]
      BY <1>0, InSeq
    <2>2. /\ \A a, b \in 1 .. Len(features) : features[a] = features[b] => a = b
          /\ \A x \in ToSet(features) : \E a \in 1 .. Len(features) : x = features[a]
      BY <1>0, InSeq DEF IsInjective
    <2> QED
      BY <1>0, <2>1, <2>2, InjectiveLen
  <1>16. Core(written) = E /\ Len(E) = m
    BY <1>5 DEF Core, A, B, C, E, m
  <1>17. \A i \in 1 .. m : E[i].name = name[i]
    BY DEF name
  <1>18. \A i \in 1 .. m : E[i].name \in ToSet(features)
    BY <1>10, <1>17
  <1>19. \A n \in ToSet(features) : \E i \in 1 .. m : n = E[i].name
    BY <1>12, <1>17
  <1> QED
    BY <1>14, <1>15, <1>16, <1>18, <1>19
LEMMA BijectionCount ==
  ASSUME NEW S, IsFiniteSet(S), NEW T, NEW f \in Bijection(S, T)
  PROVE  IsFiniteSet(T) /\ Cardinality(T) = Cardinality(S)
  <1>1. ExistsBijection(S, T)
    BY DEF ExistsBijection
  <1> QED
    BY <1>1, FS_Bijection

\* What a set leaves of the first n numbers.
LEMMA CountedApart ==
  ASSUME NEW n \in Nat, NEW S, S \subseteq 1 .. n
  PROVE  /\ IsFiniteSet(S) /\ IsFiniteSet((1 .. n) \ S)
         /\ Cardinality(S) \in Nat /\ Cardinality((1 .. n) \ S) \in Nat
         /\ Cardinality(S) + Cardinality((1 .. n) \ S) = n
  <1>1. IsFiniteSet(1 .. n) /\ Cardinality(1 .. n) = n
    BY FS_Interval
  <1>2. IsFiniteSet(S)
    BY <1>1, FS_Subset
  <1>3. /\ IsFiniteSet((1 .. n) \ S)
        /\ Cardinality((1 .. n) \ S) = Cardinality(1 .. n) - Cardinality((1 .. n) \cap S)
    BY <1>1, FS_Difference
  <1>4. (1 .. n) \cap S = S
    OBVIOUS
  <1>5. Cardinality(S) \in Nat /\ Cardinality((1 .. n) \ S) \in Nat
    BY <1>2, <1>3, FS_CardinalityType
  <1>6. Cardinality((1 .. n) \ S) = n - Cardinality(S)
    BY <1>1, <1>3, <1>4
  <1>7. Cardinality(S) + Cardinality((1 .. n) \ S) = n
    BY <1>5, <1>6
  <1> QED
    BY <1>2, <1>3, <1>5, <1>7

\* audit_items: an item, or a diagnostic for the worker or for the repetition.
LEMMA AssembledCounts ==
  ASSUME NEW written, NEW kind, NEW n \in Nat, n = IF kind = "kpi" THEN Kpis ELSE Segments
  PROVE  LET made == Assembled(written, kind)
         IN  /\ Len(made.items) + Cardinality(made.gaps) = n
             /\ \A g \in made.gaps : g[1] = kind
  <1> DEFINE asked == [i \in 1 .. n |-> written[<<kind, i>>]]
             E == {written[<<kind, i>>] : i \in 1 .. n}
             given == Sifted(asked, {Omitted}, {})
             diagonal == {<<item, item>> : item \in ToSet(given)}
             items == Sifted(given, {}, diagonal)
             fresh == {i \in DOMAIN given : \A j \in 1 .. i - 1 : given[j] # given[i]}
             silent == {j \in 1 .. n : written[<<kind, j>>] = Omitted}
             repeated == DOMAIN given \ fresh
             left == {<<kind, "worker", i>> : i \in silent}
             dropped == {<<kind, "assembly", i>> : i \in repeated}
  <1>1. Assembled(written, kind) = [items |-> items, gaps |-> left \cup dropped]
    BY DEF Assembled
  <1>2. asked \in Seq(E) /\ Len(asked) = n
    <2>1. asked \in [1 .. n -> E]
      OBVIOUS
    <2> HIDE DEF asked, E
    <2> QED
      BY <2>1
  <1>3. Counted(given, asked, {Omitted}, {}, n)
    <2>1. \A x, y : <<x, y>> \in {} => x = y
      OBVIOUS
    <2> HIDE DEF asked, E
    <2>2. Counted(Sifted(asked, {Omitted}, {}), asked, {Omitted}, {}, Len(asked))
      BY <1>2, <2>1, SiftedCounted
    <2> QED
      BY <1>2, <2>2
  <1>4. \A i \in 1 .. n : asked[i] = written[<<kind, i>>]
    OBVIOUS
  <1>5. Stay(asked, {Omitted}, {}, n) = (1 .. n) \ silent
    <2> HIDE DEF asked
    <2> QED
      BY <1>4 DEF Stay
  <1> HIDE DEF asked, E, given
  <1>6. /\ given \in Seq(Upto(asked, n) \ {Omitted}) /\ Len(given) \in Nat
        /\ Len(given) = Cardinality((1 .. n) \ silent)
    <2>1. Len(given) = Cardinality((1 .. n) \ silent)
      BY <1>3, <1>5 DEF Counted
    <2>2. given \in Seq(Upto(asked, n) \ {Omitted})
      BY <1>3 DEF Counted, SiftHolds
    <2>3. Len(given) \in Nat
      BY <2>2
    <2> QED
      BY <2>1, <2>2, <2>3
  <1>7. DOMAIN given = 1 .. Len(given) /\ \A i \in 1 .. Len(given) : given[i] \in ToSet(given)
    BY <1>6, InSeq
  <1>8. \A x, y : <<x, y>> \in diagonal <=> x = y /\ x \in ToSet(given)
    OBVIOUS
  <1> HIDE DEF diagonal
  <1>9. Counted(items, given, {}, diagonal, Len(given))
    <2>1. \A x, y : <<x, y>> \in diagonal => x = y
      BY <1>8
    <2> QED
      BY <1>6, <2>1, SiftedCounted
  <1> HIDE DEF items
  <1>10. Stay(given, {}, diagonal, Len(given)) = fresh
    <2>1. ASSUME NEW i \in 1 .. Len(given), NEW j \in 1 .. i - 1
          PROVE  <<given[j], given[i]>> \in diagonal <=> given[j] = given[i]
      <3>1. j \in 1 .. Len(given)
        BY <1>6
      <3> QED
        BY <1>7, <1>8, <3>1
    <2> QED
      BY <1>7, <2>1 DEF Stay
  <1>11. Len(items) = Cardinality(fresh)
    BY <1>9, <1>10 DEF Counted
  <1>12. silent \subseteq 1 .. n /\ fresh \subseteq 1 .. Len(given) /\ repeated = (1 .. Len(given)) \ fresh
    BY <1>7
  <1> HIDE DEF silent, fresh, repeated
  <1>13. IsFiniteSet(silent) /\ Cardinality(silent) \in Nat /\ Cardinality(silent) + Len(given) = n
    BY <1>6, <1>12, CountedApart
  <1>14. /\ IsFiniteSet(repeated) /\ Cardinality(repeated) \in Nat /\ Cardinality(fresh) \in Nat
         /\ Cardinality(fresh) + Cardinality(repeated) = Len(given)
    BY <1>6, <1>12, CountedApart
  <1> DEFINE toLeft == [i \in silent |-> <<kind, "worker", i>>]
             toDropped == [i \in repeated |-> <<kind, "assembly", i>>]
  <1>15. toLeft \in Bijection(silent, left) /\ toDropped \in Bijection(repeated, dropped)
    BY DEF Bijection, Injection, Surjection, IsInjective
  <1>16. left \cap dropped = {} /\ \A g \in left \cup dropped : g[1] = kind
    OBVIOUS
  <1> HIDE DEF left, dropped, toLeft, toDropped
  <1>17. IsFiniteSet(left) /\ Cardinality(left) = Cardinality(silent)
    BY <1>15, <1>13, BijectionCount
  <1>18. IsFiniteSet(dropped) /\ Cardinality(dropped) = Cardinality(repeated)
    BY <1>15, <1>14, BijectionCount
  <1>19. Cardinality(left \cup dropped) = Cardinality(left) + Cardinality(dropped)
    <2>1. Cardinality(left \cup dropped)
            = Cardinality(left) + Cardinality(dropped) - Cardinality(left \cap dropped)
      BY <1>17, <1>18, FS_Union
    <2>2. Cardinality(left \cap dropped) = 0
      BY <1>16, FS_EmptySet
    <2> QED
      BY <1>13, <1>14, <1>17, <1>18, <2>1, <2>2
  <1>20. Len(items) + Cardinality(left \cup dropped) = n
    BY <1>11, <1>13, <1>14, <1>17, <1>18, <1>19
  <1> QED
    BY <1>1, <1>16, <1>20

\* A feature a worker wrote keeps its text, unless another's name is taken for its own.
LEMMA WrittenStays ==
  ASSUME NEW written, features \in Lists, Written(written), NEW i \in DOMAIN features
  PROVE  \/ \E k \in 1 .. Len(Core(written)) :
              Core(written)[k].name = features[i] /\ Core(written)[k].text = "written"
         \/ written[<<"core", i>>] = Fallback
         \/ \E n \in ToSet(features) \ {features[i]} : Similar(n, features[i])
  <1> DEFINE A == Clean(written)
             B == Reconciled(A, First, Rest)
             C == Deduplicated(B)
             E == Ensured(C)
  <1> SUFFICES ASSUME written[<<"core", i>>] # Fallback,
                      ~ \E n \in ToSet(features) \ {features[i]} : Similar(n, features[i])
               PROVE  \E k \in 1 .. Len(Core(written)) :
                        Core(written)[k].name = features[i] /\ Core(written)[k].text = "written"
    OBVIOUS
  <1>0. /\ features \in Seq(Names) /\ IsInjective(features) /\ Len(features) \in Nat
        /\ DOMAIN features = 1 .. Len(features)
    BY ListsAreNames
  <1>1. /\ A \in Seq(Feature) /\ Len(A) = Len(features)
        /\ \A j \in 1 .. Len(features) : A[j].name = features[j]
        /\ A[i].text = "written"
    BY <1>0, CleanHolds
  <1> HIDE DEF A
  <1>2. /\ B \in Seq(Feature) /\ Len(B) = Len(features)
        /\ \A j \in 1 .. Len(features) : B[j].name = features[j]
        /\ B[i].text = "written"
    <2>1. i \in 1 .. Len(A)
      BY <1>0, <1>1
    <2>2. /\ B \in Seq(Feature) /\ Len(B) = Len(A)
          /\ \A j \in 1 .. Len(A) : B[j].name = A[j].name /\ B[j].text = A[j].text
      BY <1>1, ReconciledHolds
    <2> HIDE DEF B
    <2> QED
      BY <1>1, <2>1, <2>2
  <1> HIDE DEF B
  <1>3. /\ C \in Seq(Feature) /\ ToSet(C) \subseteq ToSet(B)
        /\ \A f \in ToSet(B) : f \in ToSet(C) \/ \E g \in ToSet(C) : Similar(g.name, f.name)
    BY <1>2, DeduplicatedHolds
  <1> HIDE DEF C
  <1>4. B[i] \in ToSet(C)
    <2>1. B[i] \in ToSet(B) /\ B[i].name = features[i]
      BY <1>0, <1>2, InSeq
    <2> SUFFICES ASSUME NEW g \in ToSet(C), Similar(g.name, features[i])
                 PROVE  B[i] \in ToSet(C)
      BY <1>3, <2>1
    <2>2. PICK j \in 1 .. Len(features) : g = B[j]
      BY <1>2, <1>3, InSeq
    <2>3. g.name = features[j] /\ features[j] \in ToSet(features)
      BY <1>0, <1>2, <2>2, InSeq
    <2>4. features[j] = features[i]
      BY <2>3
    <2>5. j = i
      BY <1>0, <2>4 DEF IsInjective
    <2> QED
      BY <2>2, <2>5
  <1>5. PICK k \in 1 .. Len(C) : B[i] = C[k]
    BY <1>3, <1>4, InSeq
  <1>6. PICK missing \in Seq(Names) :
          /\ E \in Seq(Feature) /\ Len(E) = Len(C) + Len(missing)
          /\ \A j \in 1 .. Len(C) + Len(missing) :
               E[j] = IF j <= Len(C) THEN C[j] ELSE Boilerplate(missing[j - Len(C)])
    BY <1>0, <1>3, EnsuredHolds
  <1>7. Core(written) = E
    BY DEF Core, A, B, C
  <1> HIDE DEF E
  <1>8. Len(C) \in Nat /\ Len(missing) \in Nat
    BY <1>3
  <1>9. k \in 1 .. Len(C) + Len(missing) /\ k <= Len(C)
    BY <1>8
  <1>10. E[k] = B[i] /\ k \in 1 .. Len(E)
    BY <1>5, <1>6, <1>9
  <1> QED
    BY <1>0, <1>2, <1>7, <1>10

LEMMA DocumentIsWhole ==
  ASSUME NEW written, features \in Lists, Written(written)
  PROVE  LET D == Document(written)
         IN  /\ NamesOf(D.core) = ToSet(features) /\ Len(D.core) = Len(features)
             /\ Len(D.kpi) + Cardinality({g \in D.gaps : g[1] = "kpi"}) = Kpis
             /\ Len(D.personas) + Cardinality({g \in D.gaps : g[1] = "persona"}) = Segments
             /\ \A i \in DOMAIN features :
                  \/ \E f \in ToSet(D.core) : f.name = features[i] /\ f.text = "written"
                  \/ <<"core", i>> \in D.fallbacks
                  \/ \E n \in ToSet(features) \ {features[i]} : Similar(n, features[i])
  <1> DEFINE D == Document(written)
             core == Core(written)
             kpi == Assembled(written, "kpi")
             personas == Assembled(written, "persona")
  <1>0. features \in Seq(Names)
    BY ListsAreNames
  <1>1. /\ D.core \in Seq(Feature) /\ Len(D.core) = Len(core)
        /\ \A i \in 1 .. Len(core) : D.core[i].name = core[i].name /\ D.core[i].text = core[i].text
        /\ D.kpi = kpi.items /\ D.personas = personas.items
        /\ D.gaps = kpi.gaps \cup personas.gaps
        /\ D.fallbacks = {slot \in Slots : written[slot] = Fallback}
    BY <1>0, DocumentHeeds
  <1>2. /\ Len(core) = Len(features)
        /\ \A i \in 1 .. Len(core) : core[i].name \in ToSet(features)
        /\ \A n \in ToSet(features) : \E i \in 1 .. Len(core) : n = core[i].name
    BY CoreNames
  <1>3. Len(kpi.items) + Cardinality(kpi.gaps) = Kpis /\ \A g \in kpi.gaps : g[1] = "kpi"
    BY PrdAssumption, AssembledCounts
  <1>4. Len(personas.items) + Cardinality(personas.gaps) = Segments
        /\ \A g \in personas.gaps : g[1] = "persona"
    BY PrdAssumption, AssembledCounts
  <1>5. ASSUME NEW i \in DOMAIN features
        PROVE  \/ \E k \in 1 .. Len(core) : core[k].name = features[i] /\ core[k].text = "written"
               \/ written[<<"core", i>>] = Fallback
               \/ \E n \in ToSet(features) \ {features[i]} : Similar(n, features[i])
    BY WrittenStays
  <1> HIDE DEF D, core, kpi, personas
  <1>6. /\ \A i \in 1 .. Len(D.core) : D.core[i] \in ToSet(D.core)
        /\ \A f \in ToSet(D.core) : \E i \in 1 .. Len(D.core) : f = D.core[i]
    BY <1>1, InSeq
  <1>7. NamesOf(D.core) = ToSet(features)
    <2>1. ASSUME NEW n \in NamesOf(D.core) PROVE n \in ToSet(features)
      <3>1. PICK f \in ToSet(D.core) : n = f.name
        BY DEF NamesOf
      <3>2. PICK i \in 1 .. Len(D.core) : f = D.core[i]
        BY <1>6
      <3> QED
        BY <1>1, <1>2, <3>1, <3>2
    <2>2. \A n \in ToSet(features) : n \in NamesOf(D.core)
      BY <1>1, <1>2, <1>6 DEF NamesOf
    <2> QED
      BY <2>1, <2>2
  <1>8. {g \in D.gaps : g[1] = "kpi"} = kpi.gaps
        /\ {g \in D.gaps : g[1] = "persona"} = personas.gaps
    BY <1>1, <1>3, <1>4
  <1>9. ASSUME NEW i \in DOMAIN features
        PROVE  \/ \E f \in ToSet(D.core) : f.name = features[i] /\ f.text = "written"
               \/ <<"core", i>> \in D.fallbacks
               \/ \E n \in ToSet(features) \ {features[i]} : Similar(n, features[i])
    <2>1. <<"core", i>> \in Slots
      BY CoreSlots
    <2>2. CASE written[<<"core", i>>] = Fallback
      BY <1>1, <2>1, <2>2
    <2>3. CASE \E k \in 1 .. Len(core) : core[k].name = features[i] /\ core[k].text = "written"
      BY <1>1, <1>6, <2>3
    <2> QED
      BY <1>5, <2>2, <2>3
  <1> QED
    BY <1>1, <1>2, <1>3, <1>4, <1>7, <1>8, <1>9 DEF D

LEMMA EmergencyIsWhole ==
  ASSUME NEW by, features \in Lists
  PROVE  NamesOf(Emergency(by).core) = ToSet(features) /\ Len(Emergency(by).core) = Len(features)
  <1> DEFINE core == Emergency(by).core
  <1>1. /\ core \in Seq(Feature) /\ Len(core) = Len(features)
        /\ \A i \in 1 .. Len(features) : core[i].name = features[i]
    BY ListsAreNames, EmergencyHolds
  <1>2. features \in Seq(Names)
    BY ListsAreNames
  <1> HIDE DEF core
  <1>3. /\ \A i \in 1 .. Len(core) : core[i] \in ToSet(core)
        /\ \A f \in ToSet(core) : \E i \in 1 .. Len(core) : f = core[i]
    BY <1>1, InSeq
  <1>4. /\ \A i \in 1 .. Len(features) : features[i] \in ToSet(features)
        /\ \A n \in ToSet(features) : \E i \in 1 .. Len(features) : n = features[i]
    BY <1>2, InSeq
  <1>5. \A n \in NamesOf(core) : n \in ToSet(features)
    <2> TAKE n \in NamesOf(core)
    <2>1. PICK f \in ToSet(core) : n = f.name
      BY DEF NamesOf
    <2>2. PICK i \in 1 .. Len(core) : f = core[i]
      BY <1>3
    <2> QED
      BY <1>1, <1>4, <2>1, <2>2
  <1>6. \A n \in ToSet(features) : n \in NamesOf(core)
    BY <1>1, <1>3, <1>4 DEF NamesOf
  <1> QED
    BY <1>1, <1>5, <1>6 DEF core

LEMMA StepWhole == FInv /\ NothingIsMissing /\ [Next]_vars => NothingIsMissing'
  <1> SUFFICES ASSUME FInv, NothingIsMissing, [Next]_vars PROVE NothingIsMissing'
    OBVIOUS
  <1>0. features' = features /\ features \in Lists /\ Written(sections) /\ IInv /\ Known
    BY InputsStay DEF FInv, Known
  <1>1. ASSUME ~Ready' PROVE NothingIsMissing'
    BY <1>1 DEF NothingIsMissing, EveryFeatureIsWritten, EveryGapIsReported
  <1>2. ASSUME NEW slot, NEW text, Accept(slot, text) PROVE NothingIsMissing'
    BY <1>1, <1>2 DEF Accept, Ready
  <1>3. ASSUME NEW slot, NEW meaning, Reject(slot, meaning) PROVE NothingIsMissing'
    BY <1>1, <1>3 DEF Reject, Ready
  <1>4. CASE Review
    <2> DEFINE D == Document(sections)
    <2>1. prd' = D
      BY <1>4 DEF Review
    <2>2. /\ NamesOf(D.core) = ToSet(features) /\ Len(D.core) = Len(features)
          /\ Len(D.kpi) + Cardinality({g \in D.gaps : g[1] = "kpi"}) = Kpis
          /\ Len(D.personas) + Cardinality({g \in D.gaps : g[1] = "persona"}) = Segments
          /\ \A i \in DOMAIN features :
               \/ \E f \in ToSet(D.core) : f.name = features[i] /\ f.text = "written"
               \/ <<"core", i>> \in D.fallbacks
               \/ \E n \in ToSet(features) \ {features[i]} : Similar(n, features[i])
      BY <1>0, DocumentIsWhole
    <2> HIDE DEF D
    <2>3. EveryFeatureIsWritten'
      BY <1>0, <2>1, <2>2 DEF EveryFeatureIsWritten
    <2>4. EveryGapIsReported'
      BY <1>0, <2>1, <2>2 DEF EveryGapIsReported
    <2> QED
      BY <2>3, <2>4 DEF NothingIsMissing
  <1>5. CASE Transport
    BY <1>1, <1>5 DEF Transport, Ready
  <1>6. CASE Crash
    <2>1. stage = "writing" /\ prd' = IF prd = Absent THEN Emergency("nobody") ELSE prd
      BY <1>6 DEF Crash
    <2>2. prd' = Emergency("nobody") \/ prd' = Emergency("earlier")
      BY <1>0, <2>1 DEF IInv, Unwritten
    <2>3. /\ prd'.by # "workers"
          /\ NamesOf(prd'.core) = ToSet(features) /\ Len(prd'.core) = Len(features)
      BY <1>0, <2>2, EmergencyShape, EmergencyIsWhole
    <2>4. EveryFeatureIsWritten' /\ EveryGapIsReported'
      BY <1>0, <2>3 DEF EveryFeatureIsWritten, EveryGapIsReported
    <2> QED
      BY <2>4 DEF NothingIsMissing
  <1>7. ASSUME NEW feedback, NEW patch, Repair(feedback, patch) PROVE NothingIsMissing'
    <2>1. repairs' = repairs + 1 /\ repairs \in Nat
      BY <1>0, <1>7 DEF Repair, Known
    <2> QED
      BY <1>1, <2>1 DEF Ready
  <1>8. CASE UNCHANGED vars
    BY <1>8 DEF vars, NothingIsMissing, EveryFeatureIsWritten, EveryGapIsReported, Ready
  <1> QED
    BY <1>2, <1>3, <1>4, <1>5, <1>6, <1>7, <1>8 DEF Next

\* Workers fail, names are taken for each other and the run may crash: every listed feature is
\* in the PRD once, and each item the workers owed is there or its absence is on record.
THEOREM NothingGoesMissing == Spec => []NothingIsMissing
  <1>1. Init => NothingIsMissing
    BY DEF Init, NothingIsMissing, EveryFeatureIsWritten, EveryGapIsReported, Ready
  <1>2. FInv /\ NothingIsMissing /\ [Next]_vars => NothingIsMissing'
    BY StepWhole
  <1> QED
    BY <1>1, <1>2, FullInvariance, PTL DEF Spec
=============================================================================
