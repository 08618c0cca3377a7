---------------------------- MODULE DeviceLemmas ----------------------------
(***************************************************************************)
(* The receipt windows: their ranges stay apart and they implement the set *)
(* of what was seen.  And the inductive invariant of Devices, with the     *)
(* actions that leave the tables alone.                                    *)
(***************************************************************************)
EXTENDS Devices, ReceiptWindow, TLAPS

(* A leaf is tried with Zenon, then with SMT; those that need arithmetic   *)
(* or are too large for Zenon name SMT.                                    *)
USE ZenonT(10), SMTT(20)

(* A function on an initial segment of the positive naturals is a sequence. *)
LEMMA SeqIntro ==
  ASSUME NEW S, NEW n \in Nat, NEW f \in [1..n -> S]
  PROVE  f \in Seq(S)
BY SMTT(20)

(* What the provers need of a window, without its type. *)
LEMMA ApartFacts ==
  ASSUME NEW w, Apart(w)
  PROVE  /\ w.max_seen \in Nat /\ w.max_seen <= MaxSequence
         /\ w.missing \in Seq(Gaps) /\ Len(w.missing) \in Nat /\ DOMAIN w.missing = 1..Len(w.missing)
         /\ \A i \in 1..Len(w.missing) :
              /\ w.missing[i] \in Gaps
              /\ w.missing[i].start \in Nat /\ w.missing[i].end \in Nat
              /\ 1 <= w.missing[i].start /\ w.missing[i].start <= w.missing[i].end
              /\ w.missing[i].end < w.max_seen
         /\ \A i, j \in 1..Len(w.missing) : i < j => w.missing[i].end + 1 < w.missing[j].start
<1>1. /\ w.max_seen \in 0..MaxSequence /\ w.missing \in Seq(Gaps)
  BY DEF Apart
<1>2. Len(w.missing) \in Nat /\ DOMAIN w.missing = 1..Len(w.missing)
  BY <1>1, SMTT(20)
<1>3. \A i \in 1..Len(w.missing) : w.missing[i] \in Gaps
  BY <1>1, <1>2, SMTT(20)
<1>4. \A g \in Gaps : g.start \in Nat /\ g.end \in Nat
  BY DEF Gaps
<1>5. \A i \in DOMAIN w.missing :
        /\ 1 <= w.missing[i].start
        /\ w.missing[i].start <= w.missing[i].end
        /\ w.missing[i].end < w.max_seen
  BY Zenon DEF Apart
<1>6. \A i, j \in DOMAIN w.missing : i < j => w.missing[i].end + 1 < w.missing[j].start
  BY Zenon DEF Apart
<1>7. w.max_seen \in Nat /\ w.max_seen <= MaxSequence
  BY <1>1, MaxSequenceAssumption, SMTT(20)
<1>8. \A i \in 1..Len(w.missing) :
        /\ w.missing[i] \in Gaps
        /\ w.missing[i].start \in Nat /\ w.missing[i].end \in Nat
        /\ 1 <= w.missing[i].start /\ w.missing[i].start <= w.missing[i].end
        /\ w.missing[i].end < w.max_seen
  BY <1>2, <1>3, <1>4, <1>5, Zenon
<1>9. \A i, j \in 1..Len(w.missing) : i < j => w.missing[i].end + 1 < w.missing[j].start
  BY <1>2, <1>6, Zenon
<1> QED BY <1>1, <1>2, <1>7, <1>8, <1>9, Zenon

(* What is seen, in terms of the vector's length. *)
LEMMA SeenFacts ==
  ASSUME NEW w, Apart(w), NEW x
  PROVE  x \in Seen(w) <=>
           /\ x \in 1..w.max_seen
           /\ \A i \in 1..Len(w.missing) : x < w.missing[i].start \/ x > w.missing[i].end
<1>1. DOMAIN w.missing = 1..Len(w.missing)
  BY ApartFacts
<1> QED BY <1>1, Zenon DEF Seen

(* The index missing_index finds, and that it finds one exactly for the    *)
(* numbers that are missing.                                               *)
LEMMA IndexFound ==
  ASSUME NEW w, Apart(w), NEW s \in 1..w.max_seen
  PROVE  \/ MissingIndex(w, s) = 0 /\ s \in Seen(w)
         \/ /\ MissingIndex(w, s) \in 1..Len(w.missing)
            /\ w.missing[MissingIndex(w, s)].start <= s /\ s <= w.missing[MissingIndex(w, s)].end
            /\ s \notin Seen(w)
<1> DEFINE Hit(i) == w.missing[i].start <= s /\ s <= w.missing[i].end
<1>1. /\ DOMAIN w.missing = 1..Len(w.missing) /\ w.max_seen \in Nat
      /\ \A i \in 1..Len(w.missing) : w.missing[i].start \in Nat /\ w.missing[i].end \in Nat
  BY ApartFacts
<1>2. \A i \in 1..Len(w.missing) : ~Hit(i) <=> s < w.missing[i].start \/ s > w.missing[i].end
  BY <1>1, SMTT(20)
<1>3. s \in Seen(w) <=> \A i \in 1..Len(w.missing) : ~Hit(i)
  BY <1>2, SeenFacts, Zenon
<1>4. CASE \E i \in DOMAIN w.missing : Hit(i)
  <2>1. MissingIndex(w, s) = CHOOSE i \in DOMAIN w.missing : Hit(i)
    BY <1>4 DEF MissingIndex
  <2>2. MissingIndex(w, s) \in DOMAIN w.missing /\ Hit(MissingIndex(w, s))
    BY <1>4, <2>1, Zenon
  <2> QED BY <1>1, <1>3, <2>2, Zenon
<1>5. CASE ~ \E i \in DOMAIN w.missing : Hit(i)
  <2>1. MissingIndex(w, s) = 0
    BY <1>5 DEF MissingIndex
  <2> QED BY <1>1, <1>3, <1>5, <2>1, Zenon
<1> QED BY <1>4, <1>5, Zenon

(* A vector of ranges in order, as a window's. *)
LEMMA ApartIntro ==
  ASSUME NEW top \in 0..MaxSequence, NEW m \in Seq(Gaps),
         \A i \in 1..Len(m) : 1 <= m[i].start /\ m[i].start <= m[i].end /\ m[i].end < top,
         \A i, j \in 1..Len(m) : i < j => m[i].end + 1 < m[j].start
  PROVE  Apart([max_seen |-> top, missing |-> m])
<1>1. DOMAIN m = 1..Len(m)
  BY SMTT(20)
<1> DEFINE w == [max_seen |-> top, missing |-> m]
<1>2. w.max_seen = top /\ w.missing = m /\ w \in [max_seen : 0..MaxSequence, missing : Seq(Gaps)]
  OBVIOUS
<1> HIDE DEF w
<1>3. Apart(w)
  BY <1>1, <1>2, Zenon DEF Apart
<1> QED BY <1>3 DEF w

(* A number above the largest is added, and nothing else. *)
LEMMA AdvanceAdds ==
  ASSUME NEW w, Apart(w), NEW s \in 1..MaxSequence, s > w.max_seen
  PROVE  Apart(Advance(w, s)) /\ Seen(Advance(w, s)) = Seen(w) \union {s}
<1> DEFINE m == w.missing
           n == Len(m)
           top == w.max_seen
           a == Advance(w, s)
<1>0. m \in Seq(Gaps) /\ s \in 0..MaxSequence
  BY ApartFacts, MaxSequenceAssumption, SMTT(20)
<1>1. /\ n \in Nat /\ top \in Nat /\ s \in Nat
      /\ \A i \in 1..n : /\ m[i].start \in Nat /\ m[i].end \in Nat /\ 1 <= m[i].start
                          /\ m[i].start <= m[i].end /\ m[i].end < top
      /\ \A i, j \in 1..n : i < j => m[i].end + 1 < m[j].start
  BY ApartFacts, MaxSequenceAssumption, SMTT(20)
<1>2. \A x : x \in Seen(w) <=> x \in 1..top /\ \A i \in 1..n : x < m[i].start \/ x > m[i].end
  BY SeenFacts
<1>3. CASE s > top + 1
  <2> DEFINE g == Gap(top + 1, s - 1)
             b == Append(m, g)
  <2>1. g \in Gaps /\ g.start = top + 1 /\ g.end = s - 1
    BY <1>1, <1>3, SMTT(20) DEF Gap, Gaps
  <2> HIDE DEF g
  <2>2. /\ a = [max_seen |-> s, missing |-> b] /\ a.max_seen = s /\ a.missing = b
    BY <1>3, Zenon DEF Advance, g
  <2>3. (\A i \in 1..n : b[i] = m[i]) /\ b[n + 1] = g
    BY <1>0, <2>1, SMTT(20)
  <2>4. b \in Seq(Gaps) /\ Len(b) = n + 1
    BY <1>0, <2>1, SMTT(20)
  <2> HIDE DEF m, n, top, a, b
  <2>5. \A i \in 1..(n + 1) : i \in 1..n \/ i = n + 1
    BY <1>1, SMTT(20)
  <2>6. ASSUME NEW i \in 1..(n + 1)
        PROVE  /\ b[i].start \in Nat /\ b[i].end \in Nat /\ 1 <= b[i].start
               /\ b[i].start <= b[i].end /\ b[i].end < s
    <3>1. CASE i \in 1..n
      BY <1>1, <1>3, <2>3, <3>1, SMTT(20)
    <3>2. CASE i = n + 1
      BY <1>1, <1>3, <2>1, <2>3, <3>2, SMTT(20)
    <3> QED BY <2>5, <3>1, <3>2
  <2>7. ASSUME NEW i \in 1..(n + 1), NEW j \in 1..(n + 1), i < j
        PROVE  b[i].end + 1 < b[j].start
    <3>1. i \in 1..n
      BY <1>1, <2>7, SMTT(20)
    <3>2. CASE j \in 1..n
      BY <1>1, <2>3, <2>7, <3>1, <3>2
    <3>3. CASE j = n + 1
      BY <1>1, <2>1, <2>3, <3>1, <3>3, SMTT(20)
    <3> QED BY <2>5, <3>2, <3>3
  <2>8. Apart(a)
    BY <1>0, <2>2, <2>4, <2>6, <2>7, ApartIntro, Zenon
  <2>9. \A x : x \in Seen(a) <=> x \in 1..s /\ \A i \in 1..(n + 1) : x < b[i].start \/ x > b[i].end
    BY <2>2, <2>4, <2>8, SeenFacts, Zenon
  <2>10. ASSUME NEW x \in 1..s
        PROVE  (\A i \in 1..(n + 1) : x < b[i].start \/ x > b[i].end)
                 <=> (x <= top /\ \A i \in 1..n : x < m[i].start \/ x > m[i].end) \/ x = s
    <3>1. x < b[n + 1].start \/ x > b[n + 1].end <=> x <= top \/ x = s
      BY <1>1, <1>3, <2>1, <2>3, SMTT(20)
    <3>2. CASE x = s
      <4>1. \A i \in 1..(n + 1) : x > b[i].end
        BY <2>6, <3>2
      <4> QED BY <4>1, <3>2
    <3>3. CASE x # s
      BY <1>1, <2>5, <2>3, <3>1, <3>3, SMTT(20)
    <3> QED BY <3>2, <3>3
  <2>11. ASSUME NEW x
        PROVE  x \in Seen(a) <=> x \in Seen(w) \/ x = s
    <3>1. x \in 1..top => x \in 1..s
      BY <1>1, <1>3, SMTT(20)
    <3>2. s \in 1..s
      BY <1>1, <1>3, SMTT(20)
    <3>3. x \in 1..s /\ x <= top => x \in 1..top
      BY <1>1, SMTT(20)
    <3> QED BY <1>2, <2>9, <2>10, <3>1, <3>2, <3>3, SMTT(20)
  <2> QED BY <2>8, <2>11 DEF a
<1>4. CASE s = top + 1
  <2>1. a = [max_seen |-> s, missing |-> m] /\ a.max_seen = s /\ a.missing = m
    BY <1>1, <1>4, SMTT(20) DEF Advance
  <2> HIDE DEF m, n, top, a
  <2>2. \A i \in 1..n : m[i].end < s
    BY <1>1, <1>4, SMTT(20)
  <2>3. Apart(a)
    BY <1>0, <1>1, <2>1, <2>2, ApartIntro, Zenon DEF n
  <2>4. \A x : x \in Seen(a) <=> x \in 1..s /\ \A i \in 1..n : x < m[i].start \/ x > m[i].end
    BY <2>1, <2>3, SeenFacts DEF n
  <2>5. ASSUME NEW x
        PROVE  x \in Seen(a) <=> x \in Seen(w) \/ x = s
    <3>1. x \in 1..s <=> x \in 1..top \/ x = s
      BY <1>1, <1>4, SMTT(20)
    <3>2. x = s => \A i \in 1..n : x > m[i].end
      BY <2>2
    <3> QED BY <1>2, <2>4, <3>1, <3>2
  <2> QED BY <2>3, <2>5 DEF a
<1> QED BY <1>1, <1>3, <1>4, SMTT(20)

(* What is left of a range when s is taken out of it. *)
LEMMA WithoutFacts ==
  ASSUME NEW r \in Gaps, NEW s \in Nat, r.start <= s, s <= r.end
  PROVE  LET new == Without(r, s)
             k == Len(new)
         IN  /\ new \in Seq(Gaps) /\ k \in Nat
             /\ \A j \in 1..k : /\ new[j].start \in Nat /\ new[j].end \in Nat
                               /\ r.start <= new[j].start /\ new[j].start <= new[j].end
                               /\ new[j].end <= r.end
             /\ \A j, l \in 1..k : j < l => new[j].end + 1 < new[l].start
             /\ \A x \in Nat : (\E j \in 1..k : new[j].start <= x /\ x <= new[j].end)
                                <=> r.start <= x /\ x <= r.end /\ x # s
<1> DEFINE low == Gap(r.start, s - 1)
           high == Gap(s + 1, r.end)
           new == Without(r, s)
<1>1. r.start \in Nat /\ r.end \in Nat
  BY DEF Gaps
<1>2. /\ low.start = r.start /\ low.end = s - 1 /\ (r.start < s => low \in Gaps)
      /\ high.start = s + 1 /\ high.end = r.end /\ high \in Gaps
  BY <1>1, SMTT(20) DEF Gap, Gaps
<1>3. CASE r.start < s /\ s < r.end
  <2>1. new = <<low, high>>
    BY <1>3 DEF Without
  <2>2. new \in Seq(Gaps) /\ Len(new) = 2 /\ new[1] = low /\ new[2] = high
    BY <1>2, <1>3, <2>1, SMTT(20)
  <2> HIDE DEF low, high, new
  <2>3. \A j \in 1..2 : j = 1 \/ j = 2
    BY SMTT(20)
  <2> QED BY <1>1, <1>2, <1>3, <2>2, <2>3, SMTT(20) DEF new
<1>4. CASE r.start < s /\ ~(s < r.end)
  <2>1. new = <<low>>
    BY <1>4 DEF Without
  <2>2. new \in Seq(Gaps) /\ Len(new) = 1 /\ new[1] = low
    BY <1>2, <1>4, <2>1, SMTT(20)
  <2> HIDE DEF low, high, new
  <2> QED BY <1>1, <1>2, <1>4, <2>2, SMTT(20) DEF new
<1>5. CASE ~(r.start < s) /\ s < r.end
  <2>1. new = <<high>>
    BY <1>5 DEF Without
  <2>2. new \in Seq(Gaps) /\ Len(new) = 1 /\ new[1] = high
    BY <1>2, <1>5, <2>1, SMTT(20)
  <2> HIDE DEF low, high, new
  <2> QED BY <1>1, <1>2, <1>5, <2>2, SMTT(20) DEF new
<1>6. CASE ~(r.start < s) /\ ~(s < r.end)
  <2>1. new = <<>>
    BY <1>6 DEF Without
  <2>2. new \in Seq(Gaps) /\ Len(new) = 0
    BY <2>1, SMTT(20)
  <2> HIDE DEF low, high, new
  <2> QED BY <1>1, <1>6, <2>2, SMTT(20) DEF new
<1> QED BY <1>3, <1>4, <1>5, <1>6, Zenon

(* Where the elements of a spliced vector come from. *)
LEMMA SpliceFacts ==
  ASSUME NEW m \in Seq(Gaps), NEW i \in 1..Len(m), NEW new \in Seq(Gaps)
  PROVE  LET b == Splice(m, i, new)
             n == Len(m)
             k == Len(new)
         IN  /\ b \in Seq(Gaps) /\ Len(b) = n + k - 1
             /\ \A j \in 1..(i - 1) : b[j] = m[j]
             /\ \A j \in 1..k : b[i + j - 1] = new[j]
             /\ \A j \in (i + 1)..n : b[j + k - 1] = m[j]
<1> DEFINE n == Len(m)
           k == Len(new)
           b == Splice(m, i, new)
<1>1. n \in Nat /\ k \in Nat /\ i \in 1..n /\ n + k - 1 \in Nat
  BY SMTT(20)
<1>2. (\A j \in 1..n : m[j] \in Gaps) /\ (\A j \in 1..k : new[j] \in Gaps)
  BY SMTT(20)
<1>3. b = [j \in 1..(n + k - 1) |-> IF j < i THEN m[j] ELSE IF j < i + k THEN new[j - i + 1] ELSE m[j - k + 1]]
  BY DEF Splice
<1> HIDE DEF n, k, b
<1>4. \A j \in 1..(n + k - 1) : b[j] \in Gaps
  BY <1>1, <1>2, <1>3, SMTT(20)
<1>5. b \in Seq(Gaps) /\ Len(b) = n + k - 1
  <2>1. b \in [1..(n + k - 1) -> Gaps]
    BY <1>3, <1>4
  <2>2. b \in Seq(Gaps)
    BY <1>1, <2>1, SeqIntro
  <2>3. DOMAIN b = 1..Len(b) /\ Len(b) \in Nat /\ DOMAIN b = 1..(n + k - 1)
    BY <2>1, <2>2, SMTT(20)
  <2> QED BY <1>1, <2>2, <2>3, SMTT(20)
<1>6. \A j \in 1..(i - 1) : b[j] = m[j]
  BY <1>1, <1>3, SMTT(20)
<1>7. ASSUME NEW j \in 1..k
      PROVE  b[i + j - 1] = new[j]
  <2>1. /\ i + j - 1 \in 1..(n + k - 1) /\ ~(i + j - 1 < i) /\ i + j - 1 < i + k
        /\ (i + j - 1) - i + 1 = j
    BY <1>1, SMTT(20)
  <2> QED BY <1>3, <2>1
<1>8. ASSUME NEW j \in (i + 1)..n
      PROVE  b[j + k - 1] = m[j]
  <2>1. /\ j + k - 1 \in 1..(n + k - 1) /\ ~(j + k - 1 < i) /\ ~(j + k - 1 < i + k)
        /\ (j + k - 1) - k + 1 = j
    BY <1>1, SMTT(20)
  <2> QED BY <1>3, <2>1
<1> QED BY <1>5, <1>6, <1>7, <1>8 DEF n, k, b

(* A missing number that arrives is added, and nothing else. *)
LEMMA FillAdds ==
  ASSUME NEW w, Apart(w), NEW s \in 1..w.max_seen, s \notin Seen(w)
  PROVE  Apart(Fill(w, s)) /\ Seen(Fill(w, s)) = Seen(w) \union {s}
<1> DEFINE m == w.missing
           n == Len(m)
           top == w.max_seen
           i == MissingIndex(w, s)
           new == Without(m[i], s)
           k == Len(new)
           b == Splice(m, i, new)
           f == Fill(w, s)
           In(x, g) == g.start <= x /\ x <= g.end
<1>1. m \in Seq(Gaps) /\ top \in 0..MaxSequence
  BY ApartFacts, MaxSequenceAssumption, SMTT(20)
<1>2. /\ n \in Nat /\ top \in Nat /\ s \in Nat
      /\ \A j \in 1..n : /\ m[j].start \in Nat /\ m[j].end \in Nat /\ 1 <= m[j].start
                          /\ m[j].start <= m[j].end /\ m[j].end < top
      /\ \A j, l \in 1..n : j < l => m[j].end + 1 < m[l].start
  BY ApartFacts, MaxSequenceAssumption, SMTT(20)
<1>3. i \in 1..n /\ In(s, m[i]) /\ m[i] \in Gaps
  BY IndexFound, ApartFacts
<1>4. /\ new \in Seq(Gaps) /\ k \in Nat
      /\ \A j \in 1..k : /\ new[j].start \in Nat /\ new[j].end \in Nat
                        /\ m[i].start <= new[j].start /\ new[j].start <= new[j].end
                        /\ new[j].end <= m[i].end
      /\ \A j, l \in 1..k : j < l => new[j].end + 1 < new[l].start
      /\ \A x \in Nat : (\E j \in 1..k : In(x, new[j])) <=> In(x, m[i]) /\ x # s
  BY <1>2, <1>3, WithoutFacts, Zenon
<1>5. f = [max_seen |-> top, missing |-> b] /\ f.max_seen = top /\ f.missing = b
  BY SMTT(20) DEF Fill, Apart
<1> HIDE DEF m, top, i, new, f
<1>6. /\ b \in Seq(Gaps) /\ Len(b) = n + k - 1
      /\ \A j \in 1..(i - 1) : b[j] = m[j]
      /\ \A j \in 1..k : b[i + j - 1] = new[j]
      /\ \A j \in (i + 1)..n : b[j + k - 1] = m[j]
  <2>1. m \in Seq(Gaps) /\ i \in 1..Len(m) /\ new \in Seq(Gaps)
    BY <1>1, <1>3, <1>4
  <2> QED BY <2>1, SpliceFacts, Zenon
<1> HIDE DEF n, k, b
(* An element of b is an element of m before i, a part of m[i], or an      *)
(* element of m after i.                                                   *)
<1>7. ASSUME NEW j \in 1..(n + k - 1)
      PROVE  \/ j \in 1..(i - 1) /\ j \in 1..n /\ b[j] = m[j]
             \/ j - i + 1 \in 1..k /\ b[j] = new[j - i + 1]
             \/ j - k + 1 \in (i + 1)..n /\ j - k + 1 \in 1..n /\ b[j] = m[j - k + 1]
  <2>1. \/ j \in 1..(i - 1) /\ j \in 1..n
        \/ j - i + 1 \in 1..k /\ j = i + (j - i + 1) - 1
        \/ j - k + 1 \in (i + 1)..n /\ j - k + 1 \in 1..n /\ j = (j - k + 1) + k - 1
    BY <1>2, <1>3, <1>4, SMTT(20)
  <2> QED BY <1>6, <2>1
<1> DEFINE Before(j) == j \in 1..(i - 1) /\ j \in 1..n /\ b[j] = m[j]
           Part(j) == j - i + 1 \in 1..k /\ b[j] = new[j - i + 1]
           After(j) == j - k + 1 \in (i + 1)..n /\ j - k + 1 \in 1..n /\ b[j] = m[j - k + 1]
<1>8. ASSUME NEW j \in 1..(n + k - 1)
      PROVE  /\ b[j].start \in Nat /\ b[j].end \in Nat /\ 1 <= b[j].start
             /\ b[j].start <= b[j].end /\ b[j].end < top
  <2>1. CASE Before(j)
    BY <1>2, <2>1
  <2>2. CASE Part(j)
    <3>1. 1 <= m[i].start /\ m[i].end < top /\ m[i].start \in Nat /\ m[i].end \in Nat
      BY <1>2, <1>3
    <3>2. /\ new[j - i + 1].start \in Nat /\ new[j - i + 1].end \in Nat
          /\ m[i].start <= new[j - i + 1].start /\ new[j - i + 1].start <= new[j - i + 1].end
          /\ new[j - i + 1].end <= m[i].end
      BY <1>4, <2>2
    <3> QED BY <1>2, <2>2, <3>1, <3>2, SMTT(20)
  <2>3. CASE After(j)
    BY <1>2, <2>3
  <2> QED BY <1>7, <2>1, <2>2, <2>3
<1>9. ASSUME NEW j \in 1..(n + k - 1), NEW l \in 1..(n + k - 1), j < l
      PROVE  b[j].end + 1 < b[l].start
  <2>1. m[i].start \in Nat /\ m[i].end \in Nat /\ i \in Nat
    BY <1>2, <1>3, SMTT(20)
  <2>2. CASE Before(j)
    <3>1. CASE Before(l)
      BY <1>2, <1>9, <2>2, <3>1
    <3>2. CASE Part(l)
      <4>1. m[j].end + 1 < m[i].start
        BY <1>2, <1>3, <2>2, SMTT(20)
      <4>2. m[i].start <= new[l - i + 1].start /\ new[l - i + 1].start \in Nat
        BY <1>4, <3>2
      <4>3. m[j].end \in Nat
        BY <1>2, <2>2
      <4> QED BY <2>1, <2>2, <3>2, <4>1, <4>2, <4>3, SMTT(20)
    <3>3. CASE After(l)
      <4>1. j < l - k + 1
        BY <1>2, <1>3, <1>4, <2>2, <3>3, SMTT(20)
      <4> QED BY <1>2, <2>2, <3>3, <4>1
    <3> QED BY <1>7, <3>1, <3>2, <3>3
  <2>3. CASE Part(j)
    <3>1. CASE Before(l)
      BY <1>4, <1>9, <2>1, <2>3, <3>1, SMTT(20)
    <3>2. CASE Part(l)
      <4>1. j - i + 1 < l - i + 1
        BY <1>4, <1>9, <2>1, SMTT(20)
      <4> QED BY <1>4, <2>3, <3>2, <4>1
    <3>3. CASE After(l)
      <4>1. m[i].end + 1 < m[l - k + 1].start
        BY <1>2, <1>3, <3>3, SMTT(20)
      <4>2. new[j - i + 1].end <= m[i].end /\ new[j - i + 1].end \in Nat
        BY <1>4, <2>3
      <4>3. m[l - k + 1].start \in Nat
        BY <1>2, <3>3
      <4> QED BY <2>1, <2>3, <3>3, <4>1, <4>2, <4>3, SMTT(20)
    <3> QED BY <1>7, <3>1, <3>2, <3>3
  <2>4. CASE After(j)
    <3>1. CASE Before(l)
      BY <1>4, <1>9, <2>1, <2>4, <3>1, SMTT(20)
    <3>2. CASE Part(l)
      BY <1>4, <1>9, <2>1, <2>4, <3>2, SMTT(20)
    <3>3. CASE After(l)
      <4>1. j - k + 1 < l - k + 1
        BY <1>4, <1>9, SMTT(20)
      <4> QED BY <1>2, <2>4, <3>3, <4>1
    <3> QED BY <1>7, <3>1, <3>2, <3>3
  <2> QED BY <1>7, <2>2, <2>3, <2>4
<1>10. Apart(f)
  BY <1>1, <1>6, <1>5, <1>8, <1>9, ApartIntro, Zenon
<1>11. ASSUME NEW x \in 1..top
       PROVE  (\E j \in 1..(n + k - 1) : In(x, b[j])) <=> (\E j \in 1..n : In(x, m[j])) /\ x # s
  <2>1. x \in Nat
    BY <1>2, SMTT(20)
  <2>2. ASSUME NEW j \in 1..n, j # i, In(x, m[j])
        PROVE  x # s
    BY <1>2, <1>3, <2>1, <2>2, SMTT(20)
  <2>3. ASSUME NEW j \in 1..(n + k - 1), In(x, b[j])
        PROVE  (\E l \in 1..n : In(x, m[l])) /\ x # s
    <3>1. CASE Before(j)
      <4>1. j # i
        BY <1>3, <3>1, SMTT(20)
      <4> QED BY <2>2, <2>3, <3>1, <4>1
    <3>2. CASE Part(j)
      BY <1>3, <1>4, <2>1, <2>3, <3>2
    <3>3. CASE After(j)
      <4>1. j - k + 1 # i
        BY <1>3, <3>3, SMTT(20)
      <4> QED BY <2>2, <2>3, <3>3, <4>1
    <3> QED BY <1>7, <3>1, <3>2, <3>3
  <2>4. ASSUME NEW j \in 1..n, In(x, m[j]), x # s
        PROVE  \E l \in 1..(n + k - 1) : In(x, b[l])
    <3>1. CASE j < i
      <4>1. j \in 1..(i - 1) /\ j \in 1..(n + k - 1)
        BY <1>2, <1>3, <1>4, <3>1, SMTT(20)
      <4> QED BY <1>6, <2>4, <4>1
    <3>2. CASE j = i
      <4>1. PICK l \in 1..k : In(x, new[l])
        BY <1>4, <2>1, <2>4, <3>2, Zenon
      <4>2. i + l - 1 \in 1..(n + k - 1) /\ b[i + l - 1] = new[l]
        BY <1>2, <1>3, <1>4, <1>6, SMTT(20)
      <4> QED BY <4>1, <4>2
    <3>3. CASE j > i
      <4>1. j \in (i + 1)..n /\ j + k - 1 \in 1..(n + k - 1)
        BY <1>2, <1>3, <1>4, <3>3, SMTT(20)
      <4> QED BY <1>6, <2>4, <4>1
    <3> QED BY <1>2, <1>3, <3>1, <3>2, <3>3, SMTT(20)
  <2> QED BY <2>3, <2>4
<1>12. ASSUME NEW x
       PROVE  x \in Seen(f) <=> x \in Seen(w) \/ x = s
  <2>1. x \in Seen(w) <=> x \in 1..top /\ \A j \in 1..n : x < m[j].start \/ x > m[j].end
    BY SeenFacts, Zenon DEF m, n, top
  <2>2. x \in Seen(f) <=> x \in 1..top /\ \A j \in 1..(n + k - 1) : x < b[j].start \/ x > b[j].end
    BY <1>6, <1>5, <1>10, SeenFacts, Zenon
  <2>3. ASSUME NEW y \in 1..top
        PROVE  /\ \A j \in 1..n : ~In(y, m[j]) <=> y < m[j].start \/ y > m[j].end
               /\ \A j \in 1..(n + k - 1) : ~In(y, b[j]) <=> y < b[j].start \/ y > b[j].end
    BY <1>2, <1>8, SMTT(20)
  <2>4. s \in 1..top
    BY DEF top
  <2> HIDE DEF In
  <2> QED BY <1>11, <2>1, <2>2, <2>3, <2>4, ZenonT(40)
<1> QED BY <1>10, <1>12 DEF f

(* One observation keeps the ranges apart, adds the number, and answers    *)
(* whether it is new.                                                      *)
LEMMA ObserveAdds ==
  ASSUME NEW w, Apart(w), NEW s \in 1..MaxSequence
  PROVE  /\ Apart(ObserveSequence(w, s))
         /\ Seen(ObserveSequence(w, s)) = Seen(w) \union {s}
         /\ Duplicate(w, s) <=> s \in Seen(w)
<1>1. w.max_seen \in Nat /\ s \in Nat /\ 1 <= s
  BY ApartFacts, MaxSequenceAssumption, SMTT(20)
<1>2. CASE s > w.max_seen
  <2>1. ObserveSequence(w, s) = Advance(w, s)
    BY <1>2 DEF ObserveSequence
  <2>2. s \notin 1..w.max_seen /\ ~(s <= w.max_seen)
    BY <1>1, <1>2, SMTT(20)
  <2>3. s \notin Seen(w) /\ ~Duplicate(w, s)
    BY <2>2, SeenFacts DEF Duplicate
  <2> QED BY <1>2, <2>1, <2>3, AdvanceAdds, SMTT(20)
<1>3. CASE ~(s > w.max_seen)
  <2>1. s \in 1..w.max_seen /\ s <= w.max_seen
    BY <1>1, <1>3, SMTT(20)
  <2>2. Duplicate(w, s) <=> s \in Seen(w)
    <3>1. 0 \notin 1..Len(w.missing)
      BY ApartFacts, SMTT(20)
    <3> QED BY <2>1, <3>1, IndexFound, Zenon DEF Duplicate
  <2>3. CASE Duplicate(w, s)
    <3>1. ObserveSequence(w, s) = w
      BY <1>3, <2>3 DEF ObserveSequence
    <3>2. Seen(w) = Seen(w) \union {s}
      BY <2>2, <2>3
    <3> QED BY <2>2, <3>1, <3>2
  <2>4. CASE ~Duplicate(w, s)
    <3>1. ObserveSequence(w, s) = Fill(w, s)
      BY <1>3, <2>4 DEF ObserveSequence
    <3> QED BY <2>1, <2>2, <2>4, <3>1, FillAdds, SMTT(20)
  <2> QED BY <2>3, <2>4
<1> QED BY <1>2, <1>3

(* The window of a peer nothing was heard of. *)
LEMMA EmptyApart == Apart(EmptyWindow) /\ Seen(EmptyWindow) = {}
<1>1. /\ EmptyWindow.max_seen = 0 /\ EmptyWindow.missing = <<>>
      /\ EmptyWindow = [max_seen |-> 0, missing |-> <<>>]
  BY DEF EmptyWindow
<1>2. <<>> \in Seq(Gaps) /\ Len(<<>>) = 0 /\ 0 \in 0..MaxSequence
  BY MaxSequenceAssumption, SMTT(20)
<1>3. \A i \in 1..Len(<<>>) : FALSE
  BY <1>2, SMTT(20)
<1>4. Apart(EmptyWindow)
  BY <1>1, <1>2, <1>3, ApartIntro, Zenon
<1>5. ASSUME NEW x
      PROVE  x \notin Seen(EmptyWindow)
  BY <1>1, SMTT(20) DEF Seen
<1> QED BY <1>4, <1>5

(* RangesApart, the invariant the refinement needs, is preserved. *)
LEMMA StepApart ==
  ASSUME RangesApart, [WindowNext]_windowVars
  PROVE  RangesApart'
<1>1. Apart(window)
  BY DEF RangesApart
<1>2. SUFFICES Apart(window')
  BY DEF RangesApart
<1>3. ASSUME NEW s \in 1..MaxSequence, Receive(s)
      PROVE  Apart(window')
  BY <1>1, <1>3, ObserveAdds DEF Receive
<1>4. CASE Refuse
  BY <1>1, <1>4 DEF Refuse
<1>5. CASE UNCHANGED windowVars
  BY <1>1, <1>5 DEF windowVars
<1> QED BY <1>3, <1>4, <1>5 DEF WindowNext

(* missing_index may search the ranges by bisection, after any             *)
(* observations and for sequence numbers of any width.                     *)
THEOREM WindowRangesApart == WindowSpec => []RangesApart
<1>1. WindowInit => RangesApart
  BY EmptyApart DEF WindowInit, RangesApart
<1>2. RangesApart /\ [WindowNext]_windowVars => RangesApart'
  BY StepApart
<1> QED BY <1>1, <1>2, PTL DEF WindowSpec

(* observe() answers New exactly once for each sequence number: the window *)
(* implements the set of the numbers seen.                                 *)
THEOREM WindowImplements == WindowSpec => ImplementsSeenSet
<1>1. WindowInit => SeenSet!Init
  BY EmptyApart DEF WindowInit, SeenSet!Init
<1>2. RangesApart /\ [WindowNext]_windowVars => [SeenSet!Next]_<<Seen(window), outcome>>
  <2> SUFFICES ASSUME RangesApart, [WindowNext]_windowVars
               PROVE  [SeenSet!Next]_<<Seen(window), outcome>>
    OBVIOUS
  <2>1. Apart(window)
    BY DEF RangesApart
  <2>2. ASSUME NEW s \in 1..MaxSequence, Receive(s)
        PROVE  SeenSet!Next
    <3>1. SeenSet!Observe(s)
      BY <2>1, <2>2, ObserveAdds DEF Receive, SeenSet!Observe
    <3> QED BY <3>1 DEF SeenSet!Next
  <2>3. CASE Refuse
    BY <2>3 DEF Refuse, SeenSet!Refuse, SeenSet!Next
  <2>4. CASE UNCHANGED windowVars
    BY <2>4 DEF windowVars
  <2> QED BY <2>2, <2>3, <2>4 DEF WindowNext
<1> QED BY <1>1, <1>2, WindowRangesApart, PTL DEF WindowSpec, ImplementsSeenSet, SeenSet!Spec
---------------------------------------------------------------------------
(* The constants. *)
LEMMA DeviceConstants ==
  /\ App \notin Peers /\ App \in Rows /\ Owners \subseteq Peers /\ Peers \subseteq Rows /\ Peers \subseteq Nat \ {0}
  /\ MaxSequence \in Nat /\ MaxSequence >= 2 /\ MaxMs \in Nat /\ MaxLogical \in Nat
  /\ Admin \in Values /\ Gone \in Values /\ Roles \subseteq Values /\ RemoteEvents \subseteq Events
  /\ MaxCrashes \in Nat
BY DevicesAssumption, MaxSequenceAssumption DEF App, Rows, Admin, Values

(* The parts of a PeerState. *)
LEMMA PeerStateFacts ==
  ASSUME NEW s, IsPeerState(s)
  PROVE  /\ Apart(s.receipts) /\ s.clock \in Clocks
         /\ s.clock.next_sequence \in 0..MaxSequence /\ s.clock.next_sequence \in Nat
         /\ s.clock.last_time \in Times
         /\ s.clock # NoClock => s.clock.next_sequence >= 1
<1>1. Apart(s.receipts) /\ s.clock \in Clocks /\ (s.clock.next_sequence = 0 => s.clock = NoClock)
  BY Zenon DEF IsPeerState
<1>2. \A c \in Clocks : c.next_sequence \in 0..MaxSequence /\ c.next_sequence \in Nat /\ c.last_time \in Times
  BY DeviceConstants, SMTT(20) DEF Clocks
<1> QED BY <1>1, <1>2, SMTT(20)

LEMMA TimeFacts ==
  ASSUME NEW time \in Times
  PROVE  time.ms \in Nat /\ time.logical \in 0..MaxLogical /\ time.logical \in Nat
BY DeviceConstants, SMTT(20) DEF Times

(* A state with another clock, and one with other receipts. *)
LEMMA ClockSet ==
  ASSUME NEW s, IsPeerState(s), NEW c \in Clocks, c.next_sequence >= 1
  PROVE  LET r == [s EXCEPT !.clock = c]
         IN  IsPeerState(r) /\ r.clock = c /\ r.receipts = s.receipts
<1> DEFINE r == [s EXCEPT !.clock = c]
<1>1. DOMAIN s = {"receipts", "clock"} /\ Apart(s.receipts)
  BY Zenon DEF IsPeerState
<1>2. DOMAIN r = {"receipts", "clock"} /\ r.clock = c /\ r.receipts = s.receipts
  BY <1>1
<1>3. c.next_sequence # 0
  BY DeviceConstants, SMTT(20) DEF Clocks
<1> HIDE DEF r
<1>4. IsPeerState(r)
  BY <1>1, <1>2, <1>3, Zenon DEF IsPeerState
<1> QED BY <1>2, <1>4 DEF r

(* A peer of which nothing is known. *)
LEMMA UnknownState == IsPeerState(Unknown) /\ Unknown.clock = NoClock /\ Seen(Unknown.receipts) = {}
<1>1. DOMAIN Unknown = {"receipts", "clock"} /\ Unknown.receipts = EmptyWindow /\ Unknown.clock = NoClock
  BY DEF Unknown
<1>2. NoClock \in Clocks
  BY DeviceConstants, SMTT(20) DEF NoClock, Clocks, Times
<1> QED BY <1>1, <1>2, EmptyApart, Zenon DEF IsPeerState

LEMMA NoClockFacts == NoClock.next_sequence = 0
BY DEF NoClock

(* The fields of a clock that has minted, and of a stamp. *)
LEMMA ClockFields ==
  ASSUME NEW n \in Nat, NEW time, NEW c, c = [next_sequence |-> n + 1, last_time |-> time]
  PROVE  c.next_sequence = n + 1 /\ c.last_time = time /\ c # NoClock
BY NoClockFacts, SMTT(20)

LEMMA StampFields ==
  ASSUME NEW p, NEW n, NEW time, NEW s, s = Stamp(p, n, time)
  PROVE  /\ s.peer = p /\ s.sequence = n /\ s.time = time
         /\ p \in Peers /\ n \in Nat /\ n >= 1 /\ n < MaxSequence /\ time \in Times => s \in Stamps
BY DeviceConstants, SMTT(20) DEF Stamp, Stamps

(* The clock is reached through the state of the local peer. *)
LEMMA ClockFacts ==
  ASSUME TypeOK
  PROVE  /\ local \in Peers /\ IsPeerState(peers[local]) /\ Clock = peers[local].clock
         /\ Clock.next_sequence \in 0..MaxSequence /\ Clock.next_sequence \in Nat /\ Clock.last_time \in Times
         /\ open => Clock # NoClock /\ Clock.next_sequence >= 1
<1>1. local \in Peers
  BY DeviceConstants DEF TypeOK
<1>2. IsPeerState(peers[local])
  BY <1>1, Zenon DEF TypeOK
<1>3. open => Clock # NoClock
  BY Zenon DEF TypeOK
<1> QED BY <1>1, <1>2, <1>3, PeerStateFacts DEF Clock

(* A thread goes to step s with its event, and the others stay. *)
LEMMA GoesFacts ==
  ASSUME TypeOK, NEW t \in Threads, NEW s \in Steps, Goes(t, s)
  PROVE  /\ thread' \in [Threads -> Calls]
         /\ thread'[t].at = s /\ thread'[t].own = thread[t].own /\ thread'[t].event = thread[t].event
         /\ \A u \in Threads \ {t} : thread'[u] = thread[u]
<1>1. thread \in [Threads -> Calls]
  BY DEF TypeOK
<1>2. thread' = [thread EXCEPT ![t] = [thread[t] EXCEPT !.at = s]]
  BY <1>1 DEF Goes
<1>3. PICK c : c = [thread[t] EXCEPT !.at = s]
  BY Zenon
<1>4. c \in Calls /\ c.at = s /\ c.own = thread[t].own /\ c.event = thread[t].event
  BY <1>1, <1>3 DEF Calls
<1>5. thread' = [thread EXCEPT ![t] = c]
  BY <1>2, <1>3
<1> QED BY <1>1, <1>4, <1>5, Zenon

(* A call begins, or another device's event arrives. *)
LEMMA CallFacts ==
  ASSUME TypeOK, NEW t \in Threads, NEW s \in {"granted", "minted"}, NEW own \in BOOLEAN,
         NEW key \in Rows, NEW value \in Values, NEW stamp \in Stamps \union {Oldest},
         thread' = [thread EXCEPT ![t] = [at |-> s, own |-> own, event |-> Event(key, value, stamp)]]
  PROVE  /\ thread' \in [Threads -> Calls]
         /\ thread'[t] = [at |-> s, own |-> own, event |-> Event(key, value, stamp)]
         /\ \A u \in Threads \ {t} : thread'[u] = thread[u]
<1>1. thread \in [Threads -> Calls]
  BY DEF TypeOK
<1>2. PICK c : c = [at |-> s, own |-> own, event |-> Event(key, value, stamp)]
  BY Zenon
<1>3. Event(key, value, stamp) \in [key : Rows, value : Values, stamp : Stamps \union {Oldest}]
  BY DEF Event
<1>4. s \in Steps
  BY DEF Steps
<1>5. c \in Calls
  BY <1>2, <1>3, <1>4, Zenon DEF Calls
<1>6. thread' = [thread EXCEPT ![t] = c]
  BY <1>2
<1>7. /\ thread' \in [Threads -> Calls] /\ thread'[t] = c
      /\ \A u \in Threads \ {t} : thread'[u] = thread[u]
  BY <1>1, <1>5, <1>6, Zenon
<1> QED BY <1>2, <1>7
---------------------------------------------------------------------------
(* What is known of p: its state in memory, or the saved one. *)
State(p) == IF open THEN peers[p] ELSE Kept(p)
Number(p) == State(p).clock.next_sequence

(* The events that were minted here and stored. *)
Made == stored \ RemoteEvents

(* An event that was minted and is not stored yet. *)
Pending(t) == thread[t].own /\ thread[t].at \in {"minted", "authorized"}

SameId(e, f) == e.stamp.peer = f.stamp.peer /\ e.stamp.sequence = f.stamp.sequence

(* A call that has reached its step, when the events S are stored. *)
CallOK(c, S) ==
  /\ c.at \in {"minted", "authorized", "stored", "observed"} => c.event \in Events
  /\ c.at \in {"minted", "authorized"} /\ ~c.own => c.event \in RemoteEvents
  /\ c.at = "granted" => c.own
  /\ c.at \in {"stored", "observed"} => c.event \in S
  /\ c.at = "observed" => c.event.key # App

CallsInv ==
  /\ ~open => \A t \in Threads : thread[t] = Idle
  /\ \A t \in Threads : CallOK(thread[t], stored)

(* Every sequence number that was minted is below the next one, and        *)
(* belongs to one event.                                                   *)
NumberedInv ==
  crashes = 0 =>
    /\ \A e \in Made : e.stamp.sequence < Number(e.stamp.peer)
    /\ \A e, f \in Made : SameId(e, f) => e = f
    /\ \A t \in Threads : Pending(t) =>
         /\ thread[t].event.stamp.peer = local /\ thread[t].event.stamp.sequence < Number(local)
         /\ \A f \in Made : ~SameId(thread[t].event, f)
    /\ \A t, u \in Threads : Pending(t) /\ Pending(u) /\ SameId(thread[t].event, thread[u].event) => t = u

(* The part of UniqueIds about checkpoints. *)
CoveredInv ==
  /\ covered > 0 => local \in DOMAIN saved /\ covered < saved[local].clock.next_sequence
  /\ open => covered < Clock.next_sequence

OneOwner == crashes = 0 /\ owners = {local} /\ Early

(* The row k is covered by the clock, or by an observe still to run. *)
CoversRow(k) ==
  \/ ~TimeBefore(State(local).clock.last_time, cells[k].stamp.time)
  \/ \E t \in Threads : thread[t].at = "stored" /\ thread[t].event.key = k /\ thread[t].event.stamp = cells[k].stamp

ClockInv ==
  OneOwner =>
    /\ State(local).clock # NoClock
    /\ \A k \in Rows : CoversRow(k)
    /\ \A t \in Threads : Alone(t) /\ Pending(t) =>
         TimeBefore(cells[thread[t].event.key].stamp.time, thread[t].event.stamp.time)
    /\ \A t \in Threads : thread[t].own /\ thread[t].at = "ignored" => ~Alone(t)

Have(p) == {e.stamp.sequence : e \in {f \in stored : f.stamp.peer = p}}

ReceiptsInv == \A p \in Peers : Seen(peers[p].receipts) \subseteq Have(p) /\ Seen(Kept(p).receipts) \subseteq Have(p)

Listening(t) == thread[t].at \in {"stored", "observed"}

(* The cache is the table but for the record whose listener is still to    *)
(* run, and that one brings what the table holds.                          *)
MirrorInv ==
  open => \A t \in Threads : Alone(t) =>
    /\ \A p \in Peers : entries[p] = cells[p].value \/ (Listening(t) /\ thread[t].event.key = p)
    /\ local_role = cells[local].value \/ (Listening(t) /\ thread[t].event.key = local)
    /\ Listening(t) => cells[thread[t].event.key].value = thread[t].event.value

Inv == TypeOK /\ CallsInv /\ NumberedInv /\ CoveredInv /\ ClockInv /\ ReceiptsInv /\ MirrorInv
---------------------------------------------------------------------------
LEMMA InitInv == Init => Inv
<1> SUFFICES ASSUME NEW me \in Owners, Create(me) PROVE Inv
  BY DEF Init
<1> DEFINE time == [ms |-> 0, logical |-> 0]
           stamp == Stamp(me, 1, time)
           first == Event(me, Admin, stamp)
           window1 == [max_seen |-> 1, missing |-> <<>>]
           clock1 == [next_sequence |-> 2, last_time |-> time]
           mine == [receipts |-> window1, clock |-> clock1]
<1>1. /\ open = TRUE /\ local = me
      /\ cells = [k \in Peers \union {App} |->
                    IF k = me THEN [stamp |-> stamp, value |-> Admin] ELSE [stamp |-> Oldest, value |-> Gone]]
      /\ entries = [p \in Peers |-> IF p = me THEN Admin ELSE Gone]
      /\ local_role = Admin
      /\ peers = [p \in Peers |-> IF p = me THEN mine ELSE Unknown]
      /\ dirty = {me} /\ saved = <<>> /\ thread = [t \in Threads |-> Idle] /\ crashes = 0
      /\ stored = {first} /\ covered = 0 /\ owners = {me}
  BY DEF Create
<1>2. me \in Peers /\ time \in Times /\ stamp \in Stamps
  BY DeviceConstants, SMTT(20) DEF Times, Stamp, Stamps
<1>3. first \in Events /\ first.stamp = stamp /\ stamp.peer = me /\ stamp.sequence = 1 /\ stamp.time = time
  BY <1>2, DeviceConstants DEF Event, Events, Stamp
<1>4. clock1 \in Clocks /\ clock1.next_sequence = 2 /\ clock1.last_time = time /\ clock1 # NoClock
  BY <1>2, DeviceConstants, SMTT(20) DEF Clocks, NoClock
<1>5. Apart(window1) /\ Seen(window1) = {1}
  <2>1. PICK m : m = <<>>
    OBVIOUS
  <2>2. 1 \in 0..MaxSequence /\ m \in Seq(Gaps) /\ Len(m) = 0 /\ \A i \in 1..Len(m) : FALSE
    BY <2>1, DeviceConstants, SMTT(20)
  <2>3. Apart([max_seen |-> 1, missing |-> m])
    BY <2>2, ApartIntro, Zenon
  <2>4. window1 = [max_seen |-> 1, missing |-> m] /\ window1.max_seen = 1 /\ window1.missing = m
    BY <2>1
  <2> HIDE DEF window1
  <2>5. \A x : x \in Seen(window1) <=> x \in 1..1
    BY <2>2, <2>3, <2>4, SeenFacts
  <2> QED BY <2>3, <2>4, <2>5, SMTT(20)
<1>6. IsPeerState(mine) /\ mine.clock = clock1 /\ mine.receipts = window1
  BY <1>4, <1>5, SMTT(20) DEF IsPeerState
<1>7. Idle \in Calls /\ Idle.at = "idle" /\ Idle.own = FALSE
  BY DeviceConstants DEF Idle, Calls, Event, Steps
<1> HIDE DEF window1, clock1, mine, stamp, first
<1>8. DOMAIN peers = Peers /\ peers[me] = mine /\ \A p \in Peers \ {me} : peers[p] = Unknown
  BY <1>1, <1>2
<1>9. DOMAIN saved = {} /\ \A p \in Peers : Kept(p) = Unknown
  BY <1>1, SMTT(20) DEF Kept
<1>10. \A t \in Threads : thread[t] = Idle
  BY <1>1
<1>11. TypeOK
  <2>1. \A p \in Peers : IsPeerState(peers[p])
    BY <1>6, <1>8, UnknownState, Zenon
  <2>2. Clock # NoClock
    BY <1>1, <1>4, <1>6, <1>8 DEF Clock
  <2>3. cells \in [Rows -> [stamp : Stamps \union {Oldest}, value : Values]] /\ entries \in [Peers -> Values]
    BY <1>1, <1>2, DeviceConstants DEF Rows
  <2>4. thread \in [Threads -> Calls]
    BY <1>1, <1>7, Zenon
  <2>5. /\ local \in Owners /\ local_role \in Values /\ dirty \subseteq Peers /\ owners \subseteq Owners
        /\ local \in owners /\ stored \subseteq Events /\ open \in BOOLEAN
    BY <1>1, <1>2, <1>3, DeviceConstants, Zenon
  <2>6. crashes \in 0..MaxCrashes /\ covered \in Nat
    BY <1>1, DeviceConstants, SMTT(20)
  <2>7. \A p \in Peers \ dirty : peers[p] = Kept(p)
    BY <1>1, <1>8, <1>9, Zenon
  <2> QED BY <1>8, <1>9, <2>1, <2>2, <2>3, <2>4, <2>5, <2>6, <2>7, Zenon DEF TypeOK
<1>12. CallsInv
  BY <1>1, <1>7, <1>10 DEF CallsInv, CallOK
<1>13. \A t \in Threads : ~Pending(t) /\ ~Listening(t) /\ thread[t].at # "ignored"
  BY <1>7, <1>10 DEF Pending, Listening
<1>14. State(me) = mine /\ Number(me) = 2
  BY <1>1, <1>4, <1>6, <1>8 DEF State, Number
<1>15. NumberedInv
  <2>1. \A e \in Made : e = first
    BY <1>1, Zenon DEF Made
  <2>2. 1 < 2
    BY SMTT(20)
  <2> QED BY <1>3, <1>13, <1>14, <2>1, <2>2, ZenonT(60) DEF NumberedInv
<1>16. CoveredInv
  BY <1>1, <1>4, <1>6, <1>8, SMTT(20) DEF CoveredInv, Clock
<1>17. ClockInv
  <2>1. \A k \in Rows : cells[k].stamp.time = time
    BY <1>1, <1>3 DEF Rows, Oldest, Stamp
  <2>2. ~TimeBefore(time, time)
    BY SMTT(20) DEF TimeBefore
  <2>3. State(local).clock = clock1
    BY <1>1, <1>6, <1>14
  <2> QED BY <1>4, <1>13, <2>1, <2>2, <2>3 DEF ClockInv, CoversRow
<1>18. ReceiptsInv
  <2>1. 1 \in Have(me)
    BY <1>1, <1>3 DEF Have
  <2>2. Seen(peers[me].receipts) = {1}
    BY <1>5, <1>6, <1>8
  <2> QED BY <1>8, <1>9, <2>1, <2>2, UnknownState DEF ReceiptsInv
<1>19. MirrorInv
  <2>1. \A p \in Peers : entries[p] = cells[p].value
    BY <1>1
  <2>2. local_role = cells[local].value
    BY <1>1, <1>2
  <2> QED BY <1>13, <2>1, <2>2 DEF MirrorInv
<1> QED BY <1>11, <1>12, <1>15, <1>16, <1>17, <1>18, <1>19 DEF Inv

(* Times are in a total order. *)
LEMMA TimeOrder ==
  ASSUME NEW a \in Times, NEW b \in Times, NEW c \in Times, ~TimeBefore(a, c)
  PROVE  /\ TimeBefore(a, b) => ~TimeBefore(b, c) /\ TimeBefore(c, b)
         /\ ~TimeBefore(b, a) => ~TimeBefore(b, c)
<1>1. /\ a.ms \in Nat /\ a.logical \in Nat /\ b.ms \in Nat /\ b.logical \in Nat
      /\ c.ms \in Nat /\ c.logical \in Nat
  BY TimeFacts
<1> QED BY <1>1, SMTT(20) DEF TimeBefore

LEMMA CellTimes ==
  ASSUME TypeOK
  PROVE  \A k \in Rows : cells[k].stamp.time \in Times
<1>1. Oldest.time \in Times
  BY DeviceConstants, SMTT(20) DEF Oldest, Stamp, Times
<1>2. \A s \in Stamps : s.time \in Times
  BY DEF Stamps
<1>3. \A k \in Rows : cells[k].stamp \in Stamps \/ cells[k].stamp = Oldest
  BY DEF TypeOK
<1> QED BY <1>1, <1>2, <1>3, Zenon

(* The numbers in use. *)
LEMMA NumberTypes ==
  ASSUME TypeOK
  PROVE  \A p \in Peers : IsPeerState(State(p)) /\ Number(p) \in Nat /\ State(p).clock.last_time \in Times
<1>1. \A p \in Peers : IsPeerState(peers[p]) /\ IsPeerState(Kept(p))
  BY UnknownState, Zenon DEF TypeOK, Kept
<1>2. \A p \in Peers : IsPeerState(State(p))
  BY <1>1, Zenon DEF State
<1> QED BY <1>2, PeerStateFacts DEF Number

LEMMA NumberTypesPrimed ==
  ASSUME TypeOK'
  PROVE  \A p \in Peers : Number(p)' \in Nat
<1>1. \A p \in Peers : IsPeerState(peers'[p]) /\ IsPeerState(Kept(p)')
  BY UnknownState, Zenon DEF TypeOK, Kept
<1>2. \A p \in Peers : IsPeerState(State(p)')
  BY <1>1, Zenon DEF State
<1> QED BY <1>2, PeerStateFacts DEF Number

(* Numbers of stored events. *)
LEMMA EventFacts ==
  ASSUME NEW e \in Events
  PROVE  /\ e.stamp.peer \in Peers /\ e.stamp.sequence \in Nat /\ e.stamp.sequence >= 1
         /\ e.key \in Rows /\ e.stamp.time \in Times /\ e.stamp \in Stamps
BY DeviceConstants, SMTT(20) DEF Events, Stamps

(* Only the thread that acts can be alone after its step. *)
LEMMA AloneActs ==
  ASSUME NEW t \in Threads, thread'[t].at # "idle", \A u \in Threads \ {t} : thread'[u] = thread[u],
         NEW v \in Threads, Alone(v)'
  PROVE  v = t /\ Alone(t)
<1>1. Idle.at = "idle"
  BY DEF Idle
<1>2. \A u \in Threads \ {v} : thread'[u] = Idle
  BY Zenon DEF Alone
<1>3. v = t
  BY <1>1, <1>2, Zenon
<1> QED BY <1>2, <1>3, Zenon DEF Alone

(* A thread that is alone and does not listen is the only one that could. *)
LEMMA AloneQuiet ==
  ASSUME NEW t \in Threads, Alone(t), NEW u \in Threads, thread[u].at = "stored"
  PROVE  u = t
<1>1. Idle.at # "stored"
  BY DEF Idle
<1> QED BY <1>1, Zenon DEF Alone

LEMMA CallsKeep ==
  ASSUME CallsInv, NEW t \in Threads, stored \subseteq stored', CallOK(thread'[t], stored'),
         open', \A u \in Threads \ {t} : thread'[u] = thread[u]
  PROVE  CallsInv'
<1>1. \A u \in Threads : CallOK(thread'[u], stored')
  <2> SUFFICES ASSUME NEW u \in Threads, u # t PROVE CallOK(thread'[u], stored')
    BY Zenon
  <2>1. CallOK(thread[u], stored) /\ thread'[u] = thread[u]
    BY Zenon DEF CallsInv
  <2>2. CallOK(thread[u], stored')
    BY <2>1 DEF CallOK
  <2> QED BY <2>1, <2>2
<1> QED BY <1>1, Zenon DEF CallsInv

(* The numbers stay in order when nothing is minted and nothing stored. *)
LEMMA NumberedKeeps ==
  ASSUME Inv, TypeOK', crashes' = 0 => crashes = 0, \A p \in Peers : Number(p) <= Number(p)', stored' = stored,
         \A t \in Threads : Pending(t)' => Pending(t) /\ thread'[t].event = thread[t].event /\ local' = local
  PROVE  NumberedInv'
<1> SUFFICES ASSUME crashes' = 0
             PROVE  /\ \A e \in Made' : e.stamp.sequence < Number(e.stamp.peer)'
                    /\ \A e, f \in Made' : SameId(e, f) => e = f
                    /\ \A t \in Threads : Pending(t)' =>
                         /\ thread'[t].event.stamp.peer = local' /\ thread'[t].event.stamp.sequence < Number(local)'
                         /\ \A f \in Made' : ~SameId(thread'[t].event, f)
                    /\ \A t, u \in Threads : Pending(t)' /\ Pending(u)' /\ SameId(thread'[t].event, thread'[u].event) => t = u
  BY Zenon DEF NumberedInv
<1>1. /\ \A e \in Made : e.stamp.sequence < Number(e.stamp.peer)
      /\ \A e, f \in Made : SameId(e, f) => e = f
      /\ \A t \in Threads : Pending(t) =>
           /\ thread[t].event.stamp.peer = local /\ thread[t].event.stamp.sequence < Number(local)
           /\ \A f \in Made : ~SameId(thread[t].event, f)
      /\ \A t, u \in Threads : Pending(t) /\ Pending(u) /\ SameId(thread[t].event, thread[u].event) => t = u
  BY Zenon DEF Inv, NumberedInv
<1>2. Made' = Made
  BY DEF Made
<1>3. \A p \in Peers : Number(p) \in Nat /\ Number(p)' \in Nat
  BY NumberTypes, NumberTypesPrimed DEF Inv
<1>4. \A e \in Made : e.stamp.sequence < Number(e.stamp.peer)'
  <2> TAKE e \in Made
  <2>1. e.stamp.peer \in Peers /\ e.stamp.sequence \in Nat
    BY EventFacts DEF Inv, TypeOK, Made
  <2> QED BY <1>1, <1>3, <2>1, SMTT(20)
<1>5. \A t \in Threads : Pending(t)' => thread'[t].event.stamp.sequence < Number(local)'
  <2> SUFFICES ASSUME NEW t \in Threads, Pending(t)' PROVE thread'[t].event.stamp.sequence < Number(local)'
    OBVIOUS
  <2>1. Pending(t) /\ thread'[t].event = thread[t].event /\ local' = local
    BY Zenon
  <2>2. thread[t].event \in Events
    BY <2>1, Zenon DEF Inv, CallsInv, CallOK, Pending
  <2>3. thread[t].event.stamp.sequence \in Nat /\ local \in Peers
    BY <2>2, EventFacts, ClockFacts DEF Inv
  <2>4. thread[t].event.stamp.sequence < Number(local)
    BY <1>1, <2>1
  <2>5. Number(local) <= Number(local)'
    BY <2>1, <2>3 DEF Number, State, Kept
  <2>6. Number(local)' \in Nat /\ Number(local) \in Nat
    BY <1>3, <2>1, <2>3 DEF Number, State, Kept
  <2> QED BY <2>1, <2>3, <2>4, <2>5, <2>6, SMTT(20)
<1> QED BY <1>1, <1>2, <1>4, <1>5, Zenon

(* A step of a thread that changes neither rows nor peer states. *)
LEMMA QuietKeeps ==
  ASSUME Inv, TypeOK', NEW t \in Threads, open,
         thread'[t].at \notin {"idle", "ignored"}, thread[t].at # "stored",
         CallOK(thread'[t], stored), \A u \in Threads \ {t} : thread'[u] = thread[u],
         Pending(t)' => Pending(t) /\ thread'[t].event = thread[t].event,
         UNCHANGED <<open, local, cells, peers, saved, stored, covered, crashes, owners>>
  PROVE  CallsInv' /\ NumberedInv' /\ CoveredInv' /\ ClockInv' /\ ReceiptsInv'
<1>1. \A p \in Peers : State(p)' = State(p) /\ Kept(p)' = Kept(p) /\ Number(p)' = Number(p)
  BY DEF State, Kept, Number
<1>2. CallsInv'
  BY CallsKeep DEF Inv
<1>3. \A u \in Threads : Pending(u)' => Pending(u) /\ thread'[u].event = thread[u].event
  BY Zenon DEF Pending
<1>4. NumberedInv'
  <2>1. \A p \in Peers : Number(p) <= Number(p)'
    BY <1>1, NumberTypes, SMTT(20) DEF Inv
  <2> QED BY <1>3, <2>1, NumberedKeeps
<1>5. CoveredInv'
  BY DEF Inv, CoveredInv, Clock
<1>6. ClockInv'
  <2> SUFFICES ASSUME OneOwner' PROVE /\ State(local)'.clock # NoClock
                                      /\ \A k \in Rows : CoversRow(k)'
                                      /\ \A u \in Threads : Alone(u)' /\ Pending(u)' =>
                                           TimeBefore(cells'[thread'[u].event.key].stamp.time, thread'[u].event.stamp.time)
                                      /\ \A u \in Threads : thread'[u].own /\ thread'[u].at = "ignored" => ~Alone(u)'
    BY Zenon DEF ClockInv
  <2>1. OneOwner
    BY DEF OneOwner, Early
  <2>2. /\ State(local).clock # NoClock
        /\ \A k \in Rows : CoversRow(k)
        /\ \A u \in Threads : Alone(u) /\ Pending(u) =>
             TimeBefore(cells[thread[u].event.key].stamp.time, thread[u].event.stamp.time)
    BY <2>1, Zenon DEF Inv, ClockInv
  <2>3. State(local)' = State(local)
    BY DEF State, Kept
  <2>4. ASSUME NEW k \in Rows PROVE CoversRow(k)'
    <3>1. CASE ~TimeBefore(State(local).clock.last_time, cells[k].stamp.time)
      BY <2>3, <3>1 DEF CoversRow
    <3>2. ASSUME NEW u \in Threads, thread[u].at = "stored", thread[u].event.key = k, thread[u].event.stamp = cells[k].stamp
          PROVE  CoversRow(k)'
      <4>1. thread'[u] = thread[u]
        BY <3>2, Zenon
      <4> QED BY <3>2, <4>1 DEF CoversRow
    <3> QED BY <2>2, <3>1, <3>2, Zenon DEF CoversRow
  <2>5. ASSUME NEW u \in Threads, Alone(u)' PROVE u = t /\ Alone(t)
    BY <2>5, AloneActs
  <2> QED BY <1>3, <2>2, <2>3, <2>4, <2>5, Zenon
<1>7. ReceiptsInv'
  <2>1. \A p \in Peers : Have(p)' = Have(p)
    BY DEF Have
  <2> QED BY <1>1, <2>1 DEF Inv, ReceiptsInv
<1> QED BY <1>2, <1>4, <1>5, <1>6, <1>7

(* A step that changes nothing but what one thread does. *)
LEMMA ThreadKeeps ==
  ASSUME Inv, TypeOK', NEW t \in Threads, open,
         thread'[t].at \notin {"idle", "ignored", "stored", "observed"}, thread[t].at \notin {"stored", "observed"},
         CallOK(thread'[t], stored), \A u \in Threads \ {t} : thread'[u] = thread[u],
         Pending(t)' => Pending(t) /\ thread'[t].event = thread[t].event,
         UNCHANGED <<open, local, cells, entries, local_role, peers, saved, stored, covered, crashes, owners>>
  PROVE  Inv'
<1>1. CallsInv' /\ NumberedInv' /\ CoveredInv' /\ ClockInv' /\ ReceiptsInv'
  BY QuietKeeps, Zenon
<1>2. MirrorInv'
  <2> SUFFICES ASSUME NEW u \in Threads, Alone(u)'
               PROVE  /\ \A p \in Peers : entries[p] = cells[p].value
                      /\ local_role = cells[local].value
                      /\ ~Listening(u)'
    BY Zenon DEF MirrorInv
  <2>1. u = t /\ Alone(t)
    BY AloneActs, ZenonT(60)
  <2>2. ~Listening(t) /\ ~Listening(t)'
    BY Zenon DEF Listening
  <2> QED BY <2>1, <2>2, Zenon DEF Inv, MirrorInv
<1> QED BY <1>1, <1>2, ZenonT(60) DEF Inv

(* A thread has a call in progress only in an open workspace. *)
LEMMA BusyOpen ==
  ASSUME CallsInv, NEW t \in Threads, thread[t].at # "idle"
  PROVE  open /\ CallOK(thread[t], stored)
<1>1. Idle.at = "idle"
  BY DEF Idle
<1> QED BY <1>1, Zenon DEF CallsInv

(* What Begin does. *)
LEMMA BeginInv ==
  ASSUME Inv, NEW t \in Threads, NEW key \in Rows, NEW value \in Values, Begin(t, key, value)
  PROVE  Inv'
<1>1. /\ TypeOK' /\ thread'[t] = [at |-> "granted", own |-> TRUE, event |-> Event(key, value, Oldest)]
      /\ \A u \in Threads \ {t} : thread'[u] = thread[u]
      /\ UNCHANGED <<open, local, cells, entries, local_role, peers, dirty, saved, stored, covered, crashes, owners>>
  <2> TypeOK
    BY DEF Inv
  <2>1. /\ open /\ Resting(t)
        /\ thread' = [thread EXCEPT ![t] = [at |-> "granted", own |-> TRUE, event |-> Event(key, value, Oldest)]]
        /\ UNCHANGED <<open, local, cells, entries, local_role, peers, dirty, saved, stored, covered, crashes, owners>>
    BY DEF Begin, memory
  <2>2. /\ thread' \in [Threads -> Calls]
        /\ thread'[t] = [at |-> "granted", own |-> TRUE, event |-> Event(key, value, Oldest)]
        /\ \A u \in Threads \ {t} : thread'[u] = thread[u]
    BY <2>1, CallFacts, ZenonT(60)
  <2>3. TypeOK'
    BY <2>1, <2>2, Zenon DEF TypeOK, Clock, Kept
  <2> QED BY <2>1, <2>2, <2>3
<1>2. thread'[t].at = "granted" /\ thread'[t].own /\ open /\ thread[t].at \notin {"stored", "observed"}
  BY <1>1, SMTT(20) DEF Begin, Resting
<1>3. CallOK(thread'[t], stored) /\ ~Pending(t)'
  BY <1>2, Zenon DEF CallOK, Pending
<1> QED BY <1>1, <1>2, <1>3, ThreadKeeps, ZenonT(60)

LEMMA AdmitInv ==
  ASSUME Inv, NEW t \in Threads, NEW e \in RemoteEvents, Admit(t, e)
  PROVE  Inv'
<1>1. /\ TypeOK' /\ e \in Events /\ thread'[t] = [at |-> "minted", own |-> FALSE, event |-> e]
      /\ \A u \in Threads \ {t} : thread'[u] = thread[u]
      /\ UNCHANGED <<open, local, cells, entries, local_role, peers, dirty, saved, stored, covered, crashes, owners>>
  <2> TypeOK
    BY DEF Inv
  <2>1. /\ open /\ Resting(t)
        /\ thread' = [thread EXCEPT ![t] = [at |-> "minted", own |-> FALSE, event |-> e]]
        /\ UNCHANGED <<open, local, cells, entries, local_role, peers, dirty, saved, stored, covered, crashes, owners>>
    BY DEF Admit, memory
  <2>2. e \in Events
    BY DeviceConstants
  <2>3. e = Event(e.key, e.value, e.stamp) /\ e.key \in Rows /\ e.value \in Values /\ e.stamp \in Stamps \union {Oldest}
    BY <2>2 DEF Events, Event
  <2>4. /\ thread' \in [Threads -> Calls]
        /\ thread'[t] = [at |-> "minted", own |-> FALSE, event |-> Event(e.key, e.value, e.stamp)]
        /\ \A u \in Threads \ {t} : thread'[u] = thread[u]
    BY <2>1, <2>3, CallFacts, Zenon
  <2>5. TypeOK'
    BY <2>1, <2>4, Zenon DEF TypeOK, Clock, Kept
  <2> QED BY <2>1, <2>2, <2>3, <2>4, <2>5
<1>2. /\ thread'[t].at = "minted" /\ ~thread'[t].own /\ thread'[t].event = e
      /\ open /\ thread[t].at \notin {"stored", "observed"}
  BY <1>1, SMTT(20) DEF Admit, Resting
<1>3. CallOK(thread'[t], stored) /\ ~Pending(t)'
  BY <1>1, <1>2, Zenon DEF CallOK, Pending
<1> QED BY <1>1, <1>2, <1>3, ThreadKeeps, Zenon

LEMMA AuthorizeInv ==
  ASSUME Inv, NEW t \in Threads, Authorize(t)
  PROVE  Inv'
<1>1. /\ TypeOK'
      /\ thread[t].at = "minted" /\ thread'[t].at \in {"authorized", "denied"}
      /\ thread'[t].own = thread[t].own /\ thread'[t].event = thread[t].event
      /\ \A u \in Threads \ {t} : thread'[u] = thread[u]
      /\ UNCHANGED <<open, local, cells, entries, local_role, peers, dirty, saved, stored, covered, crashes, owners>>
  <2> TypeOK
    BY DEF Inv
  <2>1. PICK s \in {"authorized", "denied"} :
          /\ thread[t].at = "minted" /\ Goes(t, s)
          /\ UNCHANGED <<open, local, cells, entries, local_role, peers, dirty, saved, stored, covered, crashes, owners>>
    BY DEF Authorize, memory
  <2>2. s \in Steps
    BY DEF Steps
  <2>3. /\ thread' \in [Threads -> Calls]
        /\ thread'[t].at = s /\ thread'[t].own = thread[t].own /\ thread'[t].event = thread[t].event
        /\ \A u \in Threads \ {t} : thread'[u] = thread[u]
    BY <2>1, <2>2, GoesFacts, Zenon
  <2>4. TypeOK'
    BY <2>1, <2>3, Zenon DEF TypeOK, Clock, Kept
  <2> QED BY <2>1, <2>3, <2>4
<1>2. open /\ CallOK(thread[t], stored)
  BY <1>1, BusyOpen DEF Inv
<1>3. CallOK(thread'[t], stored)
  BY <1>1, <1>2, Zenon DEF CallOK
<1>4. Pending(t)' => Pending(t) /\ thread'[t].event = thread[t].event
  BY <1>1, Zenon DEF Pending
<1>5. thread'[t].at \notin {"idle", "ignored", "stored", "observed"}
  BY <1>1
<1> QED BY <1>1, <1>2, <1>3, <1>4, <1>5, ThreadKeeps

(* The time that mint takes is after that of the clock. *)
LEMMA NextTimeLater ==
  ASSUME TypeOK, NEW wall \in 0..MaxMs, ~Exhausted(NextTime(wall))
  PROVE  /\ NextTime(wall) \in Times /\ TimeBefore(Clock.last_time, NextTime(wall))
         /\ Advanced(NextTime(wall)) \in Clocks /\ Advanced(NextTime(wall)).last_time = NextTime(wall)
         /\ Advanced(NextTime(wall)).next_sequence = Clock.next_sequence + 1
         /\ Clock.next_sequence < MaxSequence
<1> DEFINE last == Clock.last_time
           time == NextTime(wall)
<1>1. /\ last \in Times /\ last.ms \in Nat /\ last.logical \in Nat /\ wall \in Nat
      /\ Clock.next_sequence \in Nat /\ Clock.next_sequence <= MaxSequence
  BY ClockFacts, TimeFacts, DeviceConstants, SMTT(20)
<1>2. Clock.next_sequence < MaxSequence /\ ~(time.logical > MaxLogical)
  BY <1>1, DeviceConstants, SMTT(20) DEF Exhausted
<1>3. time \in Times /\ TimeBefore(last, time)
  <2>1. CASE wall > last.ms
    <3>1. time = [ms |-> wall, logical |-> 0]
      BY <2>1 DEF NextTime
    <3> QED BY <1>1, <2>1, <3>1, DeviceConstants, SMTT(20) DEF Times, TimeBefore
  <2>2. CASE ~(wall > last.ms)
    <3>1. time = [last EXCEPT !.logical = @ + 1]
      BY <2>2 DEF NextTime
    <3>2. time = [ms |-> last.ms, logical |-> last.logical + 1]
      BY <1>1, <3>1 DEF Times
    <3> QED BY <1>1, <1>2, <3>2, DeviceConstants, SMTT(20) DEF Times, TimeBefore
  <2> QED BY <2>1, <2>2
<1> HIDE DEF time
<1>4. /\ Advanced(time) = [next_sequence |-> Clock.next_sequence + 1, last_time |-> time]
      /\ Clock.next_sequence + 1 \in 0..MaxSequence
  BY <1>1, <1>2, DeviceConstants, SMTT(20) DEF Advanced
<1>5. Advanced(time) \in Clocks /\ Advanced(time).last_time = time /\ Advanced(time).next_sequence = Clock.next_sequence + 1
  BY <1>3, <1>4, SMTT(20) DEF Clocks
<1> QED BY <1>2, <1>3, <1>5 DEF time

(* mint takes a number that no event has, and a time after those of all    *)
(* rows if no observe has still to run.                                    *)
LEMMA MintInv ==
  ASSUME Inv, NEW t \in Threads, Mint(t)
  PROVE  Inv'
<1>1. thread[t].at = "granted"
  BY DEF Mint
<1>2. open /\ thread[t].own
  BY <1>1, BusyOpen, Zenon DEF Inv, CallOK
<1>3. /\ TypeOK' /\ thread'[t].own
      /\ \A u \in Threads \ {t} : thread'[u] = thread[u]
      /\ UNCHANGED <<open, local, cells, entries, local_role, saved, stored, covered, crashes, owners>>
      /\ \/ thread'[t].at = "exhausted" /\ UNCHANGED <<peers, dirty>>
         \/ \E time \in Times :
              /\ thread'[t].at = "minted" /\ thread'[t].event \in Events
              /\ thread'[t].event.key = thread[t].event.key
              /\ thread'[t].event.stamp = Stamp(local, Clock.next_sequence, time)
              /\ TimeBefore(Clock.last_time, time)
              /\ DOMAIN peers' = Peers
              /\ \A p \in Peers \ {local} : peers'[p] = peers[p]
              /\ peers'[local].receipts = peers[local].receipts
              /\ peers'[local].clock = [next_sequence |-> Clock.next_sequence + 1, last_time |-> time]
              /\ Clock.next_sequence < MaxSequence
              /\ dirty' = dirty \union {local}
  <2> TypeOK /\ open /\ thread[t].own
    BY <1>2 DEF Inv
  <2>1. /\ thread[t].at = "granted"
        /\ UNCHANGED <<open, local, cells, saved, stored, covered, crashes, owners>>
    BY DEF Mint
  <2>2. PICK wall \in 0..MaxMs :
          IF Exhausted(NextTime(wall)) THEN Goes(t, "exhausted") /\ UNCHANGED memory
          ELSE /\ thread' = [thread EXCEPT ![t] =
                               [at |-> "minted", own |-> TRUE,
                                event |-> Event(thread[t].event.key, thread[t].event.value,
                                                Stamp(local, Clock.next_sequence, NextTime(wall)))]]
               /\ peers' = [peers EXCEPT ![local].clock = Advanced(NextTime(wall))]
               /\ dirty' = Touched
               /\ UNCHANGED <<entries, local_role>>
    BY Zenon DEF Mint
  <2>3. CASE Exhausted(NextTime(wall))
    <3>1. Goes(t, "exhausted") /\ UNCHANGED <<entries, local_role, peers, dirty>>
      BY <2>2, <2>3 DEF memory
    <3>2. "exhausted" \in Steps
      BY DEF Steps
    <3>3. /\ thread' \in [Threads -> Calls]
          /\ thread'[t].at = "exhausted" /\ thread'[t].own = thread[t].own /\ thread'[t].event = thread[t].event
          /\ \A u \in Threads \ {t} : thread'[u] = thread[u]
      BY <3>1, <3>2, GoesFacts, ZenonT(60)
    <3>4. TypeOK'
      BY <2>1, <3>1, <3>3, Zenon DEF TypeOK, Clock, Kept
    <3> QED BY <2>1, <3>1, <3>3, <3>4, Zenon
  <2>4. CASE ~Exhausted(NextTime(wall))
    <3>1. PICK time : time = NextTime(wall)
      OBVIOUS
    <3>2. /\ thread' = [thread EXCEPT ![t] =
                           [at |-> "minted", own |-> TRUE,
                            event |-> Event(thread[t].event.key, thread[t].event.value,
                                            Stamp(local, Clock.next_sequence, time))]]
          /\ peers' = [peers EXCEPT ![local].clock = Advanced(time)]
          /\ dirty' = dirty \union {local}
          /\ UNCHANGED <<entries, local_role>>
      BY <2>2, <2>4, <3>1 DEF Touched
    <3>3. /\ time \in Times /\ TimeBefore(Clock.last_time, time)
          /\ Advanced(time) \in Clocks /\ Advanced(time).next_sequence = Clock.next_sequence + 1
          /\ Clock.next_sequence < MaxSequence
      BY <2>4, <3>1, NextTimeLater
    <3>4. /\ local \in Peers /\ IsPeerState(peers[local]) /\ DOMAIN peers = Peers
          /\ Clock.next_sequence \in Nat /\ Clock.next_sequence >= 1
      BY ClockFacts, Zenon DEF TypeOK
    <3>5. thread \in [Threads -> Calls]
      BY Zenon DEF TypeOK
    <3>6. PICK stamp : stamp = Stamp(local, Clock.next_sequence, time)
      OBVIOUS
    <3>7. stamp \in Stamps
      BY <3>3, <3>4, <3>6, StampFields, Zenon
    <3>8. thread[t].event.key \in Rows /\ thread[t].event.value \in Values
      BY <3>5 DEF Calls
    <3>9. PICK e : e = Event(thread[t].event.key, thread[t].event.value, stamp)
      OBVIOUS
    <3>10. e \in Events /\ e.key = thread[t].event.key /\ e.stamp = stamp
      BY <3>7, <3>8, <3>9 DEF Event, Events
    <3>11. /\ thread' \in [Threads -> Calls] /\ thread'[t] = [at |-> "minted", own |-> TRUE, event |-> e]
           /\ \A u \in Threads \ {t} : thread'[u] = thread[u]
      BY <3>2, <3>6, <3>7, <3>8, <3>9, CallFacts, ZenonT(60)
    <3>12. PICK r : r = [peers[local] EXCEPT !.clock = Advanced(time)]
      BY Zenon
    <3>13. Advanced(time).next_sequence >= 1
      BY <3>3, <3>4, SMTT(20)
    <3>14. IsPeerState(r) /\ r.clock = Advanced(time) /\ r.receipts = peers[local].receipts
      BY <3>3, <3>4, <3>12, <3>13, ClockSet
    <3>15. peers' = [peers EXCEPT ![local] = r]
      BY <3>2, <3>12
    <3>16. /\ DOMAIN peers' = Peers /\ peers'[local] = r
           /\ \A p \in Peers \ {local} : peers'[p] = peers[p]
      BY <3>4, <3>15
    <3>17. r.clock = [next_sequence |-> Clock.next_sequence + 1, last_time |-> time] /\ r.clock # NoClock
      BY <3>4, <3>14, ClockFields, SMTT(20) DEF Advanced
    <3>18. TypeOK'
      <4>1. \A p \in Peers : IsPeerState(peers'[p])
        BY <3>14, <3>16, Zenon DEF TypeOK
      <4>2. open' => Clock' # NoClock /\ \A p \in Peers \ dirty' : peers'[p] = Kept(p)'
        BY <2>1, <3>2, <3>16, <3>17, Zenon DEF TypeOK, Clock, Kept
      <4> QED BY <2>1, <3>2, <3>4, <3>11, <3>16, <4>1, <4>2 DEF TypeOK
    <3>19. thread'[t].own /\ thread'[t].at = "minted" /\ thread'[t].event = e
      BY <3>11, SMTT(20)
    <3> QED BY <2>1, <3>2, <3>3, <3>6, <3>10, <3>11, <3>14, <3>16, <3>17, <3>18, <3>19, Zenon
  <2> QED BY <2>3, <2>4, Zenon
<1>4. /\ TypeOK' /\ thread'[t].own
      /\ \A u \in Threads \ {t} : thread'[u] = thread[u]
      /\ UNCHANGED <<open, local, cells, entries, local_role, saved, stored, covered, crashes, owners>>
  BY <1>3, Zenon
<1>5. CASE thread'[t].at = "exhausted" /\ UNCHANGED <<peers, dirty>>
  <2>1. CallOK(thread'[t], stored) /\ ~Pending(t)'
    BY <1>5 DEF CallOK, Pending
  <2>2. thread'[t].at \notin {"idle", "ignored", "stored", "observed"} /\ thread[t].at \notin {"stored", "observed"}
    BY <1>1, <1>5
  <2> QED BY <1>2, <1>4, <1>5, <2>1, <2>2, ThreadKeeps, Zenon
<1>6. ASSUME NEW time \in Times,
             thread'[t].at = "minted", thread'[t].event \in Events,
             thread'[t].event.key = thread[t].event.key,
             thread'[t].event.stamp = Stamp(local, Clock.next_sequence, time),
             TimeBefore(Clock.last_time, time),
             \A p \in Peers \ {local} : peers'[p] = peers[p],
             peers'[local].receipts = peers[local].receipts,
             peers'[local].clock = [next_sequence |-> Clock.next_sequence + 1, last_time |-> time]
      PROVE  Inv'
  <2>1. PICK n : n = Clock.next_sequence
    OBVIOUS
  <2> thread'[t].at = "minted"
    BY <1>6, Zenon
  <2>0. /\ thread'[t].event.stamp = Stamp(local, n, time)
        /\ peers'[local].clock = [next_sequence |-> n + 1, last_time |-> time]
    BY <1>6, <2>1, Zenon
  <2>3. /\ local \in Peers /\ n \in Nat /\ n >= 1 /\ Clock = peers[local].clock /\ Clock.last_time \in Times
    BY <1>2, <2>1, ClockFacts DEF Inv
  <2>2. /\ thread'[t].event.stamp.peer = local /\ thread'[t].event.stamp.sequence = n /\ thread'[t].event.stamp.time = time
        /\ peers'[local].clock.next_sequence = n + 1 /\ peers'[local].clock.last_time = time
        /\ peers'[local].clock # NoClock
    BY <2>0, <2>3, StampFields, ClockFields, SMTT(20)
  <2>4. State(local) = peers[local] /\ State(local)' = peers'[local] /\ Number(local) = n /\ Number(local)' = n + 1
    BY <1>2, <1>4, <2>1, <2>2, <2>3 DEF State, Number
  <2>5. \A p \in Peers \ {local} : Number(p)' = Number(p)
    BY <1>2, <1>4, <1>6, ZenonT(60) DEF Number, State
  <2>6. CallsInv'
    <3>1. CallOK(thread'[t], stored')
      BY <1>4, <1>6, Zenon DEF CallOK
    <3> QED BY <1>2, <1>4, <3>1, CallsKeep, ZenonT(60) DEF Inv
  <2>7. NumberedInv'
    <3> SUFFICES ASSUME crashes' = 0
                 PROVE  /\ \A e \in Made' : e.stamp.sequence < Number(e.stamp.peer)'
                        /\ \A e, f \in Made' : SameId(e, f) => e = f
                        /\ \A u \in Threads : Pending(u)' =>
                             /\ thread'[u].event.stamp.peer = local' /\ thread'[u].event.stamp.sequence < Number(local)'
                             /\ \A f \in Made' : ~SameId(thread'[u].event, f)
                        /\ \A u, v \in Threads : Pending(u)' /\ Pending(v)' /\ SameId(thread'[u].event, thread'[v].event) => u = v
      BY Zenon DEF NumberedInv
    <3>1. /\ \A e \in Made : e.stamp.sequence < Number(e.stamp.peer)
          /\ \A e, f \in Made : SameId(e, f) => e = f
          /\ \A u \in Threads : Pending(u) =>
               /\ thread[u].event.stamp.peer = local /\ thread[u].event.stamp.sequence < Number(local)
               /\ \A f \in Made : ~SameId(thread[u].event, f)
          /\ \A u, v \in Threads : Pending(u) /\ Pending(v) /\ SameId(thread[u].event, thread[v].event) => u = v
      BY <1>4, Zenon DEF Inv, NumberedInv
    <3>2. Made' = Made /\ \A e \in Made : e.stamp.peer \in Peers /\ e.stamp.sequence \in Nat
      BY <1>4, EventFacts, Zenon DEF Inv, TypeOK, Made
    <3>3. \A p \in Peers : Number(p) \in Nat
      BY NumberTypes DEF Inv
    <3>4. \A e \in Made : e.stamp.sequence < Number(e.stamp.peer)'
      <4>1. \A p \in Peers : p = local => Number(p) = n /\ Number(p)' = n + 1
        BY <1>2, <1>4, <2>1, <2>2, <2>3, ZenonT(60) DEF State, Number
      <4>2. ASSUME NEW p \in Peers PROVE Number(p) <= Number(p)' /\ Number(p)' \in Nat
        <5>1. /\ p # local => Number(p)' = Number(p)
              /\ p = local => Number(p) = n /\ Number(p)' = n + 1
          BY <2>5, <4>1, Zenon
        <5>2. Number(p) \in Nat /\ n \in Nat
          BY <2>3, <3>3, Zenon
        <5> QED BY <5>1, <5>2, SMTT(20)
      <4> TAKE e \in Made
      <4>3. e.stamp.peer \in Peers /\ e.stamp.sequence \in Nat /\ e.stamp.sequence < Number(e.stamp.peer)
        BY <3>1, <3>2
      <4>4. Number(e.stamp.peer) <= Number(e.stamp.peer)' /\ Number(e.stamp.peer)' \in Nat /\ Number(e.stamp.peer) \in Nat
        BY <3>3, <4>2, <4>3, Zenon
      <4> QED BY <4>3, <4>4, SMTT(20)
    <3>5. \A f \in Made : ~SameId(thread'[t].event, f)
      <4> TAKE f \in Made
      <4>1. f.stamp.peer \in Peers /\ f.stamp.sequence \in Nat /\ f.stamp.sequence < Number(f.stamp.peer)
        BY <3>1, <3>2, Zenon
      <4>2. f.stamp.peer = local => f.stamp.sequence < n
        BY <2>4, <4>1
      <4>3. ~(f.stamp.peer = local /\ f.stamp.sequence = n)
        BY <2>3, <4>2, SMTT(20)
      <4> QED BY <2>2, <4>3, Zenon DEF SameId
    <3>6. ASSUME NEW u \in Threads, u # t, Pending(u)'
          PROVE  /\ Pending(u) /\ thread'[u].event = thread[u].event
                 /\ thread'[u].event.stamp.sequence < n
    <4>1. Pending(u) /\ thread'[u].event = thread[u].event
      BY <1>4, <3>6, Zenon DEF Pending
    <4>2. thread'[u].event.stamp.sequence < n
      BY <2>4, <3>1, <4>1
    <4> QED BY <4>1, <4>2
    <3>7. ASSUME NEW u \in Threads, u # t, Pending(u)'
          PROVE  ~SameId(thread'[t].event, thread'[u].event) /\ ~SameId(thread'[u].event, thread'[t].event)
      <4>1. thread'[u].event.stamp.sequence < n
        BY <3>6, <3>7, Zenon
      <4>2. thread'[u].event.stamp.sequence # n
        BY <2>3, <4>1, SMTT(20)
      <4> QED BY <2>2, <4>2, Zenon DEF SameId
    <3>8. ASSUME NEW u \in Threads, Pending(u)'
          PROVE  /\ thread'[u].event.stamp.peer = local' /\ thread'[u].event.stamp.sequence < Number(local)'
                 /\ \A f \in Made' : ~SameId(thread'[u].event, f)
      <4>1. CASE u = t
        <5>1. n < n + 1
          BY <2>3, SMTT(20)
        <5> QED BY <1>4, <2>2, <2>4, <3>2, <3>5, <4>1, <5>1, ZenonT(60)
      <4>2. CASE u # t
        <5>1. Pending(u) /\ thread'[u].event = thread[u].event /\ thread'[u].event.stamp.sequence < n
          BY <3>6, <3>8, <4>2
        <5>2. thread[u].event \in Events
          BY <5>1, Zenon DEF Inv, CallsInv, CallOK, Pending
        <5>3. thread'[u].event.stamp.sequence \in Nat
          BY <5>1, <5>2, EventFacts
        <5>4. thread'[u].event.stamp.sequence < n + 1
          BY <2>3, <5>1, <5>3, SMTT(20)
        <5>5. thread'[u].event.stamp.peer = local' /\ \A f \in Made' : ~SameId(thread'[u].event, f)
          BY <1>4, <3>1, <3>2, <5>1, Zenon
        <5> QED BY <2>4, <5>4, <5>5
      <4> QED BY <4>1, <4>2
    <3>9. \A u, v \in Threads : Pending(u)' /\ Pending(v)' /\ SameId(thread'[u].event, thread'[v].event) => u = v
      BY <3>1, <3>6, <3>7, Zenon
    <3> QED BY <3>1, <3>2, <3>4, <3>8, <3>9, Zenon
  <2>8. CoveredInv'
    <3>1. /\ covered > 0 => local \in DOMAIN saved /\ covered < saved[local].clock.next_sequence
          /\ covered < Clock.next_sequence /\ covered \in Nat
      BY <1>2 DEF Inv, CoveredInv, TypeOK
    <3>2. Clock'.next_sequence = n + 1
      BY <1>4, <2>2 DEF Clock
    <3>3. covered < n + 1
      BY <2>1, <2>3, <3>1, SMTT(20)
    <3> QED BY <1>4, <3>1, <3>2, <3>3 DEF CoveredInv
  <2>9. ClockInv'
    <3> SUFFICES ASSUME OneOwner' PROVE /\ State(local)'.clock # NoClock
                                        /\ \A k \in Rows : CoversRow(k)'
                                        /\ \A u \in Threads : Alone(u)' /\ Pending(u)' =>
                                             TimeBefore(cells'[thread'[u].event.key].stamp.time, thread'[u].event.stamp.time)
                                        /\ \A u \in Threads : thread'[u].own /\ thread'[u].at = "ignored" => ~Alone(u)'
      BY Zenon DEF ClockInv
    <3>1. OneOwner
      BY <1>4 DEF OneOwner, Early
    <3>2. \A k \in Rows : CoversRow(k)
      BY <3>1, Zenon DEF Inv, ClockInv
    <3>3. State(local)'.clock # NoClock
      BY <2>2, <2>4, Zenon
    <3>4. ASSUME NEW k \in Rows, ~TimeBefore(Clock.last_time, cells[k].stamp.time)
          PROVE  ~TimeBefore(time, cells[k].stamp.time) /\ TimeBefore(cells[k].stamp.time, time)
      <4>1. cells[k].stamp.time \in Times
        BY CellTimes DEF Inv
      <4>2. TimeBefore(Clock.last_time, time)
        BY <1>6, Zenon
      <4>3. Clock.last_time \in Times /\ time \in Times
        BY <2>3
      <4>4. PICK a, c : a = Clock.last_time /\ c = cells[k].stamp.time
        BY Zenon
      <4>5. ~TimeBefore(time, c) /\ TimeBefore(c, time)
        BY <3>4, <4>1, <4>2, <4>3, <4>4, TimeOrder, SMTT(20)
      <4> QED BY <4>4, <4>5, Zenon
    <3>5. ASSUME NEW k \in Rows PROVE CoversRow(k)'
      <4>1. CASE ~TimeBefore(State(local).clock.last_time, cells[k].stamp.time)
        <5>1. ~TimeBefore(time, cells[k].stamp.time)
          BY <2>3, <2>4, <3>4, <4>1
        <5>2. State(local)'.clock.last_time = time /\ cells' = cells
          BY <1>4, <2>2, <2>4, ZenonT(60)
        <5> QED BY <5>1, <5>2 DEF CoversRow
      <4>2. ASSUME NEW u \in Threads, thread[u].at = "stored", thread[u].event.key = k, thread[u].event.stamp = cells[k].stamp
            PROVE  CoversRow(k)'
        <5>1. thread'[u] = thread[u] /\ cells' = cells
          BY <1>1, <1>4, <4>2
        <5> QED BY <4>2, <5>1, Zenon DEF CoversRow
      <4> QED BY <3>2, <4>1, <4>2, Zenon DEF CoversRow
    <3>6. ASSUME NEW u \in Threads, Alone(u)' PROVE u = t /\ Alone(t)
      <4>1. thread'[t].at # "idle"
        BY <1>6
      <4> QED BY <1>4, <3>6, <4>1, AloneActs
    <3>7. ASSUME Alone(t) PROVE TimeBefore(cells[thread[t].event.key].stamp.time, time)
      <4>1. thread[t].event.key \in Rows
        BY <1>6, EventFacts, Zenon
      <4>2. ~ \E u \in Threads : thread[u].at = "stored"
        BY <1>1, <3>7, AloneQuiet
      <4>3. ~TimeBefore(Clock.last_time, cells[thread[t].event.key].stamp.time)
        BY <2>3, <2>4, <3>2, <4>1, <4>2 DEF CoversRow
      <4> QED BY <3>4, <4>1, <4>3
    <3>8. thread'[t].at # "ignored" /\ cells' = cells
      BY <1>4, <1>6, ZenonT(60)
    <3> QED BY <1>6, <2>2, <3>3, <3>5, <3>6, <3>7, <3>8, Zenon
  <2>10. ReceiptsInv'
    <3>1. \A p \in Peers : Have(p)' = Have(p) /\ Kept(p)' = Kept(p) /\ peers'[p].receipts = peers[p].receipts
      BY <1>4, <1>6, Zenon DEF Have, Kept
    <3> QED BY <3>1, ZenonT(60) DEF Inv, ReceiptsInv
  <2>11. MirrorInv'
    <3> SUFFICES ASSUME NEW u \in Threads, Alone(u)'
                 PROVE  /\ \A p \in Peers : entries[p] = cells[p].value
                        /\ local_role = cells[local].value
                        /\ ~Listening(u)'
      BY <1>4, Zenon DEF MirrorInv
    <3>1. thread'[t].at # "idle"
      BY <1>6, ZenonT(60)
    <3>2. u = t /\ Alone(t)
      BY <1>4, <3>1, AloneActs
    <3>3. ~Listening(t) /\ ~Listening(t)'
      BY <1>1, <1>6, Zenon DEF Listening
    <3> QED BY <1>2, <3>2, <3>3, Zenon DEF Inv, MirrorInv
  <2> QED BY <1>4, <2>6, <2>7, <2>8, <2>9, <2>10, <2>11 DEF Inv
<1> QED BY <1>3, <1>5, <1>6, Zenon
=============================================================================
