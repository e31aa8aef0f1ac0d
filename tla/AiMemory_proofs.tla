--------------------------- MODULE AiMemory_proofs ---------------------------
(***************************************************************************)
(* The conversation memory forgets nothing and stays bounded, for every    *)
(* window and any number of failed runs.                                   *)
(***************************************************************************)
EXTENDS AiMemory, FiniteSetTheorems, WellFoundedInduction, TLAPS

-----------------------------------------------------------------------------
(* Oldest(S, k), the meaning of ORDER BY createdAt ASC LIMIT k. *)

\* A nonempty set of naturals has a least element.
LEMMA NatMin ==
  ASSUME NEW T \in SUBSET Nat, T # {}
  PROVE  \E m \in T : \A y \in T : m <= y
<1>1. PICK m \in T : \A y \in T : ~(<<y, m>> \in OpToRel(<, Nat))
  BY WFMin, NatLessThanWellFounded
<1>2. \A y \in T : ~(y < m)
  BY <1>1 DEF OpToRel
<1> QED
  BY <1>2

\* Ranks are naturals, and grow with the element.
LEMMA RankNat ==
  ASSUME NEW S \in SUBSET Nat, IsFiniteSet(S), NEW i \in Nat
  PROVE  /\ IsFiniteSet({j \in S : j < i})
         /\ Rank(i, S) \in Nat
BY FS_Subset, FS_CardinalityType DEF Rank

LEMMA RankMonotone ==
  ASSUME NEW S \in SUBSET Nat, IsFiniteSet(S), NEW i \in Nat, NEW j \in Nat, i <= j
  PROVE  Rank(i, S) <= Rank(j, S)
<1>1. {x \in S : x < i} \subseteq {x \in S : x < j}
  <2>1. \A x \in S : x \in Nat
    OBVIOUS
  <2>2. \A x \in S : x < i => x < j
    BY <2>1
  <2> QED BY <2>2
<1>2. IsFiniteSet({x \in S : x < j})
  BY RankNat
<1> QED
  BY <1>1, <1>2, FS_Subset DEF Rank

\* What is taken is older than what is left.
LEMMA OldestIsPrefix ==
  ASSUME NEW S \in SUBSET Nat, IsFiniteSet(S), NEW k \in Nat,
         NEW i \in Oldest(S, k), NEW j \in S \ Oldest(S, k)
  PROVE  i < j
<1>1. i \in S /\ j \in S /\ Rank(i, S) < k /\ ~(Rank(j, S) < k)
  BY DEF Oldest
<1>2. i \in Nat /\ j \in Nat
  BY <1>1
<1>3. j <= i => Rank(j, S) <= Rank(i, S)
  BY <1>2, RankMonotone
<1>4. Rank(i, S) \in Nat /\ Rank(j, S) \in Nat
  BY <1>2, RankNat
<1> QED
  BY <1>1, <1>2, <1>3, <1>4

\* Taking one more adds the oldest of those left.
LEMMA OldestSucc ==
  ASSUME NEW S \in SUBSET Nat, IsFiniteSet(S), NEW k \in Nat,
         Cardinality(Oldest(S, k)) = k, k < Cardinality(S)
  PROVE  Cardinality(Oldest(S, k + 1)) = k + 1
<1>0. PICK O : O = Oldest(S, k)
  OBVIOUS
<1>1. /\ O \subseteq S
      /\ IsFiniteSet(O)
      /\ \A x \in S : x \in Nat /\ Rank(x, S) \in Nat
      /\ \A x \in S : x \in O <=> Rank(x, S) < k
  <2>1. O \subseteq S /\ \A x \in S : x \in O <=> Rank(x, S) < k
    BY <1>0 DEF Oldest
  <2>2. \A x \in S : x \in Nat
    OBVIOUS
  <2> QED BY <2>1, <2>2, FS_Subset, RankNat
<1>2. S \ O # {}
  <2>1. O # S
    BY <1>0
  <2> QED BY <1>1, <2>1
<1>3. PICK m \in S \ O : \A y \in S \ O : m <= y
  <2>1. S \ O \in SUBSET Nat
    BY <1>1
  <2> QED BY <1>2, <2>1, NatMin
<1>4. {x \in S : x < m} = O
  <2>1. \A x \in O : x < m
    BY <1>0, <1>3, OldestIsPrefix
  <2>2. \A x \in S : x < m => x \in O
    <3> SUFFICES ASSUME NEW x \in S, x < m, x \notin O PROVE FALSE
      OBVIOUS
    <3>1. m <= x
      BY <1>3
    <3> QED BY <1>1, <1>3, <3>1
  <2> QED BY <1>1, <2>1, <2>2
<1>5. Rank(m, S) = k
  BY <1>0, <1>4 DEF Rank
<1>6. Cardinality(O \cup {m}) = k + 1 /\ IsFiniteSet(O \cup {m})
  <2>1. m \notin O /\ Cardinality(O) = k
    BY <1>0, <1>3
  <2> QED BY <1>1, <2>1, FS_AddElement
<1>7. ASSUME NEW y \in S \ O, y # m
      PROVE  ~(Rank(y, S) < k + 1)
  <2>1. m < y
    <3>1. m <= y
      BY <1>3
    <3> QED BY <1>1, <1>3, <1>7, <3>1
  <2>2. O \cup {m} \subseteq {x \in S : x < y}
    <3>1. \A x \in O : x < m
      BY <1>4
    <3>2. \A x \in O \cup {m} : x \in S /\ x < y
      BY <1>1, <1>3, <2>1, <3>1
    <3> QED BY <3>2
  <2>3. y \in Nat
    BY <1>1
  <2>4. IsFiniteSet({x \in S : x < y})
    BY <2>3, RankNat
  <2>5. Cardinality(O \cup {m}) <= Rank(y, S)
    BY <2>2, <2>4, FS_Subset DEF Rank
  <2>6. Rank(y, S) \in Nat
    BY <1>1
  <2> QED BY <1>6, <2>5, <2>6
<1>8. Oldest(S, k + 1) = O \cup {m}
  <2>1. \A x \in S : x \in O => Rank(x, S) < k + 1
    BY <1>1
  <2>2. \A x \in S : Rank(x, S) < k + 1 <=> x \in O \/ x = m
    BY <1>3, <1>5, <1>7, <2>1
  <2>3. Oldest(S, k + 1) = {x \in S : x \in O \/ x = m}
    BY <2>2 DEF Oldest
  <2> QED BY <1>1, <1>3, <2>3
<1> QED
  BY <1>6, <1>8

\* Of a large enough set, exactly k are taken.
LEMMA OldestSize ==
  ASSUME NEW S \in SUBSET Nat, IsFiniteSet(S), NEW k \in Nat, k <= Cardinality(S)
  PROVE  Cardinality(Oldest(S, k)) = k
<1> DEFINE Bad == {n \in Nat : n <= Cardinality(S) /\ Cardinality(Oldest(S, n)) # n}
<1> SUFFICES ASSUME Bad # {} PROVE FALSE
  OBVIOUS
<1>0. Cardinality(S) \in Nat
  BY FS_CardinalityType
<1>1. PICK n \in Bad : \A y \in Bad : n <= y
  <2>1. Bad \in SUBSET Nat
    OBVIOUS
  <2>2. \A T \in SUBSET Nat : T # {} => \E m \in T : \A y \in T : m <= y
    BY NatMin
  <2> QED BY <2>1, <2>2
<1>2. n # 0
  <2>1. \A x \in S : ~(Rank(x, S) < 0)
    <3> SUFFICES ASSUME NEW x \in S PROVE ~(Rank(x, S) < 0)
      OBVIOUS
    <3>1. x \in Nat
      OBVIOUS
    <3>2. Rank(x, S) \in Nat
      BY <3>1, RankNat
    <3> QED BY <3>2
  <2>2. Oldest(S, 0) = {}
    BY <2>1 DEF Oldest
  <2>3. Cardinality(Oldest(S, 0)) = 0
    BY <2>2, FS_EmptySet
  <2> QED BY <1>1, <2>3
<1>3. n - 1 \in Nat /\ n - 1 < Cardinality(S) /\ (n - 1) + 1 = n
  BY <1>0, <1>1, <1>2
<1>4. Cardinality(Oldest(S, n - 1)) = n - 1
  <2>1. n - 1 \notin Bad
    BY <1>1, <1>3
  <2> QED BY <1>0, <1>3, <2>1
<1>5. Cardinality(Oldest(S, (n - 1) + 1)) = (n - 1) + 1
  BY <1>3, <1>4, OldestSucc
<1> QED
  BY <1>1, <1>3, <1>5

-----------------------------------------------------------------------------
(* The arithmetic of the threshold. *)

LEMMA ThresholdFacts ==
  ASSUME NEW w \in Windows
  PROVE  /\ w \in Nat
         /\ Threshold(w) \in Nat /\ Threshold(MaxWindow) \in Nat
         /\ w + 1 <= Threshold(w)
         /\ Threshold(w) <= Threshold(MaxWindow)
<1>1. w \in Nat /\ 2 <= w /\ w <= MaxWindow /\ MaxWindow \in Nat
  BY MemoryAssumption
<1> QED
  BY <1>1 DEF Threshold

-----------------------------------------------------------------------------
(* MemoryInv is inductive. *)

LEMMA MemoryInitInv == MemoryInit => MemoryInv
<1> SUFFICES ASSUME MemoryInit PROVE MemoryInv
  OBVIOUS
<1>1. last = 0 /\ active = {} /\ 1..last = {} /\ says \in [{} -> SUBSET {}]
  BY DEF MemoryInit
<1>2. MemoryTypeOK
  BY <1>1 DEF MemoryInit, MemoryTypeOK, Entry
<1>3. SaysWhat /\ NothingForgotten /\ SummariesPrecede
  BY <1>1 DEF SaysWhat, NothingForgotten, SummariesPrecede, Messages, Quoted, Entry
<1>4. ActiveBounded
  <2>1. Cardinality(active) = 0
    BY <1>1, FS_EmptySet
  <2>2. Threshold(MaxWindow) \in Nat
    BY MemoryAssumption DEF Threshold
  <2> QED BY <2>1, <2>2 DEF ActiveBounded, MemoryInit
<1>5. Recalled
  BY DEF MemoryInit, Recalled
<1> QED
  BY <1>2, <1>3, <1>4, <1>5 DEF MemoryInv

\* active is a finite set of naturals.
LEMMA ActiveFinite ==
  ASSUME MemoryTypeOK
  PROVE  /\ active \in SUBSET Nat /\ IsFiniteSet(active)
         /\ Cardinality(active) \in Nat
<1>1. last \in Nat /\ active \subseteq 1..last
  BY DEF MemoryTypeOK, Entry
<1>2. IsFiniteSet(1..last)
  BY <1>1, FS_Interval
<1>3. IsFiniteSet(active)
  BY <1>1, <1>2, FS_Subset
<1>4. \A i \in active : i \in Nat
  BY <1>1
<1> QED
  BY <1>3, <1>4, FS_CardinalityType

\* What creating one entry does to the contents.
LEMMA CreateFacts ==
  ASSUME MemoryTypeOK, NEW quote, quote \subseteq 1..(last + 1), Create(quote)
  PROVE  /\ last \in Nat /\ last' = last + 1
         /\ last + 1 \notin 1..last
         /\ 1..last' = 1..last \cup {last + 1}
         /\ says' \in [1..last' -> SUBSET (1..last')]
         /\ \A i \in 1..last : says'[i] = says[i] /\ says[i] \subseteq 1..last
         /\ says'[last + 1] = quote
<1>1. last \in Nat /\ last' = last + 1 /\ says \in [1..last -> SUBSET (1..last)]
  BY DEF MemoryTypeOK, Create, Entry
<1>2. says' = [i \in 1..(last + 1) |-> IF i = last + 1 THEN quote ELSE says[i]]
  BY DEF Create
<1>3. 1..(last + 1) = 1..last \cup {last + 1} /\ last + 1 \notin 1..last
  BY <1>1
<1>4. \A i \in 1..last : says[i] \subseteq 1..last
  BY <1>1
<1>5. \A i \in 1..last : says'[i] = says[i]
  BY <1>2, <1>3
<1>6. says'[last + 1] = quote
  BY <1>2, <1>3
<1>7. \A i \in 1..(last + 1) :
        (IF i = last + 1 THEN quote ELSE says[i]) \in SUBSET (1..(last + 1))
  BY <1>3, <1>4
<1> QED
  BY <1>1, <1>2, <1>3, <1>4, <1>5, <1>6, <1>7

\* Adding a USER or ASSISTANT entry.
LEMMA AddEntryInv ==
  ASSUME MemoryInv, AddEntry
  PROVE  /\ last' \in Nat /\ says' \in [Entry' -> SUBSET Entry']
         /\ active' \subseteq Entry' /\ overrun' \in Nat /\ Entry \subseteq Entry'
         /\ SaysWhat' /\ NothingForgotten' /\ SummariesPrecede' /\ ActiveBounded'
         /\ last' \in active' \cap Messages'
<1> DEFINE n == last + 1
<1>1. /\ MemoryTypeOK /\ SaysWhat /\ NothingForgotten /\ SummariesPrecede
      /\ ActiveBounded
  BY DEF MemoryInv
<1>2. /\ last \in Nat /\ last' = n /\ n \notin 1..last
      /\ 1..last' = 1..last \cup {n}
      /\ says' \in [1..last' -> SUBSET (1..last')]
      /\ \A i \in 1..last : says'[i] = says[i] /\ says[i] \subseteq 1..last
      /\ says'[n] = {n}
  <2>1. last \in Nat /\ {n} \subseteq 1..(last + 1)
    BY <1>1 DEF MemoryTypeOK
  <2>2. Create({n})
    BY DEF AddEntry
  <2> QED BY <1>1, <2>1, <2>2, CreateFacts
<1>3. active' = active \cup {n} /\ active \subseteq 1..last /\ overrun' = overrun + 1
      /\ overrun \in Nat
  BY <1>1 DEF AddEntry, MemoryTypeOK, Entry
<1> HIDE DEF n
<1>4. Messages' = Messages \cup {n}
  BY <1>2 DEF Messages, Entry
<1>5. SaysWhat'
  <2>1. \A i \in Messages' : says'[i] = {i}
    BY <1>1, <1>2, <1>4 DEF SaysWhat, Messages, Entry
  <2>2. \A i \in 1..last' : \A q \in says'[i] : q <= i
    BY <1>1, <1>2 DEF SaysWhat, Entry
  <2> QED BY <2>1, <2>2 DEF SaysWhat, Entry
<1>6. NothingForgotten'
  <2>1. (Quoted(active))' = Messages'
    <3>1. \A q : q \in (Quoted(active))' <=> \E i \in active \cup {n} : q \in says'[i]
      BY <1>3 DEF Quoted
    <3>2. \A q : q \in Quoted(active) <=> \E i \in active : q \in says[i]
      BY DEF Quoted
    <3>3. \A q : q \in (Quoted(active))' <=> q \in Quoted(active) \/ q = n
      BY <1>2, <1>3, <3>1, <3>2
    <3> QED BY <1>1, <1>4, <3>3 DEF NothingForgotten
  <2>2. ASSUME NEW i \in active', NEW j \in active', i # j
        PROVE  says'[i] \cap says'[j] = {}
    <3>1. CASE i = n
      BY <1>2, <1>3, <2>2, <3>1
    <3>2. CASE j = n
      BY <1>2, <1>3, <2>2, <3>2
    <3>3. CASE i # n /\ j # n
      BY <1>1, <1>2, <1>3, <2>2, <3>3 DEF NothingForgotten
    <3> QED BY <3>1, <3>2, <3>3
  <2> QED BY <2>1, <2>2 DEF NothingForgotten
<1>7. SummariesPrecede'
  <2> SUFFICES ASSUME NEW t \in active' \ Messages', NEW i \in active' \cap Messages',
                      NEW q \in says'[t]
               PROVE  q < i
    BY DEF SummariesPrecede
  <2>1. t \in active \ Messages /\ q \in says[t] /\ q \in 1..last
    BY <1>2, <1>3, <1>4
  <2>2. CASE i = n
    BY <1>2, <2>1, <2>2 DEF n
  <2>3. CASE i # n
    BY <1>1, <1>3, <1>4, <2>1, <2>3 DEF SummariesPrecede
  <2> QED BY <2>2, <2>3
<1>8. ActiveBounded'
  <2>1. IsFiniteSet(active) /\ Cardinality(active) \in Nat
    BY <1>1, ActiveFinite
  <2>2. Cardinality(active \cup {n}) = Cardinality(active) + 1
    BY <1>2, <1>3, <2>1, FS_AddElement
  <2>3. Threshold(MaxWindow) \in Nat
    BY MemoryAssumption DEF Threshold
  <2> QED BY <1>1, <1>3, <2>1, <2>2, <2>3 DEF ActiveBounded
<1>9. last' \in active' \cap Messages'
  BY <1>2, <1>3, <1>4
<1> QED
  BY <1>2, <1>3, <1>5, <1>6, <1>7, <1>8, <1>9 DEF Entry, n

\* The summary, when there are too many active entries.
LEMMA CondenseInv ==
  ASSUME MemoryInv, window \in Windows, Cardinality(active) > Threshold(window),
         Create(Quoted(Oldest(active, Excess))),
         active' = (active \ Oldest(active, Excess)) \cup {last + 1},
         overrun' = 0
  PROVE  /\ last' \in Nat /\ says' \in [Entry' -> SUBSET Entry']
         /\ active' \subseteq Entry' /\ overrun' \in Nat /\ Entry \subseteq Entry'
         /\ SaysWhat' /\ NothingForgotten' /\ SummariesPrecede' /\ ActiveBounded'
<1> DEFINE n    == last + 1
           old  == Oldest(active, Excess)
           rest == active \ old
<1>1. /\ MemoryTypeOK /\ SaysWhat /\ NothingForgotten /\ SummariesPrecede
      /\ ActiveBounded
  BY DEF MemoryInv
<1>2. active \in SUBSET Nat /\ IsFiniteSet(active) /\ Cardinality(active) \in Nat
  BY <1>1, ActiveFinite
<1>3. /\ window \in Nat /\ Excess \in Nat /\ Excess <= Cardinality(active)
      /\ Cardinality(active) - Excess = window
      /\ window + 1 <= Threshold(MaxWindow)
  <2>1. /\ window \in Nat /\ Threshold(window) \in Nat /\ Threshold(MaxWindow) \in Nat
        /\ window + 1 <= Threshold(window) /\ Threshold(window) <= Threshold(MaxWindow)
    BY ThresholdFacts
  <2> QED BY <1>2, <2>1 DEF Excess
<1>4. old \subseteq active /\ Cardinality(old) = Excess
  <2>1. Cardinality(old) = Excess
    BY <1>2, <1>3, OldestSize
  <2> QED BY <2>1 DEF Oldest
<1>5. \A i \in old, j \in rest : i < j
  BY <1>2, <1>3, OldestIsPrefix
<1>6. active \subseteq 1..last /\ Quoted(old) \subseteq 1..last
  BY <1>1, <1>4 DEF MemoryTypeOK, Entry, Quoted
<1>7. /\ last \in Nat /\ last' = n /\ n \notin 1..last
      /\ 1..last' = 1..last \cup {n}
      /\ says' \in [1..last' -> SUBSET (1..last')]
      /\ \A i \in 1..last : says'[i] = says[i] /\ says[i] \subseteq 1..last
      /\ says'[n] = Quoted(old)
  <2>1. last \in Nat
    BY <1>1 DEF MemoryTypeOK
  <2>2. Quoted(old) \subseteq 1..(last + 1)
    BY <1>6, <2>1
  <2> QED BY <1>1, <2>1, <2>2, CreateFacts
<1>8. active' = rest \cup {n}
  OBVIOUS
<1>9. Cardinality(rest) = window /\ IsFiniteSet(rest)
  <2>1. IsFiniteSet(old) /\ IsFiniteSet(rest)
    BY <1>2, <1>4, FS_Subset
  <2>2. Cardinality(rest) = Cardinality(active) - Cardinality(active \cap old)
    BY <1>2, <2>1, FS_Difference
  <2>3. active \cap old = old
    BY <1>4
  <2> QED BY <1>3, <1>4, <2>1, <2>2, <2>3
<1> HIDE DEF n, old
<1>10. Messages' = Messages
  BY <1>6, <1>7 DEF Messages, Entry
<1>11. SaysWhat'
  <2>1. \A i \in Messages' : says'[i] = {i}
    BY <1>1, <1>7, <1>10 DEF SaysWhat, Messages, Entry
  <2>2. \A i \in 1..last : \A q \in says'[i] : q <= i
    BY <1>1, <1>7 DEF SaysWhat, Entry
  <2>3. \A q \in says'[n] : q <= n
    BY <1>6, <1>7 DEF n
  <2> QED BY <1>7, <2>1, <2>2, <2>3 DEF SaysWhat, Entry
<1>12. NothingForgotten'
  <2>1. (Quoted(active))' = Messages'
    <3>1. \A q : q \in (Quoted(active))' <=> \E i \in rest \cup {n} : q \in says'[i]
      BY <1>8 DEF Quoted
    <3>2. \A q : q \in (Quoted(active))' <=>
                  (\E i \in rest : q \in says[i]) \/ q \in Quoted(old)
      <4>1. \A i \in rest : says'[i] = says[i]
        BY <1>6, <1>7
      <4>2. \A q : (\E i \in rest \cup {n} : q \in says'[i]) <=>
                  (\E i \in rest : q \in says'[i]) \/ q \in says'[n]
        OBVIOUS
      <4>3. \A q : (\E i \in rest : q \in says'[i]) <=> (\E i \in rest : q \in says[i])
        BY <4>1
      <4>4. says'[n] = Quoted(old)
        BY <1>7
      <4> HIDE DEF rest
      <4> QED BY <3>1, <4>2, <4>3, <4>4, Zenon
    <3>3. \A q : q \in Quoted(old) <=> \E i \in old : q \in says[i]
      BY DEF Quoted
    <3>4. \A q : q \in Quoted(active) <=> \E i \in active : q \in says[i]
      BY DEF Quoted
    <3>5. \A q : q \in (Quoted(active))' <=> q \in Quoted(active)
      BY <1>4, <3>2, <3>3, <3>4
    <3> QED BY <1>1, <1>10, <3>5 DEF NothingForgotten
  <2>2. \A i \in rest : says[i] \cap Quoted(old) = {}
    BY <1>1, <1>4 DEF NothingForgotten, Quoted
  <2>3. ASSUME NEW i \in active', NEW j \in active', i # j
        PROVE  says'[i] \cap says'[j] = {}
    <3>1. CASE i = n
      BY <1>6, <1>7, <1>8, <2>2, <2>3, <3>1
    <3>2. CASE j = n
      BY <1>6, <1>7, <1>8, <2>2, <2>3, <3>2
    <3>3. CASE i # n /\ j # n
      BY <1>1, <1>6, <1>7, <1>8, <2>3, <3>3 DEF NothingForgotten
    <3> QED BY <3>1, <3>2, <3>3
  <2> QED BY <2>1, <2>3 DEF NothingForgotten
<1>13. SummariesPrecede'
  <2> SUFFICES ASSUME NEW t \in active' \ Messages', NEW i \in active' \cap Messages',
                      NEW q \in says'[t]
               PROVE  q < i
    BY DEF SummariesPrecede
  <2>1. i \in rest /\ i \in Messages
    BY <1>7, <1>8, <1>10 DEF Messages, Entry
  <2>2. CASE t # n
    BY <1>1, <1>6, <1>7, <1>8, <1>10, <2>1, <2>2 DEF SummariesPrecede
  <2>3. CASE t = n
    <3>1. PICK o \in old : q \in says[o]
      BY <1>7, <2>3 DEF Quoted
    <3>2. CASE o \in Messages
      <4>1. q = o
        BY <1>1, <3>1, <3>2 DEF SaysWhat
      <4> QED BY <1>5, <2>1, <4>1
    <3>3. CASE o \notin Messages
      BY <1>1, <1>4, <2>1, <3>1, <3>3 DEF SummariesPrecede
    <3> QED BY <3>2, <3>3
  <2> QED BY <2>2, <2>3
<1>14. ActiveBounded'
  <2>1. n \notin rest
    BY <1>6, <1>7
  <2>2. Cardinality(rest \cup {n}) = window + 1
    BY <1>9, <2>1, FS_AddElement
  <2>3. Threshold(MaxWindow) \in Nat
    BY MemoryAssumption DEF Threshold
  <2> QED BY <1>3, <1>8, <2>2, <2>3 DEF ActiveBounded
<1>15. /\ last' \in Nat /\ says' \in [Entry' -> SUBSET Entry']
       /\ Entry \subseteq Entry' /\ overrun' \in Nat
  BY <1>7 DEF Entry, n
<1>16. active' \subseteq Entry'
  BY <1>6, <1>7, <1>8 DEF Entry
<1> QED
  BY <1>11, <1>12, <1>13, <1>14, <1>15, <1>16

-----------------------------------------------------------------------------
\* The parts of MemoryInv that only the entries decide.
LEMMA EntriesUnchanged ==
  ASSUME MemoryInv, UNCHANGED <<last, says, active, overrun>>
  PROVE  /\ last' \in Nat /\ says' \in [Entry' -> SUBSET Entry']
         /\ active' \subseteq Entry' /\ overrun' \in Nat /\ Entry' = Entry
         /\ SaysWhat' /\ NothingForgotten' /\ SummariesPrecede' /\ ActiveBounded'
BY DEF MemoryInv, MemoryTypeOK, SaysWhat, NothingForgotten, SummariesPrecede,
       ActiveBounded, Messages, Quoted, Entry

LEMMA MemoryStepInv == MemoryInv /\ [MemoryNext]_mvars => MemoryInv'
<1> SUFFICES ASSUME MemoryInv, [MemoryNext]_mvars PROVE MemoryInv'
  OBVIOUS
<1> USE DEF MemoryInv
<1>0. /\ pc \in {"idle", "recall", "call", "reply", "summarize"}
      /\ window \in Windows \cup {0} /\ (pc # "idle" => window \in Windows)
      /\ prompt \subseteq Entry
  BY DEF MemoryTypeOK
<1>1. CASE RememberUser
  <2>1. AddEntry /\ window' \in Windows /\ pc' = "recall" /\ prompt' = prompt
    BY <1>1 DEF RememberUser
  <2> QED BY <1>0, <2>1, AddEntryInv DEF MemoryTypeOK, Recalled
<1>2. CASE Recall
  <2>1. UNCHANGED <<last, says, active, overrun, window>> /\ pc = "recall" /\ pc' = "call"
    BY <1>2 DEF Recall
  <2>2. prompt' \subseteq Entry
    BY <1>2 DEF Recall, Oldest, MemoryTypeOK
  <2>3. Recalled'
    BY <1>2, <2>1 DEF Recall, Recalled, Oldest, Rank, Messages, Entry
  <2> QED BY <1>0, <2>1, <2>2, <2>3, EntriesUnchanged DEF MemoryTypeOK
<1>3. CASE ProviderReplies
  BY <1>0, <1>3, EntriesUnchanged DEF ProviderReplies, MemoryTypeOK, Recalled
<1>4. CASE ProviderFails
  BY <1>0, <1>4, EntriesUnchanged DEF ProviderFails, MemoryTypeOK, Recalled
<1>5. CASE RememberReply
  <2>1. AddEntry /\ window' = window /\ pc = "reply" /\ pc' = "summarize"
        /\ prompt' = prompt
    BY <1>5 DEF RememberReply
  <2> QED BY <1>0, <2>1, AddEntryInv DEF MemoryTypeOK, Recalled
<1>6. CASE SummarizeOldEntries
  <2>1. /\ pc = "summarize" /\ pc' = "idle" /\ window' = window /\ prompt' = prompt
        /\ overrun' = 0 /\ window \in Windows /\ Recalled'
    BY <1>0, <1>6 DEF SummarizeOldEntries, Recalled
  <2>2. CASE Cardinality(active) <= Threshold(window)
    <3>1. UNCHANGED <<last, says, active>>
      BY <1>6, <2>2 DEF SummarizeOldEntries
    <3>2. MemoryTypeOK'
      BY <1>0, <2>1, <3>1 DEF MemoryTypeOK, Entry
    <3>3. SaysWhat' /\ NothingForgotten' /\ SummariesPrecede'
      BY <3>1 DEF SaysWhat, NothingForgotten, SummariesPrecede, Messages, Quoted, Entry
    <3>4. ActiveBounded'
      <4>1. Cardinality(active) \in Nat
        BY ActiveFinite
      <4> QED BY <2>1, <2>2, <3>1, <4>1, ThresholdFacts DEF ActiveBounded
    <3> QED BY <2>1, <3>2, <3>3, <3>4
  <2>3. CASE ~(Cardinality(active) <= Threshold(window))
    <3>1. /\ Create(Quoted(Oldest(active, Excess)))
          /\ active' = (active \ Oldest(active, Excess)) \cup {last + 1}
      BY <1>6, <2>3 DEF SummarizeOldEntries
    <3>2. Cardinality(active) > Threshold(window)
      <4>1. Cardinality(active) \in Nat /\ Threshold(window) \in Nat
        BY <2>1, ActiveFinite, ThresholdFacts
      <4> QED BY <2>3, <4>1
    <3> QED BY <1>0, <2>1, <3>1, <3>2, CondenseInv DEF MemoryTypeOK
  <2> QED BY <2>2, <2>3
<1>7. CASE Interrupt
  BY <1>0, <1>7, EntriesUnchanged DEF Interrupt, MemoryTypeOK, Recalled
<1>8. CASE UNCHANGED mvars
  <2>1. Recalled'
    BY <1>8 DEF mvars, Recalled, Oldest, Rank, Messages, Entry
  <2> QED BY <1>0, <1>8, <2>1, EntriesUnchanged DEF mvars, MemoryTypeOK
<1> QED
  BY <1>1, <1>2, <1>3, <1>4, <1>5, <1>6, <1>7, <1>8 DEF MemoryNext

-----------------------------------------------------------------------------
\* The inductive invariant of the memory holds, for any windows.
THEOREM MemoryInvariant == MemorySpec => []MemoryInv
BY MemoryInitInv, MemoryStepInv, PTL DEF MemorySpec

\* The active entries quote every message exactly once: no summary, failed run
\* or crash of processMessage loses or doubles one.
THEOREM MemoryIsComplete == MemorySpec => []NothingForgotten
<1>1. MemoryInv => NothingForgotten
  BY DEF MemoryInv
<1> QED BY <1>1, MemoryInvariant, PTL

\* summarizeOldEntries condenses what is older than all it leaves.
THEOREM SummariesAreOlder == MemorySpec => []SummariesPrecede
<1>1. MemoryInv => SummariesPrecede
  BY DEF MemoryInv
<1> QED BY <1>1, MemoryInvariant, PTL

\* The memory exceeds the threshold by no more than the runs that failed since
\* the last summary have added.
THEOREM MemoryIsBounded == MemorySpec => []ActiveBounded
<1>1. MemoryInv => ActiveBounded
  BY DEF MemoryInv
<1> QED BY <1>1, MemoryInvariant, PTL

-----------------------------------------------------------------------------
(* Which prompts show the message they are to answer. *)

\* A set that fits is taken whole.
LEMMA OldestOfFew ==
  ASSUME NEW S \in SUBSET Nat, IsFiniteSet(S), NEW k \in Nat, Cardinality(S) <= k
  PROVE  Oldest(S, k) = S
<1> SUFFICES ASSUME NEW i \in S PROVE Rank(i, S) < k
  BY DEF Oldest
<1> DEFINE before == {j \in S : j < i}
<1>1. i \in Nat /\ i \notin before /\ before \cup {i} \subseteq S
  OBVIOUS
<1>2. IsFiniteSet(before) /\ Cardinality(before) \in Nat
  BY <1>1, RankNat DEF Rank
<1>3. Cardinality(before \cup {i}) = Cardinality(before) + 1
  BY <1>1, <1>2, FS_AddElement
<1>4. Cardinality(before \cup {i}) <= Cardinality(S) /\ Cardinality(S) \in Nat
  BY <1>1, FS_Subset, FS_CardinalityType
<1> QED
  BY <1>2, <1>3, <1>4 DEF Rank

\* Of a set that does not fit, the youngest element is left out.
LEMMA OldestOfMany ==
  ASSUME NEW S \in SUBSET Nat, IsFiniteSet(S), NEW k \in Nat, k < Cardinality(S),
         NEW m \in S, \A i \in S : i <= m
  PROVE  m \notin Oldest(S, k)
<1> SUFFICES ASSUME m \in Oldest(S, k) PROVE FALSE
  OBVIOUS
<1>1. Cardinality(S) \in Nat
  BY FS_CardinalityType
<1>2. Cardinality(Oldest(S, k)) = k
  BY <1>1, OldestSize
<1>3. Oldest(S, k) # S
  BY <1>1, <1>2
<1>4. PICK j \in S : j \notin Oldest(S, k)
  BY <1>3 DEF Oldest
<1>5. m < j
  BY <1>4, OldestIsPrefix
<1> QED
  BY <1>4, <1>5

LEMMA PromptShowsLemma == MemoryInv => PromptShowsMessage
<1> SUFFICES ASSUME MemoryInv, pc = "call"
             PROVE  last \in Quoted(prompt) <=> Cardinality(active) <= window
  BY DEF PromptShowsMessage
<1>1. /\ last \in active /\ last \in Messages /\ prompt = Oldest(active, window)
      /\ active \in SUBSET Nat /\ IsFiniteSet(active) /\ Cardinality(active) \in Nat
  BY ActiveFinite DEF MemoryInv, Recalled
<1>2. window \in Nat /\ \A i \in active : i <= last
  <2>1. window \in Windows /\ active \subseteq 1..last
    BY DEF MemoryInv, MemoryTypeOK, Entry
  <2> QED BY <2>1, ThresholdFacts
<1>3. last \in Quoted(prompt) <=> last \in prompt
  <2>1. prompt \subseteq active
    BY <1>1 DEF Oldest
  <2>2. \A i \in active : last \in says[i] => i = last
    BY <1>1 DEF MemoryInv, NothingForgotten, Messages
  <2>3. last \in says[last]
    BY <1>1 DEF Messages
  <2> QED BY <2>1, <2>2, <2>3 DEF Quoted
<1>4. CASE Cardinality(active) <= window
  BY <1>1, <1>2, <1>3, <1>4, OldestOfFew
<1>5. CASE window < Cardinality(active)
  BY <1>1, <1>2, <1>3, <1>5, OldestOfMany
<1> QED
  BY <1>1, <1>2, <1>4, <1>5

\* The provider is shown the message it answers exactly when all active entries
\* fit in the window: what the run unseen_message meets is every such case.
THEOREM PromptIsExact == MemorySpec => []PromptShowsMessage
BY MemoryInvariant, PromptShowsLemma, PTL
=============================================================================
