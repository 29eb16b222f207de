--------------------------- MODULE AlgorithmProofs ---------------------------
(***************************************************************************)
(* The loops of merge_logs and of the selector index, for inputs of any    *)
(* length.  Both are folds over a sequence; what a fold computes for every *)
(* sequence is proved by induction over the sets of its positions.         *)
(***************************************************************************)
EXTENDS ReceiptMerge, SelectorIndex, TLAPS, WellFoundedInduction

------------------------------------------------------------------------------
(***************************************************************************)
(* Induction over the naturals.  The library's theorem has an operator for *)
(* its parameter; that < is well founded is first order, and gives the     *)
(* same for a set.                                                         *)
(***************************************************************************)
\* A set of naturals that has an element has a least one.
LEMMA LeastNatural ==
    ASSUME NEW T \in SUBSET Nat, T # {}
    PROVE  \E x \in T : \A y \in T : x <= y
<1> DEFINE R == OpToRel(<, Nat)
<1>1. IsWellFoundedOn(R, Nat)
  BY NatLessThanWellFounded
<1>2. \A s, t \in Nat : s < t => <<s, t>> \in R
  BY DEF OpToRel
<1> HIDE DEF R
<1>3. \E x \in T : \A y \in T : ~ (<<y, x>> \in R)
  BY <1>1, WFMin
<1>4. PICK x \in T : \A y \in T : ~ (<<y, x>> \in R)
  BY <1>3
<1>5. \A y \in T : ~ (y < x)
  BY <1>2, <1>4
<1> QED
  BY <1>5

\* Induction, over the set of the numbers for which a fact holds.
LEMMA NaturalInduction ==
    ASSUME NEW S, 0 \in S, \A n \in Nat : n \in S => n + 1 \in S
    PROVE  Nat \subseteq S
<1> SUFFICES ASSUME Nat \ S # {} PROVE FALSE
  OBVIOUS
<1>1. PICK x \in Nat \ S : \A y \in Nat \ S : x <= y
  BY LeastNatural
<1>2. x # 0 /\ x - 1 \in Nat
  BY <1>1
<1>3. x - 1 \in S
  BY <1>1, <1>2
<1> QED
  BY <1>1, <1>2, <1>3

\* Max picks the greatest of a set of positions.
LEMMA GreatestOf ==
    ASSUME NEW n \in Nat, NEW S \in SUBSET (1..n), S # {}
    PROVE  Max(S) \in S /\ \A y \in S : y <= Max(S)
<1> DEFINE T == {n - x : x \in S}
<1>1. T \in SUBSET Nat /\ T # {}
  <2>1. \A x \in S : n - x \in Nat
    OBVIOUS
  <2> QED
    BY <2>1
<1>2. PICK t \in T : \A u \in T : t <= u
  BY <1>1, LeastNatural
<1>3. PICK x \in S : t = n - x
  BY <1>2
<1>4. \A y \in S : n - x <= n - y
  BY <1>2, <1>3
<1>5. \A y \in S : x >= y
  BY <1>4
<1> QED
  BY <1>5 DEF Max

\* ... and the last position, if that is in it.
LEMMA GreatestIs ==
    ASSUME NEW n \in Nat, NEW S \in SUBSET (1..n), n \in S
    PROVE  Max(S) = n
<1>1. Max(S) \in S /\ n <= Max(S)
  BY GreatestOf
<1>2. Max(S) \in 1..n
  BY <1>1
<1> QED
  BY <1>1, <1>2

\* The first k + 1 positions, as the fold takes them: the last one off.
LEMMA Prefix ==
    ASSUME NEW n \in Nat, NEW k \in Nat, k + 1 <= n
    PROVE  /\ 1 .. k + 1 \in SUBSET (1..n) /\ 1 .. k + 1 # {}
           /\ Max(1 .. k + 1) = k + 1
           /\ (1 .. k + 1) \ {k + 1} = 1..k
<1>1. 1 .. k + 1 \in SUBSET (1..n)
  OBVIOUS
<1>2. k + 1 \in 1 .. k + 1
  OBVIOUS
<1>3. (1 .. k + 1) \ {k + 1} = 1..k
  OBVIOUS
<1>4. Max(1 .. k + 1) = k + 1
  BY <1>1, <1>2, GreatestIs
<1> QED
  BY <1>1, <1>2, <1>3, <1>4

------------------------------------------------------------------------------
(***************************************************************************)
(* merge_logs: one turn of its loop.                                       *)
(***************************************************************************)
\* What is under each key after one more entry.
LEMMA TakenEntry ==
    ASSUME NEW merged, NEW e
    PROVE  /\ DOMAIN TakeEntry(merged, e) = DOMAIN merged \union {EntryKey(e)}
           /\ TakeEntry(merged, e)[EntryKey(e)] =
                IF TakesOver(merged, e) THEN e ELSE merged[EntryKey(e)]
           /\ \A k \in DOMAIN merged : k # EntryKey(e) => TakeEntry(merged, e)[k] = merged[k]
BY DEF TakeEntry

\* Nothing merged is the union of no entries.
LEMMA NothingIsUnion ==
    ASSUME NEW entries
    PROVE  IsUnion(NothingMerged, entries, 0)
<1>1. DOMAIN NothingMerged = {}
  BY DEF NothingMerged
<1>2. {EntryKey(entries[i]) : i \in 1..0} = {}
  OBVIOUS
<1> QED
  BY <1>1, <1>2 DEF IsUnion

\* If the first n entries are merged, taking the next makes it the union of
\* n + 1: no key is lost, and none falls back to an older copy.
LEMMA UnionGrows ==
    ASSUME NEW entries, NEW n \in Nat, NEW merged,
           \A i \in 1 .. n + 1 : entries[i].updated \in Nat,
           IsUnion(merged, entries, n)
    PROVE  IsUnion(TakeEntry(merged, entries[n + 1]), entries, n + 1)
<1> DEFINE e == entries[n + 1]
           next == TakeEntry(merged, e)
<1>1. /\ DOMAIN next = DOMAIN merged \union {EntryKey(e)}
      /\ next[EntryKey(e)] = IF TakesOver(merged, e) THEN e ELSE merged[EntryKey(e)]
      /\ \A k \in DOMAIN merged : k # EntryKey(e) => next[k] = merged[k]
  BY TakenEntry
<1>2. DOMAIN merged = {EntryKey(entries[i]) : i \in 1..n}
  BY DEF IsUnion
<1>3. 1 .. n + 1 = (1 .. n) \union {n + 1}
  OBVIOUS
<1>4. DOMAIN next = {EntryKey(entries[i]) : i \in 1 .. n + 1}
  BY <1>1, <1>2, <1>3
<1> HIDE DEF next
<1>5. ASSUME NEW k \in DOMAIN next
      PROVE  \E i \in 1 .. n + 1 :
               /\ next[k] = entries[i] /\ EntryKey(entries[i]) = k
               /\ \A j \in 1 .. n + 1 : EntryKey(entries[j]) = k =>
                     \/ entries[j].updated < entries[i].updated
                     \/ entries[j].updated = entries[i].updated /\ j <= i
  <2>1. CASE k \notin DOMAIN merged
    <3>1. k = EntryKey(e) /\ next[k] = e
      BY <1>1, <2>1 DEF TakesOver
    <3>2. \A j \in 1..n : EntryKey(entries[j]) # k
      BY <1>2, <2>1
    <3> QED
      BY <1>3, <3>1, <3>2
  <2>2. CASE k \in DOMAIN merged
    <3>1. PICK i \in 1..n :
            /\ merged[k] = entries[i] /\ EntryKey(entries[i]) = k
            /\ \A j \in 1..n : EntryKey(entries[j]) = k =>
                  \/ entries[j].updated < entries[i].updated
                  \/ entries[j].updated = entries[i].updated /\ j <= i
      BY <2>2 DEF IsUnion
    <3>2. i \in 1 .. n + 1 /\ i < n + 1 /\ entries[i].updated \in Nat /\ e.updated \in Nat
      BY <1>3
    <3>3. CASE k # EntryKey(e)
      BY <1>1, <1>3, <2>2, <3>1, <3>2, <3>3
    <3>4. CASE k = EntryKey(e) /\ TakesOver(merged, e)
      <4>1. next[k] = e /\ entries[i].updated <= e.updated
        BY <1>1, <2>2, <3>1, <3>2, <3>4 DEF TakesOver
      <4>2. \A j \in 1..n : EntryKey(entries[j]) = k =>
              entries[j].updated < e.updated \/ (entries[j].updated = e.updated /\ j <= n + 1)
        BY <3>1, <3>2, <4>1
      <4> QED
        BY <1>3, <3>4, <4>1, <4>2
    <3>5. CASE k = EntryKey(e) /\ ~TakesOver(merged, e)
      <4>1. next[k] = entries[i] /\ e.updated < entries[i].updated
        BY <1>1, <2>2, <3>1, <3>2, <3>5 DEF TakesOver
      <4> QED
        BY <1>3, <3>1, <3>2, <4>1
    <3> QED
      BY <3>3, <3>4, <3>5
  <2> QED
    BY <2>1, <2>2
<1> QED
  BY <1>4, <1>5 DEF IsUnion, next

------------------------------------------------------------------------------
(***************************************************************************)
(* merge_logs: the whole loop.                                             *)
(***************************************************************************)
\* The fold of FoldLeft over n entries, a function of the positions taken.
FoldsTo(entries, n, g) ==
    g = [s \in SUBSET (1..n) |->
            IF s = {} THEN NothingMerged
            ELSE TakeEntry(g[s \ {Max(s)}], entries[Max(s)])]

\* There is such a function for every number of entries: one more entry
\* adds the sets that hold the last position.
LEMMA FoldExists ==
    ASSUME NEW entries, NEW n \in Nat
    PROVE  \E g : FoldsTo(entries, n, g)
<1> DEFINE S == {k \in Nat : \E g : FoldsTo(entries, k, g)}
<1>1. 0 \in S
  <2> DEFINE g == [s \in SUBSET (1..0) |-> NothingMerged]
  <2>1. \A s \in SUBSET (1..0) : s = {}
    OBVIOUS
  <2>2. FoldsTo(entries, 0, g)
    BY <2>1 DEF FoldsTo
  <2> QED
    BY <2>2
<1>2. ASSUME NEW k \in Nat, k \in S PROVE k + 1 \in S
  <2>1. PICK g : FoldsTo(entries, k, g)
    BY <1>2
  <2> DEFINE h == [s \in SUBSET (1 .. k + 1) |->
                      IF k + 1 \in s THEN TakeEntry(g[s \ {k + 1}], entries[k + 1])
                      ELSE g[s]]
             next(s) == IF s = {} THEN NothingMerged
                        ELSE TakeEntry(h[s \ {Max(s)}], entries[Max(s)])
  <2>2. ASSUME NEW s \in SUBSET (1 .. k + 1) PROVE h[s] = next(s)
    <3>1. CASE k + 1 \in s
      <4>1. Max(s) = k + 1
        BY <3>1, GreatestIs
      <4>2. s \ {k + 1} \in SUBSET (1 .. k + 1) /\ k + 1 \notin s \ {k + 1} /\ s # {}
        BY <3>1
      <4>3. h[s \ {k + 1}] = g[s \ {k + 1}]
        BY <4>2
      <4> QED
        BY <3>1, <4>1, <4>2, <4>3
    <3>2. CASE k + 1 \notin s
      <4>1. s \in SUBSET (1..k)
        BY <3>2
      <4>2. h[s] = g[s]
        BY <3>2
      <4>3. CASE s = {}
        BY <2>1, <4>1, <4>2, <4>3 DEF FoldsTo
      <4>4. CASE s # {}
        <5>1. h[s \ {Max(s)}] = g[s \ {Max(s)}]
          BY <3>2
        <5>2. g[s] = TakeEntry(g[s \ {Max(s)}], entries[Max(s)])
          BY <2>1, <4>1, <4>4 DEF FoldsTo
        <5> QED
          BY <4>2, <4>4, <5>1, <5>2
      <4> QED
        BY <4>3, <4>4
    <3> QED
      BY <3>1, <3>2
  <2>3. h = [s \in SUBSET (1 .. k + 1) |-> next(s)]
    <3> HIDE DEF next
    <3> QED
      BY <2>2
  <2>4. FoldsTo(entries, k + 1, h)
    BY <2>3 DEF FoldsTo
  <2> QED
    BY <2>4
<1> QED
  BY <1>1, <1>2, NaturalInduction

\* The fold that merge_logs is, as its recursion has it.
LEMMA MergedRecursion ==
    ASSUME NEW E, NEW entries \in Seq(E)
    PROVE  \E g : /\ FoldsTo(entries, Len(entries), g)
                  /\ MergedEntries(entries) = g[1 .. Len(entries)]
<1> DEFINE n == Len(entries)
<1>1. n \in Nat /\ DOMAIN entries = 1..n
  OBVIOUS
<1>2. \E g : FoldsTo(entries, n, g)
  BY <1>1, FoldExists
<1> DEFINE iter == CHOOSE g : FoldsTo(entries, n, g)
<1>3. FoldsTo(entries, n, iter)
  BY <1>2
<1>4. MergedEntries(entries) = iter[1..n]
  BY <1>1 DEF MergedEntries, FoldLeft, MapThenFoldSet, FoldsTo
<1> QED
  BY <1>3, <1>4

(* What merge_logs has when its loop ends is the union of all the entries  *)
(* it was given, for logs of any number and any length: every key once,    *)
(* under it the copy that was updated last (receipts.py:51-68).            *)
THEOREM MergedIsUnion ==
    ASSUME NEW E, NEW entries \in Seq(E),
           \A i \in 1 .. Len(entries) : entries[i].updated \in Nat
    PROVE  IsUnion(MergedEntries(entries), entries, Len(entries))
<1> DEFINE n == Len(entries)
<1>1. n \in Nat
  OBVIOUS
<1>2. PICK g : FoldsTo(entries, n, g) /\ MergedEntries(entries) = g[1..n]
  BY MergedRecursion
<1> DEFINE S == {k \in Nat : k <= n => IsUnion(g[1..k], entries, k)}
<1>3. 0 \in S
  <2>1. 1..0 = {} /\ {} \in SUBSET (1..n)
    OBVIOUS
  <2>2. g[1..0] = NothingMerged
    BY <1>2, <2>1 DEF FoldsTo
  <2> QED
    BY <2>2, NothingIsUnion
<1>4. ASSUME NEW k \in Nat, k \in S
      PROVE  k + 1 \in S
  <2> SUFFICES ASSUME k + 1 <= n PROVE IsUnion(g[1 .. k + 1], entries, k + 1)
    OBVIOUS
  <2>1. /\ 1 .. k + 1 \in SUBSET (1..n) /\ 1 .. k + 1 # {}
        /\ Max(1 .. k + 1) = k + 1
        /\ (1 .. k + 1) \ {k + 1} = 1..k
    <3> HIDE DEF n
    <3> QED
      BY <1>1, Prefix
  <2>2. g[1 .. k + 1] = TakeEntry(g[1..k], entries[k + 1])
    BY <1>2, <2>1 DEF FoldsTo
  <2>3. IsUnion(g[1..k], entries, k)
    BY <1>4, <1>1
  <2>4. \A i \in 1 .. k + 1 : entries[i].updated \in Nat
    BY <1>1
  <2> QED
    BY <2>2, <2>3, <2>4, UnionGrows
<1>5. n \in S
  <2> HIDE DEF S, n
  <2> QED
    BY <1>1, <1>3, <1>4, NaturalInduction
<1> QED
  BY <1>1, <1>2, <1>5

\* What a union has under a key: a copy updated as late as any.
LEMMA NewestCopy ==
    ASSUME NEW merged, NEW entries, NEW n \in Nat,
           \A i \in 1..n : entries[i].updated \in Nat,
           IsUnion(merged, entries, n), NEW k \in DOMAIN merged
    PROVE  \E i \in 1..n :
             /\ merged[k] = entries[i] /\ EntryKey(entries[i]) = k
             /\ \A j \in 1..n :
                   EntryKey(entries[j]) = k => entries[j].updated <= entries[i].updated
<1>1. PICK i \in 1..n :
        /\ merged[k] = entries[i] /\ EntryKey(entries[i]) = k
        /\ \A j \in 1..n : EntryKey(entries[j]) = k =>
              \/ entries[j].updated < entries[i].updated
              \/ entries[j].updated = entries[i].updated /\ j <= i
  BY DEF IsUnion
<1>2. ASSUME NEW j \in 1..n, EntryKey(entries[j]) = k
      PROVE  entries[j].updated <= entries[i].updated
  <2>1. entries[j].updated \in Nat /\ entries[i].updated \in Nat
    OBVIOUS
  <2>2. entries[j].updated < entries[i].updated \/ entries[j].updated = entries[i].updated
    BY <1>1, <1>2
  <2> QED
    BY <2>1, <2>2
<1> QED
  BY <1>1, <1>2

(* Entries only ever accumulate: a merge that has an earlier union among   *)
(* its logs, in any order and with any repetition, keeps all its keys and  *)
(* brings back no older copy; and if it was given nothing that the union   *)
(* was not made from, it changes nothing.  (cli.py:461-478.)               *)
THEOREM MergingAgain ==
    ASSUME NEW E, NEW a \in Seq(E), NEW b \in Seq(E),
           \A i \in 1 .. Len(a) : a[i].updated \in Nat,
           \A i \in 1 .. Len(b) : b[i].updated \in Nat,
           \A k \in DOMAIN MergedEntries(a) :
               \E i \in 1 .. Len(b) : b[i] = MergedEntries(a)[k]
    PROVE  /\ DOMAIN MergedEntries(a) \subseteq DOMAIN MergedEntries(b)
           /\ \A k \in DOMAIN MergedEntries(a) :
                 MergedEntries(a)[k].updated <= MergedEntries(b)[k].updated
           /\ (\A i \in 1 .. Len(b) : \E j \in 1 .. Len(a) : b[i] = a[j]) =>
                 /\ DOMAIN MergedEntries(b) = DOMAIN MergedEntries(a)
                 /\ \A k \in DOMAIN MergedEntries(a) :
                       MergedEntries(b)[k].updated = MergedEntries(a)[k].updated
<1> DEFINE A == MergedEntries(a)
           B == MergedEntries(b)
           m == Len(a)
           n == Len(b)
<1>1. \A i \in 1..n : b[i].updated \in Nat
  OBVIOUS
<1>2. IsUnion(A, a, m)
  BY MergedIsUnion
<1>3. IsUnion(B, b, n)
  BY <1>1, MergedIsUnion
<1>4. /\ \A i \in 1..m : a[i].updated \in Nat
      /\ \A k \in DOMAIN A : \E i \in 1..n : b[i] = A[k]
  OBVIOUS
<1>5. m \in Nat /\ n \in Nat
  OBVIOUS
<1> DEFINE Old == \A i \in 1..n : \E j \in 1..m : b[i] = a[j]
<1>0. SUFFICES /\ DOMAIN A \subseteq DOMAIN B
               /\ \A k \in DOMAIN A : A[k].updated <= B[k].updated
               /\ Old => /\ DOMAIN B = DOMAIN A
                         /\ \A k \in DOMAIN A : B[k].updated = A[k].updated
  OBVIOUS
<1> HIDE DEF A, B, m, n
<1>6. \A k \in DOMAIN A : EntryKey(A[k]) = k
  BY <1>2 DEF IsUnion
<1>7. DOMAIN A \subseteq DOMAIN B
  <2>1. ASSUME NEW k \in DOMAIN A PROVE k \in DOMAIN B
    BY <1>3, <1>4, <1>6 DEF IsUnion
  <2> QED
    BY <2>1
<1>8. Old => DOMAIN B \subseteq DOMAIN A
  <2>1. ASSUME Old, NEW k \in DOMAIN B PROVE k \in DOMAIN A
    BY <1>2, <1>3, <2>1 DEF IsUnion
  <2> QED
    BY <2>1
<1>9. ASSUME NEW k \in DOMAIN A
      PROVE  /\ A[k].updated <= B[k].updated
             /\ Old => B[k].updated = A[k].updated
  <2>1. PICK i \in 1..m :
          /\ A[k] = a[i] /\ EntryKey(a[i]) = k
          /\ \A j \in 1..m : EntryKey(a[j]) = k => a[j].updated <= a[i].updated
    <3>1. \A i \in 1..m : a[i].updated \in Nat
      BY <1>4
    <3> QED
      BY <3>1, <1>2, <1>5, NewestCopy
  <2>2. PICK j \in 1..n :
          /\ B[k] = b[j] /\ EntryKey(b[j]) = k
          /\ \A l \in 1..n : EntryKey(b[l]) = k => b[l].updated <= b[j].updated
    BY <1>1, <1>3, <1>7, <1>5, NewestCopy
  <2>3. a[i].updated <= b[j].updated
    BY <1>4, <2>1, <2>2
  <2>4. Old => b[j].updated <= a[i].updated
    BY <2>1, <2>2
  <2>5. a[i].updated \in Nat /\ b[j].updated \in Nat
    BY <1>1, <1>4
  <2> QED
    BY <2>1, <2>2, <2>3, <2>4, <2>5
<1> HIDE DEF Old
<1> QED
  BY <1>7, <1>8, <1>9

------------------------------------------------------------------------------
(***************************************************************************)
(* The selector index.                                                     *)
(***************************************************************************)
\* What is under each selector after one more signature.
LEMMA AddedSig ==
    ASSUME NEW index, NEW sig
    PROVE  /\ DOMAIN AddSig(index, sig) = DOMAIN index \union {Selector(sig)}
           /\ AddSig(index, sig)[Selector(sig)] =
                IF \/ Selector(sig) \notin DOMAIN index
                   \/ IsBare(index[Selector(sig)]) /\ ~IsBare(sig)
                THEN sig ELSE index[Selector(sig)]
           /\ \A s \in DOMAIN index :
                s # Selector(sig) => AddSig(index, sig)[s] = index[s]
<1>1. CASE Selector(sig) \notin DOMAIN index
  BY <1>1 DEF AddSig
<1>2. CASE Selector(sig) \in DOMAIN index
  <2>1. DOMAIN index = DOMAIN index \union {Selector(sig)}
    BY <1>2
  <2> QED
    BY <1>2, <2>1 DEF AddSig
<1> QED
  BY <1>1, <1>2

\* The index of the first n signatures: under each selector the first with
\* real names, or the first.
IsIndex(index, sigs, n) ==
    /\ DOMAIN index = {Selector(sigs[i]) : i \in 1..n}
    /\ \A s \in DOMAIN index :
         \E i \in 1..n :
            /\ index[s] = sigs[i] /\ Selector(sigs[i]) = s
            /\ \A j \in 1..n : Selector(sigs[j]) = s =>
                 IF IsBare(sigs[i]) THEN IsBare(sigs[j]) /\ i <= j
                 ELSE IsBare(sigs[j]) \/ i <= j

\* One more signature leaves it the index of the signatures so far.
LEMMA IndexGrows ==
    ASSUME NEW sigs, NEW n \in Nat, NEW index, IsIndex(index, sigs, n)
    PROVE  IsIndex(AddSig(index, sigs[n + 1]), sigs, n + 1)
<1> DEFINE e == sigs[n + 1]
           next == AddSig(index, e)
<1>1. /\ DOMAIN next = DOMAIN index \union {Selector(e)}
      /\ next[Selector(e)] =
           IF \/ Selector(e) \notin DOMAIN index
              \/ IsBare(index[Selector(e)]) /\ ~IsBare(e)
           THEN e ELSE index[Selector(e)]
      /\ \A s \in DOMAIN index : s # Selector(e) => next[s] = index[s]
  BY AddedSig
<1>2. DOMAIN index = {Selector(sigs[i]) : i \in 1..n}
  BY DEF IsIndex
<1>3. 1 .. n + 1 = (1..n) \union {n + 1} /\ \A i \in 1..n : i <= n + 1
  OBVIOUS
<1>4. DOMAIN next = {Selector(sigs[i]) : i \in 1 .. n + 1}
  BY <1>1, <1>2, <1>3
<1> HIDE DEF next
<1>5. ASSUME NEW s \in DOMAIN next
      PROVE  \E i \in 1 .. n + 1 :
               /\ next[s] = sigs[i] /\ Selector(sigs[i]) = s
               /\ \A j \in 1 .. n + 1 : Selector(sigs[j]) = s =>
                    IF IsBare(sigs[i]) THEN IsBare(sigs[j]) /\ i <= j
                    ELSE IsBare(sigs[j]) \/ i <= j
  <2>1. CASE s \notin DOMAIN index
    <3>1. s = Selector(e) /\ next[s] = e
      BY <1>1, <2>1
    <3>2. \A j \in 1..n : Selector(sigs[j]) # s
      BY <1>2, <2>1
    <3>3. n + 1 <= n + 1 /\ n + 1 \in 1 .. n + 1
      OBVIOUS
    <3> QED
      BY <1>3, <3>1, <3>2, <3>3
  <2>2. CASE s \in DOMAIN index
    <3>1. PICK i \in 1..n :
            /\ index[s] = sigs[i] /\ Selector(sigs[i]) = s
            /\ \A j \in 1..n : Selector(sigs[j]) = s =>
                 IF IsBare(sigs[i]) THEN IsBare(sigs[j]) /\ i <= j
                 ELSE IsBare(sigs[j]) \/ i <= j
      BY <2>2 DEF IsIndex
    <3>2. CASE s # Selector(e)
      BY <1>1, <1>3, <2>2, <3>1, <3>2
    <3>3. CASE s = Selector(e) /\ IsBare(sigs[i]) /\ ~IsBare(e)
      <4>1. next[s] = e
        BY <1>1, <3>1, <3>3
      <4>2. \A j \in 1..n : Selector(sigs[j]) = s => IsBare(sigs[j])
        BY <3>1, <3>3
      <4>3. n + 1 <= n + 1 /\ n + 1 \in 1 .. n + 1
        OBVIOUS
      <4> QED
        BY <1>3, <3>3, <4>1, <4>2, <4>3
    <3>4. CASE s = Selector(e) /\ ~(IsBare(sigs[i]) /\ ~IsBare(e))
      <4>1. next[s] = sigs[i] /\ i \in 1 .. n + 1 /\ i <= n + 1
        BY <1>1, <1>3, <2>2, <3>1, <3>4
      <4> QED
        BY <1>3, <3>1, <3>4, <4>1
    <3> QED
      BY <3>2, <3>3, <3>4
  <2> QED
    BY <2>1, <2>2
<1> QED
  BY <1>4, <1>5 DEF IsIndex, next

\* The fold of FoldLeft over n signatures.
FoldsToIndex(sigs, n, g) ==
    g = [s \in SUBSET (1..n) |->
            IF s = {} THEN << >> ELSE AddSig(g[s \ {Max(s)}], sigs[Max(s)])]

LEMMA IndexFoldExists ==
    ASSUME NEW sigs, NEW n \in Nat
    PROVE  \E g : FoldsToIndex(sigs, n, g)
<1> DEFINE S == {k \in Nat : \E g : FoldsToIndex(sigs, k, g)}
<1>1. 0 \in S
  <2> DEFINE g == [s \in SUBSET (1..0) |-> << >>]
  <2>1. \A s \in SUBSET (1..0) : s = {}
    OBVIOUS
  <2>2. FoldsToIndex(sigs, 0, g)
    BY <2>1 DEF FoldsToIndex
  <2> QED
    BY <2>2
<1>2. ASSUME NEW k \in Nat, k \in S PROVE k + 1 \in S
  <2>1. PICK g : FoldsToIndex(sigs, k, g)
    BY <1>2
  <2> DEFINE h == [s \in SUBSET (1 .. k + 1) |->
                      IF k + 1 \in s THEN AddSig(g[s \ {k + 1}], sigs[k + 1]) ELSE g[s]]
             next(s) == IF s = {} THEN << >> ELSE AddSig(h[s \ {Max(s)}], sigs[Max(s)])
  <2>2. ASSUME NEW s \in SUBSET (1 .. k + 1) PROVE h[s] = next(s)
    <3>1. CASE k + 1 \in s
      <4>1. Max(s) = k + 1
        BY <3>1, GreatestIs
      <4>2. s \ {k + 1} \in SUBSET (1 .. k + 1) /\ k + 1 \notin s \ {k + 1} /\ s # {}
        BY <3>1
      <4>3. h[s \ {k + 1}] = g[s \ {k + 1}]
        BY <4>2
      <4> QED
        BY <3>1, <4>1, <4>2, <4>3
    <3>2. CASE k + 1 \notin s
      <4>1. s \in SUBSET (1..k)
        BY <3>2
      <4>2. h[s] = g[s]
        BY <3>2
      <4>3. CASE s = {}
        BY <2>1, <4>1, <4>2, <4>3 DEF FoldsToIndex
      <4>4. CASE s # {}
        <5>1. h[s \ {Max(s)}] = g[s \ {Max(s)}]
          BY <3>2
        <5>2. g[s] = AddSig(g[s \ {Max(s)}], sigs[Max(s)])
          BY <2>1, <4>1, <4>4 DEF FoldsToIndex
        <5> QED
          BY <4>2, <4>4, <5>1, <5>2
      <4> QED
        BY <4>3, <4>4
    <3> QED
      BY <3>1, <3>2
  <2>3. h = [s \in SUBSET (1 .. k + 1) |-> next(s)]
    <3> HIDE DEF next
    <3> QED
      BY <2>2
  <2>4. FoldsToIndex(sigs, k + 1, h)
    BY <2>3 DEF FoldsToIndex
  <2> QED
    BY <2>4
<1> QED
  BY <1>1, <1>2, NaturalInduction

\* The index is that fold over all of them.
LEMMA IndexRecursion ==
    ASSUME NEW E, NEW sigs \in Seq(E)
    PROVE  \E g : /\ FoldsToIndex(sigs, Len(sigs), g)
                  /\ IndexOf(sigs) = g[1 .. Len(sigs)]
<1> DEFINE n == Len(sigs)
<1>1. n \in Nat /\ DOMAIN sigs = 1..n
  OBVIOUS
<1>2. \E g : FoldsToIndex(sigs, n, g)
  BY <1>1, IndexFoldExists
<1> DEFINE iter == CHOOSE g : FoldsToIndex(sigs, n, g)
<1>3. FoldsToIndex(sigs, n, iter)
  BY <1>2
<1>4. IndexOf(sigs) = iter[1..n]
  BY <1>1 DEF IndexOf, FoldLeft, MapThenFoldSet, FoldsToIndex
<1> QED
  BY <1>3, <1>4

LEMMA IndexIsIndex ==
    ASSUME NEW E, NEW sigs \in Seq(E)
    PROVE  IsIndex(IndexOf(sigs), sigs, Len(sigs))
<1> DEFINE n == Len(sigs)
<1>1. n \in Nat
  OBVIOUS
<1>2. PICK g : FoldsToIndex(sigs, n, g) /\ IndexOf(sigs) = g[1..n]
  BY IndexRecursion
<1> DEFINE S == {k \in Nat : k <= n => IsIndex(g[1..k], sigs, k)}
<1>3. 0 \in S
  <2>1. 1..0 = {} /\ {} \in SUBSET (1..n)
    OBVIOUS
  <2>2. g[1..0] = << >>
    BY <1>2, <2>1 DEF FoldsToIndex
  <2>3. DOMAIN g[1..0] = {} /\ {Selector(sigs[i]) : i \in 1..0} = {}
    BY <2>1, <2>2
  <2> QED
    BY <2>3 DEF IsIndex
<1>4. ASSUME NEW k \in Nat, k \in S
      PROVE  k + 1 \in S
  <2> SUFFICES ASSUME k + 1 <= n PROVE IsIndex(g[1 .. k + 1], sigs, k + 1)
    OBVIOUS
  <2>1. /\ 1 .. k + 1 \in SUBSET (1..n) /\ 1 .. k + 1 # {}
        /\ Max(1 .. k + 1) = k + 1
        /\ (1 .. k + 1) \ {k + 1} = 1..k
    <3> HIDE DEF n
    <3> QED
      BY <1>1, Prefix
  <2>2. g[1 .. k + 1] = AddSig(g[1..k], sigs[k + 1])
    BY <1>2, <2>1 DEF FoldsToIndex
  <2>3. IsIndex(g[1..k], sigs, k)
    BY <1>4, <1>1
  <2> QED
    BY <2>2, <2>3, IndexGrows
<1>5. n \in S
  <2> HIDE DEF S, n
  <2> QED
    BY <1>1, <1>3, <1>4, NaturalInduction
<1> QED
  BY <1>1, <1>2, <1>5

(* The index has the first signature with real names for every selector,   *)
(* or the first one when all are bare, in whatever order how many          *)
(* signatures and ABIs are loaded (calldata.py:61-72).                     *)
THEOREM FirstRealAlwaysWins ==
    ASSUME NEW E, NEW sigs \in Seq(E)
    PROVE  FirstRealWins(sigs)
<1> DEFINE index == IndexOf(sigs)
           N == Len(sigs)
<1>1. N \in Nat /\ DOMAIN sigs = 1..N
  OBVIOUS
<1>2. IsIndex(index, sigs, N)
  BY IndexIsIndex
<1> HIDE DEF index, N
<1>3. ASSUME NEW n \in DOMAIN sigs
      PROVE  LET same == {i \in DOMAIN sigs : Selector(sigs[i]) = Selector(sigs[n])}
                 real == {i \in same : ~IsBare(sigs[i])}
             IN  index[Selector(sigs[n])] =
                   sigs[CHOOSE i \in IF real = {} THEN same ELSE real :
                            \A j \in IF real = {} THEN same ELSE real : i <= j]
  <2> DEFINE s == Selector(sigs[n])
             same == {i \in DOMAIN sigs : Selector(sigs[i]) = s}
             real == {i \in same : ~IsBare(sigs[i])}
             from == IF real = {} THEN same ELSE real
  <2>1. PICK i \in 1..N :
          /\ index[s] = sigs[i] /\ Selector(sigs[i]) = s
          /\ \A j \in 1..N : Selector(sigs[j]) = s =>
               IF IsBare(sigs[i]) THEN IsBare(sigs[j]) /\ i <= j
               ELSE IsBare(sigs[j]) \/ i <= j
    BY <1>1, <1>2 DEF IsIndex
  <2>2. i \in from /\ \A j \in from : i <= j
    <3>1. CASE IsBare(sigs[i])
      <4>1. real = {}
        BY <1>1, <2>1, <3>1
      <4> QED
        BY <1>1, <2>1, <3>1, <4>1
    <3>2. CASE ~IsBare(sigs[i])
      <4>1. i \in real
        BY <1>1, <2>1, <3>2
      <4> QED
        BY <1>1, <2>1, <3>2, <4>1
    <3> QED
      BY <3>1, <3>2
  <2>3. from \subseteq 1..N
    BY <1>1
  <2> HIDE DEF from
  <2>4. \A k \in from : (\A j \in from : k <= j) => k = i
    <3>1. ASSUME NEW k \in from, \A j \in from : k <= j PROVE k = i
      <4>1. k <= i /\ i <= k /\ k \in Nat /\ i \in Nat
        BY <2>2, <2>3, <3>1
      <4> QED
        BY <4>1
    <3> QED
      BY <3>1
  <2>5. (CHOOSE k \in from : \A j \in from : k <= j) = i
    BY <2>2, <2>4
  <2>6. index[s] = sigs[CHOOSE k \in from : \A j \in from : k <= j]
    BY <2>1, <2>5
  <2> QED
    BY <2>6 DEF from
<1> QED
  BY <1>3 DEF FirstRealWins, index
==============================================================================
