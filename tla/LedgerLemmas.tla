---------------------------- MODULE LedgerLemmas -----------------------------
(***************************************************************************)
(* Facts about stores, lists of votes and thresholds that the proofs about *)
(* the ledger's modules rest on.                                           *)
(***************************************************************************)
EXTENDS KVStore, TrusteeVoting, FiniteSetTheorems, TLAPS

\* Put keeps the type of a store.
LEMMA PutIsStore ==
  ASSUME NEW f, NEW K, NEW V, IsStore(f, K, V), NEW k \in K, NEW v \in V
  PROVE  IsStore(Put(f, k, v), K, V)
BY DEF Put, IsStore

\* Delete keeps the type of a store.
LEMMA DeleteIsStore ==
  ASSUME NEW f, NEW K, NEW V, IsStore(f, K, V), NEW k
  PROVE  IsStore(Delete(f, k), K, V)
BY DEF Delete, IsStore

\* The empty store has every type.
LEMMA EmptyIsStore ==
  ASSUME NEW K, NEW V
  PROVE  IsStore(EmptyStore, K, V) /\ DOMAIN EmptyStore = {}
BY DEF EmptyStore, IsStore

\* A vote appended to a list adds its voter and nobody else.
LEMMA AppendVoters ==
  ASSUME NEW A, NEW s \in Seq(A), NEW e \in A
  PROVE  /\ Append(s, e) \in Seq(A)
         /\ Len(Append(s, e)) = Len(s) + 1
         /\ Voters(Append(s, e)) = Voters(s) \cup {e}
<1>1. /\ Append(s, e) \in Seq(A)
      /\ Len(Append(s, e)) = Len(s) + 1
  OBVIOUS
<1>2. /\ \A i \in 1..Len(s) : Append(s, e)[i] = s[i]
      /\ Append(s, e)[Len(s) + 1] = e
      /\ DOMAIN Append(s, e) = 1..(Len(s) + 1)
      /\ DOMAIN s = 1..Len(s)
      /\ Len(s) \in Nat
  OBVIOUS
<1>3. Voters(Append(s, e)) \subseteq Voters(s) \cup {e}
  BY <1>2 DEF Voters, Range
<1>4. Voters(s) \cup {e} \subseteq Voters(Append(s, e))
  BY <1>2 DEF Voters, Range
<1>5. QED
  BY <1>1, <1>3, <1>4

\* A list without repetitions has none after the vote of somebody new.
LEMMA AppendNoRepeats ==
  ASSUME NEW A, NEW s \in Seq(A), NEW e \in A, NoRepeats(s), e \notin Voters(s)
  PROVE  NoRepeats(Append(s, e))
<1>1. /\ \A i \in 1..Len(s) : Append(s, e)[i] = s[i] /\ s[i] # e
      /\ Append(s, e)[Len(s) + 1] = e
      /\ DOMAIN Append(s, e) = 1..(Len(s) + 1)
      /\ DOMAIN s = 1..Len(s)
      /\ Len(s) \in Nat
  BY DEF Voters, Range
<1>2. QED
  BY <1>1 DEF NoRepeats

\* The list of the first vote.
LEMMA FirstVote ==
  ASSUME NEW A, NEW e \in A
  PROVE  /\ <<e>> \in Seq(A) /\ Len(<<e>>) = 1
         /\ NoRepeats(<<e>>)
         /\ Voters(<<e>>) = {e}
         /\ NoRepeats(<<>>)
         /\ Voters(<<>>) = {}
         /\ <<>> \in Seq(A)
BY DEF NoRepeats, Voters, Range

\* A list has no more voters than entries, and as many when nobody voted
\* twice.
LEMMA CountVoters ==
  ASSUME NEW A, NEW s \in Seq(A)
  PROVE  /\ IsFiniteSet(Voters(s))
         /\ Cardinality(Voters(s)) \in Nat
         /\ Cardinality(Voters(s)) <= Len(s)
         /\ NoRepeats(s) => Cardinality(Voters(s)) = Len(s)
<1>1. /\ IsFiniteSet(1..Len(s))
      /\ Cardinality(1..Len(s)) = Len(s)
  <2>1. Len(s) \in Nat /\ Len(s) \in Int /\ 1 \in Int
    OBVIOUS
  <2>2. /\ IsFiniteSet(1..Len(s))
        /\ Cardinality(1..Len(s)) = IF 1 > Len(s) THEN 0 ELSE Len(s) - 1 + 1
    BY <2>1, FS_Interval, Zenon
  <2>3. QED
    BY <2>1, <2>2
<1>2. s \in Surjection(1..Len(s), Voters(s))
  BY DEF Voters, Range, Surjection
<1>3. NoRepeats(s) => s \in Injection(1..Len(s), Voters(s))
  BY DEF Voters, Range, NoRepeats, Injection, IsInjective
<1>4. /\ IsFiniteSet(Voters(s))
      /\ Cardinality(Voters(s)) <= Len(s)
      /\ NoRepeats(s) => Cardinality(Voters(s)) = Len(s)
  BY <1>1, <1>2, <1>3, FS_Surjection
<1>5. QED
  BY <1>4, FS_CardinalityType

\* The shares of n Trustees for the two percentages of x/dclauth are numbers
\* between 0 and n, and the share for Vendors is not the larger one.
LEMMA ApprovalShares ==
  ASSUME NEW n \in Nat
  PROVE  /\ RoundedShare(66, n) \in Nat /\ RoundedShare(33, n) \in Nat
         /\ RoundedShare(66, n) <= n
         /\ RoundedShare(33, n) <= RoundedShare(66, n)
BY DEF RoundedShare

\* The places of a list that another one is appended to.
LEMMA ConcatPlaces ==
  ASSUME NEW A, NEW s \in Seq(A), NEW t \in Seq(A)
  PROVE  /\ s \o t \in Seq(A) /\ DOMAIN (s \o t) = 1..(Len(s) + Len(t))
         /\ Len(s) \in Nat /\ Len(t) \in Nat
         /\ DOMAIN s = 1..Len(s) /\ DOMAIN t = 1..Len(t)
         /\ \A i \in 1..Len(s) : (s \o t)[i] = s[i]
         /\ \A i \in (Len(s) + 1)..(Len(s) + Len(t)) : (s \o t)[i] = t[i - Len(s)]
OBVIOUS

\* A list that one place is cut from: what is behind it moves up by one.
CutFrom(rest, list, first) ==
  /\ Len(rest) = Len(list) - 1
  /\ \A i \in DOMAIN rest : rest[i] = IF i < first THEN list[i] ELSE list[i + 1]

\* The part before a place and the part behind it, together.
LEMMA JoinPlaces ==
  ASSUME NEW A, NEW list \in Seq(A), NEW first \in 1..Len(list),
         NEW a \in Seq(A), NEW b \in Seq(A), NEW rest \in Seq(A), Len(rest) = Len(a) + Len(b),
         Len(a) = first - 1, Len(b) = Len(list) - first,
         \A i \in 1..Len(a) : rest[i] = a[i],
         \A i \in (Len(a) + 1)..(Len(a) + Len(b)) : rest[i] = b[i - Len(a)],
         \A i \in 1..(first - 1) : a[i] = list[i],
         \A i \in 1..(Len(list) - first) : b[i] = list[first + i]
  PROVE  CutFrom(rest, list, first)
<1>1. Len(list) \in Nat /\ first \in Nat /\ Len(rest) = Len(list) - 1
  OBVIOUS
<1>2. ASSUME NEW i \in DOMAIN rest
      PROVE  rest[i] = IF i < first THEN list[i] ELSE list[i + 1]
  <2>1. i \in Nat /\ i \in 1..(Len(list) - 1) /\ Len(a) \in Nat /\ Len(b) \in Nat
    BY <1>1
  <2>2. CASE i < first
    <3>1. i \in 1..(first - 1) /\ i \in 1..Len(a)
      BY <1>1, <2>1, <2>2
    <3>2. QED
      BY <2>2, <3>1, Zenon
  <2>3. CASE ~(i < first)
    <3>1. /\ i - Len(a) \in 1..(Len(list) - first) /\ first + (i - Len(a)) = i + 1
          /\ i \in (Len(a) + 1)..(Len(a) + Len(b))
      <4>1. i >= first /\ i <= Len(list) - 1
        BY <1>1, <2>1, <2>3
      <4>2. \A n, f, l, x, y \in Nat :
              x = f - 1 /\ y = l - f /\ n >= f /\ n <= l - 1
                => n - x \in 1..(l - f) /\ f + (n - x) = n + 1 /\ n \in (x + 1)..(x + y)
        OBVIOUS
      <4>3. QED
        BY <1>1, <2>1, <4>1, <4>2, Zenon
    <3>2. b[i - Len(a)] = list[first + (i - Len(a))]
      BY <3>1, Zenon
    <3>3. QED
      BY <2>3, <3>1, <3>2, Zenon
  <2>4. QED
    BY <2>2, <2>3, Zenon
<1>3. QED
  BY <1>1, <1>2, Zenon DEF CutFrom

\* What the handlers store when they cut a place from a list.
LEMMA CutPlaces ==
  ASSUME NEW A, NEW list \in Seq(A), NEW first \in 1..Len(list), NEW rest,
         rest = SubSeq(list, 1, first - 1) \o SubSeq(list, first + 1, Len(list))
  PROVE  rest \in Seq(A) /\ CutFrom(rest, list, first)
<1>1. /\ SubSeq(list, 1, first - 1) \in Seq(A) /\ Len(SubSeq(list, 1, first - 1)) = first - 1
      /\ \A i \in 1..(first - 1) : SubSeq(list, 1, first - 1)[i] = list[i]
  OBVIOUS
<1>2. /\ SubSeq(list, first + 1, Len(list)) \in Seq(A)
      /\ Len(SubSeq(list, first + 1, Len(list))) = Len(list) - first
      /\ \A i \in 1..(Len(list) - first) : SubSeq(list, first + 1, Len(list))[i] = list[first + i]
  BY SMTT(60)
<1>3. PICK a \in Seq(A), b \in Seq(A) :
        /\ rest = a \o b /\ Len(a) = first - 1 /\ Len(b) = Len(list) - first
        /\ \A i \in 1..(first - 1) : a[i] = list[i]
        /\ \A i \in 1..(Len(list) - first) : b[i] = list[first + i]
  BY <1>1, <1>2, Zenon
<1>4. Len(a \o b) = Len(a) + Len(b)
  OBVIOUS
<1>5. /\ a \o b \in Seq(A)
      /\ \A i \in 1..Len(a) : (a \o b)[i] = a[i]
      /\ \A i \in (Len(a) + 1)..(Len(a) + Len(b)) : (a \o b)[i] = b[i - Len(a)]
  BY ConcatPlaces, Zenon
<1>6. CutFrom(a \o b, list, first)
  BY <1>3, <1>4, <1>5, JoinPlaces, ZenonT(60)
<1>7. QED
  BY <1>3, <1>5, <1>6, Zenon
=============================================================================
