---------------------------- MODULE TraceProofs ----------------------------
(***************************************************************************)
(* Proofs about the constructor of Trace, for every file of the tracer's   *)
(* and every length of a cache line.                                       *)
(***************************************************************************)
EXTENDS TraceInvariants, BasicLemmas, FiniteSetTheorems, SequenceTheorems

-----------------------------------------------------------------------------
(* The file, and what is read of it                                        *)

\* What is read ends before the first "E".
LEMMA UpToEndIsSane ==
  ASSUME NEW f, Sane(f), OfType(f, "E") # {}
  PROVE  LET r == UpToEnd(f) IN
         /\ r \in Seq(Recs) /\ Len(r) < Len(f) /\ f[Len(r) + 1].type = "E"
         /\ \A i \in 1 .. Len(r) : i \in DOMAIN f /\ r[i] = f[i] /\ f[i].type # "E"
<1> DEFINE ends == OfType(f, "E")
           e == Min(ends)
           r == UpToEnd(f)
<1>1. f \in Seq(Recs) /\ DOMAIN f = 1 .. Len(f) /\ Len(f) \in Nat
  BY DEF Sane
<1>2. ends \subseteq Nat /\ ends \subseteq 1 .. Len(f)
  BY <1>1 DEF OfType
<1>3. e \in ends /\ \A x \in ends : e <= x
  BY <1>2, LeastOfNats
<1>4. r = SubSeq(f, 1, e - 1)
  BY DEF UpToEnd
<1>5. e \in 1 .. Len(f) /\ \A i \in DOMAIN f : i < e => f[i].type # "E"
  <2>1. e \in 1 .. Len(f)
    BY <1>2, <1>3
  <2>2. ASSUME NEW i \in DOMAIN f, i < e PROVE f[i].type # "E"
    <3>1. i \notin ends
      BY <1>1, <1>3, <2>1, <2>2
    <3> QED BY <3>1 DEF OfType
  <2> QED BY <2>1, <2>2
<1> HIDE DEF e, ends, r
<1>6. /\ r \in Seq(Recs) /\ Len(r) = e - 1
      /\ \A i \in 1 .. e - 1 : r[i] = f[i]
  <2>1. \A i \in 1 .. e - 1 : f[i] \in Recs
    BY <1>1, <1>5, ElementOfSeq
  <2>2. 1 \in Int /\ e - 1 \in Int /\ 1 <= (e - 1) + 1
    BY <1>1, <1>5
  <2>3. IF 1 <= e - 1 THEN Len(r) = e - 1 - 1 + 1 ELSE Len(r) = 0
    BY <1>4, <2>1, <2>2, SubSeqProperties
  <2> QED BY <1>1, <1>4, <1>5, <2>1, <2>2, SubSeqProperties
<1>7. f[Len(r) + 1].type = "E"
  <2>1. Len(r) + 1 = e
    BY <1>5, <1>6
  <2> QED BY <1>3, <2>1 DEF ends, OfType
<1> QED BY <1>1, <1>5, <1>6, <1>7 DEF r

\* What is read is a sane file without "E", of which Blocks are the blocks.
LEMMA ReadIsSane ==
  ASSUME ParseInv
  PROVE  /\ Read \in Seq(Recs) /\ Len(Read) \in Nat /\ DOMAIN Read = 1 .. Len(Read)
         /\ \A i \in 1 .. Len(Read) :
              /\ Read[i] \in Recs /\ Read[i].type \in {"M", "F", "R", "W"}
              /\ Read[i].arg1 \in Nat /\ Read[i].arg2 \in Nat
         /\ Blocks \subseteq 1 .. Len(Read) /\ IsFiniteSet(Blocks)
         /\ \A i \in Blocks : Read[i].arg1 <= Read[i].arg2
         /\ DOMAIN events = DOMAIN Read /\ Len(events) = Len(Read)
<1>1. CASE events = <<>>
  <2>1. Read = <<>> /\ Blocks = {}
    BY <1>1 DEF Read, Blocks, OfType
  <2>2. DOMAIN events = {} /\ Len(events) = 0
    BY <1>1
  <2> QED BY <2>1, <2>2, FS_EmptySet
<1>2. CASE events # <<>>
  <2>1. Read = UpToEnd(file) /\ Sane(file) /\ OfType(file, "E") # {}
    BY <1>2 DEF ParseInv, Read
  <2>2. /\ Read \in Seq(Recs)
        /\ \A i \in 1 .. Len(Read) : i \in DOMAIN file /\ Read[i] = file[i] /\ file[i].type # "E"
    BY <2>1, UpToEndIsSane
  <2>3. Len(Read) \in Nat /\ DOMAIN Read = 1 .. Len(Read) /\ \A i \in 1 .. Len(Read) : Read[i] \in Recs
    BY <2>2, LenProperties, ElementOfSeq
  <2>4. \A i \in 1 .. Len(Read) : /\ Read[i].type \in {"M", "F", "R", "W"}
                                  /\ Read[i].arg1 \in Nat /\ Read[i].arg2 \in Nat
    BY <2>2, <2>3 DEF Recs
  <2>5. Blocks \subseteq 1 .. Len(Read) /\ \A i \in Blocks : Read[i].arg1 <= Read[i].arg2
    BY <2>1, <2>2, <2>3 DEF Blocks, OfType, Sane
  <2>6. IsFiniteSet(Blocks)
    <3>1. IsFiniteSet(1 .. Len(Read))
      BY <2>3, FS_Interval
    <3> QED BY <2>5, <3>1, FS_Subset
  <2>7. DOMAIN events = DOMAIN Read /\ Len(events) = Len(Read)
    <3>1. CASE phase = "done"
      BY <2>3, <3>1 DEF ParseInv
    <3>2. CASE phase # "done"
      BY <3>2 DEF ParseInv
    <3> QED BY <3>1, <3>2
  <2> QED BY <2>2, <2>3, <2>4, <2>5, <2>6, <2>7
<1> QED BY <1>1, <1>2

-----------------------------------------------------------------------------
(* The layout                                                              *)

\* Padding keeps the place in the line, and the line if that is the same.
LEMMA PaddingFits ==
  ASSUME lastEndO \in Nat, maxAddress \in Nat, maxAddress % CacheLine = lastEndO % CacheLine,
         NEW b \in Nat, lastEndO <= b
  PROVE  LET off == maxAddress + Padding(b) IN
         /\ Padding(b) \in Nat /\ (lastEndO < b => Padding(b) > 0)
         /\ (lastEndO = b => Padding(b) = 0)
         /\ off % CacheLine = b % CacheLine
         /\ Line(off) = Line(maxAddress) + (IF Line(b) = Line(lastEndO) THEN 0 ELSE 1)
<1> DEFINE n == CacheLine
           e == lastEndO
           m == maxAddress
           p == Padding(b)
<1>0. /\ n \in Nat \ {0} /\ e \in Nat /\ m \in Nat /\ m % n = e % n /\ e <= b
      /\ p = IF b % n >= e % n /\ b - e < n THEN b - e ELSE n + (b % n) - (e % n)
  BY CacheLineAssumption DEF Padding
<1> HIDE DEF n, e, m, p
<1> SUFFICES /\ p \in Nat /\ (e < b => p > 0) /\ (e = b => p = 0)
             /\ (m + p) % n = b % n
             /\ (m + p) \div n = (m \div n) + (IF b \div n = e \div n THEN 0 ELSE 1)
  BY DEF n, e, m, p, Line
<1>1. /\ b % n \in 0 .. n - 1 /\ e % n \in 0 .. n - 1
      /\ b = n * (b \div n) + (b % n) /\ e = n * (e \div n) + (e % n)
      /\ b \div n \in Nat /\ e \div n \in Nat /\ m \div n \in Nat
  BY <1>0, DivMod
<1>2. CASE b % n >= e % n /\ b - e < n
  <2>1. p = b - e /\ p \in Nat
    BY <1>0, <1>2
  <2>2. b \div n = e \div n
    BY <1>0, <1>2, SameMultiple
  <2>3. /\ (e + p) % n = (m + p) % n
        /\ ((e + p) \div n) - (e \div n) = ((m + p) \div n) - (m \div n)
    <3>1. e % n = m % n
      BY <1>0
    <3>2. ASSUME NEW d \in Nat
          PROVE  /\ (e + d) % n = (m + d) % n
                 /\ ((e + d) \div n) - (e \div n) = ((m + d) \div n) - (m \div n)
      BY <1>0, <3>1, ShiftAlike
    <3> QED BY <2>1, <3>2
  <2>4. e + p = b
    BY <1>0, <2>1
  <2>5. (m + p) \div n \in Nat
    <3>1. m + p \in Nat
      BY <1>0, <2>1
    <3> QED BY <1>0, <3>1, DivMod
  <2>6. (m + p) \div n = m \div n
    <3>1. (b \div n) - (e \div n) = ((m + p) \div n) - (m \div n)
      BY <2>3, <2>4
    <3> QED BY <1>1, <2>2, <2>5, <3>1
  <2>7. (m + p) % n = b % n
    BY <2>3, <2>4
  <2>8. (e < b => p > 0) /\ (e = b => p = 0)
    BY <1>0, <2>1
  <2>9. (m + p) \div n = (m \div n) + 0
    BY <1>1, <2>6
  <2> QED BY <2>1, <2>2, <2>7, <2>8, <2>9
<1>3. CASE ~(b % n >= e % n /\ b - e < n)
  <2>1. p = n + (b % n) - (e % n) /\ p \in Nat /\ p > 0
    BY <1>0, <1>1, <1>3
  <2>2. b \div n # e \div n
    <3> SUFFICES ASSUME b \div n = e \div n PROVE FALSE
      OBVIOUS
    <3>1. b - e = (b % n) - (e % n)
      <4> DEFINE q == n * (b \div n)
      <4>1. b = q + (b % n) /\ e = q + (e % n) /\ q \in Int
        BY <1>0, <1>1
      <4> HIDE DEF q
      <4> QED BY <1>0, <1>1, <4>1
    <3> QED BY <1>0, <1>1, <1>3, <3>1
  <2>3. m + p = m - (m % n) + n + (b % n)
    BY <1>0, <1>1, <2>1
  <2>4. (m + p) \div n = (m \div n) + 1 /\ (m + p) % n = b % n
    <3>1. \A r \in 0 .. n - 1 :
            /\ (m - (m % n) + n + r) \div n = (m \div n) + 1
            /\ (m - (m % n) + n + r) % n = r
      BY <1>0, NextMultiple
    <3>2. /\ (m - (m % n) + n + (b % n)) \div n = (m \div n) + 1
          /\ (m - (m % n) + n + (b % n)) % n = b % n
      BY <1>1, <3>1
    <3> QED BY <2>3, <3>2
  <2>5. e # b
    BY <2>2
  <2>6. IF b \div n = e \div n THEN FALSE ELSE (m + p) \div n = (m \div n) + 1
    BY <2>2, <2>4
  <2> QED BY <2>1, <2>4, <2>5, <2>6
<1> QED BY <1>2, <1>3

\* Between two addresses there is one on each line in between.
LEMMA LineBetween ==
  \A lo, hi \in Nat : lo <= hi =>
    \A l \in Line(lo) .. Line(hi) : \E v \in lo .. hi : Line(v) = l
<1> SUFFICES ASSUME NEW n \in Nat \ {0}, NEW lo \in Nat, NEW hi \in Nat, lo <= hi,
                    NEW l \in lo \div n .. hi \div n
             PROVE  \E v \in lo .. hi : v \div n = l
  BY CacheLineAssumption DEF Line
<1>1. /\ lo \div n \in Nat /\ hi \div n \in Nat /\ hi % n \in 0 .. n - 1
      /\ hi = n * (hi \div n) + (hi % n)
  BY DivMod
<1>2. CASE l = lo \div n
  BY <1>2
<1>3. CASE l # lo \div n
  <2> DEFINE v == n * l
  <2>1. l \in Nat /\ l > lo \div n /\ l <= hi \div n
    BY <1>1, <1>3
  <2>2. v \in Nat /\ v <= n * (hi \div n)
    BY <1>1, <2>1
  <2>3. v = n * l + 0 /\ 0 \in 0 .. n - 1
    BY <2>2
  <2>4. v \div n = l
    BY <2>1, <2>2, <2>3, QuotientUnique
  <2>5. v <= hi
    <3> HIDE DEF v
    <3> DEFINE w == n * (hi \div n)
    <3>1. w \in Int /\ hi = w + (hi % n) /\ v <= w
      BY <1>1, <2>2
    <3> HIDE DEF w
    <3> QED BY <1>1, <2>2, <3>1
  <2>6. ~(v <= lo)
    <3> SUFFICES ASSUME v <= lo PROVE FALSE
      OBVIOUS
    <3> HIDE DEF v
    <3>1. v \div n <= lo \div n
      BY <2>2, QuotientMonotone
    <3> QED BY <1>1, <2>1, <2>4, <3>1
  <2>7. v \in lo .. hi
    <3> HIDE DEF v
    <3> QED BY <2>2, <2>5, <2>6
  <2> QED BY <2>4, <2>7
<1> QED BY <1>2, <1>3

\* An address in a region is in no other.
LEMMA RegionIsOne ==
  ASSUME MergedInv, NEW b \in DOMAIN merged, NEW a \in b .. merged[b]
  PROVE  RegionOf(a) = b /\ InRegion(a) /\ a \in Nat
<1> DEFINE S == {c \in DOMAIN merged : c <= a /\ a <= merged[c]}
<1>1. \A c \in DOMAIN merged : c \in Nat /\ merged[c] \in Nat
  BY DEF MergedInv
<1>2. b \in S /\ a \in Nat
  BY <1>1
<1>3. ASSUME NEW c \in S PROVE c = b
  <2>1. c \in Nat /\ merged[c] \in Nat /\ merged[b] \in Nat /\ c <= a /\ a <= merged[c]
    BY <1>1
  <2>2. ~(c < b)
    BY <1>1, <1>2, <2>1 DEF MergedInv
  <2>3. ~(b < c)
    BY <1>1, <1>2, <2>1 DEF MergedInv
  <2> QED BY <1>1, <2>1, <2>2, <2>3
<1>4. S = {b}
  BY <1>2, <1>3
<1>5. Min({b}) = b
  BY <1>1, LeastOfNats
<1> QED BY <1>2, <1>4, <1>5 DEF RegionOf, InRegion

\* The addresses placed, and where they are.
LEMMA PlacedAre ==
  ASSUME MergedInv, LayoutInv, PlacedInv
  PROVE  /\ \A b \in DOMAIN offsets : \A a \in b .. merged[b] :
              a \in Placed /\ RemapAddress(a) = a - b + offsets[b]
         /\ \A a \in Placed : /\ a \in Nat /\ RemapAddress(a) \in Nat
                              /\ \E b \in DOMAIN offsets : a \in b .. merged[b]
<1>1. \A b \in DOMAIN offsets : b \in DOMAIN merged /\ offsets[b] \in Nat
  BY DEF LayoutInv, PlacedInv
<1>2. ASSUME NEW b \in DOMAIN offsets, NEW a \in b .. merged[b]
      PROVE  /\ a \in Placed /\ a \in Nat
             /\ RemapAddress(a) = a - b + offsets[b] /\ RemapAddress(a) \in Nat
  <2>1. b \in DOMAIN merged
    BY <1>1
  <2>2. RegionOf(a) = b /\ a \in Nat
    BY <2>1, RegionIsOne
  <2>3. RemapAddress(a) = a - b + offsets[b]
    BY <2>2 DEF RemapAddress
  <2>4. b \in Nat /\ offsets[b] \in Nat /\ b <= a
    BY <1>1, <2>1, <2>2 DEF MergedInv
  <2> QED BY <2>2, <2>3, <2>4 DEF Placed
<1>3. \A a \in Placed : \E b \in DOMAIN offsets : a \in b .. merged[b]
  BY DEF Placed
<1> QED BY <1>2, <1>3

\* The next region is put behind what was placed, at its place in a line, and on
\* the same line or the next.
LEMMA LayoutPuts ==
  ASSUME MergedInv, LayoutInv, PlacedInv, LayoutRegion
  PROVE  \E b \in todo, off \in Nat :
           /\ b = Min(todo) /\ \A c \in todo : b <= c
           /\ b \in Nat /\ merged[b] \in Nat /\ b <= merged[b]
           /\ b \in DOMAIN merged /\ b \notin DOMAIN offsets
           /\ offsets' = With(offsets, b, off) /\ todo' = todo \ {b}
           /\ maxAddress' = off + merged[b] - b /\ lastEndO' = merged[b]
           /\ phase = "layout" /\ phase' = "layout" /\ merged' = merged
           /\ lastEndO <= b /\ maxAddress <= off
           /\ off % CacheLine = b % CacheLine
           /\ Line(off) = Line(maxAddress) + (IF Line(b) = Line(lastEndO) THEN 0 ELSE 1)
           /\ DOMAIN offsets # {} => lastEndO < b /\ maxAddress < off
           /\ DOMAIN offsets = {} => Line(off) = 0
<1> DEFINE b == Min(todo)
           p == Padding(b)
           off == maxAddress + p
<1>1. /\ phase = "layout" /\ phase' = "layout" /\ todo # {} /\ merged' = merged
      /\ offsets' = With(offsets, b, off) /\ todo' = todo \ {b}
      /\ maxAddress' = offsets'[b] + merged[b] - b /\ lastEndO' = merged[b]
  BY DEF LayoutRegion, sweepVars
<1>2. /\ todo = DOMAIN merged \ DOMAIN offsets
      /\ \A a \in DOMAIN offsets, c \in todo : a < c
      /\ DOMAIN offsets \subseteq DOMAIN merged
      /\ DOMAIN offsets = {} => lastEndO = b /\ maxAddress = lastEndO % CacheLine
  BY <1>1 DEF LayoutInv
<1>3. \A c \in DOMAIN merged : c \in Nat /\ merged[c] \in Nat /\ c <= merged[c]
  BY DEF MergedInv
<1>4. b \in todo /\ \A c \in todo : b <= c
  <2>1. todo \subseteq Nat
    BY <1>2, <1>3
  <2> QED BY <1>1, <2>1, LeastOfNats
<1>5. b \in Nat /\ b \in DOMAIN merged /\ b \notin DOMAIN offsets
  BY <1>2, <1>3, <1>4
<1>6. lastEndO \in Nat /\ maxAddress \in Nat /\ maxAddress % CacheLine = lastEndO % CacheLine
  BY DEF PlacedInv
<1> HIDE DEF b
<1>7. DOMAIN offsets # {} => lastEndO < b
  <2> SUFFICES ASSUME DOMAIN offsets # {} PROVE lastEndO < b
    OBVIOUS
  <2>1. PICK d \in DOMAIN offsets : lastEndO = merged[d]
    BY DEF PlacedInv
  <2>2. d \in DOMAIN merged /\ d < b
    BY <1>2, <1>4, <2>1
  <2> QED BY <1>5, <2>1, <2>2 DEF MergedInv
<1>8. lastEndO <= b
  <2>1. lastEndO \in Int /\ b \in Int
    BY <1>5, <1>6
  <2> QED BY <1>2, <1>7, <2>1
<1>9. /\ p \in Nat /\ (lastEndO < b => p > 0)
      /\ off % CacheLine = b % CacheLine
      /\ Line(off) = Line(maxAddress) + (IF Line(b) = Line(lastEndO) THEN 0 ELSE 1)
  BY <1>5, <1>6, <1>8, PaddingFits
<1>10. DOMAIN offsets = {} => p = 0
  <2>1. DOMAIN offsets = {} => lastEndO = b
    BY <1>2
  <2> QED BY <1>5, <1>6, <1>8, <2>1, PaddingFits
<1> HIDE DEF p
<1>11. /\ off \in Nat /\ maxAddress <= off
       /\ DOMAIN offsets # {} => maxAddress < off
  BY <1>6, <1>7, <1>9
<1>12. DOMAIN offsets = {} => Line(off) = 0
  <2> SUFFICES ASSUME DOMAIN offsets = {} PROVE Line(off) = 0
    OBVIOUS
  <2>1. off = b % CacheLine
    BY <1>2, <1>6, <1>10, CacheLineAssumption
  <2>2. b % CacheLine \in 0 .. CacheLine - 1
    BY <1>5, CacheLineAssumption, DivMod
  <2>3. ASSUME NEW r \in 0 .. CacheLine - 1 PROVE r \div CacheLine = 0
    <3>1. r \in Nat /\ r = CacheLine * 0 + r
      BY CacheLineAssumption
    <3> QED BY <3>1, QuotientUnique, CacheLineAssumption
  <2> QED BY <2>1, <2>2, <2>3 DEF Line
<1> HIDE DEF off
<1>13. offsets'[b] = off
  <2>1. With(offsets, b, off)[b] = off
    BY DEF With
  <2> QED BY <1>1, <2>1
<1> QED BY <1>1, <1>3, <1>4, <1>5, <1>7, <1>8, <1>9, <1>11, <1>12, <1>13 DEF b

\* What is placed stays where it is; the next region follows as a whole, and
\* takes up lines just as it did.
LEMMA LayoutKeeps ==
  ASSUME MergedInv, LayoutInv, PlacedInv, LayoutRegion
  PROVE  PlacedInv'
<1> DEFINE R(a) == RemapAddress(a)
           S(a) == RemapAddress(a)'
           n == CacheLine
<1>1. PICK b \in todo, off \in Nat :
           /\ b \in Nat /\ merged[b] \in Nat /\ b <= merged[b]
           /\ b \in DOMAIN merged /\ b \notin DOMAIN offsets
           /\ offsets' = With(offsets, b, off)
           /\ maxAddress' = off + merged[b] - b /\ lastEndO' = merged[b]
           /\ merged' = merged
           /\ lastEndO <= b /\ maxAddress <= off
           /\ off % n = b % n
           /\ Line(off) = Line(maxAddress) + (IF Line(b) = Line(lastEndO) THEN 0 ELSE 1)
           /\ DOMAIN offsets # {} => lastEndO < b /\ maxAddress < off
           /\ DOMAIN offsets = {} => Line(off) = 0
  BY LayoutPuts
<1> DEFINE end == merged[b]
           New == b .. end
<1>2. n \in Nat \ {0}
  BY CacheLineAssumption
<1>3. /\ DOMAIN offsets' = DOMAIN offsets \union {b} /\ offsets'[b] = off
      /\ \A c \in DOMAIN offsets : offsets'[c] = offsets[c] /\ c # b
      /\ DOMAIN offsets \subseteq DOMAIN merged
  BY <1>1 DEF With, LayoutInv
<1>4. /\ \A c \in DOMAIN offsets : \A a \in c .. merged[c] :
           a \in Placed /\ R(a) = a - c + offsets[c]
      /\ \A a \in Placed : /\ a \in Nat /\ R(a) \in Nat
                           /\ \E c \in DOMAIN offsets : a \in c .. merged[c]
  BY PlacedAre
<1>5. Placed' = Placed \union New
  BY <1>1, <1>3 DEF Placed
<1>6. ASSUME NEW a \in Placed PROVE S(a) = R(a)
  <2>1. PICK c \in DOMAIN offsets : a \in c .. merged[c]
    BY <1>4
  <2>2. RegionOf(a) = c
    BY <1>3, <2>1, RegionIsOne
  <2>3. RegionOf(a)' = RegionOf(a)
    BY <1>1 DEF RegionOf
  <2>4. S(a) = a - RegionOf(a) + offsets'[RegionOf(a)] /\ R(a) = a - RegionOf(a) + offsets[RegionOf(a)]
    BY <2>3 DEF RemapAddress
  <2> QED BY <1>3, <2>2, <2>4
<1>7. ASSUME NEW a \in New PROVE S(a) = a - b + off /\ a \in Nat /\ a <= end /\ b <= a
  <2>1. RegionOf(a) = b /\ a \in Nat
    BY <1>1, RegionIsOne
  <2>2. RegionOf(a)' = RegionOf(a)
    BY <1>1 DEF RegionOf
  <2>3. S(a) = a - RegionOf(a) + offsets'[RegionOf(a)]
    BY <2>2 DEF RemapAddress
  <2>4. a <= end /\ b <= a
    OBVIOUS
  <2> QED BY <1>3, <2>1, <2>3, <2>4
<1> HIDE DEF R, S, n, end
<1>8. ASSUME NEW a \in New
      PROVE  /\ S(a) \in Nat /\ S(a) % n = a % n /\ off <= S(a) /\ S(a) <= maxAddress'
             /\ Line(S(a)) - Line(off) = Line(a) - Line(b)
  <2>1. /\ b \in Nat /\ end \in Nat /\ off \in Nat /\ a \in Nat /\ b <= a /\ a <= end
        /\ S(a) = a - b + off /\ maxAddress' = off + end - b
    BY <1>1, <1>7 DEF end
  <2>2. S(a) \in Nat /\ off <= S(a) /\ S(a) <= maxAddress'
    BY <2>1
  <2> DEFINE d == a - b
  <2>3. d \in Nat /\ b + d = a /\ off + d = S(a)
    BY <2>1
  <2> HIDE DEF d
  <2>4. off % n = b % n
    BY <1>1
  <2>5. /\ (off + d) % n = (b + d) % n
        /\ ((off + d) \div n) - (off \div n) = ((b + d) \div n) - (b \div n)
    <3>1. ASSUME NEW x \in Nat, NEW y \in Nat, NEW z \in Nat, x % n = y % n
          PROVE  /\ (x + z) % n = (y + z) % n
                 /\ ((x + z) \div n) - (x \div n) = ((y + z) \div n) - (y \div n)
      BY <1>2, <3>1, ShiftAlike
    <3> QED BY <1>1, <2>3, <2>4, <3>1
  <2>6. S(a) % n = a % n /\ (S(a) \div n) - (off \div n) = (a \div n) - (b \div n)
    BY <2>3, <2>5
  <2> QED BY <2>2, <2>6 DEF Line, n
<1>9. \A x, y \in Nat : Line(x) \in Nat /\ (x <= y => Line(x) <= Line(y))
  BY <1>2, DivMod, QuotientMonotone DEF Line, n
<1>10. lastEndO \in Nat /\ maxAddress \in Nat /\ end \in Nat /\ maxAddress' \in Nat
  BY <1>1 DEF PlacedInv, end
<1>11. \A a \in Placed : /\ a <= lastEndO /\ R(a) <= maxAddress /\ R(a) % n = a % n
                         /\ Line(R(a)) = Line(maxAddress) <=> Line(a) = Line(lastEndO)
  BY DEF PlacedInv, LinesKept, R, n
\* Across the gap.
<1>12. ASSUME NEW x \in Placed, NEW y \in New
       PROVE  /\ x < y /\ R(x) < S(y)
              /\ Line(R(x)) = Line(S(y)) <=> Line(x) = Line(y)
  <2>1. x \in Nat /\ R(x) \in Nat /\ y \in Nat /\ S(y) \in Nat
    BY <1>4, <1>7, <1>8
  <2>2. DOMAIN offsets # {}
    BY <1>4
  <2>3. x <= lastEndO /\ lastEndO < b /\ b <= y
    BY <1>1, <1>7, <1>11, <2>2
  <2>4. R(x) <= maxAddress /\ maxAddress < off /\ off <= S(y)
    BY <1>1, <1>8, <1>11, <2>2
  <2>5. /\ Line(x) <= Line(lastEndO) /\ Line(lastEndO) <= Line(b) /\ Line(b) <= Line(y)
        /\ Line(R(x)) <= Line(maxAddress)
        /\ {Line(x), Line(lastEndO), Line(b), Line(y), Line(R(x)), Line(maxAddress),
            Line(off), Line(S(y))} \subseteq Nat
    BY <1>1, <1>9, <1>10, <2>1, <2>3, <2>4
  <2>6. /\ Line(R(x)) = Line(maxAddress) <=> Line(x) = Line(lastEndO)
        /\ Line(off) = Line(maxAddress) + (IF Line(b) = Line(lastEndO) THEN 0 ELSE 1)
        /\ Line(S(y)) - Line(off) = Line(y) - Line(b)
    BY <1>1, <1>8, <1>11
  <2>7. x < y /\ R(x) < S(y)
    BY <1>1, <1>10, <2>1, <2>3, <2>4
  <2>8. Line(R(x)) = Line(S(y)) <=> Line(x) = Line(y)
    BY <2>5, <2>6
  <2> QED BY <2>7, <2>8
<1>13. end \in New /\ b \in New /\ S(end) = maxAddress' /\ S(b) = off
  <2>1. end \in New /\ b \in New
    BY <1>1 DEF end
  <2>2. S(end) = end - b + off /\ S(b) = b - b + off
    BY <1>7, <2>1
  <2>3. maxAddress' = off + end - b
    BY <1>1 DEF end
  <2> QED BY <1>1, <1>10, <2>1, <2>2, <2>3
<1>14. \A a \in Placed' :
         /\ a <= lastEndO' /\ S(a) <= maxAddress'
         /\ Line(S(a)) = Line(maxAddress') <=> Line(a) = Line(lastEndO')
  <2>1. lastEndO' = end
    BY <1>1 DEF end
  <2>2. ASSUME NEW a \in Placed
        PROVE  /\ a <= end /\ S(a) <= maxAddress'
               /\ Line(S(a)) = Line(maxAddress') <=> Line(a) = Line(end)
    <3>1. a < end /\ R(a) < S(end) /\ (Line(R(a)) = Line(S(end)) <=> Line(a) = Line(end))
      BY <1>12, <1>13
    <3>2. a \in Nat /\ R(a) \in Nat
      BY <1>4
    <3> QED BY <1>6, <1>10, <1>13, <3>1, <3>2
  <2>3. ASSUME NEW a \in New
        PROVE  /\ a <= end /\ S(a) <= maxAddress'
               /\ Line(S(a)) = Line(maxAddress') <=> Line(a) = Line(end)
    <3>1. /\ Line(S(a)) - Line(off) = Line(a) - Line(b)
          /\ Line(S(end)) - Line(off) = Line(end) - Line(b)
      BY <1>8, <1>13
    <3>2. {Line(S(a)), Line(S(end)), Line(off), Line(a), Line(end), Line(b)} \subseteq Nat
      BY <1>1, <1>7, <1>8, <1>9, <1>10, <1>13
    <3>3. Line(S(a)) = Line(S(end)) <=> Line(a) = Line(end)
      BY <3>1, <3>2
    <3> QED BY <1>7, <1>8, <1>13, <3>3
  <2> QED BY <1>5, <2>1, <2>2, <2>3
<1>15. LinesKept'
  <2>1. /\ \A x, y \in Placed : x < y => R(x) < R(y)
        /\ \A x, y \in Placed : Line(R(x)) = Line(R(y)) <=> Line(x) = Line(y)
    BY DEF PlacedInv, LinesKept, R
  <2>2. ASSUME NEW x \in New, NEW y \in New
        PROVE  (x < y => S(x) < S(y)) /\ (Line(S(x)) = Line(S(y)) <=> Line(x) = Line(y))
    <3>1. S(x) = x - b + off /\ S(y) = y - b + off /\ x \in Nat /\ y \in Nat
      BY <1>7
    <3>2. /\ Line(S(x)) - Line(off) = Line(x) - Line(b)
          /\ Line(S(y)) - Line(off) = Line(y) - Line(b)
          /\ S(x) \in Nat /\ S(y) \in Nat
      BY <1>8
    <3>3. {Line(S(x)), Line(S(y)), Line(off), Line(x), Line(y), Line(b)} \subseteq Nat
      BY <1>1, <1>9, <3>1, <3>2
    <3>4. Line(S(x)) = Line(S(y)) <=> Line(x) = Line(y)
      BY <3>2, <3>3
    <3>5. x < y => S(x) < S(y)
      BY <1>1, <3>1
    <3> QED BY <3>4, <3>5
  <2>3. ASSUME NEW x \in Placed', NEW y \in Placed'
        PROVE  (x < y => S(x) < S(y)) /\ (Line(S(x)) = Line(S(y)) <=> Line(x) = Line(y))
    <3>1. CASE x \in Placed /\ y \in Placed
      BY <1>6, <2>1, <3>1
    <3>2. CASE x \in New /\ y \in New
      BY <2>2, <3>2
    <3>3. CASE x \in Placed /\ y \in New
      BY <1>6, <1>12, <3>3
    <3>4. CASE x \in New /\ y \in Placed
      <4>1. y < x /\ R(y) < S(x) /\ (Line(R(y)) = Line(S(x)) <=> Line(y) = Line(x))
        BY <1>12, <3>4
      <4>2. y \in Nat /\ x \in Nat
        BY <1>4, <1>7, <3>4
      <4> QED BY <1>6, <3>4, <4>1, <4>2
    <3> QED BY <1>5, <3>1, <3>2, <3>3, <3>4
  <2>4. \A x \in Placed' : S(x) % n = x % n
    BY <1>5, <1>6, <1>8, <1>11
  <2> QED BY <2>3, <2>4 DEF LinesKept, S, n, Line
<1>16. NoLineWasted'
  <2>1. ASSUME NEW a \in Placed' PROVE S(a) \in Nat /\ Line(S(a)) \in 0 .. Line(maxAddress')
    <3>1. S(a) \in Nat /\ S(a) <= maxAddress'
      BY <1>4, <1>5, <1>6, <1>8, <1>14
    <3>2. Line(S(a)) \in Nat /\ Line(maxAddress') \in Nat /\ Line(S(a)) <= Line(maxAddress')
      BY <1>9, <1>10, <3>1
    <3> QED BY <3>1, <3>2
  <2>2. ASSUME NEW l \in 0 .. Line(maxAddress') PROVE \E a \in Placed' : Line(S(a)) = l
    <3>1. Line(off) \in Nat /\ Line(maxAddress') \in Nat /\ Line(maxAddress) \in Nat
      BY <1>1, <1>9, <1>10
    <3>2. CASE l < Line(off)
      <4>1. DOMAIN offsets # {} /\ l \in 0 .. Line(maxAddress)
        <5>1. ~(Line(off) = 0)
          BY <3>1, <3>2
        <5>2. Line(off) <= Line(maxAddress) + 1
          BY <1>1, <3>1
        <5>3. DOMAIN offsets # {}
          BY <1>1, <5>1
        <5>4. l \in Int /\ 0 <= l /\ l <= Line(maxAddress)
          BY <3>1, <3>2, <5>2
        <5> QED BY <3>1, <5>3, <5>4
      <4>2. Placed # {}
        <5>1. PICK c \in DOMAIN offsets : TRUE
          BY <4>1
        <5>2. c \in c .. merged[c]
          BY <1>3 DEF MergedInv
        <5> QED BY <1>4, <5>2
      <4>3. \E a \in Placed : Line(R(a)) = l
        BY <4>1, <4>2 DEF PlacedInv, NoLineWasted, R
      <4> QED BY <1>5, <1>6, <4>3
    <3>3. CASE l >= Line(off)
      <4>1. off <= maxAddress'
        BY <1>8, <1>13
      <4>2. l \in Line(off) .. Line(maxAddress')
        BY <3>1, <3>3
      <4>3. PICK v \in off .. maxAddress' : Line(v) = l
        BY <1>1, <1>10, <4>1, <4>2, LineBetween
      <4>4. /\ v - off + b \in New /\ (v - off + b) - b + off = v
        <5>1. maxAddress' = off + end - b
          BY <1>1 DEF end
        <5> QED BY <1>1, <1>10, <5>1 DEF New
      <4>5. S(v - off + b) = v
        BY <1>7, <4>4
      <4> QED BY <1>5, <4>3, <4>4, <4>5
    <3> QED BY <3>1, <3>2, <3>3
  <2> QED BY <2>1, <2>2 DEF NoLineWasted, S, Line
<1>17. lastEndO' \in Nat /\ maxAddress' \in Nat /\ maxAddress' % CacheLine = lastEndO' % CacheLine
  <2>1. S(end) % n = end % n
    BY <1>8, <1>13
  <2> QED BY <1>1, <1>10, <1>13, <2>1 DEF end, n
<1>18. \A c \in DOMAIN offsets' : offsets'[c] \in Nat
  BY <1>1, <1>3 DEF PlacedInv
<1>19. lastEndO' = merged'[b] /\ maxAddress' = offsets'[b] + merged'[b] - b /\ b \in DOMAIN offsets'
  BY <1>1, <1>3
<1> QED BY <1>14, <1>15, <1>16, <1>17, <1>18, <1>19 DEF PlacedInv, S, Line

-----------------------------------------------------------------------------
(* The sweep                                                               *)

\* Parts of a finite set that have nothing in common.
LEMMA CountsAdd ==
  ASSUME NEW S, IsFiniteSet(S), NEW T, IsFiniteSet(T), S \cap T = {}
  PROVE  /\ IsFiniteSet(S \union T)
         /\ Cardinality(S \union T) = Cardinality(S) + Cardinality(T)
         /\ Cardinality(S) \in Nat /\ Cardinality(T) \in Nat
<1>1. Cardinality(S) \in Nat /\ Cardinality(T) \in Nat
  BY FS_CardinalityType
<1>2. Cardinality(S \cap T) = 0
  BY FS_EmptySet
<1>3. /\ IsFiniteSet(S \union T)
      /\ Cardinality(S \union T) = Cardinality(S) + Cardinality(T) - Cardinality(S \cap T)
  BY FS_Union
<1> QED BY <1>1, <1>2, <1>3

\* What a set has beside a part of it.
LEMMA CountLeft ==
  ASSUME NEW S, IsFiniteSet(S), NEW T, T \subseteq S
  PROVE  /\ Cardinality(S) - Cardinality(T) \in Nat
         /\ Cardinality(S) - Cardinality(T) = 0 <=> S = T
<1>1. IsFiniteSet(T) /\ Cardinality(T) <= Cardinality(S) /\ (Cardinality(S) = Cardinality(T) => S = T)
  BY FS_Subset
<1>2. Cardinality(S) \in Nat /\ Cardinality(T) \in Nat
  BY <1>1, FS_CardinalityType
<1> QED BY <1>1, <1>2

\* Before the remapping, what is read are the events.
LEMMA BoundsAre ==
  ASSUME ParseInv, phase # "done"
  PROVE  /\ events = Read /\ Bounds \subseteq Nat
         /\ \A i \in Blocks : Read[i].arg1 \in Bounds /\ Read[i].arg2 \in Bounds
         /\ \A a \in Bounds : \E i \in Blocks : a = Read[i].arg1 \/ a = Read[i].arg2
         /\ \A a : /\ Begins(a) = Cardinality({i \in Blocks : Read[i].arg1 = a})
                   /\ Ends(a) = Cardinality({i \in Blocks : Read[i].arg2 = a})
                   /\ IsFiniteSet({i \in Blocks : Read[i].arg1 = a})
                   /\ IsFiniteSet({i \in Blocks : Read[i].arg2 = a})
                   /\ Count(a) \in Int
<1>1. events = Read
  BY DEF ParseInv
<1>2. /\ IsFiniteSet(Blocks)
      /\ \A i \in Blocks : Read[i].arg1 \in Nat /\ Read[i].arg2 \in Nat
  BY ReadIsSane
<1>3. Bounds = UNION {{Read[i].arg1, Read[i].arg2} : i \in Blocks}
  BY <1>1 DEF Bounds, Blocks
<1>4. ASSUME NEW a
      PROVE  /\ Begins(a) = Cardinality({i \in Blocks : Read[i].arg1 = a})
             /\ Ends(a) = Cardinality({i \in Blocks : Read[i].arg2 = a})
             /\ IsFiniteSet({i \in Blocks : Read[i].arg1 = a})
             /\ IsFiniteSet({i \in Blocks : Read[i].arg2 = a})
             /\ Count(a) \in Int
  <2> DEFINE S == {i \in Blocks : Read[i].arg1 = a}
             T == {i \in Blocks : Read[i].arg2 = a}
  <2>1. Begins(a) = Cardinality(S) /\ Ends(a) = Cardinality(T)
    BY <1>1 DEF Begins, Ends, Blocks
  <2>2. S \subseteq Blocks /\ T \subseteq Blocks
    OBVIOUS
  <2> HIDE DEF S, T
  <2>3. IsFiniteSet(S) /\ IsFiniteSet(T)
    BY <1>2, <2>2, FS_Subset
  <2>4. Cardinality(S) \in Nat /\ Cardinality(T) \in Nat
    BY <2>3, FS_CardinalityType
  <2>5. Count(a) \in Int
    BY <2>1, <2>4 DEF Count
  <2> QED BY <2>1, <2>3, <2>5 DEF S, T
<1> QED BY <1>1, <1>2, <1>3, <1>4, ZenonT(30)

\* A block that has ended has begun.
LEMMA EndedHaveBegun ==
  ASSUME ParseInv, phase # "done", NEW left, left \subseteq Bounds,
         \A a \in Bounds \ left, b \in left : a < b
  PROVE  LET begun == {i \in Blocks : Read[i].arg1 \notin left}
             over == {i \in Blocks : Read[i].arg2 \notin left}
         IN over \subseteq begun /\ IsFiniteSet(begun) /\ IsFiniteSet(over)
<1> DEFINE begun == {i \in Blocks : Read[i].arg1 \notin left}
           over == {i \in Blocks : Read[i].arg2 \notin left}
<1>1. IsFiniteSet(Blocks) /\ begun \subseteq Blocks /\ over \subseteq Blocks
  BY ReadIsSane
<1>2. IsFiniteSet(begun) /\ IsFiniteSet(over)
  <2> HIDE DEF begun, over
  <2> QED BY <1>1, FS_Subset
<1>3. ASSUME NEW i \in over PROVE i \in begun
  <2>1. /\ Read[i].arg1 \in Nat /\ Read[i].arg2 \in Nat /\ Read[i].arg1 <= Read[i].arg2
        /\ Read[i].arg1 \in Bounds /\ Read[i].arg2 \in Bounds
    BY <1>1, ReadIsSane, BoundsAre
  <2>2. Read[i].arg1 \notin left
    BY <2>1
  <2> QED BY <1>1, <2>2
<1> QED BY <1>2, <1>3

\* The bound a is passed: the blocks that begin and that end there are counted.
LEMMA SweepCounts ==
  ASSUME ParseInv, SweepInv, SweepBound, NEW a, a = Min(todo)
  PROVE  /\ a \in todo /\ a \in Nat /\ \A c \in todo : a <= c
         /\ phase = "sweep" /\ phase' = "sweep" /\ todo' = todo \ {a}
         /\ Read' = Read /\ Blocks' = Blocks /\ Bounds' = Bounds
         /\ \A c \in Bounds \ todo', b \in todo' : c < b
         /\ Ended \subseteq Begun /\ Ended' \subseteq Begun'
         /\ nOpen' = Cardinality(Begun') - Cardinality(Ended')
         /\ nOpen \in Nat /\ nOpen' \in Nat
         /\ nOpen = 0 <=> Begun = Ended
         /\ nOpen' = 0 <=> Begun' = Ended'
<1> DEFINE from == {i \in Blocks : Read[i].arg1 = a}
           to   == {i \in Blocks : Read[i].arg2 = a}
<1>1. /\ phase = "sweep" /\ phase' = "sweep" /\ todo # {} /\ todo' = todo \ {a}
      /\ nOpen' = nOpen + counts[a] /\ events' = events /\ file' = file
  BY DEF SweepBound
<1>2. /\ counts = [c \in Bounds |-> Count(c)] /\ todo \subseteq Bounds
      /\ \A c \in Bounds \ todo, b \in todo : c < b
      /\ nOpen = Cardinality(Begun) - Cardinality(Ended)
  BY <1>1 DEF SweepInv
<1>3. Bounds \subseteq Nat /\ phase # "done"
  BY <1>1, BoundsAre
<1>4. a \in todo /\ a \in Nat /\ \A c \in todo : a <= c
  BY <1>1, <1>2, <1>3, LeastOfNats
<1>5. Read' = Read /\ Blocks' = Blocks /\ Bounds' = Bounds
  BY <1>1 DEF Read, Blocks, Bounds
<1>6. \A c \in Bounds \ todo', b \in todo' : c < b
  BY <1>1, <1>2, <1>3, <1>4
<1>7. Ended \subseteq Begun /\ IsFiniteSet(Begun) /\ IsFiniteSet(Ended)
  BY <1>2, <1>3, EndedHaveBegun DEF Begun, Ended
<1>8. Ended' \subseteq Begun' /\ IsFiniteSet(Begun') /\ IsFiniteSet(Ended')
  <2>1. todo' \subseteq Bounds
    BY <1>1, <1>2
  <2>2. /\ Begun' = {i \in Blocks : Read[i].arg1 \notin todo'}
        /\ Ended' = {i \in Blocks : Read[i].arg2 \notin todo'}
    BY <1>5 DEF Begun, Ended
  <2> QED BY <1>3, <1>6, <2>1, <2>2, EndedHaveBegun, ZenonT(30)
<1>9. /\ Begun' = Begun \union from /\ Begun \cap from = {}
      /\ Ended' = Ended \union to /\ Ended \cap to = {}
  BY <1>1, <1>4, <1>5 DEF Begun, Ended
<1>10. /\ IsFiniteSet(from) /\ IsFiniteSet(to)
       /\ counts[a] = Cardinality(from) - Cardinality(to)
  <2>1. counts[a] = Begins(a) - Ends(a)
    BY <1>2, <1>4 DEF Count
  <2> QED BY <1>3, <2>1, BoundsAre
<1> HIDE DEF from, to
<1>11. /\ Cardinality(Begun') = Cardinality(Begun) + Cardinality(from)
       /\ Cardinality(Begun) \in Nat /\ Cardinality(from) \in Nat
  BY <1>7, <1>9, <1>10, CountsAdd
<1>12. /\ Cardinality(Ended') = Cardinality(Ended) + Cardinality(to)
       /\ Cardinality(Ended) \in Nat /\ Cardinality(to) \in Nat
  BY <1>7, <1>9, <1>10, CountsAdd
<1>13. nOpen' = Cardinality(Begun') - Cardinality(Ended')
  BY <1>1, <1>2, <1>10, <1>11, <1>12
<1>14. nOpen \in Nat /\ (nOpen = 0 <=> Begun = Ended)
  BY <1>2, <1>7, CountLeft
<1>15. nOpen' \in Nat /\ (nOpen' = 0 <=> Begun' = Ended')
  BY <1>8, <1>13, CountLeft
<1> QED BY <1>1, <1>4, <1>5, <1>6, <1>7, <1>8, <1>13, <1>14, <1>15

\* A region is merged when all blocks that have begun have ended; it ends where
\* one of them does, and they join its addresses.
LEMMA SweepKeeps ==
  ASSUME ParseInv, MergedInv, SweepInv, SweepBound
  PROVE  MergedInv' /\ SweepInv'
<1> DEFINE a == Min(todo)
           from == IF nOpen = 0 THEN a ELSE firstOpen
<1>1. /\ a \in todo /\ a \in Nat /\ \A c \in todo : a <= c
      /\ phase = "sweep" /\ phase' = "sweep" /\ todo' = todo \ {a}
      /\ Read' = Read /\ Blocks' = Blocks /\ Bounds' = Bounds
      /\ \A c \in Bounds \ todo', b \in todo' : c < b
      /\ Ended \subseteq Begun /\ Ended' \subseteq Begun'
      /\ nOpen' = Cardinality(Begun') - Cardinality(Ended')
      /\ nOpen \in Nat /\ nOpen' \in Nat
      /\ nOpen = 0 <=> Begun = Ended
      /\ nOpen' = 0 <=> Begun' = Ended'
  BY SweepCounts
<1>2. /\ firstOpen' = from /\ counts' = counts /\ events' = events
      /\ merged' = IF nOpen' = 0 THEN With(merged, from, a) ELSE merged
  BY DEF SweepBound
<1>3. /\ counts = [c \in Bounds |-> Count(c)] /\ todo \subseteq Bounds
      /\ \A c \in Bounds \ todo, b \in todo : c < b
      /\ \A b \in DOMAIN merged, c \in todo : merged[b] < c
      /\ nOpen # 0 =>
            /\ firstOpen \in Bounds \ todo
            /\ \A b \in DOMAIN merged : merged[b] < firstOpen
            /\ \A v \in Bounds \ todo : \A c \in firstOpen + 1 .. v : Joined(c)
      /\ \A i \in Begun :
            \/ \E b \in DOMAIN merged : b <= Read[i].arg1 /\ Read[i].arg2 <= merged[b]
            \/ nOpen # 0 /\ firstOpen <= Read[i].arg1
  BY <1>1 DEF SweepInv
<1>4. /\ Bounds \subseteq Nat
      /\ \A i \in Blocks : Read[i].arg1 \in Bounds /\ Read[i].arg2 \in Bounds
      /\ \A c \in Bounds : \E i \in Blocks : c = Read[i].arg1 \/ c = Read[i].arg2
  BY <1>1, BoundsAre
<1>5. /\ \A i \in Blocks : /\ Read[i].arg1 \in Nat /\ Read[i].arg2 \in Nat
                           /\ Read[i].arg1 <= Read[i].arg2
  <2>1. Blocks \subseteq 1 .. Len(Read)
    BY ReadIsSane
  <2> QED BY <2>1, ReadIsSane
<1>6. \A b \in DOMAIN merged : b \in Nat /\ merged[b] \in Nat /\ b <= merged[b]
  BY DEF MergedInv
<1> HIDE DEF a
<1>7. /\ Begun = {i \in Blocks : Read[i].arg1 \notin todo}
      /\ Ended = {i \in Blocks : Read[i].arg2 \notin todo}
      /\ Begun' = {i \in Blocks : Read[i].arg1 \notin todo'}
      /\ Ended' = {i \in Blocks : Read[i].arg2 \notin todo'}
  BY <1>1 DEF Begun, Ended
<1>8. /\ from \in Bounds \ todo' /\ from \in Nat /\ from <= a
      /\ \A b \in DOMAIN merged : merged[b] < from
  <2>1. CASE nOpen = 0
    BY <1>1, <1>3, <1>4, <2>1
  <2>2. CASE nOpen # 0
    <3>1. from = firstOpen /\ firstOpen \in Bounds \ todo /\ firstOpen < a
      BY <1>1, <1>3, <2>2
    <3> QED BY <1>1, <1>3, <1>4, <2>2, <3>1
  <2> QED BY <2>1, <2>2
<1>9. ASSUME NEW v \in Bounds \ todo', NEW c \in from + 1 .. v PROVE Joined(c)
  <2>0. v \in Nat /\ c \in Nat /\ from + 1 <= c /\ c <= v
    BY <1>4, <1>8
  <2>1. CASE nOpen = 0
    <3>1. v <= a
      BY <1>1, <1>3, <1>4
    <3> QED BY <1>1, <2>0, <2>1, <3>1
  <2>2. CASE nOpen # 0 /\ v # a
    <3>1. v \in Bounds \ todo /\ c \in firstOpen + 1 .. v
      BY <1>1, <2>2
    <3> QED BY <1>3, <2>2, <3>1
  <2>3. CASE nOpen # 0 /\ v = a
    <3>1. CASE \E w \in Bounds \ todo : c <= w
      <4>1. PICK w \in Bounds \ todo : c <= w
        BY <3>1
      <4>2. c \in firstOpen + 1 .. w
        BY <1>4, <2>0, <2>3, <4>1
      <4> QED BY <1>3, <2>3, <4>1, <4>2
    <3>2. CASE ~ \E w \in Bounds \ todo : c <= w
      <4>1. PICK i \in Begun : i \notin Ended
        BY <1>1, <2>3
      <4>2. i \in Blocks /\ Read[i].arg1 \in Bounds \ todo /\ Read[i].arg2 \in todo
        BY <1>4, <1>7, <4>1
      <4>3. Read[i].arg1 < c
        BY <1>5, <2>0, <3>2, <4>2
      <4>4. c <= Read[i].arg2
        BY <1>1, <1>5, <2>0, <2>3, <4>2
      <4> QED BY <4>2, <4>3, <4>4 DEF Joined
    <3> QED BY <3>1, <3>2
  <2> QED BY <2>1, <2>2, <2>3
<1>10. nOpen' = 0 => \E i \in Blocks : Read[i].arg2 = a
  <2> SUFFICES ASSUME nOpen' = 0, ~ \E i \in Blocks : Read[i].arg2 = a PROVE FALSE
    OBVIOUS
  <2>1. Ended' = Ended
    BY <1>1, <1>7
  <2>2. PICK i \in Blocks : a = Read[i].arg1
    BY <1>1, <1>3, <1>4
  <2>3. i \in Begun' /\ i \notin Begun
    BY <1>1, <1>7, <2>2
  <2> QED BY <1>1, <2>1, <2>3
<1>11. /\ DOMAIN merged' = DOMAIN merged \union (IF nOpen' = 0 THEN {from} ELSE {})
       /\ \A b \in DOMAIN merged : b # from /\ merged'[b] = merged[b]
       /\ nOpen' = 0 => merged'[from] = a
  <2>1. from \notin DOMAIN merged
    BY <1>6, <1>8
  <2> HIDE DEF from
  <2> QED BY <1>2, <2>1 DEF With
<1> HIDE DEF from
<1>12. \A c : Joined(c)' <=> Joined(c)
  BY <1>1 DEF Joined
<1>13. MergedInv'
  <2>1. ASSUME NEW b \in DOMAIN merged'
        PROVE  /\ b \in Nat /\ merged'[b] \in Nat /\ b <= merged'[b] /\ b \in Bounds
               /\ \E i \in Blocks : Read[i].arg2 = merged'[b]
               /\ \A c \in b + 1 .. merged'[b] : Joined(c)
    <3>1. CASE b \in DOMAIN merged
      BY <1>1, <1>11, <3>1 DEF MergedInv
    <3>2. CASE nOpen' = 0 /\ b = from
      <4>1. a \in Bounds \ todo'
        BY <1>1, <1>3
      <4> QED BY <1>1, <1>8, <1>9, <1>10, <1>11, <3>2, <4>1
    <3> QED BY <1>11, <3>1, <3>2
  <2>2. ASSUME NEW b \in DOMAIN merged', NEW c \in DOMAIN merged', b < c PROVE merged'[b] < c
    <3>1. CASE b \in DOMAIN merged /\ c \in DOMAIN merged
      BY <1>11, <2>2, <3>1 DEF MergedInv
    <3>2. CASE b \in DOMAIN merged /\ c = from
      BY <1>8, <1>11, <3>2
    <3>3. CASE b = from /\ c \in DOMAIN merged
      BY <1>6, <1>8, <2>2, <3>3
    <3>4. CASE b = from /\ c = from
      BY <1>8, <2>2, <3>4
    <3> QED BY <1>11, <3>1, <3>2, <3>3, <3>4
  <2> QED BY <1>1, <1>12, <2>1, <2>2 DEF MergedInv
<1>14. ASSUME NEW b \in DOMAIN merged', NEW c \in todo' PROVE merged'[b] < c
  <2>1. c \in todo /\ a < c
    BY <1>1, <1>3, <1>4
  <2> QED BY <1>3, <1>11, <2>1
<1>15. ASSUME nOpen' # 0
       PROVE  /\ firstOpen' \in Bounds \ todo'
              /\ \A b \in DOMAIN merged' : merged'[b] < firstOpen'
              /\ \A v \in Bounds \ todo' : \A c \in firstOpen' + 1 .. v : Joined(c)
  BY <1>2, <1>8, <1>9, <1>11, <1>15
<1>16. ASSUME NEW i \in Begun'
       PROVE  \/ \E b \in DOMAIN merged' : b <= Read[i].arg1 /\ Read[i].arg2 <= merged'[b]
              \/ nOpen' # 0 /\ firstOpen' <= Read[i].arg1
  <2>1. i \in Blocks /\ Read[i].arg1 \notin todo'
    BY <1>7
  <2>2. CASE i \in Begun /\ \E b \in DOMAIN merged : b <= Read[i].arg1 /\ Read[i].arg2 <= merged[b]
    BY <1>11, <2>2
  <2>3. CASE ~(i \in Begun /\ \E b \in DOMAIN merged : b <= Read[i].arg1 /\ Read[i].arg2 <= merged[b])
    <3>1. from <= Read[i].arg1
      <4>1. CASE i \in Begun
        BY <1>3, <2>3, <4>1 DEF from
      <4>2. CASE i \notin Begun
        BY <1>1, <1>7, <1>8, <2>1, <4>2
      <4> QED BY <4>1, <4>2
    <3>2. CASE nOpen' # 0
      BY <1>2, <3>1, <3>2
    <3>3. CASE nOpen' = 0
      <4>1. Read[i].arg2 \in Bounds \ todo'
        BY <1>1, <1>4, <1>7, <2>1, <3>3
      <4>2. Read[i].arg2 <= a
        <5>1. Read[i].arg2 = a \/ Read[i].arg2 \in Bounds \ todo
          BY <1>1, <4>1
        <5> QED BY <1>1, <1>3, <1>5, <2>1, <5>1
      <4> QED BY <1>11, <3>1, <3>3, <4>2
    <3> QED BY <3>2, <3>3
  <2> QED BY <2>2, <2>3
<1>17. counts' = [c \in Bounds' |-> Count(c)'] /\ todo' \subseteq Bounds'
  <2>1. \A c : Count(c)' = Count(c)
    BY <1>2 DEF Count, Begins, Ends
  <2> QED BY <1>1, <1>2, <1>3, <2>1
<1>18. SweepInv'
  BY <1>1, <1>12, <1>14, <1>15, <1>16, <1>17 DEF SweepInv, NotIndexed
<1> QED BY <1>13, <1>18

\* The sweep begins with no bound passed.
LEMMA SweepStarts ==
  ASSUME ParseInv, MergedInv, SweepInv, CountRegions
  PROVE  MergedInv' /\ SweepInv'
<1>1. /\ phase = "index" /\ phase' = "sweep" /\ todo' = Bounds /\ nOpen' = nOpen
      /\ counts' = [a \in Bounds |-> Count(a)] /\ merged' = merged
      /\ events' = events /\ file' = file
  BY DEF CountRegions
<1>2. DOMAIN merged = {} /\ nOpen = 0
  BY <1>1 DEF SweepInv
<1>3. Read' = Read /\ Blocks' = Blocks /\ Bounds' = Bounds /\ \A c : Count(c)' = Count(c)
  BY <1>1 DEF Read, Blocks, Bounds, Count, Begins, Ends
<1>4. Begun' = {} /\ Ended' = {}
  BY <1>1, <1>3, BoundsAre DEF Begun, Ended
<1>5. Cardinality(Begun') - Cardinality(Ended') = 0
  <2>1. Cardinality({}) = 0
    BY FS_EmptySet
  <2> QED BY <1>4, <2>1
<1>6. MergedInv'
  BY <1>1, <1>2 DEF MergedInv
<1>7. SweepInv'
  BY <1>1, <1>2, <1>3, <1>4, <1>5 DEF SweepInv, NotIndexed
<1> QED BY <1>6, <1>7

\* It ends with all of them passed, and no region open.
LEMMA SweepEnds ==
  ASSUME ParseInv, MergedInv, SweepInv, SweepDone
  PROVE  MergedInv' /\ SweepInv'
<1>1. /\ phase = "sweep" /\ phase' = "layout" /\ todo = {}
      /\ merged' = merged /\ nOpen' = nOpen /\ events' = events /\ file' = file
  BY DEF SweepDone, sweepVars
<1>2. Read' = Read /\ Blocks' = Blocks /\ Bounds' = Bounds /\ \A c : Joined(c)' <=> Joined(c)
  BY <1>1 DEF Read, Blocks, Bounds, Joined
<1>3. Begun = Blocks /\ Ended = Blocks
  BY <1>1 DEF Begun, Ended
<1>4. nOpen = 0
  <2>1. nOpen = Cardinality(Blocks) - Cardinality(Blocks)
    BY <1>1, <1>3 DEF SweepInv
  <2>2. Cardinality(Blocks) \in Nat
    BY ReadIsSane, FS_CardinalityType
  <2> QED BY <2>1, <2>2
<1>5. \A i \in Blocks : \E b \in DOMAIN merged :
        b <= Read[i].arg1 /\ Read[i].arg2 <= merged[b]
  BY <1>1, <1>3, <1>4 DEF SweepInv
<1>6. MergedInv'
  BY <1>1, <1>2 DEF MergedInv
<1>7. SweepInv'
  BY <1>1, <1>2, <1>5 DEF SweepInv, NotIndexed
<1> QED BY <1>6, <1>7

-----------------------------------------------------------------------------
(* The index                                                               *)

\* Which regions are allocated does not depend on what is written later.
LEMMA LiveOfPrefix ==
  ASSUME NEW f \in Seq(Recs), NEW g \in Seq(Recs), NEW n \in Nat, n <= Len(f), n <= Len(g),
         \A i \in 1 .. n : f[i] = g[i]
  PROVE  LiveAfter(f, n) = LiveAfter(g, n)
<1>1. /\ DOMAIN f = 1 .. Len(f) /\ Len(f) \in Nat /\ DOMAIN g = 1 .. Len(g) /\ Len(g) \in Nat
  BY LenProperties
<1>2. ASSUME NEW i \in 1 .. n PROVE FreedBetween(f, i, n + 1) <=> FreedBetween(g, i, n + 1)
  <2>1. i + 1 .. (n + 1) - 1 \subseteq 1 .. n
    OBVIOUS
  <2> QED BY <2>1 DEF FreedBetween
<1>3. ASSUME NEW i PROVE i \in LiveAfter(f, n) <=> i \in LiveAfter(g, n)
  <2>1. /\ i \in DOMAIN f /\ i <= n => i \in 1 .. n /\ i \in DOMAIN g
        /\ i \in DOMAIN g /\ i <= n => i \in 1 .. n /\ i \in DOMAIN f
    BY <1>1
  <2> QED BY <1>2, <2>1 DEF LiveAfter, OfType
<1> QED BY <1>3

\* The regions after one more record.
LEMMA LiveAfterNext ==
  ASSUME NEW f \in Seq(Recs), NEW n \in Nat, n + 1 <= Len(f)
  PROVE  LiveAfter(f, n + 1) =
           IF f[n + 1].type = "M" THEN LiveAfter(f, n) \union {n + 1}
           ELSE {i \in LiveAfter(f, n) : f[n + 1].type = "F" => f[i].arg1 # f[n + 1].arg1}
<1>1. DOMAIN f = 1 .. Len(f) /\ Len(f) \in Nat /\ n + 1 \in DOMAIN f
  BY LenProperties
<1>2. ASSUME NEW i \in DOMAIN f, i <= n + 1
      PROVE  FreedBetween(f, i, n + 1 + 1) <=>
               \/ FreedBetween(f, i, n + 1)
               \/ i # n + 1 /\ f[n + 1].type = "F" /\ f[n + 1].arg1 = f[i].arg1
  <2>1. i \in Int /\ i <= n + 1
    BY <1>1, <1>2
  <2>2. \A k : k \in i + 1 .. (n + 1 + 1) - 1 <=>
                 k \in i + 1 .. (n + 1) - 1 \/ (k = n + 1 /\ i # n + 1)
    BY <2>1
  <2> QED BY <2>2 DEF FreedBetween
<1>3. CASE f[n + 1].type = "M"
  <2>1. ASSUME NEW i \in OfType(f, "M"), i <= n + 1
        PROVE  i \in LiveAfter(f, n + 1) <=> i \in LiveAfter(f, n) \/ i = n + 1
    <3>1. i \in DOMAIN f /\ i \in Nat
      BY <1>1 DEF OfType
    <3>2. ~FreedBetween(f, i, n + 1 + 1) <=> ~FreedBetween(f, i, n + 1)
      BY <1>2, <1>3, <2>1, <3>1
    <3>3. i = n + 1 => ~FreedBetween(f, i, n + 1)
      BY <3>1 DEF FreedBetween
    <3> QED BY <2>1, <3>1, <3>2, <3>3 DEF LiveAfter
  <2>2. n + 1 \in OfType(f, "M") /\ n + 1 <= n + 1
    BY <1>1, <1>3 DEF OfType
  <2>3. ASSUME NEW i \in LiveAfter(f, n) PROVE i \in OfType(f, "M") /\ i <= n + 1
    BY <1>1 DEF LiveAfter, OfType
  <2>4. ASSUME NEW i \in LiveAfter(f, n + 1) PROVE i \in OfType(f, "M") /\ i <= n + 1
    BY DEF LiveAfter
  <2> QED BY <1>3, <2>1, <2>2, <2>3, <2>4
<1>4. CASE f[n + 1].type # "M"
  <2>1. ASSUME NEW i \in OfType(f, "M"), i <= n + 1
        PROVE  i \in LiveAfter(f, n + 1) <=>
                 i \in LiveAfter(f, n) /\ (f[n + 1].type = "F" => f[i].arg1 # f[n + 1].arg1)
    <3>1. i \in DOMAIN f /\ i \in Nat /\ i # n + 1 /\ i <= n
      BY <1>1, <1>4, <2>1 DEF OfType
    <3> QED BY <1>2, <2>1, <3>1 DEF LiveAfter
  <2>3. ASSUME NEW i \in LiveAfter(f, n) PROVE i \in OfType(f, "M") /\ i <= n + 1
    BY <1>1 DEF LiveAfter, OfType
  <2>4. ASSUME NEW i \in LiveAfter(f, n + 1) PROVE i \in OfType(f, "M") /\ i <= n + 1
    BY DEF LiveAfter
  <2> QED BY <1>4, <2>1, <2>3, <2>4
<1> QED BY <1>3, <1>4

\* No region is allocated before the first record.
LEMMA NoneLive ==
  ASSUME NEW f \in Seq(Recs)
  PROVE  LiveAfter(f, 0) = {}
<1>1. DOMAIN f = 1 .. Len(f) /\ Len(f) \in Nat
  BY LenProperties
<1> QED BY <1>1 DEF LiveAfter, OfType

\* The index goes on as the regions do.
LEMMA IndexGoesOn ==
  ASSUME TraceTypeOK, ParseInv, IndexInv, IndexEvent
  PROVE  /\ IndexInv'
         /\ validRegions' \in Seq(SUBSET DOMAIN events')
         /\ \A a \in DOMAIN open' : open'[a] \in DOMAIN events'
<1> DEFINE n == Len(validRegions)
           e == Read[n + 1]
<1>1. /\ phase = "index" /\ phase' = "index" /\ ~Duplicate /\ At \in DOMAIN events
      /\ open' = OpenAfter /\ validRegions' = Append(validRegions, Range(open'))
      /\ events' = events /\ file' = file
  BY DEF IndexEvent
<1>2. /\ Read \in Seq(Recs) /\ DOMAIN Read = 1 .. Len(Read) /\ Len(Read) \in Nat
      /\ events = Read /\ Read' = Read
  BY <1>1, ReadIsSane, BoundsAre DEF Read
<1>3. /\ n \in Nat /\ n + 1 \in 1 .. Len(Read) /\ At = n + 1 /\ Event = e
      /\ validRegions \in Seq(SUBSET DOMAIN Read) /\ DOMAIN validRegions = 1 .. n
  BY <1>1, <1>2, LenProperties DEF At, Event, TraceTypeOK
<1> HIDE DEF n, e
<1>4. /\ Range(open) = LiveAfter(Read, n)
      /\ \A a \in DOMAIN open : Read[open[a]].arg1 = a
  BY DEF IndexInv, n
<1>5. LiveAfter(Read, n + 1) =
        IF e.type = "M" THEN LiveAfter(Read, n) \union {n + 1}
        ELSE {i \in LiveAfter(Read, n) : e.type = "F" => Read[i].arg1 # e.arg1}
  <2>1. n + 1 <= Len(Read)
    BY <1>2, <1>3
  <2> QED BY <1>2, <1>3, <2>1, LiveAfterNext DEF e
<1>6. /\ Range(open') = LiveAfter(Read, n + 1)
      /\ \A a \in DOMAIN open' : Read[open'[a]].arg1 = a
  <2>1. CASE e.type = "M"
    <3>1. open' = With(open, e.arg1, n + 1) /\ e.arg1 \notin DOMAIN open
      BY <1>1, <1>3, <2>1 DEF OpenAfter, Duplicate
    <3>2. /\ DOMAIN open' = DOMAIN open \union {e.arg1} /\ open'[e.arg1] = n + 1
          /\ \A a \in DOMAIN open : open'[a] = open[a]
      BY <3>1 DEF With
    <3>3. Range(open') = Range(open) \union {n + 1}
      BY <3>2 DEF Range
    <3>4. \A a \in DOMAIN open' : Read[open'[a]].arg1 = a
      BY <1>4, <3>2 DEF e
    <3> QED BY <1>4, <1>5, <2>1, <3>3, <3>4
  <2>2. CASE e.type = "F"
    <3>1. open' = Without(open, e.arg1)
      BY <1>1, <1>3, <2>2 DEF OpenAfter
    <3>2. /\ DOMAIN open' = DOMAIN open \ {e.arg1}
          /\ \A a \in DOMAIN open' : open'[a] = open[a]
      BY <3>1 DEF Without
    <3>3. Range(open') = {i \in Range(open) : Read[i].arg1 # e.arg1}
      BY <1>4, <3>2 DEF Range
    <3> QED BY <1>4, <1>5, <2>2, <3>2, <3>3
  <2>3. CASE e.type \notin {"M", "F"}
    <3>1. open' = open
      BY <1>1, <1>3, <2>3 DEF OpenAfter
    <3>2. LiveAfter(Read, n + 1) = LiveAfter(Read, n)
      BY <1>5, <2>3
    <3> QED BY <1>4, <3>1, <3>2
  <2> QED BY <2>1, <2>2, <2>3
<1>7. LiveAfter(Read, n + 1) \subseteq DOMAIN Read
  BY DEF LiveAfter, OfType
<1>8. /\ Len(validRegions') = n + 1 /\ DOMAIN validRegions' = 1 .. n + 1
      /\ \A m \in 1 .. n : validRegions'[m] = validRegions[m]
      /\ validRegions'[n + 1] = LiveAfter(Read, n + 1)
      /\ validRegions' \in Seq(SUBSET DOMAIN Read)
  <2>1. validRegions' = Append(validRegions, LiveAfter(Read, n + 1))
    BY <1>1, <1>6
  <2>2. LiveAfter(Read, n + 1) \in SUBSET DOMAIN Read
    BY <1>7
  <2>3. n = Len(validRegions)
    BY DEF n
  <2> HIDE DEF n
  <2> QED BY <1>3, <2>1, <2>2, <2>3, AppendProperties, LenProperties
<1>9. ASSUME NEW m \in DOMAIN validRegions'
      PROVE  /\ validRegions'[m] = LiveAfter(Read, m)
             /\ \A k, l \in LiveAfter(Read, m) : Read[k].arg1 = Read[l].arg1 => k = l
  <2>1. CASE m \in 1 .. n
    BY <1>3, <1>8, <2>1 DEF IndexInv
  <2>2. CASE m = n + 1
    <3>1. \A k, l \in Range(open') : Read[k].arg1 = Read[l].arg1 => k = l
      BY <1>6 DEF Range
    <3> QED BY <1>6, <1>8, <2>2, <3>1
  <2> QED BY <1>3, <1>8, <2>1, <2>2
<1>10. \A a \in DOMAIN open' : open'[a] \in DOMAIN events'
  <2>1. \A a \in DOMAIN open' : open'[a] \in Range(open')
    BY DEF Range
  <2> QED BY <1>1, <1>2, <1>6, <1>7, <2>1
<1>11. IndexInv'
  BY <1>1, <1>2, <1>3, <1>6, <1>8, <1>9 DEF IndexInv, NotIndexed
<1> QED BY <1>1, <1>2, <1>8, <1>10, <1>11

-----------------------------------------------------------------------------
(* The steps of the constructor                                            *)

LEMMA SameIndex ==
  ASSUME IndexInv, Read' = Read, open' = open, validRegions' = validRegions,
         phase' \in NotIndexed => validRegions = <<>>,
         phase' \in {"sweep", "layout", "done"} => Len(validRegions) = Len(Read)
  PROVE  IndexInv'
BY DEF IndexInv, NotIndexed

LEMMA SamePlaces ==
  ASSUME PlacedInv, merged' = merged, offsets' = offsets, lastEndO' = lastEndO,
         maxAddress' = maxAddress
  PROVE  PlacedInv'
<1>1. Placed' = Placed
  BY DEF Placed
<1>2. \A a : RemapAddress(a)' = RemapAddress(a)
  <2>1. \A a : RegionOf(a)' = RegionOf(a)
    BY DEF RegionOf
  <2> QED BY <2>1 DEF RemapAddress
<1>3. LinesKept'
  BY <1>1, <1>2 DEF PlacedInv, LinesKept, Line
<1>4. NoLineWasted'
  <2>1. {Line(RemapAddress(a))' : a \in Placed'} = {Line(RemapAddress(a)) : a \in Placed}
    BY <1>1, <1>2 DEF Line
  <2> QED BY <1>1, <2>1 DEF PlacedInv, NoLineWasted, Line
<1> QED BY <1>1, <1>2, <1>3, <1>4 DEF PlacedInv, Line

LEMMA NothingPlaced ==
  ASSUME DOMAIN offsets' = {}, lastEndO' \in Nat, maxAddress' \in Nat,
         maxAddress' % CacheLine = lastEndO' % CacheLine
  PROVE  PlacedInv'
<1>1. Placed' = {}
  BY DEF Placed
<1> QED BY <1>1 DEF PlacedInv, LinesKept, NoLineWasted

\* Nothing is swept or placed before the index is done.
LEMMA NotYetSwept ==
  ASSUME TraceInv, phase \in NotIndexed \union {"index"}
  PROVE  DOMAIN merged = {} /\ DOMAIN offsets = {} /\ todo = {} /\ nOpen = 0
BY DEF TraceInv, SweepInv, LayoutInv, NotIndexed

\* What a step that is before the sweep, or fails, leaves as it is.
LEMMA EarlyStep ==
  ASSUME TraceInv, phase \in NotIndexed \union {"index"},
         UNCHANGED <<todo, sweepVars, layoutVars>>,
         phase' \in {"parse", "index", "aborted", "crashed", "diverged"}
  PROVE  MergedInv' /\ SweepInv' /\ LayoutInv' /\ PlacedInv'
<1>1. DOMAIN merged = {} /\ DOMAIN offsets = {} /\ todo = {} /\ nOpen = 0
  BY NotYetSwept
<1>2. /\ merged' = merged /\ offsets' = offsets /\ todo' = todo /\ nOpen' = nOpen
      /\ lastEndO' = lastEndO /\ maxAddress' = maxAddress
  BY DEF sweepVars, layoutVars
<1>3. MergedInv'
  BY <1>1, <1>2 DEF MergedInv
<1>4. SweepInv'
  BY <1>1, <1>2 DEF SweepInv, NotIndexed
<1>5. LayoutInv'
  BY <1>1, <1>2 DEF LayoutInv
<1>6. PlacedInv'
  BY <1>2, SamePlaces DEF TraceInv
<1> QED BY <1>3, <1>4, <1>5, <1>6

LEMMA LoadPreserves ==
  ASSUME TraceInv, NEW f, Sane(f), Load(f)
  PROVE  TraceInv'
<1>1. /\ phase = "wait" /\ phase' = "parse" /\ file' = f /\ events' = events
      /\ open' = open /\ validRegions' = validRegions
      /\ UNCHANGED <<todo, sweepVars, layoutVars>>
  BY DEF Load, indexVars
<1>2. events = <<>> /\ validRegions = <<>>
  BY <1>1 DEF TraceInv, ParseInv, IndexInv, NotIndexed
<1>3. Read = <<>> /\ Read' = <<>>
  BY <1>1, <1>2 DEF Read
<1>4. MergedInv' /\ SweepInv' /\ LayoutInv' /\ PlacedInv'
  BY <1>1, EarlyStep DEF NotIndexed
<1>5. ParseInv'
  BY <1>1, <1>2, <1>3 DEF ParseInv, NotIndexed
<1>6. IndexInv'
  BY <1>1, <1>2, <1>3, SameIndex DEF TraceInv
<1>7. TraceTypeOK'
  BY <1>1 DEF TraceInv, TraceTypeOK, Phases, sweepVars, layoutVars, Sane
<1> QED BY <1>4, <1>5, <1>6, <1>7 DEF TraceInv

LEMMA ParseFilePreserves ==
  ASSUME TraceInv, ParseFile
  PROVE  TraceInv'
<1>1. /\ phase = "parse" /\ phase' = "index" /\ file' = file /\ events' = UpToEnd(file)
      /\ OfType(file, "E") # {}
      /\ open' = open /\ validRegions' = validRegions
      /\ UNCHANGED <<todo, sweepVars, layoutVars>>
  BY DEF ParseFile, indexVars
<1>2. /\ events = <<>> /\ validRegions = <<>> /\ Sane(file)
      /\ Range(open) = LiveAfter(Read, Len(validRegions))
  BY <1>1 DEF TraceInv, ParseInv, IndexInv, NotIndexed
<1>3. Read = <<>> /\ Read' = events'
  BY <1>1, <1>2 DEF Read
<1>4. MergedInv' /\ SweepInv' /\ LayoutInv' /\ PlacedInv'
  BY <1>1, EarlyStep DEF NotIndexed
<1>5. events' \in Seq(Recs) /\ Len(events') \in Nat
  BY <1>1, <1>2, UpToEndIsSane
<1>6. ParseInv'
  BY <1>1, <1>2, <1>3 DEF ParseInv, NotIndexed
<1>7. Range(open) = {} /\ DOMAIN open = {}
  <2>1. <<>> \in Seq(Recs) /\ Len(<<>>) = 0
    OBVIOUS
  <2>2. Range(open) = {}
    BY <1>2, <1>3, <2>1, NoneLive
  <2> QED BY <2>2 DEF Range
<1>8. LiveAfter(Read', 0) = {}
  BY <1>3, <1>5, NoneLive
<1>9. IndexInv'
  <2>1. Len(validRegions') = 0 /\ DOMAIN validRegions' = {}
    BY <1>1, <1>2
  <2>2. open' = open
    BY <1>1
  <2> QED BY <1>1, <1>3, <1>5, <1>7, <1>8, <2>1, <2>2 DEF IndexInv, NotIndexed
<1>10. TraceTypeOK'
  <2>1. validRegions' \in Seq(SUBSET DOMAIN events')
    BY <1>1, <1>2
  <2> QED BY <1>1, <1>5, <1>7, <2>1 DEF TraceInv, TraceTypeOK, Phases, sweepVars, layoutVars
<1> QED BY <1>4, <1>6, <1>9, <1>10 DEF TraceInv

\* A step that only ends the parsing or the whole construction.
LEMMA EndPreserves ==
  ASSUME TraceInv, ParseFails \/ ParseCrashes \/ ParseDiverges \/ IndexAborts
  PROVE  TraceInv'
<1>1. /\ phase \in {"parse", "index"}
      /\ phase' \in {"index", "crashed", "diverged", "aborted"}
      /\ phase' \in {"crashed", "diverged"} => phase = "parse"
      /\ file' = file /\ events' = events /\ open' = open /\ validRegions' = validRegions
      /\ UNCHANGED <<todo, sweepVars, layoutVars>>
  BY DEF ParseFails, ParseCrashes, ParseDiverges, IndexAborts, indexVars
<1>2. Read' = Read
  BY <1>1 DEF Read
<1>3. MergedInv' /\ SweepInv' /\ LayoutInv' /\ PlacedInv'
  BY <1>1, EarlyStep DEF NotIndexed
<1>4. ParseInv'
  BY <1>1, <1>2 DEF TraceInv, ParseInv, NotIndexed
<1>5. IndexInv'
  <2>1. phase' \in NotIndexed => validRegions = <<>>
    BY <1>1 DEF TraceInv, IndexInv, NotIndexed
  <2> QED BY <1>1, <1>2, <2>1, SameIndex DEF TraceInv
<1>6. TraceTypeOK'
  BY <1>1 DEF TraceInv, TraceTypeOK, Phases, sweepVars, layoutVars
<1> QED BY <1>3, <1>4, <1>5, <1>6 DEF TraceInv

LEMMA IndexEventPreserves ==
  ASSUME TraceInv, IndexEvent
  PROVE  TraceInv'
<1>1. /\ phase = "index" /\ phase' = "index"
      /\ file' = file /\ events' = events
      /\ UNCHANGED <<todo, sweepVars, layoutVars>>
  BY DEF IndexEvent
<1>2. Read' = Read
  BY <1>1 DEF Read
<1>3. MergedInv' /\ SweepInv' /\ LayoutInv' /\ PlacedInv'
  BY <1>1, EarlyStep
<1>4. ParseInv'
  BY <1>1, <1>2 DEF TraceInv, ParseInv, NotIndexed
<1>5. /\ IndexInv' /\ validRegions' \in Seq(SUBSET DOMAIN events')
      /\ \A a \in DOMAIN open' : open'[a] \in DOMAIN events'
  BY IndexGoesOn DEF TraceInv
<1>6. TraceTypeOK'
  BY <1>1, <1>5 DEF TraceInv, TraceTypeOK, Phases, sweepVars, layoutVars
<1> QED BY <1>3, <1>4, <1>5, <1>6 DEF TraceInv

LEMMA CountRegionsPreserves ==
  ASSUME TraceInv, CountRegions
  PROVE  TraceInv'
<1>1. /\ phase = "index" /\ phase' = "sweep" /\ At \notin DOMAIN events
      /\ todo' = Bounds /\ counts' = [a \in Bounds |-> Count(a)]
      /\ UNCHANGED <<file, events, indexVars, nOpen, firstOpen, merged, layoutVars>>
  BY DEF CountRegions
<1>2. Read' = Read /\ events = Read /\ Bounds \subseteq Nat /\ \A a : Count(a) \in Int
  BY <1>1, BoundsAre DEF TraceInv, Read
<1>3. MergedInv' /\ SweepInv'
  BY SweepStarts DEF TraceInv
<1>4. DOMAIN merged = {} /\ DOMAIN offsets = {}
  BY <1>1, NotYetSwept
<1>5. LayoutInv'
  BY <1>1, <1>4 DEF LayoutInv, layoutVars
<1>6. PlacedInv'
  BY <1>1, SamePlaces DEF TraceInv, layoutVars
<1>7. ParseInv'
  BY <1>1, <1>2 DEF TraceInv, ParseInv, NotIndexed
<1>8. Len(validRegions) = Len(Read)
  <2>1. /\ Len(validRegions) \in Nat /\ Len(validRegions) <= Len(Read) /\ Len(Read) \in Nat
        /\ DOMAIN Read = 1 .. Len(Read)
    BY ReadIsSane, LenProperties DEF TraceInv, IndexInv, TraceTypeOK
  <2> QED BY <1>1, <1>2, <2>1 DEF At
<1>9. IndexInv'
  BY <1>1, <1>2, <1>8, SameIndex DEF TraceInv, indexVars, NotIndexed
<1>10. TraceTypeOK'
  BY <1>1, <1>2, <1>4 DEF TraceInv, TraceTypeOK, Phases, indexVars, layoutVars
<1> QED BY <1>3, <1>5, <1>6, <1>7, <1>9, <1>10 DEF TraceInv

LEMMA SweepBoundPreserves ==
  ASSUME TraceInv, SweepBound
  PROVE  TraceInv'
<1>1. /\ phase = "sweep" /\ phase' = "sweep"
      /\ UNCHANGED <<file, events, indexVars, counts, layoutVars>>
  BY DEF SweepBound
<1>2. Read' = Read /\ Bounds' = Bounds
  BY <1>1 DEF Read, Bounds
<1>3. MergedInv' /\ SweepInv'
  BY SweepKeeps DEF TraceInv
<1>4. /\ todo' \subseteq todo /\ nOpen' \in Nat
      /\ todo \subseteq Bounds
  <2>1. ASSUME NEW a, a = Min(todo) PROVE todo' \subseteq todo /\ nOpen' \in Nat
    BY <2>1, SweepCounts DEF TraceInv
  <2> QED BY <1>1, <2>1 DEF TraceInv, SweepInv
<1>5. DOMAIN offsets = {}
  BY <1>1 DEF TraceInv, LayoutInv
<1>6. LayoutInv'
  BY <1>1, <1>5 DEF LayoutInv, layoutVars
<1>7. PlacedInv'
  BY <1>1, <1>5, NothingPlaced DEF TraceInv, PlacedInv, layoutVars
<1>8. ParseInv'
  BY <1>1, <1>2 DEF TraceInv, ParseInv, NotIndexed
<1>9. IndexInv'
  <2>1. Len(validRegions) = Len(Read)
    BY <1>1 DEF TraceInv, IndexInv
  <2> QED BY <1>1, <1>2, <2>1, SameIndex DEF TraceInv, indexVars, NotIndexed
<1>10. TraceTypeOK'
  <2>1. DOMAIN counts = Bounds /\ Bounds \subseteq Nat
    BY <1>1, BoundsAre DEF TraceInv, SweepInv
  <2>2. firstOpen' \in Nat
    <3>1. Min(todo) \in todo
      BY SweepCounts DEF TraceInv
    <3> QED BY <1>4, <2>1, <3>1 DEF SweepBound, TraceInv, TraceTypeOK
  <2>3. DOMAIN merged' \subseteq Bounds /\ \A b \in DOMAIN merged' : merged'[b] \in Bounds
    <3>1. DOMAIN merged' \subseteq Bounds
      BY <1>1, <1>2, <1>3 DEF MergedInv
    <3>2. \A i \in Blocks : Read[i].arg2 \in Bounds
      BY <1>1, BoundsAre DEF TraceInv
    <3>3. Blocks' = Blocks
      BY <1>2 DEF Blocks
    <3> QED BY <1>2, <1>3, <3>1, <3>2, <3>3 DEF MergedInv
  <2>4. /\ file' = file /\ events' = events /\ open' = open /\ validRegions' = validRegions
        /\ counts' = counts /\ offsets' = offsets /\ lastEndO' = lastEndO
        /\ maxAddress' = maxAddress
    BY <1>1 DEF indexVars, layoutVars
  <2> QED BY <1>1, <1>4, <1>5, <2>1, <2>2, <2>3, <2>4 DEF TraceInv, TraceTypeOK
<1> QED BY <1>3, <1>6, <1>7, <1>8, <1>9, <1>10 DEF TraceInv

LEMMA SweepDonePreserves ==
  ASSUME TraceInv, SweepDone
  PROVE  TraceInv'
<1>1. /\ phase = "sweep" /\ phase' = "layout" /\ todo' = DOMAIN merged
      /\ IF DOMAIN merged = {} THEN lastEndO' \in 0 .. CacheLine - 1
                               ELSE lastEndO' = Min(DOMAIN merged)
      /\ maxAddress' = lastEndO' % CacheLine
      /\ UNCHANGED <<file, events, indexVars, sweepVars, offsets>>
  BY DEF SweepDone
<1>2. Read' = Read
  BY <1>1 DEF Read
<1>3. MergedInv' /\ SweepInv'
  BY SweepEnds DEF TraceInv
<1>4. DOMAIN offsets = {} /\ merged' = merged /\ offsets' = offsets
  BY <1>1 DEF TraceInv, LayoutInv, sweepVars
<1>5. /\ lastEndO' \in Nat /\ maxAddress' \in Nat /\ maxAddress' % CacheLine = lastEndO' % CacheLine
  <2>1. lastEndO' \in Nat
    <3>1. CASE DOMAIN merged = {}
      BY <1>1, <3>1, CacheLineAssumption
    <3>2. CASE DOMAIN merged # {}
      <4>1. DOMAIN merged \subseteq Nat
        BY DEF TraceInv, MergedInv
      <4> QED BY <1>1, <3>2, <4>1, LeastOfNats
    <3> QED BY <3>1, <3>2
  <2>2. ASSUME NEW e \in Nat
        PROVE  e % CacheLine \in Nat /\ (e % CacheLine) % CacheLine = e % CacheLine
    <3>1. e % CacheLine \in 0 .. CacheLine - 1
      BY CacheLineAssumption, DivMod
    <3>2. ASSUME NEW r \in 0 .. CacheLine - 1 PROVE r \in Nat /\ r % CacheLine = r
      <4>1. r \in Nat /\ r = CacheLine * 0 + r
        BY CacheLineAssumption
      <4> QED BY <4>1, QuotientUnique, CacheLineAssumption
    <3> QED BY <3>1, <3>2
  <2> QED BY <1>1, <2>1, <2>2
<1>6. LayoutInv'
  BY <1>1, <1>4 DEF LayoutInv
<1>7. PlacedInv'
  BY <1>4, <1>5, NothingPlaced
<1>8. ParseInv'
  BY <1>1, <1>2 DEF TraceInv, ParseInv, NotIndexed
<1>9. IndexInv'
  <2>1. Len(validRegions) = Len(Read)
    BY <1>1 DEF TraceInv, IndexInv
  <2> QED BY <1>1, <1>2, <2>1, SameIndex DEF TraceInv, indexVars, NotIndexed
<1>10. TraceTypeOK'
  BY <1>1, <1>4, <1>5 DEF TraceInv, TraceTypeOK, Phases, indexVars, sweepVars
<1> QED BY <1>3, <1>6, <1>7, <1>8, <1>9, <1>10 DEF TraceInv

LEMMA LayoutRegionPreserves ==
  ASSUME TraceInv, LayoutRegion
  PROVE  TraceInv'
<1>1. PICK b \in todo, off \in Nat :
           /\ b = Min(todo) /\ \A c \in todo : b <= c
           /\ b \in Nat /\ merged[b] \in Nat /\ b <= merged[b]
           /\ b \in DOMAIN merged /\ b \notin DOMAIN offsets
           /\ offsets' = With(offsets, b, off) /\ todo' = todo \ {b}
           /\ phase = "layout" /\ phase' = "layout"
  BY LayoutPuts DEF TraceInv
<1>2. UNCHANGED <<file, events, indexVars, sweepVars>>
  BY DEF LayoutRegion
<1>3. Read' = Read /\ Blocks' = Blocks /\ Bounds' = Bounds /\ \A c : Joined(c)' <=> Joined(c)
  BY <1>2 DEF Read, Blocks, Bounds, Joined
<1>4. MergedInv'
  BY <1>1, <1>2, <1>3 DEF TraceInv, MergedInv, sweepVars
<1>5. SweepInv'
  BY <1>1, <1>2, <1>3 DEF TraceInv, SweepInv, NotIndexed, sweepVars
<1>6. DOMAIN offsets' = DOMAIN offsets \union {b} /\ merged' = merged
  BY <1>1, <1>2 DEF With, sweepVars
<1>7. LayoutInv'
  <2>1. todo = DOMAIN merged \ DOMAIN offsets /\ \A c \in DOMAIN offsets, d \in todo : c < d
    BY <1>1 DEF TraceInv, LayoutInv
  <2>2. DOMAIN offsets \subseteq DOMAIN merged /\ DOMAIN merged \subseteq Nat
    BY DEF TraceInv, LayoutInv, MergedInv
  <2>3. todo' = DOMAIN merged' \ DOMAIN offsets'
    BY <1>1, <1>6, <2>1
  <2>4. \A c \in DOMAIN offsets', d \in todo' : c < d
    BY <1>1, <1>6, <2>1, <2>2
  <2> QED BY <1>1, <1>6, <2>2, <2>3, <2>4 DEF LayoutInv
<1>8. PlacedInv'
  BY LayoutKeeps DEF TraceInv
<1>9. ParseInv'
  BY <1>1, <1>2, <1>3 DEF TraceInv, ParseInv, NotIndexed
<1>10. IndexInv'
  <2>1. Len(validRegions) = Len(Read)
    BY <1>1 DEF TraceInv, IndexInv
  <2> QED BY <1>1, <1>2, <1>3, <2>1, SameIndex DEF TraceInv, indexVars, NotIndexed
<1>11. TraceTypeOK'
  <2>1. /\ lastEndO' \in Nat /\ maxAddress' \in Nat
        /\ \A c \in DOMAIN offsets' : offsets'[c] \in Nat
    BY <1>8 DEF PlacedInv
  <2>2. DOMAIN offsets' \subseteq DOMAIN merged' /\ todo' \subseteq todo
    BY <1>1, <1>7 DEF LayoutInv
  <2> QED BY <1>1, <1>2, <2>1, <2>2 DEF TraceInv, TraceTypeOK, indexVars, sweepVars
<1> QED BY <1>4, <1>5, <1>7, <1>8, <1>9, <1>10, <1>11 DEF TraceInv

\* Every address of an event has its place, so the events stay records.
LEMMA RemapEventsPreserves ==
  ASSUME TraceInv, RemapEvents
  PROVE  TraceInv'
<1>1. /\ phase = "layout" /\ phase' = "done" /\ todo = {}
      /\ \A i \in DOMAIN events : \A a \in Args(events[i]) : InRegion(a)
      /\ events' = [i \in DOMAIN events |-> RemapEvent(events[i])]
      /\ UNCHANGED <<file, indexVars, todo, sweepVars, layoutVars>>
  BY DEF RemapEvents
<1>2. /\ Read \in Seq(Recs) /\ Len(Read) \in Nat /\ DOMAIN Read = 1 .. Len(Read)
      /\ events = Read /\ \A i \in DOMAIN Read : Read[i] \in Recs
  BY <1>1, ReadIsSane, BoundsAre DEF TraceInv
<1>3. DOMAIN events' = DOMAIN Read
  BY <1>1, <1>2
<1>4. Read' = Read
  <2>1. CASE events = <<>>
    <3>1. DOMAIN events' = {}
      BY <1>2, <1>3, <2>1
    <3>2. events' = <<>>
      BY <1>1, <2>1
    <3> QED BY <2>1, <3>2 DEF Read
  <2>2. CASE events # <<>>
    <3>1. DOMAIN events' # {}
      <4>1. Read # <<>> /\ Read \in Seq(Recs)
        BY <1>2, <2>2
      <4>2. Len(Read) \in Nat \ {0}
        BY <4>1, EmptySeq
      <4>3. 1 \in 1 .. Len(Read)
        BY <4>2
      <4> QED BY <1>2, <1>3, <4>3
    <3>2. events' # <<>>
      BY <3>1
    <3> QED BY <1>1, <2>2, <3>2 DEF Read
  <2> QED BY <2>1, <2>2
<1>5. /\ merged' = merged /\ offsets' = offsets /\ lastEndO' = lastEndO
      /\ maxAddress' = maxAddress /\ open' = open /\ validRegions' = validRegions
      /\ counts' = counts /\ nOpen' = nOpen /\ firstOpen' = firstOpen /\ file' = file
      /\ todo' = todo
  BY <1>1 DEF indexVars, sweepVars, layoutVars
<1>6. /\ \A a : InRegion(a)' <=> InRegion(a)
      /\ \A a : RemapAddress(a)' = RemapAddress(a)
      /\ \A e : RemapEvent(e)' = RemapEvent(e)
  BY <1>5 DEF InRegion, RemapAddress, RegionOf, RemapEvent
<1>7. ParseInv'
  <2>1. events' = [i \in DOMAIN Read |-> RemapEvent(Read[i])]'
    <3>1. \A i \in DOMAIN Read : RemapEvent(Read[i])' = RemapEvent(Read[i])
      BY <1>4, <1>6 DEF RemapEvent
    <3> QED BY <1>1, <1>2, <1>4, <3>1
  <2>2. \A i \in DOMAIN Read' : \A a \in Args(Read'[i]) : InRegion(a)'
    BY <1>1, <1>2, <1>4, <1>6
  <2>3. events' # <<>> => events # <<>>
    BY <1>1
  <2>4. (events # <<>> => OfType(file, "E") # {}) /\ Sane(file)
    BY DEF TraceInv, ParseInv
  <2> QED BY <1>1, <1>4, <1>5, <2>1, <2>2, <2>3, <2>4 DEF ParseInv, NotIndexed
<1>8. IndexInv'
  <2>1. Len(validRegions) = Len(Read)
    BY <1>1 DEF TraceInv, IndexInv
  <2> QED BY <1>1, <1>4, <1>5, <2>1, SameIndex DEF TraceInv, NotIndexed
<1>9. MergedInv'
  BY <1>1, <1>4, <1>5 DEF TraceInv, MergedInv, Blocks, Joined
<1>10. SweepInv'
  BY <1>1, <1>4, <1>5 DEF TraceInv, SweepInv, Blocks, NotIndexed
<1>11. DOMAIN offsets = DOMAIN merged
  BY <1>1 DEF TraceInv, LayoutInv
<1>12. LayoutInv'
  BY <1>1, <1>5, <1>11 DEF LayoutInv
<1>13. PlacedInv'
  BY <1>5, SamePlaces DEF TraceInv
<1>14. ASSUME NEW i \in DOMAIN Read PROVE RemapEvent(Read[i]) \in Recs
  <2>1. \A a \in Args(Read[i]) : RemapAddress(a) \in Nat
    <3>1. ASSUME NEW a \in Args(Read[i]) PROVE RemapAddress(a) \in Nat
      <4>1. PICK b \in DOMAIN offsets : b <= a /\ a <= merged[b]
        BY <1>1, <1>2, <1>11 DEF InRegion
      <4>2. a \in Nat /\ b \in Nat /\ merged[b] \in Nat
        BY <1>2, <1>11, <4>1, ReadIsSane DEF TraceInv, MergedInv, Args
      <4> QED BY <4>1, <4>2, PlacedAre DEF TraceInv
    <3> QED BY <3>1
  <2>2. Read[i].arg1 \in Args(Read[i]) /\ (Read[i].type = "M" => Read[i].arg2 \in Args(Read[i]))
    BY DEF Args
  <2>3. Read[i] \in Recs
    BY <1>2
  <2> QED BY <2>1, <2>2, <2>3 DEF RemapEvent, Recs
<1>15. events' \in Seq(Recs)
  BY <1>1, <1>2, <1>14
<1>16. TraceTypeOK'
  BY <1>1, <1>2, <1>3, <1>5, <1>15 DEF TraceInv, TraceTypeOK, Phases
<1> QED BY <1>7, <1>8, <1>9, <1>10, <1>12, <1>13, <1>16 DEF TraceInv

\* After a failure the places stay as they are.
LEMMA RemapAbortsPreserves ==
  ASSUME TraceInv, RemapAborts
  PROVE  TraceInv'
<1>1. /\ phase = "layout" /\ phase' = "aborted"
      /\ UNCHANGED <<file, events, indexVars, todo, sweepVars, layoutVars>>
  BY DEF RemapAborts
<1>2. Read' = Read /\ Blocks' = Blocks /\ Bounds' = Bounds /\ \A c : Joined(c)' <=> Joined(c)
  BY <1>1 DEF Read, Blocks, Bounds, Joined
<1>3. ParseInv'
  BY <1>1, <1>2 DEF TraceInv, ParseInv, NotIndexed
<1>4. IndexInv'
  BY <1>1, <1>2, SameIndex DEF TraceInv, indexVars, NotIndexed
<1>5. MergedInv' /\ SweepInv'
  BY <1>1, <1>2 DEF TraceInv, MergedInv, SweepInv, NotIndexed, sweepVars
<1>6. LayoutInv' /\ PlacedInv'
  BY <1>1, SamePlaces DEF TraceInv, LayoutInv, sweepVars, layoutVars
<1>7. TraceTypeOK'
  BY <1>1 DEF TraceInv, TraceTypeOK, Phases, indexVars, sweepVars, layoutVars
<1> QED BY <1>3, <1>4, <1>5, <1>6, <1>7 DEF TraceInv

LEMMA ConstructPreserves ==
  ASSUME TraceInv, Construct
  PROVE  TraceInv'
BY ParseFilePreserves, EndPreserves, IndexEventPreserves, CountRegionsPreserves,
   SweepBoundPreserves, SweepDonePreserves, LayoutRegionPreserves, RemapEventsPreserves,
   RemapAbortsPreserves DEF Construct

LEMMA NothingPreserves ==
  ASSUME TraceInv, UNCHANGED traceVars
  PROVE  TraceInv'
<1>1. /\ UNCHANGED <<file, phase, events, open, validRegions, counts, todo, nOpen, firstOpen>>
      /\ UNCHANGED <<merged, offsets, lastEndO, maxAddress>>
  BY DEF traceVars, indexVars, sweepVars, layoutVars
<1>2. /\ Read' = Read /\ Blocks' = Blocks /\ Bounds' = Bounds
      /\ Begun' = Begun /\ Ended' = Ended
      /\ \A c : (Joined(c)' <=> Joined(c)) /\ (InRegion(c)' <=> InRegion(c)) /\ Count(c)' = Count(c)
      /\ \A e : RemapEvent(e)' = RemapEvent(e)
  BY <1>1 DEF Read, Blocks, Bounds, Begun, Ended, Joined, Count, Begins, Ends, RemapEvent,
     RemapAddress, RegionOf, InRegion
<1>3. ParseInv'
  BY <1>1, <1>2 DEF TraceInv, ParseInv
<1>4. IndexInv'
  BY <1>1, <1>2, SameIndex DEF TraceInv, IndexInv
<1>5. MergedInv' /\ SweepInv'
  BY <1>1, <1>2 DEF TraceInv, MergedInv, SweepInv
<1>6. LayoutInv' /\ PlacedInv'
  BY <1>1, SamePlaces DEF TraceInv, LayoutInv
<1>7. TraceTypeOK'
  BY <1>1 DEF TraceInv, TraceTypeOK
<1> QED BY <1>3, <1>4, <1>5, <1>6, <1>7 DEF TraceInv

LEMMA TraceInitHolds ==
  ASSUME TraceInit
  PROVE  TraceInv
<1>1. /\ file = <<>> /\ phase = "wait" /\ events = <<>> /\ DOMAIN open = {} /\ validRegions = <<>>
      /\ todo = {} /\ DOMAIN counts = {} /\ nOpen = 0 /\ firstOpen = 0 /\ DOMAIN merged = {}
      /\ DOMAIN offsets = {} /\ lastEndO = 0 /\ maxAddress = 0
  BY DEF TraceInit, Empty
<1>2. Read = <<>> /\ Range(open) = {}
  BY <1>1 DEF Read, Range
<1>3. Placed = {}
  BY <1>1 DEF Placed
<1>4. ParseInv
  BY <1>1, <1>2 DEF ParseInv, Sane, OfType, NotIndexed
<1>5. IndexInv
  <2>1. <<>> \in Seq(Recs) /\ Len(<<>>) = 0
    OBVIOUS
  <2>2. LiveAfter(Read, 0) = {}
    BY <1>2, <2>1, NoneLive
  <2> QED BY <1>1, <1>2, <2>1, <2>2 DEF IndexInv, NotIndexed
<1>6. MergedInv /\ SweepInv /\ LayoutInv
  BY <1>1 DEF MergedInv, SweepInv, LayoutInv, NotIndexed
<1>7. PlacedInv
  BY <1>1, <1>3 DEF PlacedInv, LinesKept, NoLineWasted
<1>8. TraceTypeOK
  BY <1>1 DEF TraceTypeOK, Phases
<1> QED BY <1>4, <1>5, <1>6, <1>7, <1>8 DEF TraceInv

-----------------------------------------------------------------------------
(* What follows for the user of a Trace                                    *)

LEMMA PiecesFollow ==
  ASSUME TraceInv
  PROVE  RegionsArePieces
<1> SUFFICES ASSUME phase = "layout" PROVE RegionsArePieces
  BY DEF RegionsArePieces
<1>1. events = Read /\ OfType(events, "M") = Blocks
  BY BoundsAre DEF TraceInv, Blocks
<1>2. \A i \in Blocks : Read[i].arg2 \in Bounds
  BY BoundsAre DEF TraceInv
<1>3. \A b \in DOMAIN merged :
        /\ b \in Bounds /\ merged[b] \in Bounds
        /\ \A c \in b + 1 .. merged[b] : Joined(c)
        /\ \A c \in DOMAIN merged : b < c => merged[b] < c
  BY <1>2 DEF TraceInv, MergedInv
<1> QED BY <1>1, <1>3 DEF RegionsArePieces, Joined, TraceInv, SweepInv

\* When all is done, an event is what was read, at its new address.
LEMMA DoneEvents ==
  ASSUME TraceInv, phase = "done", NEW i \in DOMAIN Read
  PROVE  /\ i \in DOMAIN events /\ events[i].type = Read[i].type
         /\ Read[i].arg1 \in Placed /\ events[i].arg1 = RemapAddress(Read[i].arg1)
         /\ Read[i].type = "M" =>
              Read[i].arg2 \in Placed /\ events[i].arg2 = RemapAddress(Read[i].arg2)
<1>1. /\ events = [j \in DOMAIN Read |-> RemapEvent(Read[j])]
      /\ \A a \in Args(Read[i]) : InRegion(a)
  BY DEF TraceInv, ParseInv
<1>2. Read[i] \in Recs /\ DOMAIN offsets = DOMAIN merged
      /\ Read[i].arg1 \in Nat /\ Read[i].arg2 \in Nat
  BY ReadIsSane DEF TraceInv, LayoutInv
<1>3. \A a \in Args(Read[i]) : a \in Placed
  <2>1. ASSUME NEW a \in Args(Read[i]) PROVE a \in Placed
    <3>1. PICK b \in DOMAIN merged : b <= a /\ a <= merged[b]
      BY <1>1 DEF InRegion
    <3>2. a \in Nat /\ b \in Nat /\ merged[b] \in Nat
      BY <1>2 DEF Args, TraceInv, MergedInv
    <3>3. a \in b .. merged[b]
      BY <3>1, <3>2
    <3> QED BY <1>2, <3>3 DEF Placed
  <2> QED BY <2>1
<1>4. /\ events[i].type = Read[i].type /\ events[i].arg1 = RemapAddress(Read[i].arg1)
      /\ Read[i].type = "M" => events[i].arg2 = RemapAddress(Read[i].arg2)
  BY <1>1, <1>2 DEF RemapEvent, Recs
<1> QED BY <1>1, <1>3, <1>4 DEF Args

LEMMA MaxAddressFollows ==
  ASSUME TraceInv
  PROVE  MaxAddressIsEnd
<1> SUFFICES ASSUME phase = "done" PROVE MaxAddressIsEnd
  BY DEF MaxAddressIsEnd
<1>1. /\ DOMAIN events = DOMAIN Read /\ Blocks \subseteq DOMAIN Read
      /\ \A i \in DOMAIN Read : Read[i].type = "M" <=> i \in Blocks
  BY ReadIsSane DEF TraceInv, Blocks, OfType
<1>2. OfType(events, "M") = Blocks
  BY <1>1, DoneEvents DEF OfType
<1>3. \A i \in Blocks : events[i].arg2 <= maxAddress
  BY <1>1, DoneEvents DEF TraceInv, PlacedInv
<1>4. ASSUME events # <<>> PROVE \E i \in Blocks : events[i].arg2 = maxAddress
  <2>1. PICK j \in DOMAIN Read : TRUE
    <3>1. events \in Seq(Recs)
      BY DEF TraceInv, TraceTypeOK
    <3>2. Len(events) \in Nat \ {0} /\ DOMAIN events = 1 .. Len(events)
      BY <1>4, <3>1, EmptySeq, LenProperties
    <3>3. 1 \in DOMAIN events
      BY <3>2
    <3> QED BY <1>1, <3>3
  <2>2. DOMAIN offsets # {}
    BY <2>1, DoneEvents DEF Placed
  <2>3. PICK b \in DOMAIN offsets : lastEndO = merged[b] /\ maxAddress = offsets[b] + merged[b] - b
    BY <2>2 DEF TraceInv, PlacedInv
  <2>4. /\ b \in DOMAIN merged /\ b \in Nat /\ merged[b] \in Nat /\ b <= merged[b]
        /\ offsets[b] \in Nat
    BY DEF TraceInv, LayoutInv, MergedInv, PlacedInv
  <2>5. RemapAddress(merged[b]) = merged[b] - b + offsets[b]
    <3>1. merged[b] \in b .. merged[b]
      BY <2>4
    <3> QED BY <3>1, PlacedAre DEF TraceInv
  <2>6. PICK i \in Blocks : Read[i].arg2 = merged[b]
    BY <2>4 DEF TraceInv, MergedInv
  <2>7. events[i].arg2 = RemapAddress(merged[b])
    BY <1>1, <2>6, DoneEvents
  <2> QED BY <2>3, <2>4, <2>5, <2>7
<1> QED BY <1>2, <1>3, <1>4 DEF MaxAddressIsEnd

\* An ill-formed file is the only reason to give up.
LEMMA AbortIsIllFormed ==
  ASSUME TraceInv, IndexAborts \/ RemapAborts
  PROVE  ~WellFormed(UpToEnd(file)) /\ file' = file
<1>1. /\ phase \in {"index", "layout"} /\ events = Read /\ file' = file
      /\ events # <<>> => Read = UpToEnd(file)
  BY BoundsAre DEF IndexAborts, RemapAborts, TraceInv, Read
<1>2. /\ DOMAIN Read = 1 .. Len(Read) /\ Len(Read) \in Nat
      /\ \A i \in Blocks : Read[i].arg1 <= Read[i].arg2
      /\ \A i \in DOMAIN Read : Read[i].arg1 \in Nat /\ Read[i].arg2 \in Nat
  BY ReadIsSane DEF TraceInv
<1>3. (\E i \in DOMAIN events : TRUE) => Read = UpToEnd(file)
  <2>1. events = <<>> => DOMAIN events = {}
    OBVIOUS
  <2> QED BY <1>1, <2>1
<1>4. CASE IndexAborts
  <2>1. At \in DOMAIN events /\ Event.type = "M" /\ Event.arg1 \in DOMAIN open
    BY <1>4 DEF IndexAborts, Duplicate
  <2> DEFINE k == open[Event.arg1]
  <2>2. k \in LiveAfter(Read, Len(validRegions)) /\ Read[k].arg1 = Event.arg1
    BY <2>1 DEF TraceInv, IndexInv, Range
  <2>3. Len(validRegions) \in Nat /\ At - 1 = Len(validRegions)
    BY LenProperties DEF TraceInv, TraceTypeOK, At
  <2> HIDE DEF k
  <2>4. /\ At \in DOMAIN Read /\ Read[At].type = "M"
        /\ k \in LiveAfter(Read, At - 1) /\ Read[k].arg1 = Read[At].arg1
    BY <1>1, <2>1, <2>2, <2>3 DEF Event
  <2>5. ~WellFormed(Read)
    BY <2>4 DEF WellFormed
  <2> QED BY <1>1, <1>3, <2>1, <2>5
<1>5. CASE RemapAborts
  <2>1. phase = "layout"
    BY <1>5 DEF RemapAborts
  <2>1a. PICK i \in DOMAIN Read : \E a \in Args(Read[i]) : ~InRegion(a)
    BY <1>1, <1>5 DEF RemapAborts
  <2>2. PICK a \in Args(Read[i]) : ~InRegion(a)
    BY <2>1a
  <2>3. \A k \in Blocks : \E b \in DOMAIN merged :
          b <= Read[k].arg1 /\ Read[k].arg2 <= merged[b]
    BY <2>1 DEF TraceInv, SweepInv
  <2>4. \A b \in DOMAIN merged : b \in Nat /\ merged[b] \in Nat
    BY DEF TraceInv, MergedInv
  <2>5. a \in Nat /\ Blocks \subseteq DOMAIN Read
    BY <1>2, <2>1a, <2>2 DEF Args, Blocks, OfType
  <2>6. ~ \E k \in Blocks : Read[k].arg1 <= a /\ a <= Read[k].arg2
    <3> SUFFICES ASSUME NEW k \in Blocks, Read[k].arg1 <= a /\ a <= Read[k].arg2 PROVE FALSE
      OBVIOUS
    <3>1. PICK b \in DOMAIN merged : b <= Read[k].arg1 /\ Read[k].arg2 <= merged[b]
      BY <2>3
    <3>2. b <= a /\ a <= merged[b]
      BY <1>2, <2>4, <2>5, <3>1
    <3> QED BY <2>2, <3>2 DEF InRegion
  <2>7. a = Read[i].arg1
    <3> SUFFICES ASSUME a # Read[i].arg1 PROVE FALSE
      OBVIOUS
    <3>1. i \in Blocks /\ a = Read[i].arg2
      BY <2>1a, <2>2 DEF Args, Blocks, OfType
    <3> QED BY <1>2, <2>5, <2>6, <3>1
  <2>8. ~WellFormed(Read)
    BY <2>1a, <2>6, <2>7 DEF WellFormed, Blocks
  <2> QED BY <1>1, <1>3, <2>1a, <2>8
<1> QED BY <1>4, <1>5

\* The regions of the file, after a record that was read.
LEMMA LiveInFile ==
  ASSUME ParseInv, NEW n \in DOMAIN Read
  PROVE  LiveAfter(file, n) = LiveAfter(Read, n) /\ \A i \in 1 .. n : i \in DOMAIN Read /\ file[i] = Read[i]
<1>1. DOMAIN Read = 1 .. Len(Read) /\ Len(Read) \in Nat /\ Len(Read) >= 1
  BY ReadIsSane
<1>2. Read # <<>> /\ events # <<>> /\ OfType(file, "E") # {} /\ file \in Seq(Recs)
  BY <1>1 DEF Read, ParseInv, Sane
<1>3. Read = UpToEnd(file)
  BY <1>2 DEF Read
<1>4. /\ Len(Read) <= Len(file) /\ \A i \in 1 .. Len(Read) : Read[i] = file[i]
  BY <1>2, <1>3, UpToEndIsSane DEF ParseInv
<1>5. Len(file) \in Nat /\ DOMAIN file = 1 .. Len(file)
  BY <1>2, LenProperties
<1>6. n \in Nat /\ n <= Len(Read)
  BY <1>1
<1>7. ASSUME NEW i \in 1 .. n
      PROVE  i \in DOMAIN file /\ i \in DOMAIN Read /\ file[i] = Read[i]
  BY <1>1, <1>4, <1>5, <1>6
<1> QED BY <1>2, <1>3, <1>4, <1>5, <1>6, <1>7, UpToEndIsSane, LiveOfPrefix DEF ParseInv

LEMMA MemStatusFollows ==
  ASSUME TraceInv
  PROVE  MemStatusIsTrue
<1> SUFFICES ASSUME phase = "done", NEW frame \in DOMAIN events
             PROVE  LET live == LiveAfter(file, frame)
                        s == MemStatus(frame, Len(events)) IN
                    /\ \A i \in 1 .. frame :
                         file[i].type \in {"R", "W"} =>
                           (s.mask[i] <=> \E m \in live : /\ file[m].arg1 <= file[i].arg1
                                                          /\ file[i].arg1 < file[m].arg2)
                    /\ \A m \in live : \E r \in s.regions :
                         r[2] - r[1] = file[m].arg2 - file[m].arg1
                    /\ Cardinality(s.regions) = Cardinality({file[m].arg1 : m \in live})
  BY DEF MemStatusIsTrue
<1> DEFINE live == LiveAfter(file, frame)
           pairs == {<<events[m].arg1, events[m].arg2>> : m \in live}
<1>1. /\ events \in Seq(Recs) /\ DOMAIN events = DOMAIN Read /\ Len(events) \in Nat
      /\ DOMAIN events = 1 .. Len(events) /\ frame \in DOMAIN Read /\ frame \in Nat
      /\ frame <= Len(events)
  BY LenProperties DEF TraceInv, TraceTypeOK, ParseInv
<1>2. /\ live = LiveAfter(Read, frame)
      /\ \A i \in 1 .. frame : i \in DOMAIN Read /\ i \in DOMAIN events /\ file[i] = Read[i]
  BY <1>1, LiveInFile DEF TraceInv
<1>3. validRegions[frame] = live
      /\ \A k, l \in live : file[k].arg1 = file[l].arg1 => k = l
  <2>1. frame \in DOMAIN validRegions
    BY <1>1, LenProperties, ReadIsSane DEF TraceInv, IndexInv, TraceTypeOK
  <2>2. \A k, l \in LiveAfter(Read, frame) : Read[k].arg1 = Read[l].arg1 => k = l
    BY <2>1 DEF TraceInv, IndexInv
  <2>3. \A k \in live : k \in 1 .. frame
    BY <1>1, <1>2 DEF LiveAfter, OfType
  <2> QED BY <1>2, <2>1, <2>2, <2>3 DEF TraceInv, IndexInv
<1>4. ASSUME NEW m \in live
      PROVE  /\ m \in 1 .. frame /\ m \in Blocks /\ file[m].type = "M"
             /\ file[m].arg1 \in Placed /\ events[m].arg1 = RemapAddress(file[m].arg1)
             /\ file[m].arg2 \in Placed /\ events[m].arg2 = RemapAddress(file[m].arg2)
  <2>1. m \in DOMAIN Read /\ m \in 1 .. frame /\ m \in Blocks /\ Read[m].type = "M"
    BY <1>1, <1>2 DEF LiveAfter, OfType, Blocks
  <2> QED BY <1>2, <2>1, DoneEvents
<1>5. /\ MemStatus(frame, Len(events)).regions = pairs
      /\ \A i \in Shown(frame, Len(events)) :
           MemStatus(frame, Len(events)).mask[i] <=> \E m \in live : Contains(m, events[i].arg1)
  BY <1>3 DEF MemStatus
<1> HIDE DEF live
<1>6. ASSUME NEW i \in 1 .. frame, file[i].type \in {"R", "W"}
      PROVE  MemStatus(frame, Len(events)).mask[i] <=>
               \E m \in live : file[m].arg1 <= file[i].arg1 /\ file[i].arg1 < file[m].arg2
  <2>1. /\ events[i].type = file[i].type /\ file[i].arg1 \in Placed
        /\ events[i].arg1 = RemapAddress(file[i].arg1)
    BY <1>2, DoneEvents
  <2>2. i \in Shown(frame, Len(events))
    <3> DEFINE after == {j \in i + 1 .. frame : IsAccess(j)}
    <3>0. i \in Nat /\ i >= 1 /\ i + 1 \in Int /\ frame \in Int
      BY <1>1
    <3>1. /\ IsFiniteSet(i + 1 .. frame)
          /\ Cardinality(i + 1 .. frame) = IF i + 1 > frame THEN 0 ELSE frame - (i + 1) + 1
      BY <3>0, FS_Interval
    <3>2. Cardinality(i + 1 .. frame) < Len(events)
      BY <1>1, <3>0, <3>1
    <3>3. /\ Cardinality(after) \in Nat /\ Cardinality(i + 1 .. frame) \in Nat
          /\ Cardinality(after) <= Cardinality(i + 1 .. frame)
      BY <3>1, FS_Subset, FS_CardinalityType
    <3>4. Cardinality(after) < Len(events)
      BY <1>1, <3>2, <3>3
    <3> QED BY <1>6, <2>1, <3>4 DEF Shown, IsAccess
  <2>3. ASSUME NEW a \in Placed, NEW c \in Placed
        PROVE  a < c <=> RemapAddress(a) < RemapAddress(c)
    <3>1. /\ a \in Nat /\ c \in Nat /\ RemapAddress(a) \in Nat /\ RemapAddress(c) \in Nat
      BY PlacedAre DEF TraceInv
    <3>2. /\ a < c => RemapAddress(a) < RemapAddress(c)
          /\ c < a => RemapAddress(c) < RemapAddress(a)
      BY DEF TraceInv, PlacedInv, LinesKept
    <3> QED BY <3>1, <3>2
  <2>4. ASSUME NEW m \in live
        PROVE  Contains(m, events[i].arg1) <=>
                 file[m].arg1 <= file[i].arg1 /\ file[i].arg1 < file[m].arg2
    <3>1. \A a \in Placed : a \in Nat /\ RemapAddress(a) \in Nat
      BY PlacedAre DEF TraceInv
    <3>2. ~(file[i].arg1 < file[m].arg1) <=> ~(events[i].arg1 < events[m].arg1)
      BY <1>4, <2>1, <2>3
    <3>3. file[i].arg1 < file[m].arg2 <=> events[i].arg1 < events[m].arg2
      BY <1>4, <2>1, <2>3
    <3> QED BY <1>4, <2>1, <3>1, <3>2, <3>3 DEF Contains
  <2> QED BY <1>5, <2>2, <2>4
<1>7. ASSUME NEW m \in live
      PROVE  events[m].arg2 - events[m].arg1 = file[m].arg2 - file[m].arg1
  <2>1. /\ Read[m] = file[m] /\ file[m].arg1 \in Nat /\ file[m].arg2 \in Nat
        /\ file[m].arg1 <= file[m].arg2
    BY <1>2, <1>4, ReadIsSane DEF TraceInv
  <2>2. PICK b \in DOMAIN merged : b <= file[m].arg1 /\ file[m].arg2 <= merged[b]
    BY <1>4, <2>1 DEF TraceInv, SweepInv
  <2>3. b \in Nat /\ merged[b] \in Nat /\ b \in DOMAIN offsets /\ offsets[b] \in Nat
    BY <2>2 DEF TraceInv, MergedInv, LayoutInv, PlacedInv
  <2>4. file[m].arg1 \in b .. merged[b] /\ file[m].arg2 \in b .. merged[b]
    BY <2>1, <2>2, <2>3
  <2>5. /\ events[m].arg1 = file[m].arg1 - b + offsets[b]
        /\ events[m].arg2 = file[m].arg2 - b + offsets[b]
    BY <1>4, <2>3, <2>4, PlacedAre DEF TraceInv
  <2> QED BY <2>1, <2>3, <2>5
<1>8. Cardinality(pairs) = Cardinality({file[m].arg1 : m \in live})
  <2>1. IsFiniteSet(live)
    BY <1>4, ReadIsSane, FS_Subset DEF TraceInv
  <2> DEFINE f == [m \in live |-> <<events[m].arg1, events[m].arg2>>]
             g == [m \in live |-> file[m].arg1]
  <2>2. Cardinality({g[m] : m \in DOMAIN g}) = Cardinality(live)
    <3>1. DOMAIN g = live /\ \A x, y \in DOMAIN g : g[x] = g[y] => x = y
      BY <1>3
    <3> HIDE DEF g
    <3> QED BY <2>1, <3>1, ImageSize
  <2>3. Cardinality({f[m] : m \in DOMAIN f}) = Cardinality(live)
    <3>1. ASSUME NEW x \in live, NEW y \in live, events[x].arg1 = events[y].arg1 PROVE x = y
      <4>1. \A a, c \in Placed : a < c => RemapAddress(a) < RemapAddress(c)
        BY DEF TraceInv, PlacedInv, LinesKept
      <4>2. \A a \in Placed : a \in Nat /\ RemapAddress(a) \in Nat
        BY PlacedAre DEF TraceInv
      <4>3. file[x].arg1 = file[y].arg1
        BY <1>4, <3>1, <4>1, <4>2
      <4> QED BY <1>3, <4>3
    <3>2. DOMAIN f = live /\ \A x, y \in DOMAIN f : f[x] = f[y] => x = y
      BY <3>1
    <3> HIDE DEF f
    <3> QED BY <2>1, <3>2, ImageSize
  <2>4. {f[m] : m \in DOMAIN f} = pairs /\ {g[m] : m \in DOMAIN g} = {file[m].arg1 : m \in live}
    OBVIOUS
  <2> QED BY <2>2, <2>3, <2>4
<1>9. \A m \in live : \E r \in pairs : r[2] - r[1] = file[m].arg2 - file[m].arg1
  <2>1. ASSUME NEW m \in live
        PROVE  \E r \in pairs : r[2] - r[1] = file[m].arg2 - file[m].arg1
    <3>1. <<events[m].arg1, events[m].arg2>> \in pairs
      OBVIOUS
    <3> QED BY <1>7, <3>1
  <2> QED BY <2>1
<1> QED BY <1>5, <1>6, <1>8, <1>9 DEF live

=============================================================================
