--------------------------- MODULE BdCacheProofs ---------------------------
(* Coherence of the block cache for every size of the cache, of the device    *)
(* and of the words it counts in, and that the cached device implements the   *)
(* device behind it.                                                          *)
EXTENDS BdCache, TLAPS

(* u64 arithmetic on the sectors of requests and of held blocks does not wrap *)
LEMMA NoWrap == ASSUME NEW x \in 0 .. SectorMod - 1 PROVE U64(x) = x
  BY SectorAssumption DEF U64

(* The weight counters stay in their word.                                    *)
LEMMA IntRange == ASSUME NEW x \in Int PROVE Int32(x) \in -HalfWord .. HalfWord - 1
<1>1. 2 * HalfWord \in Nat \ {0}
  BY CacheAssumption
<1>2. (x + HalfWord) % (2 * HalfWord) \in 0 .. 2 * HalfWord - 1
  BY <1>1, CacheAssumption
<1> QED
  BY <1>2, CacheAssumption DEF Int32

LEMMA AgedRange ==
  ASSUME TypeOK, NEW b \in Slots PROVE Aged(b) \in -HalfWord .. HalfWord - 1
<1>1. weight[b] \in Int
  BY CacheAssumption DEF TypeOK
<1>2. TruncDiv(weight[b], AgeDivisor) \in Int
  BY <1>1, CacheAssumption DEF TruncDiv
<1>3. (SectorsPerBlock * WeightFactor) \div BlockCount \in Int
  <2> DEFINE p == SectorsPerBlock * WeightFactor
  <2>1. p \in Int
    BY CacheAssumption
  <2> HIDE DEF p
  <2>2. p \div BlockCount \in Int
    BY <2>1, CacheAssumption
  <2> QED
    BY <2>2 DEF p
<1> QED
  BY <1>1, <1>2, <1>3, IntRange DEF Aged

Request(s, c) == s \in 0 .. DeviceSectors /\ c \in 1 .. MaxCount

(* The comparisons of a request with a slot, without the wrap: an invalid     *)
(* slot is never hit, and never escapes a write that touches a held block.    *)
LEMMA HitMeans ==
  ASSUME TypeOK, NEW s, NEW c, Request(s, c), NEW b \in Slots, Hit(b, s, c)
  PROVE  Held(b) /\ s >= sector[b] /\ s + c <= sector[b] + SectorsPerBlock
<1>1. sector[b] \in 0 .. SectorMod - 1
  BY DEF TypeOK
<1>2. s >= sector[b]
  BY DEF Hit, _contains
<1>3. sector[b] # Invalid
  BY <1>2, CacheAssumption, SectorAssumption DEF Invalid, Request
<1>4. sector[b] + SectorsPerBlock <= DeviceSectors
  BY <1>3 DEF TypeOK, Held
<1>5. U64(s + c) = s + c
  BY NoWrap, CacheAssumption, SectorAssumption DEF Request
<1>6. U64(sector[b] + SectorsPerBlock) = sector[b] + SectorsPerBlock
  BY <1>1, <1>4, NoWrap, CacheAssumption, SectorAssumption
<1> QED
  BY <1>2, <1>3, <1>5, <1>6 DEF Hit, _contains, Held

LEMMA StartIsHit ==
  ASSUME TypeOK, NEW s, NEW c, Request(s, c), NEW b \in Slots, Held(b),
         sector[b] = s, c < SectorsPerBlock
  PROVE  Hit(b, s, c)
<1>1. sector[b] + SectorsPerBlock <= DeviceSectors
  BY DEF TypeOK
<1>2. U64(s + c) = s + c
  BY NoWrap, CacheAssumption, SectorAssumption DEF Request
<1>3. U64(s + SectorsPerBlock) = s + SectorsPerBlock
  BY <1>1, NoWrap, CacheAssumption, SectorAssumption DEF Request
<1> QED
  BY <1>2, <1>3, CacheAssumption DEF Hit, _contains, Request

LEMMA OverlapMeans ==
  ASSUME TypeOK, NEW s, NEW c, Request(s, c), NEW b \in Slots, Held(b),
         ~_overlaps(sector[b], s, c)
  PROVE  s >= sector[b] + SectorsPerBlock \/ s + c <= sector[b]
<1>1. sector[b] \in 0 .. SectorMod - 1 /\ sector[b] + SectorsPerBlock <= DeviceSectors
  BY DEF TypeOK
<1>2. U64(s + c) = s + c
  BY NoWrap, CacheAssumption, SectorAssumption DEF Request
<1>3. U64(sector[b] + SectorsPerBlock) = sector[b] + SectorsPerBlock
  BY <1>1, NoWrap, CacheAssumption, SectorAssumption
<1> QED
  BY <1>1, <1>2, <1>3, CacheAssumption DEF _overlaps, Request

-----------------------------------------------------------------------------
Inv == TypeOK /\ Coherent /\ NoDuplicate

LEMMA InitInv == Init => Inv
<1> SUFFICES ASSUME Init PROVE Inv
  OBVIOUS
<1>1. 0 \in -HalfWord .. HalfWord - 1 /\ Invalid \in 0 .. SectorMod - 1
  BY CacheAssumption, SectorAssumption DEF Invalid
<1>2. \A b \in Slots : ~Held(b)
  BY DEF Init, Held
<1> QED
  BY <1>1, <1>2 DEF Init, D!Init, Inv, TypeOK, Coherent, NoDuplicate

LEMMA ReadDirectInv ==
  ASSUME Inv, NEW s, NEW c, Request(s, c), ReadDirect(s, c) PROVE Inv'
  BY DEF Inv, ReadDirect, TypeOK, Coherent, NoDuplicate, Held, D!Sectors

LEMMA ReadHitInv ==
  ASSUME Inv, NEW s, NEW c, Request(s, c), ReadHit(s, c) PROVE Inv'
<1>1. weight' \in [Slots -> -HalfWord .. HalfWord - 1]
  <2>1. PICK b \in Slots : LET w == IF weight[b] < 0 THEN 0 ELSE weight[b] IN
                           weight' = [weight EXCEPT ![b] = Int32(w + c * WeightFactor)]
    BY DEF ReadHit
  <2>2. weight[b] \in Int
    BY CacheAssumption DEF Inv, TypeOK
  <2>3. c * WeightFactor \in Int
    BY CacheAssumption DEF Request
  <2> DEFINE w == IF weight[b] < 0 THEN 0 ELSE weight[b]
  <2>4. w + c * WeightFactor \in Int
    BY <2>2, <2>3
  <2>5. Int32(w + c * WeightFactor) \in -HalfWord .. HalfWord - 1
    BY <2>4, IntRange
  <2> QED
    BY <2>1, <2>5 DEF Inv, TypeOK
<1> QED
  BY <1>1 DEF Inv, ReadHit, TypeOK, Coherent, NoDuplicate, Held, D!Sectors

LEMMA ReadMissInv ==
  ASSUME Inv, NEW s, NEW c, Request(s, c), NEW b \in Slots, ReadMiss(s, c, b)
  PROVE Inv'
<1>1. weight' \in [Slots -> -HalfWord .. HalfWord - 1]
  <2>1. c * WeightFactor \in Int
    BY CacheAssumption DEF Request
  <2>2. Int32(c * WeightFactor) \in -HalfWord .. HalfWord - 1
    BY <2>1, IntRange
  <2>3. \A a \in Slots : Aged(a) \in -HalfWord .. HalfWord - 1
    BY AgedRange DEF Inv
  <2> QED
    BY <2>2, <2>3 DEF ReadMiss
<1>2. \A i \in Block : Refilled(b, s, SectorsPerBlock)[i] = dev[s + i]
  BY CacheAssumption DEF Refilled, Block
<1>3. \A i \in Block : s + i \in D!Sectors
  BY CacheAssumption DEF ReadMiss, Block, Request, D!Sectors
<1>4. Refilled(b, s, SectorsPerBlock) \in [Block -> Values]
  BY <1>2, <1>3 DEF Refilled, Inv, TypeOK
<1>5. s \in 0 .. SectorMod - 1 /\ s # Invalid
  BY CacheAssumption, SectorAssumption DEF Request, Invalid
<1>6. TypeOK'
  BY <1>1, <1>4, <1>5 DEF ReadMiss, Inv, TypeOK, Held, D!Sectors, Request
<1>7. Coherent'
  BY <1>2, <1>5 DEF ReadMiss, Inv, TypeOK, Coherent, Held
<1>8. NoDuplicate'
  <2>1. \A a \in Slots : Held(a) => sector[a] # s
    BY StartIsHit DEF ReadMiss, NoHit, Inv
  <2> QED
    BY <2>1, <1>5 DEF ReadMiss, Inv, TypeOK, NoDuplicate, Held
<1> QED
  BY <1>6, <1>7, <1>8 DEF Inv

LEMMA ReadMissFailedInv ==
  ASSUME Inv, NEW s, NEW c, Request(s, c), NEW b \in Slots, ReadMissFailed(s, c, b)
  PROVE Inv'
<1>1. weight' \in [Slots -> -HalfWord .. HalfWord - 1]
  <2>1. 0 \in -HalfWord .. HalfWord - 1
    BY CacheAssumption
  <2>2. \A a \in Slots : Aged(a) \in -HalfWord .. HalfWord - 1
    BY AgedRange DEF Inv
  <2> QED
    BY <2>1, <2>2 DEF ReadMissFailed
<1>2. Invalid \in 0 .. SectorMod - 1
  BY CacheAssumption, SectorAssumption DEF Invalid
<1>3. PICK n \in 0 .. SectorsPerBlock - 1 :
         /\ s + n <= DeviceSectors
         /\ cache' = [cache EXCEPT ![b] = Refilled(b, s, n)]
  BY DEF ReadMissFailed
<1>4. \A i \in Block : i < n => s + i \in D!Sectors
  BY <1>3, CacheAssumption DEF Block, Request, D!Sectors
<1>5. Refilled(b, s, n) \in [Block -> Values]
  BY <1>4 DEF Refilled, Inv, TypeOK
<1>6. TypeOK'
  BY <1>1, <1>2, <1>3, <1>5 DEF ReadMissFailed, Inv, TypeOK, Held, D!Sectors
<1>7. Coherent'
  BY <1>3 DEF ReadMissFailed, Inv, TypeOK, Coherent, Held
<1>8. NoDuplicate'
  BY DEF ReadMissFailed, Inv, TypeOK, NoDuplicate, Held
<1> QED
  BY <1>6, <1>7, <1>8 DEF Inv

LEMMA WriteInv ==
  ASSUME Inv, NEW s, NEW c, Request(s, c), Write(s, c) PROVE Inv'
<1>0. PICK n \in 0 .. c :
         /\ s + n <= DeviceSectors
         /\ \E buffer \in [0 .. n - 1 -> Values] :
              dev' = [x \in D!Sectors |-> IF x \in s .. s + n - 1 THEN buffer[x - s]
                                          ELSE dev[x]]
  BY DEF Write, D!Write
<1>1. PICK buffer \in [0 .. n - 1 -> Values] :
         dev' = [x \in D!Sectors |-> IF x \in s .. s + n - 1 THEN buffer[x - s]
                                     ELSE dev[x]]
  BY <1>0
<1>2. dev' \in [D!Sectors -> Values]
  <2>1. \A x \in s .. s + n - 1 : x - s \in 0 .. n - 1
    BY DEF Request
  <2> QED
    BY <1>1, <2>1 DEF Inv, TypeOK
<1>3. \A b \in Slots : Held(b)' => Held(b) /\ sector'[b] = sector[b]
                                  /\ ~_overlaps(sector[b], s, c)
  BY DEF Write, _invalidate, Held, Inv, TypeOK
<1>4. \A b \in Slots : Held(b)' => \A i \in Block : dev'[sector[b] + i] = dev[sector[b] + i]
  <2> SUFFICES ASSUME NEW b \in Slots, Held(b)', NEW i \in Block
               PROVE  dev'[sector[b] + i] = dev[sector[b] + i]
    OBVIOUS
  <2>1. s >= sector[b] + SectorsPerBlock \/ s + c <= sector[b]
    BY <1>3, OverlapMeans DEF Inv
  <2>2. sector[b] \in Int /\ sector[b] >= 0 /\ sector[b] + SectorsPerBlock <= DeviceSectors
    BY <1>3, SectorAssumption DEF Inv, TypeOK
  <2>3. sector[b] + i \in D!Sectors /\ sector[b] + i \notin s .. s + n - 1
    BY <2>1, <2>2, CacheAssumption DEF Block, D!Sectors, Request
  <2> QED
    BY <1>1, <2>3
<1>5. sector' \in [Slots -> 0 .. SectorMod - 1]
  BY CacheAssumption, SectorAssumption DEF Write, _invalidate, Inv, TypeOK, Invalid
<1>6. TypeOK'
  BY <1>2, <1>3, <1>5 DEF Write, Inv, TypeOK, D!Sectors
<1>7. Coherent'
  BY <1>3, <1>4 DEF Write, Inv, Coherent
<1>8. NoDuplicate'
  BY <1>3 DEF Inv, NoDuplicate, Write, _invalidate, Held
<1> QED
  BY <1>6, <1>7, <1>8 DEF Inv

(* Every call of the cache keeps it typed, coherent and free of duplicates.   *)
THEOREM CacheInductive == Spec => []Inv
<1>1. Inv /\ [Next]_vars => Inv'
  <2> SUFFICES ASSUME Inv, [Next]_vars PROVE Inv'
    OBVIOUS
  <2>1. CASE UNCHANGED vars
    BY <2>1 DEF vars, Inv, TypeOK, Coherent, NoDuplicate, Held, D!Sectors
  <2>2. CASE Next
    <3>1. PICK s \in 0 .. DeviceSectors, c \in 1 .. MaxCount : Read(s, c) \/ Write(s, c)
      BY <2>2 DEF Next
    <3>2. Request(s, c)
      BY DEF Request
    <3> QED
      BY <3>1, <3>2, ReadDirectInv, ReadHitInv, ReadMissInv, ReadMissFailedInv,
         WriteInv DEF Read
  <2> QED
    BY <2>1, <2>2
<1> QED
  BY <1>1, InitInv, PTL DEF Spec

(* What a published slot holds is what the device holds.                      *)
THEOREM CacheCoherent == Spec => []Coherent
<1>1. Inv => Coherent
  BY DEF Inv
<1> QED
  BY <1>1, CacheInductive, PTL

(* Every reachable state of the cache is well typed: weights stay in their    *)
(* word through the aging, and no held block reaches past the device.         *)
THEOREM CacheTypes == Spec => []TypeOK
<1>1. Inv => TypeOK
  BY DEF Inv
<1> QED
  BY <1>1, CacheInductive, PTL

(* The cache never spends two slots on one block.                             *)
THEOREM CacheNoDuplicate == Spec => []NoDuplicate
<1>1. Inv => NoDuplicate
  BY DEF Inv
<1> QED
  BY <1>1, CacheInductive, PTL

-----------------------------------------------------------------------------
(* Every read through the cache is a read of the device: what a hit or a      *)
(* refill hands out is the device's present contents.                         *)
LEMMA ReadRefines ==
  ASSUME Inv, NEW s, NEW c, Request(s, c), Read(s, c) PROVE D!Read(s, c)
<1>0. c \in -1 .. c /\ c \in Nat
  BY DEF Request
<1>1. CASE ReadDirect(s, c)
  BY <1>1 DEF ReadDirect, DriverRead, Reply, D!Read
<1>2. CASE ReadHit(s, c)
  <2>1. PICK b \in Slots :
          /\ Hit(b, s, c)
          /\ Reply("read", s, c, c, [i \in 0 .. c - 1 |-> cache[b][s - sector[b] + i]])
    BY <1>2 DEF ReadHit
  <2>2. Held(b) /\ s >= sector[b] /\ s + c <= sector[b] + SectorsPerBlock
    BY <2>1, HitMeans DEF Inv
  <2>3. sector[b] \in Int /\ sector[b] + SectorsPerBlock <= DeviceSectors
    BY <2>2, SectorAssumption DEF Inv, TypeOK
  <2>4. \A i \in 0 .. c - 1 : cache[b][s - sector[b] + i] = dev[s + i]
    <3> SUFFICES ASSUME NEW i \in 0 .. c - 1
                 PROVE  cache[b][s - sector[b] + i] = dev[s + i]
      OBVIOUS
    <3>1. s - sector[b] + i \in Block
      BY <2>2, <2>3, CacheAssumption DEF Block, Request
    <3>2. sector[b] + (s - sector[b] + i) = s + i
      BY <2>3 DEF Request
    <3> QED
      BY <2>2, <3>1, <3>2 DEF Inv, Coherent
  <2>5. [i \in 0 .. c - 1 |-> cache[b][s - sector[b] + i]] = D!Prefix(s, c)
    BY <2>4 DEF D!Prefix
  <2>6. s + c <= DeviceSectors
    BY <2>2, <2>3, CacheAssumption DEF Request
  <2> QED
    BY <1>0, <1>2, <2>1, <2>5, <2>6 DEF ReadHit, Reply, D!Read
<1>3. ASSUME NEW b \in Slots, ReadMiss(s, c, b) PROVE D!Read(s, c)
  <2>1. cache'[b] = Refilled(b, s, SectorsPerBlock)
    BY <1>3 DEF ReadMiss, Inv, TypeOK
  <2>2. \A i \in 0 .. c - 1 : cache'[b][i] = dev[s + i]
    BY <1>3, <2>1, CacheAssumption DEF ReadMiss, Refilled, Block, Request
  <2>3. [i \in 0 .. c - 1 |-> cache'[b][i]] = D!Prefix(s, c)
    BY <2>2 DEF D!Prefix
  <2>4. s + c <= DeviceSectors
    BY <1>3, CacheAssumption DEF ReadMiss, Request
  <2> QED
    BY <1>0, <1>3, <2>3, <2>4 DEF ReadMiss, Reply, D!Read
<1>4. ASSUME NEW b \in Slots, ReadMissFailed(s, c, b) PROVE D!Read(s, c)
  BY <1>4 DEF ReadMissFailed, DriverRead, Reply, D!Read
<1> QED
  BY <1>1, <1>2, <1>3, <1>4 DEF Read

(* No file system can tell the cached device from the device behind it.       *)
THEOREM CacheImplementsDevice == Spec => CachedIsDevice
<1>1. Init => D!Init
  BY DEF Init
<1>2. Inv /\ [Next]_vars => [D!Next]_<<dev, out>>
  <2> SUFFICES ASSUME Inv, [Next]_vars PROVE [D!Next]_<<dev, out>>
    OBVIOUS
  <2>1. CASE UNCHANGED vars
    BY <2>1 DEF vars
  <2>2. CASE Next
    <3>1. PICK s \in 0 .. DeviceSectors, c \in 1 .. MaxCount : Read(s, c) \/ Write(s, c)
      BY <2>2 DEF Next
    <3>2. Read(s, c) => D!Read(s, c)
      BY ReadRefines DEF Request
    <3>3. Write(s, c) => D!Write(s, c)
      BY DEF Write
    <3> QED
      BY <3>1, <3>2, <3>3 DEF D!Next
  <2> QED
    BY <2>1, <2>2
<1> QED
  BY <1>1, <1>2, CacheInductive, PTL DEF Spec, CachedIsDevice, D!Spec
=============================================================================
