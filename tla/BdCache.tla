------------------------------ MODULE BdCache ------------------------------
(* The read cache BDM puts in front of a whole block device                   *)
(* (src/modules/bdm/libbdm/src/bd_cache.c): BLOCK_COUNT slots of              *)
(* SECTORS_PER_BLOCK sectors, filled from wherever a read starts, dropped by  *)
(* any write that touches them, replaced by lowest weight.  The driver below  *)
(* it may fail or deliver less than asked on every call.                      *)
(* A call runs to completion before the next: the file systems on the device  *)
(* serialise their calls.                                                     *)
EXTENDS Integers

CONSTANTS
  BlockCount,       \* BLOCK_COUNT (32)
  SectorsPerBlock,  \* SECTORS_PER_BLOCK (8)
  WeightFactor,     \* BLOCK_WEIGHT_FACTOR (256)
  AgeDivisor,       \* the 32 of the dynamic aging
  HalfWord,         \* 2^31: int is -HalfWord .. HalfWord - 1
  SectorMod,        \* 2^64: u64 arithmetic wraps at this
  DeviceSectors,    \* sectorCount of the device
  MaxCount,         \* bound: the largest transfer asked for
  Values            \* contents of a sector

ASSUME CacheAssumption ==
  /\ BlockCount \in Nat \ {0} /\ SectorsPerBlock \in Nat \ {0}
  /\ WeightFactor \in Nat /\ AgeDivisor \in Nat \ {0} /\ HalfWord \in Nat \ {0}
  /\ DeviceSectors \in Nat \ {0} /\ MaxCount \in Nat
ASSUME SectorAssumption ==
  /\ SectorMod \in Nat
  /\ DeviceSectors + MaxCount + SectorsPerBlock < SectorMod

VARIABLES
  dev,     \* contents of the device behind the cache
  out,     \* what the last call returned to the file system
  weight,  \* per slot
  sector,  \* first sector held by the slot, or Invalid
  cache    \* per slot: SectorsPerBlock sectors

vars == <<dev, out, weight, sector, cache>>

D == INSTANCE BlockDev

Slots == 0 .. BlockCount - 1
Block == 0 .. SectorsPerBlock - 1
Invalid == SectorMod - 1

U64(x) == x % SectorMod
Int32(x) == ((x + HalfWord) % (2 * HalfWord)) - HalfWord
TruncDiv(a, b) == IF a >= 0 THEN a \div b ELSE -((-a) \div b)

_overlaps(csector, s, c) ==
  s < U64(csector + SectorsPerBlock) /\ U64(s + c) > csector

(* Mutant: a block that starts at the requested sector is not recognised.     *)
_containsStrict(csector, s, c) ==
  s > csector /\ U64(s + c) <= U64(csector + SectorsPerBlock)

_contains(csector, s, c) ==
  s >= csector /\ U64(s + c) <= U64(csector + SectorsPerBlock)

(* bd_cache_create; the memory of a new cache holds anything.                 *)
Init ==
  /\ D!Init
  /\ weight = [b \in Slots |-> 0]
  /\ sector = [b \in Slots |-> Invalid]
  /\ cache \in [Slots -> [Block -> Values]]

Reply(call, s, c, r, data) ==
  out' = [call |-> call, sector |-> s, count |-> c, ret |-> r, data |-> data]

-----------------------------------------------------------------------------
(* _read                                                                      *)

(* The driver's own read of c sectors: all of them, fewer, or an error.       *)
DriverRead(s, c) ==
  \E r \in -1 .. c : s + r <= DeviceSectors /\ Reply("read", s, c, r, D!Prefix(s, r))

ReadDirect(s, c) ==
  /\ c >= SectorsPerBlock
  /\ DriverRead(s, c)
  /\ UNCHANGED <<dev, weight, sector, cache>>

Hit(b, s, c) == _contains(sector[b], s, c)
NoHit(s, c) == \A b \in Slots : ~Hit(b, s, c)

(* The first slot that contains the request serves it.                        *)
ReadHit(s, c) ==
  /\ c < SectorsPerBlock
  /\ \E b \in Slots :
       /\ Hit(b, s, c)
       /\ \A a \in 0 .. b - 1 : ~Hit(a, s, c)
       /\ LET w == IF weight[b] < 0 THEN 0 ELSE weight[b] IN
          weight' = [weight EXCEPT ![b] = Int32(w + c * WeightFactor)]
       /\ Reply("read", s, c, c,
                [i \in 0 .. c - 1 |-> cache[b][s - sector[b] + i]])
  /\ UNCHANGED <<dev, sector, cache>>

(* A miss ages every slot and gives up the first one of lowest weight.        *)
Aged(b) == Int32(weight[b] - ((SectorsPerBlock * WeightFactor) \div BlockCount
                              + TruncDiv(weight[b], AgeDivisor)))
Victim(b) == \A a \in Slots : IF a < b THEN Aged(b) < Aged(a)
                              ELSE Aged(b) <= Aged(a)

Refilled(b, s, n) == [i \in Block |-> IF i < n THEN dev[s + i] ELSE cache[b][i]]

ReadMiss(s, c, b) ==
  /\ c < SectorsPerBlock /\ NoHit(s, c)
  /\ Victim(b)
  /\ s + SectorsPerBlock <= DeviceSectors
  /\ cache' = [cache EXCEPT ![b] = Refilled(b, s, SectorsPerBlock)]
  /\ sector' = [sector EXCEPT ![b] = s]
  /\ weight' = [a \in Slots |-> IF a = b THEN Int32(c * WeightFactor)
                              ELSE Aged(a)]
  /\ Reply("read", s, c, c, [i \in 0 .. c - 1 |-> cache'[b][i]])
  /\ UNCHANGED dev

(* The refill fails or is short: it may have overwritten part of the slot,    *)
(* which stays invalid, and the driver is asked for the request itself.       *)
(* Mutant: the slot is published although the refill did not succeed.         *)
ReadMissPublished(s, c, b) ==
  /\ c < SectorsPerBlock /\ NoHit(s, c)
  /\ Victim(b)
  /\ \E n \in 0 .. SectorsPerBlock - 1 :
       /\ s + n <= DeviceSectors
       /\ cache' = [cache EXCEPT ![b] = Refilled(b, s, n)]
  /\ sector' = [sector EXCEPT ![b] = s]
  /\ weight' = [a \in Slots |-> IF a = b THEN Int32(c * WeightFactor)
                              ELSE Aged(a)]
  /\ Reply("read", s, c, c, [i \in 0 .. c - 1 |-> cache'[b][i]])
  /\ UNCHANGED dev

ReadMissFailed(s, c, b) ==
  /\ c < SectorsPerBlock /\ NoHit(s, c)
  /\ Victim(b)
  /\ \E n \in 0 .. SectorsPerBlock - 1 :
       /\ s + n <= DeviceSectors
       /\ cache' = [cache EXCEPT ![b] = Refilled(b, s, n)]
  /\ sector' = [sector EXCEPT ![b] = Invalid]
  /\ weight' = [a \in Slots |-> IF a = b THEN 0 ELSE Aged(a)]
  /\ DriverRead(s, c)
  /\ UNCHANGED dev

Read(s, c) == \/ ReadDirect(s, c)
              \/ ReadHit(s, c)
              \/ \E b \in Slots : ReadMiss(s, c, b) \/ ReadMissFailed(s, c, b)

-----------------------------------------------------------------------------
(* _write: every overlapping slot goes before the driver writes, whatever     *)
(* the driver then manages to write.                                          *)

(* Mutant: only the first overlapping slot is dropped.                        *)
_invalidateFirst(s, c) ==
  sector' = [b \in Slots |->
               IF /\ _overlaps(sector[b], s, c)
                  /\ \A a \in 0 .. b - 1 : ~_overlaps(sector[a], s, c)
               THEN Invalid ELSE sector[b]]

_invalidate(s, c) ==
  sector' = [b \in Slots |-> IF _overlaps(sector[b], s, c) THEN Invalid
                             ELSE sector[b]]

Write(s, c) ==
  /\ _invalidate(s, c)
  /\ D!Write(s, c)
  /\ UNCHANGED <<weight, cache>>

Next == \E s \in 0 .. DeviceSectors, c \in 1 .. MaxCount : Read(s, c) \/ Write(s, c)

Spec == Init /\ [][Next]_vars

-----------------------------------------------------------------------------
(* Properties                                                                 *)

Held(b) == sector[b] # Invalid

TypeOK ==
  /\ dev \in [D!Sectors -> Values]
  /\ weight \in [Slots -> -HalfWord .. HalfWord - 1]
  /\ sector \in [Slots -> 0 .. SectorMod - 1]
  /\ \A b \in Slots : Held(b) => sector[b] + SectorsPerBlock <= DeviceSectors
  /\ cache \in [Slots -> [Block -> Values]]

(* A slot published under an LBA holds what the device holds there, through   *)
(* refills that fail half way and writes that store only part: bd_cache.c     *)
(* names FatFs reading another region's bytes as metadata as the danger.      *)
Coherent ==
  \A b \in Slots : Held(b) =>
    \A i \in Block : cache[b][i] = dev[sector[b] + i]

(* No two slots hold the block of the same first sector.                      *)
NoDuplicate ==
  \A a, b \in Slots : (a # b /\ Held(a)) => sector[a] # sector[b]

(* The cached device is a block device: no file system can tell it from the   *)
(* device behind it.                                                          *)
CachedIsDevice == D!Spec
=============================================================================
