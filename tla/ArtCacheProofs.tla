--------------------------- MODULE ArtCacheProofs ---------------------------
(* What the three threads of the art cache keep true without a lock, for any  *)
(* number of rows, slots and requests.                                        *)
(*                                                                            *)
(* The inductive invariant says where every request is (PlaceInv), that a     *)
(* slot and the request that fills it agree (PointerInv, OwnerInv,            *)
(* PictureInv), and which absences are still of the current fail generation   *)
(* (MemoInv).  RefsInv counts references.                                     *)
EXTENDS ArtCache, FiniteSetTheorems, SequenceTheorems, TLAPS

(* A request that was not given back yet names its slot and its row.          *)
Whole(q) == Alive(q) /\ req[q].slot \in Slots /\ req[q].row \in Rows

Holding == {"check", "read", "handoff", "clear", "release"}
Returning == {"test", "load", "deref"}
Held == ToSet(queue) \cup ToSet(io.chain) \cup ToSet(io.keep)

(* The three lists share no request and have none twice; the stamp of a       *)
(* request tells whether it is in the queue; the worker's is in none of them. *)
QueuesInv ==
  /\ IsInjective(queue) /\ IsInjective(io.chain) /\ IsInjective(io.keep)
  /\ ToSet(queue) \cap ToSet(io.chain) = {} /\ ToSet(queue) \cap ToSet(io.keep) = {}
  /\ ToSet(io.chain) \cap ToSet(io.keep) = {}
  /\ worker.req \notin Held
  /\ \A q \in Held : Whole(q)
  /\ \A q \in Reqs : req[q].stamped <=> q \in ToSet(queue)

ThreadsInv ==
  /\ worker.pc \in Holding => current = worker.req /\ current # 0 /\ Whole(current)
  /\ worker.pc \in Returning => current = 0 /\ worker.req # 0 /\ Alive(worker.req)
  /\ worker.pc \notin Holding \cup Returning => current = 0 /\ worker.req = 0
  /\ worker.pc = "clear" => worker.store # 0
  /\ io.pc \in {"clear"} \cup Returning => io.chain # <<>>
  /\ io.pc = "clear" => io.store # 0
  /\ io.pc \notin {"drop", "clear"} \cup Returning => io.chain = <<>> /\ io.keep = <<>>

PlaceInv == QueuesInv /\ ThreadsInv

(* Slot i waits for request q, and q's stores still count for it.             *)
Filling(i, q) == slot[i].qr = q /\ slot[i].uid = q

(* The request a slot with a UID points to is alive, and nobody frees it      *)
(* while a slot points to it.                                                 *)
PointerInv ==
  gui = "menu" =>
    /\ \A i \in Slots : slot[i].qr # 0 /\ slot[i].uid # 0 =>
         /\ slot[i].uid = slot[i].qr
         /\ InCache(slot[i].qr) /\ req[slot[i].qr].slot = i
    /\ worker.pc \in {"release"} \cup Returning => \A i \in Slots : ~Filling(i, worker.req)
    /\ io.pc \in Returning => \A i \in Slots : ~Filling(i, Head(io.chain))

Waits(q) == q \in Held \/ (worker.pc = "check" /\ worker.req = q)
Filled(i) == slot[i].qr = worker.req /\ InCache(worker.req) /\ req[worker.req].slot = i
WorkerClears(i) == worker.pc = "clear" /\ InCache(worker.req) /\ req[worker.req].slot = i
IoClears(i) == io.pc = "clear" /\ InCache(Head(io.chain)) /\ req[Head(io.chain)].slot = i

(* A slot that bears the UID of a waiting request waits for it, unless it is  *)
(* half cleared; the slot the worker reads for is its own until it lets go.   *)
OwnerInv ==
  /\ \A q \in Reqs : Waits(q) /\ InCache(q) /\ Entry(q).uid = q =>
       Entry(q).qr = q \/ WorkerClears(req[q].slot) \/ IoClears(req[q].slot)
  /\ worker.pc \in {"read", "handoff"} /\ InCache(worker.req) =>
       Filling(req[worker.req].slot, worker.req) /\ ~IoClears(req[worker.req].slot)

KeyOf(r) == IF r \in Long THEN NoRow ELSE r

(* A slot that is being filled is found by the row of its request only, and   *)
(* one that holds a picture by the row of that picture.  One without a UID,   *)
(* or half cleared, has none.                                                 *)
PictureInv ==
  /\ \A i \in Slots, q \in Reqs : Filling(i, q) /\ InCache(q) /\ req[q].slot = i =>
       /\ slot[i].key \in {KeyOf(req[q].row), NoRow}
       /\ \A r \in Rows : row[r] = i => r = req[q].row
  /\ \A i \in Slots : slot[i].key # NoRow => slot[i].tex \in {slot[i].key, NoRow}
  /\ \A r \in Rows : row[r] \in Slots => slot[row[r]].tex \in {r, NoRow}
  /\ \A i \in Slots : slot[i].uid = 0 => slot[i].tex = NoRow
  /\ \A i \in Slots : (WorkerClears(i) /\ worker.store > 1) \/ (IoClears(i) /\ io.store > 1)
       => slot[i].tex = NoRow

(* An absence of the current generation was found on the device as it is.  A  *)
(* slot that waits, one without a UID and one that is half cleared have none. *)
MemoInv ==
  /\ \A r \in Rows : row[r] = Absent => r \notin disk
  /\ \A i \in Slots, r \in Rows :
       slot[i].used = "absent" /\ slot[i].now /\ (row[r] = i \/ slot[i].key = r)
         => r \notin disk
  /\ worker.pc = "read" /\ ~worker.found /\ req[worker.req].now =>
       req[worker.req].row \notin disk
  /\ \A i \in Slots : WorkerClears(i) \/ IoClears(i) \/ slot[i].uid = 0 => ~slot[i].now
  /\ \A i \in Slots : slot[i].now /\ slot[i].qr # 0 =>
       worker.pc = "handoff" /\ Filled(i)

Inv == TypeOK /\ PlaceInv /\ PointerInv /\ OwnerInv /\ PictureInv /\ MemoInv

Live == {q \in Reqs : InCache(q)}

(* cache->activeRequests counts the requests into the cache: exactly while    *)
(* the menu runs, and never too few.                                          *)
Counted ==
  /\ Cardinality(Live) <= refs
  /\ gui = "menu" => refs = Cardinality(Live)
  /\ \A q \in Reqs : req[q].cache # "freed"

RefsInv == ~lost => Counted

-----------------------------------------------------------------------------
(* Sequences without repetition, by the set of their members                  *)

LEMMA EmptyFacts == <<>> \in Seq(Reqs) /\ IsInjective(<<>>) /\ ToSet(<<>>) = {}
  BY EmptySeq DEF IsInjective, ToSet

LEMMA MemberType == ASSUME NEW s \in Seq(Reqs) PROVE ToSet(s) \subseteq Reqs
  BY LenProperties DEF ToSet

LEMMA TailFacts ==
  ASSUME NEW s \in Seq(Reqs), s # <<>>
  PROVE  /\ Tail(s) \in Seq(Reqs) /\ Head(s) \in Reqs
         /\ Head(s) \in ToSet(s)
         /\ IsInjective(s) => /\ IsInjective(Tail(s))
                              /\ ToSet(Tail(s)) = ToSet(s) \ {Head(s)}
<1>1. /\ Tail(s) \in Seq(Reqs) /\ Head(s) \in Reqs /\ Len(Tail(s)) = Len(s) - 1
      /\ \A i \in 1 .. Len(Tail(s)) : Tail(s)[i] = s[i + 1]
  BY HeadTailProperties
<1>2. Len(s) \in Nat \ {0} /\ DOMAIN s = 1 .. Len(s) /\ DOMAIN Tail(s) = 1 .. Len(s) - 1
  BY <1>1, EmptySeq, LenProperties
<1>3. Head(s) = s[1] /\ 1 \in DOMAIN s
  BY <1>2
<1>4. ASSUME IsInjective(s)
      PROVE  IsInjective(Tail(s)) /\ ToSet(Tail(s)) = ToSet(s) \ {Head(s)}
  <2>1. IsInjective(Tail(s))
    <3> SUFFICES ASSUME NEW i \in 1 .. Len(s) - 1, NEW j \in 1 .. Len(s) - 1,
                        Tail(s)[i] = Tail(s)[j]
                 PROVE  i = j
      BY <1>2 DEF IsInjective
    <3>1. i + 1 \in DOMAIN s /\ j + 1 \in DOMAIN s /\ s[i + 1] = s[j + 1]
      BY <1>1, <1>2
    <3>2. i + 1 = j + 1
      BY <3>1, <1>4 DEF IsInjective
    <3> QED
      BY <3>2
  <2>2. \A x \in ToSet(Tail(s)) : x \in ToSet(s) \ {Head(s)}
    <3> SUFFICES ASSUME NEW i \in 1 .. Len(s) - 1
                 PROVE  Tail(s)[i] \in ToSet(s) /\ Tail(s)[i] # Head(s)
      BY <1>2 DEF ToSet
    <3>1. i + 1 \in DOMAIN s /\ i + 1 # 1 /\ Tail(s)[i] = s[i + 1]
      BY <1>1, <1>2
    <3>2. s[i + 1] # s[1]
      BY <3>1, <1>3, <1>4 DEF IsInjective
    <3> QED
      BY <3>1, <3>2, <1>3 DEF ToSet
  <2>3. \A x \in ToSet(s) \ {Head(s)} : x \in ToSet(Tail(s))
    <3> SUFFICES ASSUME NEW i \in DOMAIN s, s[i] # s[1] PROVE s[i] \in ToSet(Tail(s))
      BY <1>3 DEF ToSet
    <3>1. i - 1 \in 1 .. Len(s) - 1 /\ Tail(s)[i - 1] = s[(i - 1) + 1]
      BY <1>1, <1>2
    <3>2. (i - 1) + 1 = i
      BY <1>2
    <3> QED
      BY <3>1, <3>2, <1>2 DEF ToSet
  <2> QED
    BY <2>1, <2>2, <2>3
<1> QED
  BY <1>1, <1>3, <1>4 DEF ToSet

LEMMA AppendFacts ==
  ASSUME NEW s \in Seq(Reqs), NEW q \in Reqs, q \notin ToSet(s), IsInjective(s)
  PROVE  /\ Append(s, q) \in Seq(Reqs) /\ IsInjective(Append(s, q))
         /\ ToSet(Append(s, q)) = ToSet(s) \cup {q}
<1> DEFINE t == Append(s, q)
<1>1. /\ t \in Seq(Reqs) /\ Len(t) = Len(s) + 1 /\ t[Len(s) + 1] = q
      /\ \A i \in 1 .. Len(s) : t[i] = s[i]
  BY AppendProperties
<1>2. Len(s) \in Nat /\ DOMAIN s = 1 .. Len(s) /\ DOMAIN t = 1 .. Len(s) + 1
  BY <1>1, LenProperties
<1> HIDE DEF t
<1>3. \A i \in 1 .. Len(s) : s[i] # q
  BY <1>2 DEF ToSet
<1>4. IsInjective(t)
  BY <1>1, <1>2, <1>3 DEF IsInjective
<1>5. ToSet(t) = ToSet(s) \cup {q}
  <2>1. \A i \in DOMAIN t : t[i] \in ToSet(s) \cup {q}
    BY <1>1, <1>2 DEF ToSet
  <2>2. \A i \in DOMAIN s : s[i] \in ToSet(t)
    BY <1>1, <1>2 DEF ToSet
  <2>3. q \in ToSet(t)
    BY <1>1, <1>2 DEF ToSet
  <2> QED
    BY <2>1, <2>2, <2>3 DEF ToSet
<1> QED
  BY <1>1, <1>4, <1>5 DEF t

LEMMA ConsFacts ==
  ASSUME NEW s \in Seq(Reqs), NEW q \in Reqs, q \notin ToSet(s), IsInjective(s)
  PROVE  /\ <<q>> \o s \in Seq(Reqs) /\ IsInjective(<<q>> \o s)
         /\ ToSet(<<q>> \o s) = ToSet(s) \cup {q}
<1> DEFINE t == <<q>> \o s
<1>0. <<q>> \in Seq(Reqs) /\ Len(<<q>>) = 1 /\ <<q>>[1] = q
  OBVIOUS
<1>1. /\ t \in Seq(Reqs) /\ Len(t) = 1 + Len(s)
      /\ \A i \in 1 .. 1 + Len(s) : t[i] = IF i <= 1 THEN <<q>>[i] ELSE s[i - 1]
  BY <1>0, ConcatProperties
<1>2. Len(s) \in Nat /\ DOMAIN s = 1 .. Len(s) /\ DOMAIN t = 1 .. 1 + Len(s)
  BY <1>1, LenProperties
<1> HIDE DEF t
<1>3. \A i \in 1 .. Len(s) : s[i] # q
  BY <1>2 DEF ToSet
<1>4. t[1] = q /\ \A i \in 2 .. 1 + Len(s) : t[i] = s[i - 1] /\ i - 1 \in 1 .. Len(s)
  BY <1>0, <1>1, <1>2
<1>5. IsInjective(t)
  <2> SUFFICES ASSUME NEW i \in 1 .. 1 + Len(s), NEW j \in 1 .. 1 + Len(s), t[i] = t[j]
               PROVE  i = j
    BY <1>2 DEF IsInjective
  <2>1. CASE i = 1 \/ j = 1
    BY <2>1, <1>2, <1>3, <1>4
  <2>2. CASE i # 1 /\ j # 1
    <3>1. s[i - 1] = s[j - 1] /\ i - 1 \in DOMAIN s /\ j - 1 \in DOMAIN s
      BY <2>2, <1>2, <1>4
    <3>2. i - 1 = j - 1
      BY <3>1 DEF IsInjective
    <3> QED
      BY <3>2, <1>2
  <2> QED
    BY <2>1, <2>2
<1>6. ToSet(t) = ToSet(s) \cup {q}
  <2>1. \A i \in DOMAIN t : t[i] \in ToSet(s) \cup {q}
    BY <1>2, <1>4 DEF ToSet
  <2>2. ASSUME NEW i \in DOMAIN s PROVE s[i] \in ToSet(t)
    <3>1. i + 1 \in DOMAIN t /\ t[i + 1] = s[(i + 1) - 1]
      BY <1>2, <1>4
    <3>2. (i + 1) - 1 = i
      BY <1>2
    <3> QED
      BY <3>1, <3>2 DEF ToSet
  <2>3. q \in ToSet(t)
    BY <1>2, <1>4 DEF ToSet
  <2> QED
    BY <2>1, <2>2, <2>3 DEF ToSet
<1> QED
  BY <1>1, <1>5, <1>6 DEF t

(* What is taken out of the queue in order has the same members, once.        *)
LEMMA InOrderFacts ==
  ASSUME queue \in Seq(Reqs), IsInjective(queue), NEW Q, NEW s \in InOrder(Q)
  PROVE  s \in Seq(Reqs) /\ IsInjective(s) /\ ToSet(s) = ToSet(queue) \cap Q
<1> DEFINE K == ToSet(queue) \cap Q
<1>1. IsFiniteSet(K)
  <2>1. IsFiniteSet(Reqs)
    BY FS_Interval, ArtAssumption DEF Reqs
  <2>2. K \subseteq Reqs
    BY MemberType
  <2> QED
    BY <2>1, <2>2, FS_Subset
<1>2. Cardinality(K) \in Nat
  BY <1>1, FS_CardinalityType
<1>3. /\ s \in [1 .. Cardinality(K) -> K]
      /\ \A q \in K : \E i \in DOMAIN s : s[i] = q
      /\ \A i, j \in DOMAIN s : i < j =>
           \E a, b \in DOMAIN queue : a < b /\ queue[a] = s[i] /\ queue[b] = s[j]
  BY DEF InOrder
<1>4. s \in Seq(Reqs)
  <2>1. PICK n \in Nat : n = Cardinality(K)
    BY <1>2
  <2>2. s \in [1 .. n -> Reqs]
    BY <1>3, <2>1, MemberType
  <2> QED
    BY <2>2
<1>5. ToSet(s) = K
  BY <1>3 DEF ToSet
<1>6. IsInjective(s)
  <2>1. \A i, j \in DOMAIN s : i < j => s[i] # s[j]
    <3> SUFFICES ASSUME NEW i \in DOMAIN s, NEW j \in DOMAIN s, i < j PROVE s[i] # s[j]
      OBVIOUS
    <3>1. PICK a \in DOMAIN queue, b \in DOMAIN queue :
            a < b /\ queue[a] = s[i] /\ queue[b] = s[j]
      BY <1>3
    <3>2. a \in Nat /\ b \in Nat
      BY LenProperties
    <3>3. a # b
      BY <3>1, <3>2
    <3> QED
      BY <3>1, <3>3 DEF IsInjective
  <2>2. \A i \in DOMAIN s : i \in Nat
    BY <1>4, LenProperties
  <2>3. \A i, j \in Nat : i < j \/ j < i \/ i = j
    OBVIOUS
  <2> QED
    BY <2>1, <2>2, <2>3 DEF IsInjective
<1> QED
  BY <1>4, <1>5, <1>6

-----------------------------------------------------------------------------
(* Changes of requests that leave alone which cache, row and slot they are of *)

Same(e, f) == f.cache = e.cache /\ f.row = e.row /\ f.slot = e.slot

(* A request keeps its generation or loses it.                                *)
Soft(f) == /\ f \in [Reqs -> RequestState]
           /\ \A q \in Reqs : Same(req[q], f[q]) /\ (f[q].now => req[q].now)

SameStamps(f) == \A q \in Reqs : f[q].stamped = req[q].stamped

Softly(e, f) ==
  f \in RequestState /\ Same(e, f) /\ f.now = e.now /\ f.stamped = e.stamped

LEMMA FocusFields ==
  \A e \in RequestState : /\ Softly(e, [e EXCEPT !.focus = FALSE])
                          /\ Softly(e, [e EXCEPT !.focus = TRUE])
  BY DEF RequestState, Same, Softly

LEMMA AbortFields ==
  \A e \in RequestState : /\ Softly(e, [e EXCEPT !.abort = TRUE])
                          /\ Softly(e, [e EXCEPT !.abort = FALSE])
  BY DEF RequestState, Same, Softly

LEMMA ViewFields == \A e \in RequestState : Softly(e, [e EXCEPT !.view = FALSE])
  BY DEF RequestState, Same, Softly

LEMMA NowFields ==
  \A e \in RequestState : /\ [e EXCEPT !.now = FALSE] \in RequestState
                          /\ Same(e, [e EXCEPT !.now = FALSE])
                          /\ ~[e EXCEPT !.now = FALSE].now
                          /\ [e EXCEPT !.now = FALSE].stamped = e.stamped
  BY DEF RequestState, Same

Stamped(e) == [e EXCEPT !.stamped = TRUE]
Unstamped(e) == [e EXCEPT !.stamped = FALSE]

LEMMA StampFields ==
  ASSUME NEW e \in RequestState
  PROVE  /\ Stamped(e) \in RequestState /\ Same(e, Stamped(e))
         /\ Stamped(e).now = e.now /\ Stamped(e).stamped
         /\ Unstamped(e) \in RequestState /\ Same(e, Unstamped(e))
         /\ Unstamped(e).now = e.now /\ ~Unstamped(e).stamped
  BY DEF RequestState, Same, Stamped, Unstamped

LEMMA SoftReq == ASSUME TypeOK PROVE Soft(req) /\ SameStamps(req)
  BY DEF TypeOK, Soft, SameStamps, Same

LEMMA FocusedFacts ==
  ASSUME TypeOK, NEW light \in Highlights
  PROVE  Soft(Focused(light)) /\ SameStamps(Focused(light))
<1>1. CASE light = "moved"
  <2>1. Focused(light) = [q \in Reqs |-> [req[q] EXCEPT !.focus = FALSE]]
    BY <1>1 DEF Focused
  <2>2. \A q \in Reqs : req[q] \in RequestState
    BY DEF TypeOK
  <2> QED
    BY <2>1, <2>2, FocusFields DEF Soft, SameStamps, Softly
<1>2. CASE light # "moved"
  BY <1>2, SoftReq DEF Focused
<1> QED
  BY <1>1, <1>2

LEMMA AbortOthersFacts ==
  ASSUME TypeOK, NEW r, NEW f, Soft(f), SameStamps(f)
  PROVE  Soft(AbortOthers(r, f)) /\ SameStamps(AbortOthers(r, f))
<1> DEFINE g == AbortOthers(r, f)
<1>1. ASSUME NEW q \in Reqs
      PROVE  \/ g[q] = [f[q] EXCEPT !.abort = TRUE]
             \/ g[q] = [f[q] EXCEPT !.abort = FALSE]
  BY DEF AbortOthers
<1>2. g = [q \in Reqs |-> g[q]]
  BY DEF AbortOthers
<1> HIDE DEF g
<1>3. ASSUME NEW q \in Reqs
      PROVE  /\ g[q] \in RequestState /\ Same(req[q], g[q])
             /\ (g[q].now => req[q].now) /\ g[q].stamped = req[q].stamped
  <2>1. f[q] \in RequestState
    BY DEF Soft
  <2>2. Softly(f[q], g[q])
    BY <1>1, <2>1, AbortFields
  <2> QED
    BY <2>2 DEF Soft, SameStamps, Same, Softly
<1>4. Soft(g) /\ SameStamps(g)
  BY <1>2, <1>3 DEF Soft, SameStamps
<1> QED
  BY <1>4 DEF g

LEMMA FlagCurrentFacts ==
  ASSUME TypeOK, NEW P
  PROVE  Soft(FlagCurrent(P)) /\ SameStamps(FlagCurrent(P))
<1>1. \A q \in Reqs : req[q] \in RequestState
  BY DEF TypeOK
<1>2. CASE current # 0 /\ P
  <2> DEFINE g == FlagCurrent(P)
             e == [req[current] EXCEPT !.abort = TRUE]
  <2>1. current \in Reqs /\ req \in [Reqs -> RequestState]
    BY <1>2 DEF TypeOK
  <2>2. g = [req EXCEPT ![current] = e]
    BY <1>2, <2>1 DEF FlagCurrent, Flag
  <2>3. Softly(req[current], e)
    BY <1>1, <2>1, AbortFields
  <2> HIDE DEF g, e
  <2>4. g \in [Reqs -> RequestState]
    BY <2>1, <2>2, <2>3 DEF Softly
  <2>5. \A q \in Reqs : g[q] = IF q = current THEN e ELSE req[q]
    BY <2>1, <2>2
  <2>6. Soft(g) /\ SameStamps(g)
    BY <2>1, <2>3, <2>4, <2>5 DEF Soft, SameStamps, Softly, Same
  <2> QED
    BY <2>6 DEF g
<1>3. CASE ~(current # 0 /\ P)
  BY <1>3, SoftReq DEF FlagCurrent
<1> QED
  BY <1>2, <1>3

LEMMA DetachFacts ==
  ASSUME NEW f, Soft(f)
  PROVE  Soft(artDetachAll(f)) /\ \A q \in Reqs : ~artDetachAll(f)[q].stamped
<1> DEFINE g == artDetachAll(f)
<1>1. \A q \in Reqs : f[q] \in RequestState
  BY DEF Soft
<1>2. g = [q \in Reqs |-> g[q]] /\ \A q \in Reqs : g[q] = Unstamped(f[q])
  BY DEF artDetachAll, Unstamped
<1> HIDE DEF g
<1>3. \A q \in Reqs : /\ g[q] \in RequestState /\ Same(f[q], g[q])
                      /\ g[q].now = f[q].now /\ ~g[q].stamped
  BY <1>1, <1>2, StampFields
<1>4. Soft(g) /\ \A q \in Reqs : ~g[q].stamped
  BY <1>2, <1>3 DEF Soft, Same
<1> QED
  BY <1>4 DEF g

LEMMA GoneFacts ==
  /\ Gone \in RequestState /\ Gone.cache = "gone" /\ ~Gone.stamped /\ ~Gone.now
  /\ \A c \in {"gone", "live", "leaked", "freed"} :
       /\ [Gone EXCEPT !.cache = c] \in RequestState /\ [Gone EXCEPT !.cache = c].cache = c
       /\ ~[Gone EXCEPT !.cache = c].stamped /\ ~[Gone EXCEPT !.cache = c].now
       /\ [Gone EXCEPT !.cache = c].slot = NoSlot
  BY DEF Gone, RequestState, NoSlot

LEMMA SlotFacts ==
  /\ NoTenant \in SlotState /\ NoTenant.qr = 0 /\ NoTenant.uid = 0 /\ NoTenant.used = "free"
  /\ NoTenant.key = NoRow /\ NoTenant.tex = NoRow /\ ~NoTenant.now
  BY DEF NoTenant, SlotState

(* Stamping a slot as drawn or aged.                                          *)
LEMMA UsedFacts ==
  ASSUME NEW e \in SlotState, NEW u \in {"stale", "recent"}
  PROVE  /\ [e EXCEPT !.used = u] \in SlotState /\ [e EXCEPT !.used = u].qr = e.qr
         /\ [e EXCEPT !.used = u].uid = e.uid /\ [e EXCEPT !.used = u].key = e.key
         /\ [e EXCEPT !.used = u].tex = e.tex /\ [e EXCEPT !.used = u].used = u
         /\ [e EXCEPT !.used = u].now = e.now
  BY DEF SlotState

LEMMA UsedSlots ==
  ASSUME slot \in [Slots -> SlotState], NEW i \in Slots, NEW u \in {"stale", "recent"},
         slot' = [slot EXCEPT ![i] = [slot[i] EXCEPT !.used = u]]
  PROVE  /\ slot' \in [Slots -> SlotState] /\ slot'[i].used = u
         /\ \A j \in Slots : /\ slot'[j].qr = slot[j].qr /\ slot'[j].uid = slot[j].uid
                             /\ slot'[j].key = slot[j].key /\ slot'[j].tex = slot[j].tex
                             /\ slot'[j].now = slot[j].now
                             /\ slot'[j].used = "absent" => slot[j].used = "absent"
<1> DEFINE e == [slot[i] EXCEPT !.used = u]
<1>1. /\ e \in SlotState /\ e.qr = slot[i].qr /\ e.uid = slot[i].uid /\ e.key = slot[i].key
      /\ e.tex = slot[i].tex /\ e.now = slot[i].now /\ e.used = u
  BY UsedFacts
<1> HIDE DEF e
<1>2. slot' \in [Slots -> SlotState] /\ \A j \in Slots : slot'[j] = IF j = i THEN e ELSE slot[j]
  BY <1>1 DEF e
<1> QED
  BY <1>1, <1>2

-----------------------------------------------------------------------------
LEMMA InitInv == Init => Inv
<1> SUFFICES ASSUME Init PROVE Inv
  OBVIOUS
<1>1. TypeOK
  <2>1. worker \in WorkerState
    BY DEF Init, WorkerState, LastStore
  <2>2. io \in IoState
    BY EmptyFacts DEF Init, IoState, IoIdle, LastStore
  <2>3. slot \in [Slots -> SlotState] /\ req \in [Reqs -> RequestState]
    BY GoneFacts, SlotFacts DEF Init
  <2>4. queue \in Seq(Reqs) /\ row \in [Rows -> RowState]
    BY EmptyFacts DEF Init, RowState
  <2>5. budget \in 0 .. Events /\ disk \subseteq Rows /\ refs \in Int
    BY ArtAssumption DEF Init
  <2> QED
    BY <2>1, <2>2, <2>3, <2>4, <2>5 DEF Init, TypeOK
<1>2. Held = {} /\ worker.req = 0 /\ worker.pc = "asleep" /\ io.pc = "idle"
      /\ io.chain = <<>> /\ io.keep = <<>>
  BY EmptyFacts DEF Init, IoIdle, Held
<1>3. QueuesInv
  BY <1>2, EmptyFacts, GoneFacts DEF Init, QueuesInv
<1>4. ThreadsInv
  BY <1>2 DEF Init, ThreadsInv, Holding, Returning
<1>5. PointerInv /\ OwnerInv
  BY <1>2, SlotFacts DEF Init, PointerInv, OwnerInv, Waits, Returning
<1>6. PictureInv /\ MemoInv
  <2>1. 0 \notin Reqs
    BY DEF Reqs
  <2> QED
    BY <1>2, <2>1, SlotFacts
    DEF Init, PictureInv, MemoInv, Filling, WorkerClears, IoClears, Slots, NoSlot, Absent
<1> QED
  BY <1>1, <1>3, <1>4, <1>5, <1>6 DEF Inv, PlaceInv

-----------------------------------------------------------------------------
(* The GUI thread: what it draws                                              *)

(* Row r may be pointed to slot i: its picture, and the request that fills    *)
(* it, are of this row.                                                       *)
Fits(r, i) ==
  /\ slot[i].tex \in {r, NoRow}
  /\ \A q \in Reqs : Filling(i, q) /\ InCache(q) /\ req[q].slot = i => r = req[q].row

(* A pair (i, 0) is no slot.                                                  *)
LEMMA RowFacts ==
  /\ Slots \subseteq RowState /\ NoSlot \in RowState /\ Absent \in RowState
  /\ NoSlot \notin Slots /\ Absent \notin Slots /\ NoSlot # Absent
  /\ \A i \in Slots : /\ PairOf(i) \in RowState /\ PairOf(i) # Absent
                      /\ PairOf(i) \in Slots => PairOf(i) = i
                      /\ slot[i].uid = 0 => PairOf(i) \notin Slots
<1>1. NSlots \in Nat \ {0}
  BY ArtAssumption
<1>2. \A i \in Slots : i \in RowState /\ NSlots + i \in RowState \ Slots /\ NSlots + i # Absent
  BY <1>1 DEF Slots, RowState, Absent
<1>3. NoSlot \notin Slots /\ Absent \notin Slots /\ NoSlot # Absent
  BY <1>1 DEF Slots, NoSlot, Absent
<1> QED
  BY <1>2, <1>3 DEF PairOf, RowState

(* The heads of the threads' requests are requests.                           *)
LEMMA ThreadFacts ==
  ASSUME Inv
  PROVE  /\ worker.req \in Reqs \cup {0} /\ current \in Reqs \cup {0}
         /\ ToSet(queue) \subseteq Reqs /\ ToSet(io.chain) \subseteq Reqs
         /\ ToSet(io.keep) \subseteq Reqs /\ Held \subseteq Reqs
         /\ worker.pc \in Holding => worker.req \in Reqs /\ Whole(worker.req)
         /\ worker.pc \in Returning => worker.req \in Reqs /\ Alive(worker.req)
         /\ io.pc \in {"clear"} \cup Returning =>
              /\ Head(io.chain) \in Reqs /\ Head(io.chain) \in Held /\ Whole(Head(io.chain))
              /\ Head(io.chain) # worker.req /\ Head(io.chain) \notin ToSet(queue)
<1>1. /\ worker.req \in Reqs \cup {0} /\ current \in Reqs \cup {0}
      /\ io.chain \in Seq(Reqs) /\ io.keep \in Seq(Reqs) /\ queue \in Seq(Reqs)
  BY DEF Inv, TypeOK, WorkerState, IoState
<1>2. ToSet(queue) \subseteq Reqs /\ ToSet(io.chain) \subseteq Reqs /\ ToSet(io.keep) \subseteq Reqs
  BY <1>1, MemberType
<1>3. /\ worker.pc \in Holding => worker.req \in Reqs /\ Whole(worker.req)
      /\ worker.pc \in Returning => worker.req \in Reqs /\ Alive(worker.req)
  BY <1>1 DEF Inv, PlaceInv, ThreadsInv
<1>4. io.pc \in {"clear"} \cup Returning => Head(io.chain) \in ToSet(io.chain)
  BY <1>1, TailFacts DEF Inv, PlaceInv, ThreadsInv
<1> QED
  BY <1>1, <1>2, <1>3, <1>4 DEF Held, Inv, PlaceInv, QueuesInv

(* The threads and the slots stay as they are, but for marks.                 *)
LEMMA SoftShape ==
  ASSUME Inv, Soft(req'), SameStamps(req'),
         slot' \in [Slots -> SlotState], row' \in [Rows -> RowState],
         queue' \in Seq(Reqs), IsInjective(queue'), ToSet(queue') = ToSet(queue),
         wake' \in BOOLEAN, nav' \in BOOLEAN, budget' \in 0 .. Events,
         gui' \in {"menu", "closing", "joining", "joined", "abandoned", "over"},
         gui' = "menu" => gui = "menu",
         UNCHANGED <<current, worker, io, refs, lost>>, disk' \subseteq Rows,
         \A i \in Slots : /\ slot'[i].qr = slot[i].qr /\ slot'[i].uid = slot[i].uid
                          /\ slot'[i].key = slot[i].key /\ slot'[i].tex = slot[i].tex,
         \A r \in Rows, i \in Slots : row'[r] = i => row[r] = i \/ Fits(r, i),
         \A i \in Slots : slot'[i].now => slot[i].now,
         \A r \in Rows : row'[r] = Absent => r \notin disk',
         \A i \in Slots, r \in Rows :
           slot'[i].used = "absent" /\ slot'[i].now /\ (row'[r] = i \/ slot'[i].key = r)
             => r \notin disk',
         worker.pc = "read" /\ ~worker.found /\ req'[worker.req].now =>
           req'[worker.req].row \notin disk'
  PROVE  Inv'
<1>1. TypeOK'
  BY DEF Inv, TypeOK, Soft
<1>2. \A q \in Reqs : /\ req'[q].cache = req[q].cache /\ req'[q].row = req[q].row
                      /\ req'[q].slot = req[q].slot /\ (req'[q].now => req[q].now)
                      /\ req'[q].stamped = req[q].stamped
  BY DEF Soft, Same, SameStamps
<1>3. Held' = Held
  BY DEF Held
<1>4. /\ \A q \in Reqs : Waits(q)' = Waits(q) /\ InCache(q)' = InCache(q)
      /\ \A i \in Slots, q \in Reqs : Filling(i, q)' = Filling(i, q)
      /\ \A i \in Slots : WorkerClears(i)' = WorkerClears(i) /\ IoClears(i)' = IoClears(i)
  BY <1>2, <1>3, ThreadFacts DEF Waits, InCache, Filling, WorkerClears, IoClears, Holding
<1>5. QueuesInv'
  BY <1>2, <1>3, ThreadFacts DEF Inv, PlaceInv, QueuesInv, Whole, Alive
<1>6. ThreadsInv'
  BY <1>2, ThreadFacts DEF Inv, PlaceInv, ThreadsInv, Whole, Alive
<1>7. PointerInv'
  <2>1. \A i \in Slots : slot[i].qr \in Reqs \cup {0}
    BY DEF Inv, TypeOK, SlotState
  <2> QED
    BY <1>2, <2>1, ThreadFacts DEF Inv, PointerInv, InCache, Filling
<1>8. OwnerInv'
  <2>1. \A q \in Reqs : req[q].slot \in Slots =>
          Entry(q)'.qr = Entry(q).qr /\ Entry(q)'.uid = Entry(q).uid
    BY <1>2 DEF Entry
  <2>2. \A q \in Reqs : Waits(q) => req[q].slot \in Slots
    BY ThreadFacts DEF Inv, PlaceInv, QueuesInv, Waits, Whole, Holding
  <2>3. worker.pc \in {"read", "handoff"} => worker.req \in Reqs /\ req[worker.req].slot \in Slots
    BY ThreadFacts DEF Whole, Holding
  <2> QED
    BY <1>2, <1>4, <2>1, <2>2, <2>3 DEF Inv, OwnerInv
<1>9. PictureInv'
  <2>1. ASSUME NEW i \in Slots, NEW q \in Reqs, Filling(i, q)', InCache(q)', req'[q].slot = i
        PROVE  /\ slot'[i].key \in {KeyOf(req'[q].row), NoRow}
               /\ \A r \in Rows : row'[r] = i => r = req'[q].row
    <3>1. Filling(i, q) /\ InCache(q) /\ req[q].slot = i
      BY <1>2, <1>4, <2>1
    <3>2. slot[i].key \in {KeyOf(req[q].row), NoRow} /\ \A r \in Rows : row[r] = i => r = req[q].row
      BY <3>1 DEF Inv, PictureInv
    <3> QED
      BY <3>1, <3>2, <1>2 DEF Fits
  <2>2. \A i \in Slots : slot'[i].key # NoRow => slot'[i].tex \in {slot'[i].key, NoRow}
    BY DEF Inv, PictureInv
  <2>3. \A r \in Rows : row'[r] \in Slots => slot'[row'[r]].tex \in {r, NoRow}
    BY DEF Inv, PictureInv, Fits
  <2>4. /\ \A i \in Slots : slot'[i].uid = 0 => slot'[i].tex = NoRow
        /\ \A i \in Slots :
             (WorkerClears(i)' /\ worker'.store > 1) \/ (IoClears(i)' /\ io'.store > 1)
               => slot'[i].tex = NoRow
    BY <1>4 DEF Inv, PictureInv
  <2> QED
    BY <2>1, <2>2, <2>3, <2>4 DEF PictureInv, KeyOf
<1>10. MemoInv'
  <2>1. /\ \A i \in Slots : WorkerClears(i)' \/ IoClears(i)' \/ slot'[i].uid = 0 => ~slot'[i].now
        /\ \A i \in Slots : slot'[i].now /\ slot'[i].qr # 0 =>
             worker.pc = "handoff" /\ Filled(i)
    BY <1>4 DEF Inv, MemoInv
  <2>2. \A i \in Slots : worker.pc = "handoff" /\ Filled(i) => Filled(i)'
    BY <1>2, ThreadFacts DEF Filled, InCache, Holding
  <2> QED
    BY <2>1, <2>2 DEF MemoInv
<1> QED
  BY <1>1, <1>5, <1>6, <1>7, <1>8, <1>9, <1>10 DEF Inv, PlaceInv

LEMMA SoftKeeps ==
  ASSUME Inv, Soft(req'), SameStamps(req'),
         slot' \in [Slots -> SlotState], row' \in [Rows -> RowState],
         queue' \in Seq(Reqs), IsInjective(queue'), ToSet(queue') = ToSet(queue),
         wake' \in BOOLEAN, nav' \in BOOLEAN, budget' \in 0 .. Events,
         gui' \in {"menu", "closing", "joining", "joined", "abandoned", "over"},
         gui' = "menu" => gui = "menu",
         UNCHANGED <<current, worker, io, refs, lost, disk>>,
         \A i \in Slots : /\ slot'[i].qr = slot[i].qr /\ slot'[i].uid = slot[i].uid
                          /\ slot'[i].key = slot[i].key /\ slot'[i].tex = slot[i].tex
                          /\ slot'[i].now => slot[i].now
                          /\ slot'[i].used = "absent" => slot[i].used = "absent",
         \A r \in Rows : row'[r] = Absent => row[r] = Absent \/ r \notin disk,
         \A r \in Rows, i \in Slots :
            row'[r] = i => row[r] = i \/ (Fits(r, i) /\ slot'[i].used # "absent")
  PROVE  Inv'
<1>1. \A r \in Rows : row'[r] = Absent => r \notin disk
  BY DEF Inv, MemoInv
<1>2. \A i \in Slots, r \in Rows :
        slot'[i].used = "absent" /\ slot'[i].now /\ (row'[r] = i \/ slot'[i].key = r)
          => r \notin disk
  BY DEF Inv, MemoInv
<1>3. worker.pc = "read" /\ ~worker.found /\ req'[worker.req].now =>
        req'[worker.req].row \notin disk
  BY ThreadFacts DEF Inv, MemoInv, Soft, Same, Holding
<1>4. disk' \subseteq Rows
  BY DEF Inv, TypeOK
<1> QED
  BY <1>1, <1>2, <1>3, <1>4, SoftShape

(* A nonempty set of natural numbers has a smallest one.                      *)
LEMMA Smallest ==
  ASSUME NEW S \in SUBSET Nat, S # {} PROVE \E i \in S : \A j \in S : i <= j
<1>1. PICK i \in S : \A j \in S : ~(<<j, i>> \in OpToRel(<, Nat))
  BY WFMin, NatLessThanWellFounded
<1>2. \A j \in S : ~(j < i)
  BY <1>1 DEF OpToRel
<1> QED
  BY <1>2

(* Whichever way a row finds a slot, the slot is of this row.                 *)
LEMMA FoundFits ==
  ASSUME Inv, NEW r \in Rows, Found(r) # NoSlot
  PROVE  /\ Found(r) \in Slots /\ Fits(r, Found(r))
         /\ row[r] = Found(r) \/ slot[Found(r)].key = r \/ slot[Found(r)].uid = 0
<1>0. NoRow \notin Rows /\ 0 \notin Reqs
  BY ArtAssumption DEF Reqs
<1>1. CASE Own(r)
  <2>1. Found(r) = Pair(r) /\ Pair(r) # NoSlot
    BY <1>1 DEF Found, Own
  <2>2. CASE row[r] \in Slots
    BY <2>1, <2>2 DEF Pair, Inv, PictureInv, Fits
  <2>3. CASE row[r] \notin Slots
    <3>1. Found(r) \in Slots /\ slot[Found(r)].uid = 0
      BY <2>1, <2>3 DEF Pair
    <3> QED
      BY <3>1, <1>0 DEF Inv, PictureInv, Fits, Filling
  <2> QED
    BY <2>2, <2>3
<1>2. CASE ~Own(r)
  <2> DEFINE S == {i \in Slots : slot[i].key = r}
  <2>1. Found(r) = Keyed(r) /\ r \notin Long /\ S # {}
    BY <1>2 DEF Found, Keyed
  <2>2. S \in SUBSET Nat
    BY ArtAssumption DEF Slots
  <2>3. \E i \in Slots : slot[i].key = r /\ \A j \in Slots : slot[j].key = r => i <= j
    BY <2>1, <2>2, Smallest
  <2>4. Keyed(r) = CHOOSE i \in Slots :
                     slot[i].key = r /\ \A j \in Slots : slot[j].key = r => i <= j
    BY <2>1 DEF Keyed
  <2>5. Found(r) \in Slots /\ slot[Found(r)].key = r
    BY <2>1, <2>3, <2>4
  <2>6. slot[Found(r)].tex \in {r, NoRow}
    BY <1>0, <2>5 DEF Inv, PictureInv
  <2>7. ASSUME NEW q \in Reqs, Filling(Found(r), q), InCache(q), req[q].slot = Found(r)
        PROVE  r = req[q].row
    <3>1. slot[Found(r)].key \in {KeyOf(req[q].row), NoRow}
      BY <2>5, <2>7 DEF Inv, PictureInv
    <3> QED
      BY <1>0, <2>5, <3>1 DEF KeyOf
  <2> QED
    BY <2>5, <2>6, <2>7 DEF Fits
<1> QED
  BY <1>1, <1>2

LEMMA AdoptFacts ==
  ASSUME NEW f, Soft(f), SameStamps(f), NEW q \in Reqs, NEW b \in BOOLEAN
  PROVE  Soft([f EXCEPT ![q].focus = b]) /\ SameStamps([f EXCEPT ![q].focus = b])
<1> DEFINE e == [f[q] EXCEPT !.focus = b]
           g == [f EXCEPT ![q] = e]
<1>1. [f EXCEPT ![q].focus = b] = g
  OBVIOUS
<1>2. f \in [Reqs -> RequestState]
  BY DEF Soft
<1>3. Softly(f[q], e)
  <2>1. b = TRUE \/ b = FALSE
    OBVIOUS
  <2> QED
    BY <1>2, <2>1, FocusFields
<1> HIDE DEF e
<1>4. \A p \in Reqs : g[p] = IF p = q THEN e ELSE f[p]
  BY <1>2
<1>5. g \in [Reqs -> RequestState]
  BY <1>2, <1>3 DEF Softly
<1>6. Soft(g) /\ SameStamps(g)
  <2> HIDE DEF g
  <2> QED
    BY <1>3, <1>4, <1>5 DEF Soft, SameStamps, Same, Softly
<1> QED
  BY <1>1, <1>6

LEMMA PromoteFacts ==
  ASSUME Inv, NEW q \in Reqs, NEW s \in artPromote(q)
  PROVE  s \in Seq(Reqs) /\ IsInjective(s) /\ ToSet(s) = ToSet(queue)
<1>0. queue \in Seq(Reqs) /\ IsInjective(queue) /\ (req[q].stamped <=> q \in ToSet(queue))
  BY DEF Inv, TypeOK, PlaceInv, QueuesInv
<1>1. CASE s = queue
  BY <1>0, <1>1
<1>2. CASE s # queue
  <2>1. /\ q \in ToSet(queue)
        /\ \E others \in InOrder(Reqs \ {q}) : s = <<q>> \o others
    BY <1>0, <1>2 DEF artPromote
  <2>2. PICK others \in InOrder(Reqs \ {q}) : s = <<q>> \o others
    BY <2>1
  <2>3. /\ others \in Seq(Reqs) /\ IsInjective(others)
        /\ ToSet(others) = ToSet(queue) \cap (Reqs \ {q})
    BY <1>0, InOrderFacts
  <2>4. s \in Seq(Reqs) /\ IsInjective(s) /\ ToSet(s) = ToSet(others) \cup {q}
    BY <2>2, <2>3, ConsFacts
  <2> QED
    BY <2>1, <2>3, <2>4, <1>0, MemberType
<1> QED
  BY <1>1, <1>2

LEMMA DrawAbsentInv ==
  ASSUME Inv, NEW r \in Rows, NEW light \in Highlights, DrawAbsent(r, light) PROVE Inv'
<1>1. Soft(req') /\ SameStamps(req')
  BY FocusedFacts DEF DrawAbsent, Inv
<1>2. UNCHANGED <<slot, row, refs, lost, queue, current, wake, worker, io, nav, gui, disk, budget>>
  BY DEF DrawAbsent, cacheVars
<1>3. TypeOK /\ IsInjective(queue)
  BY DEF Inv, PlaceInv, QueuesInv
<1> QED
  BY <1>1, <1>2, <1>3, SoftKeeps DEF TypeOK

LEMMA DrawParkInv ==
  ASSUME Inv, NEW r \in Rows, NEW light \in Highlights, DrawPark(r, light) PROVE Inv'
<1>1. Soft(req') /\ SameStamps(req')
  BY FocusedFacts DEF DrawPark, Inv
<1>2. /\ UNCHANGED <<slot, refs, lost, queue, current, wake, worker, io, nav, gui, disk, budget>>
      /\ row' = [row EXCEPT ![r] = Absent]
      /\ KnownAbsent(r)
  BY DEF DrawPark
<1>3. TypeOK /\ IsInjective(queue)
  BY DEF Inv, PlaceInv, QueuesInv
<1>4. r \notin disk
  BY <1>2, FoundFits DEF KnownAbsent, Parked, Inv, MemoInv
<1>5. /\ row' \in [Rows -> RowState]
      /\ \A x \in Rows : row'[x] = IF x = r THEN Absent ELSE row[x]
  BY <1>2, <1>3, RowFacts DEF TypeOK
<1> QED
  BY <1>1, <1>2, <1>3, <1>4, <1>5, RowFacts, SoftKeeps DEF TypeOK

LEMMA DrawReadyInv ==
  ASSUME Inv, NEW r \in Rows, NEW light \in Highlights, DrawReady(r, light) PROVE Inv'
<1> DEFINE i == Found(r)
<1>1. Soft(req') /\ SameStamps(req')
  BY FocusedFacts DEF DrawReady, Inv
<1>2. /\ UNCHANGED <<refs, lost, queue, current, wake, worker, io, nav, gui, disk, budget>>
      /\ row' = [row EXCEPT ![r] = PairOf(i)] /\ slot' = [slot EXCEPT ![i].used = "recent"]
      /\ i \in Slots /\ Fits(r, i)
  BY FoundFits DEF DrawReady, Ready
<1>3. TypeOK /\ IsInjective(queue)
  BY DEF Inv, PlaceInv, QueuesInv
<1> HIDE DEF i
<1>4. /\ row' \in [Rows -> RowState]
      /\ \A x \in Rows : row'[x] = IF x = r THEN PairOf(i) ELSE row[x]
  BY <1>2, <1>3, RowFacts DEF TypeOK
<1>5. slot' = [slot EXCEPT ![i] = [slot[i] EXCEPT !.used = "recent"]] /\ slot[i] \in SlotState
  BY <1>2, <1>3 DEF TypeOK
<1>6. /\ slot' \in [Slots -> SlotState] /\ slot'[i].used = "recent"
      /\ \A j \in Slots : /\ slot'[j].qr = slot[j].qr /\ slot'[j].uid = slot[j].uid
                          /\ slot'[j].key = slot[j].key /\ slot'[j].tex = slot[j].tex
                          /\ slot'[j].now = slot[j].now
                          /\ slot'[j].used = "absent" => slot[j].used = "absent"
  BY <1>2, <1>3, <1>5, UsedSlots DEF TypeOK
<1>7. \A x \in Rows, j \in Slots : row'[x] = j => row[x] = j \/ (Fits(x, j) /\ j = i)
  BY <1>2, <1>4, RowFacts
<1>8. \A x \in Rows : row'[x] = Absent => row[x] = Absent
  BY <1>2, <1>4, RowFacts
<1> QED
  BY <1>1, <1>2, <1>3, <1>4, <1>6, <1>7, <1>8, SoftKeeps DEF TypeOK

(* Still loading: the slot's request is adopted, and may go to the head.      *)
LEMMA DrawLoadingInv ==
  ASSUME Inv, NEW r \in Rows, NEW light \in Highlights, DrawLoading(r, light) PROVE Inv'
<1> DEFINE i == Found(r)
           q == slot[i].qr
<1>1. /\ UNCHANGED <<refs, lost, current, wake, worker, io, nav, gui, disk, budget>>
      /\ row' = [row EXCEPT ![r] = PairOf(i)] /\ slot' = [slot EXCEPT ![i].used = "recent"]
      /\ i \in Slots /\ Fits(r, i) /\ q # 0
      /\ req' = [Focused(light) EXCEPT ![q].focus = Alive(q)] /\ Alive(q) \in BOOLEAN
      /\ queue' = queue \/ queue' \in artPromote(q)
  BY FoundFits DEF DrawLoading, Loading, Alive
<1>2. TypeOK /\ IsInjective(queue)
  BY DEF Inv, PlaceInv, QueuesInv
<1>3. slot[i] \in SlotState
  BY <1>1, <1>2 DEF TypeOK
<1>4. q \in Reqs
  BY <1>1, <1>3 DEF SlotState
<1> HIDE DEF q, i
<1>5. Soft(req') /\ SameStamps(req')
  BY <1>1, <1>2, <1>4, FocusedFacts, AdoptFacts
<1>6. queue' \in Seq(Reqs) /\ IsInjective(queue') /\ ToSet(queue') = ToSet(queue)
  BY <1>1, <1>2, <1>4, PromoteFacts DEF TypeOK
<1>7. /\ row' \in [Rows -> RowState]
      /\ \A x \in Rows : row'[x] = IF x = r THEN PairOf(i) ELSE row[x]
  BY <1>1, <1>2, RowFacts DEF TypeOK
<1>8. slot' = [slot EXCEPT ![i] = [slot[i] EXCEPT !.used = "recent"]]
  BY <1>1, <1>2 DEF TypeOK
<1>9. /\ slot' \in [Slots -> SlotState] /\ slot'[i].used = "recent"
      /\ \A j \in Slots : /\ slot'[j].qr = slot[j].qr /\ slot'[j].uid = slot[j].uid
                          /\ slot'[j].key = slot[j].key /\ slot'[j].tex = slot[j].tex
                          /\ slot'[j].now = slot[j].now
                          /\ slot'[j].used = "absent" => slot[j].used = "absent"
  BY <1>1, <1>2, <1>3, <1>8, UsedSlots DEF TypeOK
<1>10. \A x \in Rows, j \in Slots : row'[x] = j => row[x] = j \/ (Fits(x, j) /\ j = i)
  BY <1>1, <1>7, RowFacts
<1>11. \A x \in Rows : row'[x] = Absent => row[x] = Absent
  BY <1>1, <1>7, RowFacts
<1> QED
  BY <1>1, <1>2, <1>5, <1>6, <1>7, <1>9, <1>10, <1>11, SoftKeeps DEF TypeOK

LEMMA DrawRefusedInv ==
  ASSUME Inv, NEW r \in Rows, NEW light \in Highlights, DrawRefused(r, light) PROVE Inv'
<1>1. /\ UNCHANGED <<slot, refs, lost, queue, current, wake, worker, io, nav, gui, disk, budget>>
      /\ row' = [row EXCEPT ![r] = NoSlot]
      /\ req' = Focused(light) \/ req' = AbortOthers(r, Focused(light))
  BY DEF DrawRefused
<1>2. TypeOK /\ IsInjective(queue)
  BY DEF Inv, PlaceInv, QueuesInv
<1>3. Soft(req') /\ SameStamps(req')
  BY <1>1, <1>2, FocusedFacts, AbortOthersFacts
<1>4. /\ row' \in [Rows -> RowState]
      /\ \A x \in Rows : row'[x] = IF x = r THEN NoSlot ELSE row[x]
  BY <1>1, <1>2, RowFacts DEF TypeOK
<1> QED
  BY <1>1, <1>2, <1>3, <1>4, RowFacts, SoftKeeps DEF TypeOK

(* A picture is looked up, a slot ages: only the mark of the slot changes.    *)
LEMMA MarkInv ==
  ASSUME Inv, NEW i \in Slots, NEW u \in {"stale", "recent"},
         slot' = [slot EXCEPT ![i].used = u],
         UNCHANGED <<row, refs, lost, queueVars, worker, io, menuVars, disk, budget>>
  PROVE  Inv'
<1>1. TypeOK /\ IsInjective(queue)
  BY DEF Inv, PlaceInv, QueuesInv
<1>2. Soft(req) /\ SameStamps(req)
  BY <1>1, SoftReq
<1>3. req' = req /\ UNCHANGED <<queue, current, wake, nav, gui>>
  BY DEF queueVars, menuVars
<1>4. Soft(req') /\ SameStamps(req')
  BY <1>2, <1>3 DEF Soft, SameStamps
<1>5. slot' = [slot EXCEPT ![i] = [slot[i] EXCEPT !.used = u]] /\ slot[i] \in SlotState
  BY <1>1 DEF TypeOK
<1>6. /\ slot' \in [Slots -> SlotState]
      /\ \A j \in Slots : /\ slot'[j].qr = slot[j].qr /\ slot'[j].uid = slot[j].uid
                          /\ slot'[j].key = slot[j].key /\ slot'[j].tex = slot[j].tex
                          /\ slot'[j].now = slot[j].now
                          /\ slot'[j].used = "absent" => slot[j].used = "absent"
  BY <1>1, <1>5, UsedSlots DEF TypeOK
<1> QED
  BY <1>1, <1>3, <1>4, <1>6, SoftKeeps DEF TypeOK

LEMMA LookupInv == ASSUME Inv, NEW r \in Rows, cacheLookupTexture(r) PROVE Inv'
<1>1. Pair(r) \in Slots
  BY DEF cacheLookupTexture, Pair
<1> QED
  BY <1>1, MarkInv DEF cacheLookupTexture

LEMMA AgeInv == ASSUME Inv, NEW i \in Slots, Age(i) PROVE Inv'
  BY MarkInv DEF Age

LEMMA TickInv == ASSUME Inv, NEW held \in BOOLEAN, cacheTickArt(held) PROVE Inv'
<1>1. TypeOK /\ IsInjective(queue)
  BY DEF Inv, PlaceInv, QueuesInv
<1>2. /\ UNCHANGED <<slot, row, refs, lost, req, queue, current, worker, io, gui, disk, budget>>
      /\ wake' \in BOOLEAN /\ nav' \in BOOLEAN
  BY <1>1 DEF cacheTickArt, cacheVars, TypeOK
<1>3. Soft(req') /\ SameStamps(req')
  BY <1>1, <1>2, SoftReq DEF Soft, SameStamps
<1> QED
  BY <1>1, <1>2, <1>3, SoftKeeps DEF TypeOK

LEMMA DropViewInv == ASSUME Inv, cacheDropQueuedArt PROVE Inv'
<1>1. TypeOK /\ IsInjective(queue)
  BY DEF Inv, PlaceInv, QueuesInv
<1>2. /\ UNCHANGED <<slot, row, refs, lost, queue, current, worker, io, nav, gui, disk>>
      /\ wake' \in BOOLEAN /\ budget' \in 0 .. Events
  BY <1>1, ArtAssumption DEF cacheDropQueuedArt, cacheVars, menuVars, TypeOK, Event, Costs, Costs, Running
<1>3. req' = [q \in Reqs |-> [req[q] EXCEPT !.view = FALSE]]
  BY DEF cacheDropQueuedArt
<1>4. Soft(req') /\ SameStamps(req')
  BY <1>1, <1>3, ViewFields DEF Soft, SameStamps, Softly, TypeOK
<1> QED
  BY <1>1, <1>2, <1>4, SoftKeeps DEF TypeOK

LEMMA RowRebornInv == ASSUME Inv, NEW r \in Rows, RowReborn(r) PROVE Inv'
<1>1. TypeOK /\ IsInjective(queue)
  BY DEF Inv, PlaceInv, QueuesInv
<1>2. /\ UNCHANGED <<slot, refs, lost, req, queue, current, wake, worker, io, nav, gui, disk>>
      /\ budget' \in 0 .. Events /\ row' = [row EXCEPT ![r] = NoSlot]
  BY <1>1, ArtAssumption DEF RowReborn, queueVars, menuVars, TypeOK, Event, Costs
<1>3. Soft(req') /\ SameStamps(req')
  BY <1>1, <1>2, SoftReq DEF Soft, SameStamps
<1>4. /\ row' \in [Rows -> RowState]
      /\ \A x \in Rows : row'[x] = IF x = r THEN NoSlot ELSE row[x]
  BY <1>1, <1>2, RowFacts DEF TypeOK
<1> QED
  BY <1>1, <1>2, <1>3, <1>4, RowFacts, SoftKeeps DEF TypeOK

LEMMA JoinInv == ASSUME Inv, CacheEndJoin PROVE Inv'
<1>1. TypeOK /\ IsInjective(queue)
  BY DEF Inv, PlaceInv, QueuesInv
<1>2. /\ UNCHANGED <<slot, row, refs, lost, req, queue, current, wake, worker, io, nav, disk, budget>>
      /\ gui' \in {"joined", "abandoned"}
  BY DEF CacheEndJoin, cacheVars, queueVars
<1>3. Soft(req') /\ SameStamps(req')
  BY <1>1, <1>2, SoftReq DEF Soft, SameStamps
<1> QED
  BY <1>1, <1>2, <1>3, SoftKeeps DEF TypeOK

(* New art is announced: every absence is of an older generation.             *)
LEMMA InvalidateInv == ASSUME Inv, NEW r \in Rows, cacheInvalidateFailMemo(r) PROVE Inv'
<1>1. TypeOK /\ IsInjective(queue)
  BY DEF Inv, PlaceInv, QueuesInv
<1>2. /\ UNCHANGED <<refs, lost, queue, current, wake, worker, io, nav, gui>>
      /\ budget' \in 0 .. Events /\ disk' \subseteq Rows
  BY <1>1, ArtAssumption DEF cacheInvalidateFailMemo, menuVars, TypeOK, Event, Costs
<1>3. /\ req' = [q \in Reqs |-> [req[q] EXCEPT !.now = FALSE]]
      /\ slot' = [i \in Slots |-> [slot[i] EXCEPT !.now = FALSE]]
      /\ row' = [x \in Rows |-> IF row[x] = Absent THEN NoSlot ELSE row[x]]
  BY DEF cacheInvalidateFailMemo
<1>4. Soft(req') /\ SameStamps(req') /\ \A q \in Reqs : ~req'[q].now
  BY <1>1, <1>3, NowFields DEF Soft, SameStamps, TypeOK
<1>5. \A e \in SlotState :
        /\ [e EXCEPT !.now = FALSE] \in SlotState /\ [e EXCEPT !.now = FALSE].qr = e.qr
        /\ [e EXCEPT !.now = FALSE].uid = e.uid /\ [e EXCEPT !.now = FALSE].key = e.key
        /\ [e EXCEPT !.now = FALSE].tex = e.tex /\ ~[e EXCEPT !.now = FALSE].now
  BY DEF SlotState
<1>6. /\ slot' \in [Slots -> SlotState]
      /\ \A j \in Slots : /\ slot'[j].qr = slot[j].qr /\ slot'[j].uid = slot[j].uid
                          /\ slot'[j].key = slot[j].key /\ slot'[j].tex = slot[j].tex
                          /\ ~slot'[j].now
  BY <1>1, <1>3, <1>5 DEF TypeOK
<1>8. /\ row' \in [Rows -> RowState]
      /\ \A x \in Rows : row'[x] # Absent /\ (row'[x] \in Slots => row'[x] = row[x])
  BY <1>1, <1>3, RowFacts DEF TypeOK
<1>9. worker.pc = "read" => ~req'[worker.req].now
  BY <1>4, ThreadFacts DEF Holding
<1> QED
  BY <1>1, <1>2, <1>4, <1>6, <1>8, <1>9, SoftShape DEF TypeOK

(* What every proof about the threads starts from.                            *)
LEMMA Basics ==
  ASSUME Inv
  PROVE  /\ slot \in [Slots -> SlotState] /\ req \in [Reqs -> RequestState]
         /\ row \in [Rows -> RowState]
         /\ worker \in WorkerState /\ io \in IoState
         /\ queue \in Seq(Reqs) /\ io.chain \in Seq(Reqs) /\ io.keep \in Seq(Reqs)
         /\ 0 \notin Reqs /\ NoRow \notin Rows
         /\ \A i \in Slots : slot[i].qr \in Reqs \cup {0}
         /\ worker.req # 0 => Alive(worker.req)
         /\ current # 0 => current = worker.req /\ Whole(current)
<1>1. TypeOK
  BY DEF Inv
<1>2. /\ io.chain \in Seq(Reqs) /\ io.keep \in Seq(Reqs)
      /\ \A i \in Slots : slot[i].qr \in Reqs \cup {0}
  BY <1>1 DEF TypeOK, IoState, SlotState
<1>3. 0 \notin Reqs
  BY DEF Reqs
<1>4. /\ worker.req # 0 => Alive(worker.req)
      /\ current # 0 => current = worker.req /\ Whole(current)
  BY DEF Inv, PlaceInv, ThreadsInv, Whole
<1> QED
  BY <1>1, <1>2, <1>3, <1>4, ArtAssumption DEF TypeOK

(* The slot the scan takes is not being filled.                               *)
LEMMA VictimFacts ==
  ASSUME Inv, NEW r \in Rows, NEW i \in Victims(r) \ {NoSlot}
  PROVE  i \in Slots /\ slot[i].qr = 0
<1> DEFINE Idle(u) == {j \in Slots : slot[j].qr = 0 /\ slot[j].used = u}
           First(S) == CHOOSE j \in S : \A k \in S : j <= k
<1>1. \A u : Idle(u) \in SUBSET Nat
  BY ArtAssumption DEF Slots
<1>2. \A u : Idle(u) # {} => First(Idle(u)) \in Idle(u)
  BY <1>1, Smallest
<1>3. \/ Idle("free") # {} /\ i = First(Idle("free"))
      \/ Idle("absent") # {} /\ i = First(Idle("absent"))
      \/ i \in Idle("stale") \cup Idle("recent")
  BY DEF Victims
<1>4. i \in Idle("free") \cup Idle("absent") \cup Idle("stale") \cup Idle("recent")
  <2> HIDE DEF Idle, First
  <2> QED
    BY <1>2, <1>3
<1> QED
  BY <1>4

(* A step takes no more of the bound than there is.                           *)
LEMMA CostsFacts ==
  /\ \A P \in BOOLEAN : Race(P) \in Nat /\ 1 + Race(P) \in Nat
  /\ \A n \in Nat : budget \in 0 .. Events /\ Costs(n) => budget' \in 0 .. Events
  BY ArtAssumption DEF Race, Costs

LEMMA DrawMissInv ==
  ASSUME Inv, NEW r \in Rows, NEW light \in Highlights, DrawMiss(r, light) PROVE Inv'
<1>b. USE Basics, RowFacts, ThreadFacts
<1>1. PICK i \in Victims(r) \ {NoSlot}, q \in Reqs :
       /\ ~Alive(q)
       /\ slot' = [slot EXCEPT ![i] = Claimed(r, q)]
       /\ row' = [Forget({i}) EXCEPT ![r] = i]
       /\ req' = [AbortOthers(r, Focused(light)) EXCEPT ![q] = NewRequest(r, i)]
       /\ queue' = <<q>> \o queue \/ queue' = Append(queue, q)
  BY DEF DrawMiss
<1>2. i \in Slots /\ slot[i].qr = 0
  BY VictimFacts
<1>3. /\ UNCHANGED <<lost, current, worker, io, nav, gui, disk>> /\ gui = "menu"
      /\ refs' = refs + 1 /\ wake' = TRUE /\ budget' \in 0 .. Events
  BY CostsFacts DEF DrawMiss, Drawing, Inv, TypeOK
<1>4. q \notin Held /\ q # worker.req /\ q # current
  BY <1>1 DEF Inv, PlaceInv, QueuesInv, Whole
<1>5. \A j \in Slots : ~Filling(j, q)
  <2>1. \A j \in Slots : slot[j].qr # 0 /\ slot[j].uid # 0 => InCache(slot[j].qr)
    BY <1>3 DEF Inv, PointerInv
  <2> QED
    BY <1>1, <2>1 DEF Alive, InCache, Filling
<1>6. /\ queue' \in Seq(Reqs) /\ IsInjective(queue') /\ ToSet(queue') = ToSet(queue) \cup {q}
  <2>1. IsInjective(queue) /\ q \notin ToSet(queue)
    BY <1>4 DEF Inv, PlaceInv, QueuesInv, Held
  <2>2. CASE queue' = <<q>> \o queue
    BY <2>1, <2>2, ConsFacts
  <2>3. CASE queue' = Append(queue, q)
    BY <2>1, <2>3, AppendFacts
  <2> QED
    BY <1>1, <2>2, <2>3
<1> DEFINE f == AbortOthers(r, Focused(light))
<1>7. Soft(f) /\ SameStamps(f)
  BY FocusedFacts, AbortOthersFacts DEF Inv
<1>8. req' = [f EXCEPT ![q] = NewRequest(r, i)]
  BY <1>1
<1> HIDE DEF f
<1>9. /\ NewRequest(r, i) \in RequestState /\ NewRequest(r, i).cache = "live"
      /\ NewRequest(r, i).row = r /\ NewRequest(r, i).slot = i /\ NewRequest(r, i).stamped
  BY <1>2 DEF NewRequest, RequestState
<1>10. /\ req' \in [Reqs -> RequestState]
       /\ req'[q].cache = "live" /\ req'[q].row = r /\ req'[q].slot = i /\ req'[q].stamped
       /\ \A p \in Reqs \ {q} :
            /\ req'[p].cache = req[p].cache /\ req'[p].row = req[p].row
            /\ req'[p].slot = req[p].slot /\ req'[p].stamped = req[p].stamped
            /\ req'[p].now => req[p].now
  <2>1. f \in [Reqs -> RequestState] /\ \A p \in Reqs :
            /\ f[p].cache = req[p].cache /\ f[p].row = req[p].row
            /\ f[p].slot = req[p].slot /\ f[p].stamped = req[p].stamped
            /\ f[p].now => req[p].now
    BY <1>7 DEF Soft, SameStamps, Same
  <2>2. req'[q] = NewRequest(r, i) /\ \A p \in Reqs \ {q} : req'[p] = f[p]
    BY <2>1, <1>8
  <2>3. req' \in [Reqs -> RequestState]
    BY <2>1, <1>8, <1>9
  <2> QED
    BY <2>1, <2>2, <2>3, <1>9
<1>11. /\ Claimed(r, q) \in SlotState /\ Claimed(r, q).qr = q /\ Claimed(r, q).uid = q
       /\ Claimed(r, q).used = "recent" /\ Claimed(r, q).key = KeyOf(r)
       /\ Claimed(r, q).tex = NoRow /\ ~Claimed(r, q).now
  BY DEF Claimed, SlotState, KeyOf
<1>12. /\ slot' \in [Slots -> SlotState] /\ slot'[i] = Claimed(r, q)
       /\ \A j \in Slots \ {i} : slot'[j] = slot[j]
  BY <1>1, <1>2, <1>11
<1>13. /\ row' \in [Rows -> RowState] /\ row'[r] = i
       /\ \A x \in Rows \ {r} : row'[x] = (IF row[x] = i THEN NoSlot ELSE row[x])
  BY <1>1, <1>2 DEF Forget
<1>14. TypeOK'
  BY <1>3, <1>6, <1>10, <1>12, <1>13 DEF Inv, TypeOK
<1>15. QueuesInv'
  <2>1. Held' = Held \cup {q} /\ io.chain' = io.chain /\ io.keep' = io.keep
        /\ worker.req' = worker.req
    BY <1>3, <1>6 DEF Held
  <2>2. \A p \in Held' : Whole(p)'
    BY <1>2, <1>4, <1>10, <2>1 DEF Inv, PlaceInv, QueuesInv, Whole, Alive
  <2>3. \A p \in Reqs : req'[p].stamped <=> p \in ToSet(queue')
    BY <1>4, <1>6, <1>10 DEF Inv, PlaceInv, QueuesInv, Held
  <2>4. ToSet(queue') \cap ToSet(io.chain) = {} /\ ToSet(queue') \cap ToSet(io.keep) = {}
    BY <1>4, <1>6 DEF Inv, PlaceInv, QueuesInv, Held
  <2> QED
    BY <1>3, <1>4, <1>6, <2>1, <2>2, <2>3, <2>4 DEF Inv, PlaceInv, QueuesInv
<1>16. ThreadsInv'
  BY <1>3, <1>4, <1>10 DEF Inv, PlaceInv, ThreadsInv, Whole, Alive
<1>17. \A j \in Slots, p \in Reqs : /\ Filling(j, p)' => Filling(j, p) \/ (j = i /\ p = q)
                                    /\ Filling(j, p) /\ j # i => Filling(j, p)'
  BY <1>2, <1>11, <1>12 DEF Filling
<1>18. /\ \A p \in Reqs \ {q} : InCache(p)' = InCache(p) /\ Waits(p)' = Waits(p)
       /\ \A j \in Slots : WorkerClears(j)' = WorkerClears(j) /\ IoClears(j)' = IoClears(j)
  <2>1. \A p \in Reqs \ {q} : p \in Held' <=> p \in Held
    BY <1>3, <1>6 DEF Held
  <2> QED
    BY <2>1, <1>3, <1>4, <1>10 DEF InCache, Waits, WorkerClears, IoClears, Holding
<1>19. PointerInv'
  <2>1. ASSUME NEW j \in Slots, slot'[j].qr # 0, slot'[j].uid # 0
        PROVE  /\ slot'[j].uid = slot'[j].qr
               /\ InCache(slot[j].qr)' /\ req'[slot'[j].qr].slot = j
    <3>1. CASE j = i
      BY <3>1, <1>2, <1>10, <1>11, <1>12 DEF InCache
    <3>2. CASE j # i
      <4>1. slot'[j] = slot[j] /\ slot[j].qr \in Reqs
        BY <3>2, <2>1, <1>12
      <4>2. /\ slot[j].uid = slot[j].qr /\ InCache(slot[j].qr) /\ req[slot[j].qr].slot = j
        BY <4>1, <2>1, <1>3 DEF Inv, PointerInv
      <4>3. slot[j].qr # q
        BY <4>2, <1>5 DEF Filling
      <4> QED
        BY <4>1, <4>2, <4>3, <1>10 DEF InCache
    <3> QED
      BY <3>1, <3>2
  <2>2. worker.pc \in {"release"} \cup Returning => \A j \in Slots : ~Filling(j, worker.req)'
    BY <1>3, <1>4, <1>17 DEF Inv, PointerInv, Holding
  <2>3. io.pc \in Returning => \A j \in Slots : ~Filling(j, Head(io.chain))'
    BY <1>3, <1>4, <1>17 DEF Inv, PointerInv
  <2> QED
    BY <2>1, <2>2, <2>3, <1>3 DEF PointerInv, Filling
<1>20. OwnerInv'
  <2>1. ASSUME NEW p \in Reqs, Waits(p)', InCache(p)', Entry(p)'.uid = p
        PROVE  Entry(p)'.qr = p \/ WorkerClears(req[p].slot)' \/ IoClears(req[p].slot)'
    <3>1. CASE p = q
      BY <3>1, <1>2, <1>10, <1>11, <1>12 DEF Entry
    <3>2. CASE p # q
      <4>1. Waits(p) /\ InCache(p) /\ req'[p].slot = req[p].slot
        BY <3>2, <2>1, <1>18, <1>10
      <4>2. req[p].slot \in Slots
        BY <4>1 DEF Inv, PlaceInv, QueuesInv, Waits, Whole, Holding
      <4>3. req[p].slot # i
        BY <3>2, <4>1, <2>1, <1>11, <1>12 DEF Entry
      <4>4. Entry(p)'.qr = Entry(p).qr /\ Entry(p).uid = p
        BY <4>1, <4>2, <4>3, <2>1, <1>12 DEF Entry
      <4>5. Entry(p).qr = p \/ WorkerClears(req[p].slot) \/ IoClears(req[p].slot)
        BY <4>1, <4>4 DEF Inv, OwnerInv
      <4> QED
        BY <4>1, <4>4, <4>5, <1>3, <1>4, <1>10, <1>18 DEF WorkerClears, IoClears, Holding
    <3> QED
      BY <3>1, <3>2
  <2>2. ASSUME worker.pc \in {"read", "handoff"}, InCache(worker.req)'
        PROVE  Filling(req[worker.req].slot, worker.req)' /\ ~IoClears(req[worker.req].slot)'
    <3>1. worker.req \in Reqs \ {q} /\ req[worker.req].slot \in Slots
      BY <2>2, <1>4 DEF Holding, Whole
    <3>2. InCache(worker.req)
      BY <3>1, <2>2, <1>18, <1>3
    <3>3. Filling(req[worker.req].slot, worker.req) /\ ~IoClears(req[worker.req].slot)
      BY <3>2, <2>2 DEF Inv, OwnerInv
    <3>4. req[worker.req].slot # i
      BY <3>1, <3>3, <1>2 DEF Filling
    <3> QED
      BY <3>1, <3>2, <3>3, <3>4, <1>3, <1>4, <1>10, <1>12, <1>18 DEF Filling, IoClears
  <2> QED
    BY <2>1, <2>2, <1>3 DEF OwnerInv
<1>21. PictureInv'
  <2>1. ASSUME NEW j \in Slots, NEW p \in Reqs, Filling(j, p)', InCache(p)', req'[p].slot = j
        PROVE  /\ slot'[j].key \in {KeyOf(req'[p].row), NoRow}
               /\ \A x \in Rows : row'[x] = j => x = req'[p].row
    <3>1. CASE j = i
      BY <3>1, <2>1, <1>2, <1>10, <1>11, <1>12, <1>13 DEF Filling
    <3>2. CASE j # i
      <4>1. slot'[j] = slot[j] /\ p # q /\ Filling(j, p)
        BY <3>2, <2>1, <1>5, <1>12, <1>17
      <4>2. InCache(p) /\ req[p].slot = j /\ req'[p].row = req[p].row
        BY <4>1, <2>1, <1>10, <1>18
      <4>3. slot[j].key \in {KeyOf(req[p].row), NoRow} /\ \A x \in Rows : row[x] = j => x = req[p].row
        BY <4>1, <4>2 DEF Inv, PictureInv
      <4>4. \A x \in Rows : row'[x] = j => row[x] = j
        BY <3>2, <1>13
      <4> QED
        BY <4>1, <4>2, <4>3, <4>4
    <3> QED
      BY <3>1, <3>2
  <2>2. \A j \in Slots : slot'[j].key # NoRow => slot'[j].tex \in {slot'[j].key, NoRow}
    BY <1>11, <1>12 DEF Inv, PictureInv
  <2>3. \A x \in Rows : row'[x] \in Slots => slot'[row'[x]].tex \in {x, NoRow}
    BY <1>2, <1>11, <1>12, <1>13 DEF Inv, PictureInv
  <2>4. /\ \A j \in Slots : slot'[j].uid = 0 => slot'[j].tex = NoRow
        /\ \A j \in Slots :
             (WorkerClears(j)' /\ worker'.store > 1) \/ (IoClears(j)' /\ io'.store > 1)
               => slot'[j].tex = NoRow
    BY <1>3, <1>11, <1>12, <1>18 DEF Inv, PictureInv
  <2> QED
    BY <2>1, <2>2, <2>3, <2>4 DEF PictureInv, KeyOf
<1>22. MemoInv'
  <2>1. \A x \in Rows : row'[x] = Absent => x \notin disk
    BY <1>2, <1>13 DEF Inv, MemoInv
  <2>2. \A j \in Slots, x \in Rows :
          slot'[j].used = "absent" /\ slot'[j].now /\ (row'[x] = j \/ slot'[j].key = x)
            => x \notin disk
    BY <1>11, <1>12, <1>13 DEF Inv, MemoInv
  <2>3. worker.pc = "read" /\ ~worker.found /\ req'[worker.req].now =>
          req'[worker.req].row \notin disk
    BY <1>4, <1>10 DEF Inv, MemoInv, Holding
  <2>4. /\ \A j \in Slots : WorkerClears(j)' \/ IoClears(j)' \/ slot'[j].uid = 0 => ~slot'[j].now
        /\ \A j \in Slots : slot'[j].now /\ slot'[j].qr # 0 =>
             worker.pc = "handoff" /\ Filled(j) /\ j # i
    BY <1>11, <1>12, <1>18 DEF Inv, MemoInv
  <2>5. \A j \in Slots \ {i} : worker.pc = "handoff" /\ Filled(j) => Filled(j)'
    BY <1>3, <1>4, <1>10, <1>12 DEF Filled, InCache, Holding
  <2> QED
    BY <2>1, <2>2, <2>3, <2>4, <2>5, <1>3 DEF MemoInv
<1> QED
  BY <1>14, <1>15, <1>16, <1>19, <1>20, <1>21, <1>22 DEF Inv, PlaceInv

-----------------------------------------------------------------------------
(* The GUI thread: requests dropped out of the queue                          *)

LEMMA ReqsFinite == IsFiniteSet(Reqs) /\ Cardinality(Reqs) = NReqs
  BY FS_Interval, ArtAssumption DEF Reqs

LEMMA FreeChainInv ==
  ASSUME Inv, NEW f, Soft(f), NEW Q \in SUBSET ToSet(queue), FreeChain(f, Q),
         queue' \in Seq(Reqs), IsInjective(queue'), ToSet(queue') = ToSet(queue) \ Q,
         \A q \in Reqs \ Q : f[q].stamped <=> q \in ToSet(queue'),
         wake' \in BOOLEAN, nav' \in BOOLEAN, budget' \in 0 .. Events,
         gui' \in {"menu", "closing", "joining", "joined", "abandoned", "over"},
         gui' = "menu" => gui = "menu",
         UNCHANGED <<current, worker, io, disk>>
  PROVE  Inv'
<1>b. USE Basics, RowFacts, ThreadFacts
<1> DEFINE Cleared == {i \in Slots : \E q \in Q : InCache(q) /\ req[q].slot = i /\ slot[i].qr = q}
<1>1. /\ req' = [q \in Reqs |-> IF q \in Q THEN Gone ELSE f[q]]
      /\ slot' = [i \in Slots |-> IF i \in Cleared THEN NoTenant ELSE slot[i]]
      /\ row' = [r \in Rows |-> IF row[r] \in Cleared THEN NoSlot ELSE row[r]]
      /\ lost' = lost
  BY DEF FreeChain, Forget
<1> HIDE DEF Cleared
<1>2. /\ Q \subseteq Held /\ Q \subseteq Reqs /\ worker.req \notin Q /\ current \notin Q
      /\ Q \cap ToSet(io.chain) = {} /\ Q \cap ToSet(io.keep) = {}
  BY DEF Inv, PlaceInv, QueuesInv, Held
<1>3. /\ req' \in [Reqs -> RequestState] /\ (\A q \in Q : req'[q] = Gone)
      /\ \A q \in Reqs \ Q : /\ req'[q].cache = req[q].cache /\ req'[q].row = req[q].row
                             /\ req'[q].slot = req[q].slot /\ (req'[q].now => req[q].now)
                             /\ req'[q].stamped <=> q \in ToSet(queue')
  <2>1. \A q \in Reqs \ Q : req'[q] = f[q]
    BY <1>1
  <2>2. req' \in [Reqs -> RequestState]
    BY <1>1, GoneFacts DEF Soft
  <2> QED
    BY <1>1, <1>2, <2>1, <2>2 DEF Soft, Same
<1>4. /\ slot' \in [Slots -> SlotState]
      /\ \A i \in Slots : slot'[i] = IF i \in Cleared THEN NoTenant ELSE slot[i]
  BY <1>1, SlotFacts
<1>5. /\ row' \in [Rows -> RowState]
      /\ \A r \in Rows : /\ row'[r] = Absent => row[r] = Absent
                         /\ row'[r] \in Slots => row'[r] = row[r] /\ row[r] \notin Cleared
  BY <1>1
<1>6. refs' \in Int
  <2> DEFINE L == {q \in Q : InCache(q)}
  <2>1. IsFiniteSet(L)
    BY <1>2, ReqsFinite, FS_Subset
  <2>2. Cardinality(L) \in Nat
    BY <2>1, FS_CardinalityType
  <2>3. refs' = IF refs > Cardinality(L) THEN refs - Cardinality(L)
                ELSE IF refs > 0 THEN 0 ELSE refs
    BY DEF FreeChain
  <2> HIDE DEF L
  <2> QED
    BY <2>2, <2>3 DEF Inv, TypeOK
<1>7. TypeOK'
  BY <1>1, <1>3, <1>4, <1>5, <1>6 DEF Inv, TypeOK
<1>8. Held' = Held \ Q
  BY <1>2 DEF Held
<1>9. QueuesInv'
  <2>1. \A q \in Held' : Whole(q)'
    <3>1. Held' \subseteq Reqs \ Q /\ \A q \in Held' : Whole(q)
      BY <1>8 DEF Inv, PlaceInv, QueuesInv
    <3> QED
      BY <1>3, <3>1 DEF Whole, Alive
  <2>2. \A q \in Reqs : req'[q].stamped <=> q \in ToSet(queue')
    BY <1>3, GoneFacts
  <2> QED
    BY <1>8, <2>1, <2>2 DEF Inv, PlaceInv, QueuesInv
<1>10. ThreadsInv'
  BY <1>2, <1>3 DEF Inv, PlaceInv, ThreadsInv, Whole, Alive
<1>11. /\ \A p \in Reqs : InCache(p)' <=> InCache(p) /\ p \notin Q
       /\ \A p \in Reqs : Waits(p)' <=> Waits(p) /\ p \notin Q
       /\ \A j \in Slots, p \in Reqs :
            Filling(j, p)' <=> Filling(j, p) /\ j \notin Cleared
       /\ \A j \in Slots : WorkerClears(j)' = WorkerClears(j) /\ IoClears(j)' = IoClears(j)
  <2>1. \A p \in Reqs : InCache(p)' <=> InCache(p) /\ p \notin Q
    BY <1>3, GoneFacts DEF InCache
  <2>2. \A p \in Reqs : Waits(p)' <=> Waits(p) /\ p \notin Q
    BY <1>2, <1>8 DEF Waits
  <2>3. \A j \in Slots, p \in Reqs : Filling(j, p)' <=> Filling(j, p) /\ j \notin Cleared
    BY <1>4, SlotFacts DEF Filling
  <2>4. \A j \in Slots : WorkerClears(j)' = WorkerClears(j)
    BY <2>1, <1>2, <1>3 DEF WorkerClears, Holding
  <2>5. \A j \in Slots : IoClears(j)' = IoClears(j)
    <3>1. io.pc = "clear" => Head(io.chain) \in Reqs \ Q
      BY <1>2 DEF Held
    <3> QED
      BY <2>1, <3>1, <1>3 DEF IoClears
  <2> QED
    BY <2>1, <2>2, <2>3, <2>4, <2>5
<1>12. PointerInv'
  <2>1. ASSUME gui' = "menu", NEW j \in Slots, slot'[j].qr # 0, slot'[j].uid # 0
        PROVE  /\ slot'[j].uid = slot'[j].qr
               /\ InCache(slot[j].qr)' /\ req'[slot'[j].qr].slot = j
    <3>1. slot'[j] = slot[j] /\ slot[j].qr \in Reqs /\ j \notin Cleared
      BY <1>4, <2>1, SlotFacts
    <3>2. /\ slot[j].uid = slot[j].qr
          /\ InCache(slot[j].qr) /\ req[slot[j].qr].slot = j
      BY <2>1, <3>1 DEF Inv, PointerInv
    <3>3. slot[j].qr \notin Q
      BY <3>1, <3>2 DEF Cleared
    <3> QED
      BY <1>3, <1>11, <3>1, <3>2, <3>3
  <2>2. gui' = "menu" /\ worker.pc \in {"release"} \cup Returning =>
          \A j \in Slots : ~Filling(j, worker.req)'
    BY <1>11 DEF Inv, PointerInv, Holding
  <2>3. gui' = "menu" /\ io.pc \in Returning => \A j \in Slots : ~Filling(j, Head(io.chain))'
    BY <1>11 DEF Inv, PointerInv
  <2> QED
    BY <2>1, <2>2, <2>3 DEF PointerInv, Filling
<1>13. OwnerInv'
  <2>1. ASSUME NEW p \in Reqs, Waits(p)', InCache(p)', Entry(p)'.uid = p
        PROVE  Entry(p)'.qr = p \/ WorkerClears(req[p].slot)' \/ IoClears(req[p].slot)'
    <3>1. Waits(p) /\ InCache(p) /\ req'[p].slot = req[p].slot
      BY <1>3, <1>11, <2>1
    <3>2. req[p].slot \in Slots
      BY <3>1 DEF Inv, PlaceInv, QueuesInv, Waits, Whole, Holding
    <3>3. slot'[req[p].slot] = slot[req[p].slot]
      BY <1>4, <2>1, <3>1, <3>2, SlotFacts DEF Entry
    <3>4. Entry(p).qr = p \/ WorkerClears(req[p].slot) \/ IoClears(req[p].slot)
      BY <2>1, <3>1, <3>3 DEF Entry, Inv, OwnerInv
    <3>5. WorkerClears(req[p].slot) => WorkerClears(req[p].slot)'
      BY <3>1, <3>2, <1>11 DEF WorkerClears
    <3>6. IoClears(req[p].slot) => IoClears(req[p].slot)'
      BY <3>1, <3>2, <1>11 DEF IoClears
    <3> QED
      BY <3>1, <3>3, <3>4, <3>5, <3>6 DEF Entry
  <2>2. ASSUME worker.pc \in {"read", "handoff"}, InCache(worker.req)'
        PROVE  Filling(req[worker.req].slot, worker.req)' /\ ~IoClears(req[worker.req].slot)'
    <3>1. worker.req \in Reqs \ Q /\ req[worker.req].slot \in Slots
      BY <2>2, <1>2 DEF Holding, Whole
    <3>2. InCache(worker.req) /\ req'[worker.req].slot = req[worker.req].slot
      BY <3>1, <2>2, <1>3, <1>11
    <3>3. Filling(req[worker.req].slot, worker.req) /\ ~IoClears(req[worker.req].slot)
      BY <3>2, <2>2 DEF Inv, OwnerInv
    <3>4. req[worker.req].slot \notin Cleared
      BY <3>1, <3>3 DEF Cleared, Filling
    <3>5. Filling(req[worker.req].slot, worker.req)'
      BY <1>4, <3>1, <3>2, <3>3, <3>4 DEF Filling
    <3>6. ~IoClears(req[worker.req].slot)'
      BY <1>11, <3>1, <3>2, <3>3 DEF IoClears
    <3> QED
      BY <3>5, <3>6
  <2> QED
    BY <2>1, <2>2 DEF OwnerInv
<1>14. PictureInv'
  <2>1. ASSUME NEW j \in Slots, NEW p \in Reqs, Filling(j, p)', InCache(p)', req'[p].slot = j
        PROVE  /\ slot'[j].key \in {KeyOf(req'[p].row), NoRow}
               /\ \A x \in Rows : row'[x] = j => x = req'[p].row
    <3>1. p \notin Q /\ slot'[j] = slot[j] /\ Filling(j, p) /\ InCache(p)
      BY <1>4, <1>11, <2>1
    <3>2. req[p].slot = j /\ req'[p].row = req[p].row
      BY <3>1, <2>1, <1>3
    <3>3. /\ slot[j].key \in {KeyOf(req[p].row), NoRow}
          /\ \A x \in Rows : row[x] = j => x = req[p].row
      BY <3>1, <3>2 DEF Inv, PictureInv
    <3> QED
      BY <3>1, <3>2, <3>3, <1>5
  <2>2. \A j \in Slots : slot'[j].key # NoRow => slot'[j].tex \in {slot'[j].key, NoRow}
    BY <1>4, SlotFacts DEF Inv, PictureInv
  <2>3. \A x \in Rows : row'[x] \in Slots => slot'[row'[x]].tex \in {x, NoRow}
    BY <1>4, <1>5 DEF Inv, PictureInv
  <2>4. /\ \A j \in Slots : slot'[j].uid = 0 => slot'[j].tex = NoRow
        /\ \A j \in Slots :
             (WorkerClears(j)' /\ worker'.store > 1) \/ (IoClears(j)' /\ io'.store > 1)
               => slot'[j].tex = NoRow
    BY <1>4, <1>11, SlotFacts DEF Inv, PictureInv
  <2> QED
    BY <2>1, <2>2, <2>3, <2>4 DEF PictureInv, KeyOf
<1>15. MemoInv'
  <2>1. \A j \in Slots, x \in Rows :
          slot'[j].used = "absent" /\ slot'[j].now /\ (row'[x] = j \/ slot'[j].key = x)
            => x \notin disk
    BY <1>4, <1>5, SlotFacts DEF Inv, MemoInv
  <2>2. worker.pc = "read" /\ ~worker.found /\ req'[worker.req].now =>
          req'[worker.req].row \notin disk
    BY <1>2, <1>3 DEF Inv, MemoInv, Holding
  <2>3. /\ \A j \in Slots : WorkerClears(j)' \/ IoClears(j)' \/ slot'[j].uid = 0 => ~slot'[j].now
        /\ \A j \in Slots : slot'[j].now /\ slot'[j].qr # 0 =>
             worker.pc = "handoff" /\ Filled(j) /\ slot'[j] = slot[j]
    BY <1>4, <1>11, SlotFacts DEF Inv, MemoInv
  <2>4. \A j \in Slots : worker.pc = "handoff" /\ Filled(j) /\ slot'[j] = slot[j] => Filled(j)'
    BY <1>2, <1>3 DEF Filled, InCache, Holding
  <2> QED
    BY <2>1, <2>2, <2>3, <2>4, <1>5 DEF Inv, MemoInv
<1> QED
  BY <1>7, <1>9, <1>10, <1>12, <1>13, <1>14, <1>15 DEF Inv, PlaceInv

(* The whole queue is dropped.                                                *)
LEMMA DropAllInv ==
  ASSUME Inv, FreeChain(artDetachAll(FlagCurrent(TRUE)), ToSet(queue)), queue' = <<>>,
         wake' \in BOOLEAN, nav' \in BOOLEAN, budget' \in 0 .. Events,
         gui' \in {"menu", "closing", "joining", "joined", "abandoned", "over"},
         gui' = "menu" => gui = "menu",
         UNCHANGED <<current, worker, io, disk>>
  PROVE  Inv'
<1> DEFINE f == artDetachAll(FlagCurrent(TRUE))
<1>1. Soft(f) /\ \A q \in Reqs : ~f[q].stamped
  BY FlagCurrentFacts, DetachFacts DEF Inv
<1>2. queue' \in Seq(Reqs) /\ IsInjective(queue') /\ ToSet(queue') = {}
  BY EmptyFacts
<1> HIDE DEF f
<1> QED
  BY <1>1, <1>2, FreeChainInv DEF f

LEMMA GuiDropsInv ==
  ASSUME Inv, GuiCancel \/ cacheShutdownArtLoads \/ CacheEndBegin PROVE Inv'
<1>1. TypeOK
  BY DEF Inv
<1>2. Running \in BOOLEAN
  BY DEF Running
<1>3. CASE GuiCancel
  BY <1>1, <1>3, DropAllInv, CostsFacts DEF GuiCancel, menuVars, TypeOK, HalfDecremented
<1>4. CASE cacheShutdownArtLoads
  BY <1>1, <1>2, <1>4, DropAllInv, CostsFacts DEF cacheShutdownArtLoads, TypeOK, HalfDecremented
<1>5. CASE CacheEndBegin
  BY <1>1, <1>2, <1>5, DropAllInv, CostsFacts DEF CacheEndBegin, TypeOK, HalfDecremented
<1> QED
  BY <1>3, <1>4, <1>5

Restamped(g, K) == [q \in Reqs |-> [g[q] EXCEPT !.stamped = q \in K]]

LEMMA RestampedFacts ==
  ASSUME NEW g, Soft(g), NEW K
  PROVE  Soft(Restamped(g, K)) /\ \A q \in Reqs : Restamped(g, K)[q].stamped <=> q \in K
<1> DEFINE f == Restamped(g, K)
<1>1. ASSUME NEW q \in Reqs
      PROVE  /\ f[q] \in RequestState /\ Same(g[q], f[q]) /\ f[q].now = g[q].now
             /\ f[q].stamped <=> q \in K
  <2>1. g[q] \in RequestState
    BY DEF Soft
  <2>2. f[q] = [g[q] EXCEPT !.stamped = q \in K]
    BY DEF Restamped
  <2> HIDE DEF f
  <2>3. CASE q \in K
    <3>1. (q \in K) = TRUE
      BY <2>3
    <3>2. f[q] = Stamped(g[q])
      BY <2>2, <3>1 DEF Stamped
    <3> QED
      BY <2>1, <2>3, <3>2, StampFields
  <2>4. CASE q \notin K
    <3>1. (q \in K) = FALSE
      BY <2>4
    <3>2. f[q] = Unstamped(g[q])
      BY <2>2, <3>1 DEF Unstamped
    <3> QED
      BY <2>1, <2>4, <3>2, StampFields
  <2> QED
    BY <2>3, <2>4
<1>2. f = [q \in Reqs |-> f[q]]
  BY DEF Restamped
<1> HIDE DEF f
<1>3. Soft(f)
  BY <1>1, <1>2 DEF Soft, Same
<1> QED
  BY <1>1, <1>3 DEF f

LEMMA GuiAbortSio2Inv == ASSUME Inv, GuiAbortSio2 PROVE Inv'
<1> DEFINE K == {q \in ToSet(queue) : ~OnSio2(q)}
           f == Restamped(artDetachAll(FlagCurrent(OnSio2(current))), K)
<1>1. FreeChain(f, ToSet(queue) \ K) /\ queue' \in InOrder(K)
  BY DEF GuiAbortSio2, Restamped
<1>2. /\ UNCHANGED <<current, worker, io, disk, nav, gui>> /\ wake' = TRUE
      /\ budget' \in 0 .. Events
  BY CostsFacts DEF GuiAbortSio2, menuVars, Inv, TypeOK, HalfDecremented
<1>3. K \subseteq ToSet(queue)
  OBVIOUS
<1> HIDE DEF K
<1>4. Soft(f) /\ \A q \in Reqs : f[q].stamped <=> q \in K
  BY FlagCurrentFacts, DetachFacts, RestampedFacts DEF Inv
<1> HIDE DEF f
<1>5. queue' \in Seq(Reqs) /\ IsInjective(queue') /\ ToSet(queue') = K
  <2>1. queue \in Seq(Reqs) /\ IsInjective(queue)
    BY DEF Inv, TypeOK, PlaceInv, QueuesInv
  <2>2. PICK s \in InOrder(K) : queue' = s
    BY <1>1
  <2>3. s \in Seq(Reqs) /\ IsInjective(s) /\ ToSet(s) = ToSet(queue) \cap K
    BY <2>1, InOrderFacts
  <2> QED
    BY <2>2, <2>3, <1>3
<1> QED
  BY <1>1, <1>2, <1>3, <1>4, <1>5, FreeChainInv DEF Inv, TypeOK

-----------------------------------------------------------------------------
(* The cache is taken away                                                    *)

LEMMA DestroyInv ==
  ASSUME Inv, DestroyCache, UNCHANGED <<queue, current, wake, worker, nav, disk, budget>>,
         gui' \in {"menu", "closing", "joining", "joined", "abandoned", "over"},
         gui' = "menu" => gui = "menu",
         io' = io \/ (io.pc = "destroy" /\ io' = IoIdle)
  PROVE  Inv'
<1>b. USE Basics, RowFacts, ThreadFacts
<1>1. /\ req' \in [Reqs -> RequestState]
      /\ \A q \in Reqs : /\ req'[q].cache # "live" /\ (req'[q].cache = "gone" <=> ~Alive(q))
                         /\ req'[q].row = req[q].row /\ req'[q].slot = req[q].slot
                         /\ req'[q].now = req[q].now /\ req'[q].stamped = req[q].stamped
  <2> DEFINE c == FreeOrLeak
             g(q) == IF InCache(q) THEN [req[q] EXCEPT !.cache = c] ELSE req[q]
  <2>1. req' = [q \in Reqs |-> g(q)] /\ c \in {"leaked", "freed"}
    BY DEF DestroyCache, FreeOrLeak
  <2> HIDE DEF c
  <2>2. ASSUME NEW q \in Reqs
        PROVE  /\ g(q) \in RequestState /\ g(q).cache # "live"
               /\ g(q).cache = "gone" <=> ~Alive(q)
               /\ g(q).row = req[q].row /\ g(q).slot = req[q].slot
               /\ g(q).now = req[q].now /\ g(q).stamped = req[q].stamped
    <3>1. req[q] \in RequestState
      OBVIOUS
    <3>2. CASE InCache(q)
      <4>1. g(q) = [req[q] EXCEPT !.cache = c]
        BY <3>2
      <4> HIDE DEF g
      <4> QED
        BY <2>1, <3>1, <3>2, <4>1 DEF RequestState, InCache, Alive
    <3>3. CASE ~InCache(q)
      BY <3>1, <3>3 DEF RequestState, InCache, Alive
    <3> QED
      BY <3>2, <3>3
  <2> HIDE DEF g
  <2> QED
    BY <2>1, <2>2
<1>2. /\ slot' = [i \in Slots |-> NoTenant] /\ row' = [r \in Rows |-> NoSlot] /\ refs' = 0
      /\ lost' = lost
  BY DEF DestroyCache
<1>3. /\ io' \in IoState /\ io'.chain = io.chain /\ io'.keep = io.keep
      /\ io' = io \/ (io'.pc = "idle" /\ io.chain = <<>> /\ io.keep = <<>>)
  <2>1. CASE io' = io
    BY <2>1
  <2>2. CASE io.pc = "destroy" /\ io' = IoIdle
    <3>1. io.chain = <<>> /\ io.keep = <<>>
      BY <2>2 DEF Inv, PlaceInv, ThreadsInv, Returning
    <3> QED
      BY <2>2, <3>1, EmptyFacts DEF IoIdle, IoState, LastStore
  <2> QED
    BY <2>1, <2>2
<1>4. TypeOK'
  BY <1>1, <1>2, <1>3, SlotFacts DEF Inv, TypeOK
<1>5. Held' = Held
  BY <1>3 DEF Held
<1>6. QueuesInv'
  BY <1>1, <1>3, <1>5 DEF Inv, PlaceInv, QueuesInv, Whole, Alive
<1>7. ThreadsInv'
  BY <1>1, <1>3 DEF Inv, PlaceInv, ThreadsInv, Whole, Alive, Returning
<1>8. \A i \in Slots : slot'[i] = NoTenant
  BY <1>2
<1>9. /\ \A q \in Reqs : ~InCache(q)'
      /\ \A i \in Slots, q \in Reqs : ~Filling(i, q)'
      /\ \A i \in Slots : ~WorkerClears(i)' /\ ~IoClears(i)'
  <2>1. \A q \in Reqs : ~InCache(q)'
    BY <1>1 DEF InCache
  <2>2. io'.pc = "clear" => Head(io'.chain) \in Reqs
    BY <1>3
  <2> QED
    BY <1>8, <2>1, <2>2, SlotFacts DEF Filling, WorkerClears, IoClears, Holding
<1>10. PointerInv'
  <2>1. worker.pc \in {"release"} \cup Returning => worker.req \in Reqs
    BY DEF Holding
  <2>2. io'.pc \in Returning => Head(io'.chain) \in Reqs
    BY <1>3 DEF Returning
  <2>3. \A i \in Slots : slot'[i].qr = 0
    BY <1>8, SlotFacts
  <2> QED
    BY <1>9, <2>1, <2>2, <2>3 DEF PointerInv
<1>11. OwnerInv'
  BY <1>9, <1>3 DEF OwnerInv, Holding
<1>12. PictureInv'
  <2>1. \A r \in Rows : row'[r] = NoSlot
    BY <1>2
  <2> QED
    BY <1>8, <1>9, <2>1, SlotFacts DEF PictureInv
<1>13. MemoInv'
  <2>1. \A r \in Rows : row'[r] = NoSlot
    BY <1>2
  <2>2. worker.pc = "read" /\ ~worker.found /\ req'[worker.req].now =>
          req'[worker.req].row \notin disk
    BY <1>1 DEF Inv, MemoInv, Holding
  <2> QED
    BY <1>8, <1>9, <2>1, <2>2, SlotFacts DEF MemoInv
<1> QED
  BY <1>4, <1>6, <1>7, <1>10, <1>11, <1>12, <1>13 DEF Inv, PlaceInv

LEMMA DestroysInv == ASSUME Inv, GuiDestroy \/ IoDestroy PROVE Inv'
<1>1. CASE GuiDestroy
  BY <1>1, DestroyInv DEF GuiDestroy
<1>2. CASE IoDestroy
  BY <1>2, DestroyInv DEF IoDestroy, menuVars, Inv, TypeOK
<1> QED
  BY <1>1, <1>2

-----------------------------------------------------------------------------
(* The art worker                                                             *)

(* While it runs the IO worker has no request in its hands.                   *)
LEMMA WorkerMayFacts ==
  ASSUME Inv, WorkerMay
  PROVE  /\ io.chain = <<>> /\ io.keep = <<>> /\ Held = ToSet(queue)
         /\ io.pc \notin {"drop", "clear"} \cup Returning
         /\ \A i \in Slots : ~IoClears(i)
<1>1. io.pc \notin {"drop", "clear"} \cup Returning
  BY DEF WorkerMay, Returning
<1>2. io.chain = <<>> /\ io.keep = <<>>
  BY <1>1 DEF Inv, PlaceInv, ThreadsInv
<1> QED
  BY <1>1, <1>2, EmptyFacts DEF Held, IoClears

(* The art worker goes on and touches nothing but its own state.              *)
LEMMA WorkerTurn ==
  ASSUME Inv, UNCHANGED <<slot, row, refs, lost, req, queue, current, io, nav, gui, disk>>,
         wake' \in BOOLEAN, budget' \in 0 .. Events,
         worker' \in WorkerState, worker'.req = worker.req, ThreadsInv',
         worker.pc \notin {"clear", "handoff"}, worker'.pc = "check" => worker.pc = "check",
         gui = "menu" /\ worker'.pc \in {"release"} \cup Returning =>
           \A i \in Slots : ~Filling(i, worker.req),
         worker'.pc \in {"read", "handoff"} /\ InCache(worker.req) =>
           Filling(req[worker.req].slot, worker.req) /\ ~IoClears(req[worker.req].slot),
         worker'.pc = "clear" => worker'.store = 1,
         \A i \in Slots : WorkerClears(i)' => ~slot[i].now,
         worker'.pc = "read" /\ ~worker'.found /\ req[worker.req].now =>
           req[worker.req].row \notin disk
  PROVE  Inv'
<1>1. TypeOK'
  BY DEF Inv, TypeOK
<1>2. Held' = Held
  BY DEF Held
<1>3. QueuesInv'
  BY <1>2 DEF Inv, PlaceInv, QueuesInv, Whole, Alive
<1>4. /\ \A q \in Reqs : InCache(q)' = InCache(q) /\ (Waits(q)' => Waits(q))
      /\ \A i \in Slots, q \in Reqs : Filling(i, q)' = Filling(i, q)
      /\ \A i \in Slots : ~WorkerClears(i) /\ IoClears(i)' = IoClears(i)
  BY <1>2 DEF InCache, Waits, Filling, WorkerClears, IoClears
<1>5. PointerInv'
  BY DEF Inv, PointerInv, InCache, Filling
<1>6. OwnerInv'
  <2>1. ASSUME NEW p \in Reqs, Waits(p)', InCache(p)', Entry(p)'.uid = p
        PROVE  Entry(p)'.qr = p \/ IoClears(req[p].slot)'
    <3>1. Waits(p) /\ InCache(p) /\ Entry(p).uid = p
      BY <2>1, <1>4 DEF Entry
    <3>2. Entry(p).qr = p \/ WorkerClears(req[p].slot) \/ IoClears(req[p].slot)
      BY <3>1 DEF Inv, OwnerInv
    <3> QED
      BY <3>2 DEF Entry, WorkerClears, IoClears, InCache
  <2>2. worker'.pc \in {"read", "handoff"} /\ InCache(worker.req)' =>
          Filling(req[worker.req].slot, worker.req)' /\ ~IoClears(req[worker.req].slot)'
    BY DEF InCache, Filling, IoClears
  <2> QED
    BY <2>1, <2>2 DEF OwnerInv
<1>7. PictureInv'
  <2>1. \A i \in Slots : (WorkerClears(i)' /\ worker'.store > 1) \/ (IoClears(i)' /\ io'.store > 1)
          => slot[i].tex = NoRow
    BY <1>4 DEF Inv, PictureInv, WorkerClears
  <2> QED
    BY <1>4, <2>1 DEF Inv, PictureInv, KeyOf
<1>8. MemoInv'
  BY <1>4 DEF Inv, MemoInv
<1> QED
  BY <1>1, <1>3, <1>5, <1>6, <1>7, <1>8 DEF Inv, PlaceInv

Idling == {"asleep", "pop", "end", "gone"}

LEMMA IdleInv == ASSUME Inv, WorkerSleep \/ artPopNone \/ WorkerEnd PROVE Inv'
<1>b. USE Basics
<1>1. /\ UNCHANGED <<slot, row, refs, lost, req, queue, current, io, nav, gui, disk, budget>>
      /\ wake' \in BOOLEAN /\ worker.pc \in Idling
      /\ \E pc \in Idling : worker' = [worker EXCEPT !.pc = pc]
  <2>1. OrEnd("pop") \in Idling /\ OrEnd("asleep") \in Idling
    BY DEF OrEnd, Idling
  <2> QED
    BY <2>1 DEF WorkerSleep, artPopNone, WorkerEnd, Goto, cacheVars, queueVars, menuVars,
                Idling, Inv, TypeOK
<1>2. worker' \in WorkerState /\ worker'.pc \in Idling /\ worker'.req = worker.req
  BY <1>1 DEF WorkerState, Idling
<1>3. ThreadsInv'
  BY <1>1, <1>2 DEF Inv, PlaceInv, ThreadsInv, Whole, Alive, Holding, Returning, Idling
<1>4. \A i \in Slots : ~WorkerClears(i)'
  BY <1>2 DEF WorkerClears, Idling
<1> QED
  BY <1>1, <1>2, <1>3, <1>4, WorkerTurn DEF Idling, Returning, Inv, TypeOK

LEMMA PopInv == ASSUME Inv, artPop PROVE Inv'
<1>b. USE Basics, ThreadFacts, WorkerMayFacts
<1>1. /\ UNCHANGED <<slot, row, refs, lost, wake, io, nav, gui, disk, budget>>
      /\ WorkerMay /\ worker.pc = "pop" /\ queue # <<>>
      /\ current' = Head(queue) /\ queue' = Tail(queue)
      /\ req' = [req EXCEPT ![Head(queue)].stamped = FALSE]
      /\ worker' = [worker EXCEPT !.pc = "check", !.req = Head(queue)]
  BY DEF artPop, Deferred, cacheVars, menuVars
<1>2. PICK q \in Reqs : q = Head(queue)
  BY <1>1, TailFacts
<1>3. q \in ToSet(queue) /\ q \in Held /\ Whole(q)
  <2>1. q \in ToSet(queue) /\ q \in Held
    BY <1>1, <1>2, TailFacts DEF Held
  <2> QED
    BY <2>1 DEF Inv, PlaceInv, QueuesInv
<1>4. queue' \in Seq(Reqs) /\ IsInjective(queue') /\ ToSet(queue') = ToSet(queue) \ {q}
  <2>1. IsInjective(queue)
    BY DEF Inv, PlaceInv, QueuesInv
  <2> QED
    BY <1>1, <1>2, <2>1, TailFacts
<1>5. /\ req' \in [Reqs -> RequestState]
      /\ \A p \in Reqs : /\ req'[p].cache = req[p].cache /\ req'[p].row = req[p].row
                         /\ req'[p].slot = req[p].slot /\ req'[p].now = req[p].now
                         /\ req'[p].stamped <=> p \in ToSet(queue')
  <2>1. req' = [req EXCEPT ![q] = Unstamped(req[q])]
    BY <1>1, <1>2 DEF Unstamped
  <2>2. /\ Unstamped(req[q]) \in RequestState /\ Same(req[q], Unstamped(req[q]))
        /\ Unstamped(req[q]).now = req[q].now /\ ~Unstamped(req[q]).stamped
    BY StampFields
  <2>3. req' \in [Reqs -> RequestState]
        /\ \A p \in Reqs : req'[p] = IF p = q THEN Unstamped(req[q]) ELSE req[p]
    BY <2>1, <2>2
  <2> QED
    BY <2>2, <2>3, <1>4 DEF Same, Inv, PlaceInv, QueuesInv
<1>6. worker' \in WorkerState /\ worker'.pc = "check" /\ worker'.req = q
  BY <1>1, <1>2 DEF WorkerState
<1>7. TypeOK'
  BY <1>1, <1>2, <1>4, <1>5, <1>6 DEF Inv, TypeOK
<1>8. Held' = Held \ {q}
  BY <1>1, <1>4, EmptyFacts DEF Held
<1>9. QueuesInv'
  BY <1>1, <1>4, <1>5, <1>6, <1>8 DEF Inv, PlaceInv, QueuesInv, Whole, Alive
<1>10. ThreadsInv'
  BY <1>1, <1>2, <1>3, <1>5, <1>6 DEF Inv, PlaceInv, ThreadsInv, Whole, Alive, Holding,
                                         Returning
<1>n. \A j \in Slots : ~WorkerClears(j) /\ ~WorkerClears(j)' /\ ~IoClears(j) /\ ~IoClears(j)'
  BY <1>1, <1>6 DEF WorkerClears, IoClears, Returning
<1>11. PointerInv'
  BY <1>1, <1>5, <1>6 DEF Inv, PointerInv, InCache, Returning, Filling
<1>12. OwnerInv'
  <2>1. ASSUME NEW p \in Reqs, Waits(p)', InCache(p)', Entry(p)'.uid = p
        PROVE  Entry(p)'.qr = p
    <3>1. Waits(p) /\ InCache(p) /\ Entry(p)' = Entry(p)
      BY <2>1, <1>1, <1>3, <1>5, <1>6, <1>8 DEF Waits, InCache, Entry
    <3> QED
      BY <2>1, <3>1, <1>1 DEF Inv, OwnerInv, WorkerClears, IoClears, Returning
  <2> QED
    BY <2>1, <1>1, <1>6 DEF OwnerInv
<1>13. PictureInv'
  <2>1. \A j \in Slots, p \in Reqs : Filling(j, p)' = Filling(j, p) /\ InCache(p)' = InCache(p)
    BY <1>1, <1>5 DEF Filling, InCache
  <2> QED
    BY <2>1, <1>n, <1>1, <1>5 DEF Inv, PictureInv, KeyOf
<1>14. MemoInv'
  BY <1>n, <1>1, <1>6 DEF Inv, MemoInv
<1> QED
  BY <1>7, <1>9, <1>10, <1>11, <1>12, <1>13, <1>14 DEF Inv, PlaceInv

WorkerPcs == {"asleep", "pop", "check", "read", "handoff", "clear", "release", "test", "load",
              "deref", "end", "gone"}

LEMMA OntoFacts ==
  ASSUME worker \in WorkerState, NEW pc \in WorkerPcs, NEW found \in BOOLEAN,
         NEW store \in 0 .. 7,
         worker' = [worker EXCEPT !.pc = pc, !.found = found, !.store = store]
  PROVE  /\ worker' \in WorkerState /\ worker'.pc = pc /\ worker'.found = found
         /\ worker'.store = store /\ worker'.req = worker.req
  BY DEF WorkerState, WorkerPcs, LastStore

(* A cover that is dropped before it is read, and one that is read.           *)
LEMMA CheckInv == ASSUME Inv, WorkerCheck PROVE Inv'
<1>b. USE Basics, ThreadFacts, WorkerMayFacts
<1>1. /\ UNCHANGED <<slot, row, refs, lost, req, queue, current, wake, io, nav, gui, disk, budget>>
      /\ WorkerMay /\ worker.pc = "check"
  BY DEF WorkerCheck, cacheVars, queueVars, menuVars
<1>2. PICK q \in Reqs : q = worker.req /\ q = current /\ Whole(q)
  BY <1>1 DEF Inv, PlaceInv, ThreadsInv, Holding
<1>3. PICK pc \in {"release", "clear", "read"} :
        /\ worker' = [worker EXCEPT !.pc = pc, !.found = pc = "read" /\ req[q].row \in disk,
                                    !.store = IF pc = "clear" THEN 1 ELSE 0]
        /\ pc = "release" => Cancelled \/ ~InCache(q) \/ Orphaned(q)
        /\ pc # "release" => ~Orphaned(q) /\ InCache(q)
  BY <1>2 DEF WorkerCheck
<1>4. /\ worker' \in WorkerState /\ worker'.pc = pc /\ worker'.req = q
      /\ worker'.found = (pc = "read" /\ req[q].row \in disk)
      /\ worker'.store = IF pc = "clear" THEN 1 ELSE 0
  <2>1. PICK found \in BOOLEAN : found = (pc = "read" /\ req[q].row \in disk)
    OBVIOUS
  <2>2. PICK store \in 0 .. 7 : store = IF pc = "clear" THEN 1 ELSE 0
    OBVIOUS
  <2>3. worker' = [worker EXCEPT !.pc = pc, !.found = found, !.store = store]
    BY <1>3, <2>1, <2>2
  <2>4. pc \in WorkerPcs
    BY DEF WorkerPcs
  <2>5. worker \in WorkerState
    BY DEF Inv, TypeOK
  <2>6. /\ worker' \in WorkerState /\ worker'.pc = pc /\ worker'.found = found
        /\ worker'.req = worker.req /\ worker'.store = store
    BY <2>3, <2>4, <2>5, OntoFacts
  <2> QED
    BY <1>2, <2>1, <2>2, <2>6
<1>5. ThreadsInv'
  BY <1>1, <1>2, <1>4 DEF Inv, PlaceInv, ThreadsInv, Whole, Alive, Holding, Returning
<1>6. gui = "menu" /\ pc = "release" => \A i \in Slots : ~Filling(i, q)
  <2>1. ASSUME gui = "menu", pc = "release", NEW i \in Slots, Filling(i, q) PROVE FALSE
    <3>1. InCache(q) /\ req[q].slot = i
      BY <2>1 DEF Inv, PointerInv, Filling
    <3> QED
      BY <1>3, <2>1, <3>1 DEF Cancelled, Orphaned, Entry, Filling
  <2> QED
    BY <2>1
<1>7. pc # "release" => Filling(req[q].slot, q)
  BY <1>1, <1>2, <1>3 DEF Inv, OwnerInv, Waits, Orphaned, Filling, Entry, WorkerClears, Whole
<1>8. \A i \in Slots : WorkerClears(i)' => ~slot[i].now
  <2>1. ASSUME NEW i \in Slots, WorkerClears(i)' PROVE ~slot[i].now
    <3>1. pc = "clear" /\ i = req[q].slot
      BY <1>1, <1>2, <1>4, <2>1 DEF WorkerClears
    <3>2. slot[i].qr # 0
      BY <1>7, <3>1 DEF Filling
    <3> QED
      BY <3>2, <1>1 DEF Inv, MemoInv
  <2> QED
    BY <2>1
<1>9. /\ worker'.pc \notin {"check", "handoff"} /\ worker.pc \notin {"clear", "handoff"}
      /\ worker'.pc \in {"release"} \cup Returning => pc = "release"
      /\ worker'.pc = "clear" => worker'.store = 1
      /\ worker'.pc = "read" => pc = "read"
  BY <1>1, <1>4 DEF Returning
<1>10. worker'.pc = "read" /\ ~worker'.found => req[q].row \notin disk
  BY <1>4
<1>11. req[q].slot \in Slots /\ wake' \in BOOLEAN /\ budget' \in 0 .. Events
  BY <1>1, <1>2 DEF Whole, Inv, TypeOK
<1> QED
  BY <1>1, <1>2, <1>4, <1>5, <1>6, <1>7, <1>8, <1>9, <1>10, <1>11, WorkerTurn

LEMMA FailInv == ASSUME Inv, WorkerFail PROVE Inv'
<1>b. USE Basics, ThreadFacts, WorkerMayFacts
<1>1. /\ UNCHANGED <<slot, row, refs, lost, req, queue, current, wake, io, nav, gui, disk>>
      /\ WorkerMay /\ worker.pc = "read" /\ budget' \in 0 .. Events
      /\ worker' = [worker EXCEPT !.pc = "clear", !.found = FALSE, !.store = 1]
  BY ArtAssumption DEF WorkerFail, Event, Costs, cacheVars, queueVars, menuVars, Inv, TypeOK
<1>2. worker' \in WorkerState /\ worker'.pc = "clear" /\ worker'.req = worker.req
      /\ worker'.store = 1
  <2>1. "clear" \in WorkerPcs
    BY DEF WorkerPcs
  <2>2. PICK found \in BOOLEAN :
          worker' = [worker EXCEPT !.pc = "clear", !.found = found, !.store = 1]
    BY <1>1
  <2>3. worker \in WorkerState /\ 1 \in 0 .. 7
    BY DEF Inv, TypeOK
  <2> QED
    BY <2>1, <2>2, <2>3, OntoFacts
<1>3. ThreadsInv'
  BY <1>1, <1>2 DEF Inv, PlaceInv, ThreadsInv, Whole, Alive, Holding, Returning
<1>4. \A i \in Slots : WorkerClears(i)' => ~slot[i].now
  <2>1. ASSUME NEW i \in Slots, WorkerClears(i)' PROVE ~slot[i].now
    <3>1. InCache(worker.req) /\ i = req[worker.req].slot /\ worker.req # 0
      BY <1>1, <1>2, <2>1 DEF WorkerClears, InCache, Holding
    <3>2. slot[i].qr # 0
      BY <3>1, <1>1 DEF Inv, OwnerInv, Filling
    <3> QED
      BY <3>2, <1>1 DEF Inv, MemoInv
  <2> QED
    BY <2>1
<1>5. wake' \in BOOLEAN
  BY <1>1 DEF Inv, TypeOK
<1> QED
  BY <1>1, <1>2, <1>3, <1>4, <1>5, WorkerTurn DEF Returning

(* The picture, or its absence, is put into the slot that waits for it.       *)
LEMMA FillInv == ASSUME Inv, WorkerFill PROVE Inv'
<1>b. USE Basics, ThreadFacts, WorkerMayFacts
<1>1. /\ UNCHANGED <<row, refs, lost, req, queue, current, wake, io, nav, gui, disk, budget>>
      /\ WorkerMay /\ worker.pc = "read"
      /\ worker' = [worker EXCEPT !.pc = "handoff", !.found = FALSE]
  BY DEF WorkerFill, queueVars, menuVars
<1>2. PICK q \in Reqs : q = worker.req /\ q = current /\ Whole(q)
  BY <1>1 DEF Inv, PlaceInv, ThreadsInv, Holding
<1>3. worker' \in WorkerState /\ worker'.pc = "handoff" /\ worker'.req = worker.req
  BY <1>1 DEF WorkerState
<1>4. PICK i \in Slots : i = req[q].slot
  BY <1>2 DEF Whole
<1>5. InCache(q) => /\ slot[i].qr = q /\ slot[i].uid = q
                    /\ slot[i].key \in {KeyOf(req[q].row), NoRow}
                    /\ \A r \in Rows : row[r] = i => r = req[q].row
  <2>1. InCache(q) => Filling(i, q)
    BY <1>1, <1>2, <1>4 DEF Inv, OwnerInv
  <2> QED
    BY <2>1, <1>4 DEF Inv, PictureInv, Filling
<1>6. /\ slot' \in [Slots -> SlotState]
      /\ \A j \in Slots :
           \/ slot'[j] = slot[j]
           \/ /\ InCache(q) /\ j = i
              /\ slot'[j].qr = slot[j].qr /\ slot'[j].uid = slot[j].uid
              /\ slot'[j].key = slot[j].key
              /\ \/ slot'[j].tex = req[q].row /\ slot'[j].used # "absent"
                    /\ slot'[j].now = slot[j].now
                 \/ /\ slot'[j].tex = slot[j].tex /\ slot'[j].now = req[q].now
                    /\ ~worker.found
  <2>1. slot[i] \in SlotState /\ req[q] \in RequestState
    OBVIOUS
  <2>2. req[q].row \in Rows /\ req[q].now \in BOOLEAN
    BY <1>2, <2>1 DEF Whole, RequestState
  <2> DEFINE pic == [slot[i] EXCEPT !.tex = req[q].row, !.used = "recent"]
             none == [slot[i] EXCEPT !.used = "absent", !.now = req[q].now]
  <2>3. /\ pic \in SlotState /\ none \in SlotState
        /\ pic.qr = slot[i].qr /\ pic.uid = slot[i].uid /\ pic.key = slot[i].key
        /\ none.qr = slot[i].qr /\ none.uid = slot[i].uid /\ none.key = slot[i].key
        /\ pic.tex = req[q].row /\ pic.used # "absent" /\ pic.now = slot[i].now
        /\ none.tex = slot[i].tex /\ none.now = req[q].now
    BY <2>1, <2>2 DEF SlotState
  <2>4. \/ slot' = slot
        \/ InCache(q) /\ slot' = [slot EXCEPT ![i] = pic]
        \/ InCache(q) /\ ~worker.found /\ slot' = [slot EXCEPT ![i] = none]
    BY <1>2, <1>4 DEF WorkerFill, SetEntry, Entry, ProbeGeneration
  <2> HIDE DEF pic, none
  <2>5. \/ \A j \in Slots : slot'[j] = slot[j]
        \/ InCache(q) /\ \A j \in Slots : slot'[j] = IF j = i THEN pic ELSE slot[j]
        \/ InCache(q) /\ ~worker.found /\ \A j \in Slots : slot'[j] = IF j = i THEN none ELSE slot[j]
    BY <2>4
  <2>6. slot' \in [Slots -> SlotState]
    BY <2>3, <2>4
  <2> QED
    BY <2>3, <2>5, <2>6
<1>7. TypeOK'
  BY <1>1, <1>3, <1>6 DEF Inv, TypeOK
<1>8. QueuesInv'
  BY <1>1, <1>3 DEF Inv, PlaceInv, QueuesInv, Held, Whole, Alive
<1>9. ThreadsInv'
  BY <1>1, <1>3 DEF Inv, PlaceInv, ThreadsInv, Whole, Alive, Holding, Returning
<1>10. \A j \in Slots : slot'[j].qr = slot[j].qr /\ slot'[j].uid = slot[j].uid
                        /\ slot'[j].key = slot[j].key
  BY <1>6
<1>n. \A j \in Slots : ~WorkerClears(j) /\ ~WorkerClears(j)' /\ ~IoClears(j) /\ ~IoClears(j)'
  BY <1>1, <1>3 DEF WorkerClears, IoClears, Returning
<1>m. \A j \in Slots, p \in Reqs : Filling(j, p)' = Filling(j, p) /\ InCache(p)' = InCache(p)
  BY <1>1, <1>10 DEF Filling, InCache
<1>11. PointerInv'
  BY <1>1, <1>3, <1>10 DEF Inv, PointerInv, InCache, Returning
<1>12. OwnerInv'
  <2>1. ASSUME NEW p \in Reqs, Waits(p)', InCache(p)', Entry(p)'.uid = p
        PROVE  Entry(p)'.qr = p
    <3>1. Waits(p) /\ InCache(p) /\ req[p].slot \in Slots
      BY <2>1, <1>1, <1>3 DEF Waits, Held, InCache, Inv, PlaceInv, QueuesInv, Whole
    <3>2. Entry(p).uid = p /\ Entry(p)'.qr = Entry(p).qr
      BY <2>1, <3>1, <1>1, <1>10 DEF Entry
    <3> QED
      BY <3>1, <3>2, <1>n DEF Inv, OwnerInv
  <2>2. InCache(q)' => Filling(req[q].slot, q)' /\ ~IoClears(req[q].slot)'
    BY <1>1, <1>2, <1>4, <1>5, <1>n, <1>m DEF Filling
  <2> QED
    BY <2>1, <2>2, <1>1, <1>2, <1>3 DEF OwnerInv
<1>13. PictureInv'
  <2>1. \A j \in Slots, p \in Reqs :
          Filling(j, p)' /\ InCache(p)' /\ req'[p].slot = j =>
            /\ slot'[j].key \in {KeyOf(req'[p].row), NoRow}
            /\ \A r \in Rows : row'[r] = j => r = req'[p].row
    BY <1>1, <1>10, <1>m DEF Inv, PictureInv
  <2>2. \A j \in Slots : slot'[j].key # NoRow => slot'[j].tex \in {slot'[j].key, NoRow}
    BY <1>5, <1>6 DEF Inv, PictureInv, KeyOf
  <2>3. \A r \in Rows : row'[r] \in Slots => slot'[row'[r]].tex \in {r, NoRow}
    BY <1>1, <1>5, <1>6 DEF Inv, PictureInv
  <2>4. \A j \in Slots : slot'[j].uid = 0 => slot'[j].tex = NoRow
    <3> SUFFICES ASSUME NEW j \in Slots, slot'[j].uid = 0 PROVE slot'[j].tex = NoRow
      OBVIOUS
    <3>1. slot'[j] = slot[j]
      BY <1>5, <1>6
    <3> QED
      BY <3>1 DEF Inv, PictureInv
  <2> QED
    BY <2>1, <2>2, <2>3, <2>4, <1>n DEF PictureInv, KeyOf
<1>14. MemoInv'
  <2>1. \A j \in Slots, r \in Rows :
          slot'[j].used = "absent" /\ slot'[j].now /\ (row[r] = j \/ slot'[j].key = r)
            => r \notin disk
    <3> SUFFICES ASSUME NEW j \in Slots, NEW r \in Rows, slot'[j].used = "absent",
                        slot'[j].now, row[r] = j \/ slot'[j].key = r
                 PROVE  r \notin disk
      OBVIOUS
    <3>1. CASE slot'[j] = slot[j]
      BY <3>1 DEF Inv, MemoInv
    <3>2. CASE slot'[j] # slot[j]
      <4>1. /\ InCache(q) /\ j = i /\ slot'[j].key = slot[j].key /\ ~worker.found
            /\ slot'[j].now = req[q].now
        BY <3>2, <1>6
      <4>2. req[q].row \notin disk
        BY <4>1, <1>1, <1>2 DEF Inv, MemoInv
      <4>3. r = req[q].row
        BY <4>1, <1>5, Basics DEF KeyOf
      <4> QED
        BY <4>2, <4>3
    <3> QED
      BY <3>1, <3>2
  <2>2. \A j \in Slots : slot'[j].uid = 0 => ~slot'[j].now
    <3> SUFFICES ASSUME NEW j \in Slots, slot'[j].uid = 0 PROVE ~slot'[j].now
      OBVIOUS
    <3>1. slot'[j] = slot[j]
      BY <1>5, <1>6
    <3> QED
      BY <3>1 DEF Inv, MemoInv
  <2>3. \A j \in Slots : slot'[j].now /\ slot'[j].qr # 0 => Filled(j)'
    <3> SUFFICES ASSUME NEW j \in Slots, slot'[j].now, slot'[j].qr # 0 PROVE Filled(j)'
      OBVIOUS
    <3>1. slot'[j] # slot[j]
      BY <1>1 DEF Inv, MemoInv
    <3>2. InCache(q) /\ j = i /\ slot'[j].qr = q
      BY <3>1, <1>5, <1>6
    <3> QED
      BY <3>2, <1>1, <1>2, <1>3, <1>4 DEF Filled, InCache
  <2> QED
    BY <2>1, <2>2, <2>3, <1>n, <1>1, <1>2, <1>3 DEF Inv, MemoInv
<1> QED
  BY <1>7, <1>8, <1>9, <1>11, <1>12, <1>13, <1>14 DEF Inv, PlaceInv


LEMMA StoredFacts ==
  ASSUME NEW o \in SlotState, NEW n \in 1 .. 7
  PROVE  /\ Stored(o, n) \in SlotState /\ Stored(o, n).qr \in {0, o.qr}
         /\ Stored(o, n).uid = IF n \in {3, 7} THEN 0 ELSE o.uid
         /\ Stored(o, n).key \in {NoRow, o.key} /\ Stored(o, n).tex \in {NoRow, o.tex}
         /\ n = 1 => Stored(o, n).tex = NoRow
         /\ Stored(o, n).now => o.now
<1>1. CASE n = 1
  <2>1. Stored(o, n) = [o EXCEPT !.tex = NoRow, !.qr = 0]
    BY <1>1 DEF Stored
  <2>2. /\ Stored(o, n).tex = NoRow /\ Stored(o, n).qr = 0 /\ Stored(o, n).uid = o.uid
        /\ Stored(o, n).key = o.key /\ Stored(o, n).now = o.now /\ Stored(o, n).used = o.used
    BY <2>1 DEF SlotState
  <2>3. Stored(o, n) \in SlotState
    BY <2>1 DEF SlotState
  <2> QED
    BY <1>1, <2>2, <2>3
<1>2. CASE n = 2
  <2>1. Stored(o, n) = [o EXCEPT !.used = "absent"]
    BY <1>2 DEF Stored
  <2> QED
    BY <1>2, <2>1 DEF SlotState
<1>3. CASE n \in {3, 7}
  <2>1. Stored(o, n) = [o EXCEPT !.uid = 0]
    BY <1>3 DEF Stored
  <2> QED
    BY <1>3, <2>1 DEF SlotState
<1>4. CASE n = 4
  <2>1. Stored(o, n) = [o EXCEPT !.key = NoRow, !.now = FALSE]
    BY <1>4 DEF Stored
  <2>2. /\ Stored(o, n).tex = o.tex /\ Stored(o, n).qr = o.qr /\ Stored(o, n).uid = o.uid
        /\ Stored(o, n).key = NoRow /\ ~Stored(o, n).now /\ Stored(o, n).used = o.used
    BY <2>1 DEF SlotState
  <2>3. Stored(o, n) \in SlotState
    BY <2>1 DEF SlotState
  <2> QED
    BY <1>4, <2>2, <2>3
<1>5. CASE n = 5
  <2>1. Stored(o, n) = [o EXCEPT !.qr = 0]
    BY <1>5 DEF Stored
  <2> QED
    BY <1>5, <2>1 DEF SlotState
<1>6. CASE n = 6
  <2>1. Stored(o, n) = [o EXCEPT !.used = "free"]
    BY <1>6 DEF Stored
  <2> QED
    BY <1>6, <2>1 DEF SlotState
<1> QED
  BY <1>1, <1>2, <1>3, <1>4, <1>5, <1>6

(* One store of cacheClearItem off the GUI thread.                            *)
LEMMA StoreFacts ==
  ASSUME Inv, NEW q \in Reqs, Whole(q), NEW n \in 1 .. 7, ClearStore(q, n)
  PROVE  /\ slot' \in [Slots -> SlotState] /\ row' \in [Rows -> RowState]
         /\ \A j \in Slots : \/ slot'[j] = slot[j] /\ (~InCache(q) \/ j # req[q].slot)
                             \/ /\ InCache(q) /\ j = req[q].slot
                                /\ slot'[j].qr \in {0, slot[j].qr}
                                /\ slot'[j].uid = IF n \in {3, 7} THEN 0 ELSE slot[j].uid
                                /\ slot'[j].key \in {NoRow, slot[j].key}
                                /\ slot'[j].tex \in {NoRow, slot[j].tex}
                                /\ n = 1 => slot'[j].tex = NoRow
                                /\ slot'[j].now => slot[j].now
         /\ \A r \in Rows : /\ row'[r] = Absent => row[r] = Absent
                            /\ row'[r] \in Slots => row'[r] = row[r]
<1>b. USE Basics
<1>1. PICK i \in Slots : i = req[q].slot
  BY DEF Whole
<1> DEFINE e == Stored(slot[i], n)
<1>2. /\ e \in SlotState /\ e.qr \in {0, slot[i].qr}
      /\ e.uid = IF n \in {3, 7} THEN 0 ELSE slot[i].uid
      /\ e.key \in {NoRow, slot[i].key} /\ e.tex \in {NoRow, slot[i].tex}
      /\ n = 1 => e.tex = NoRow
      /\ e.now => slot[i].now
  <2>1. slot[i] \in SlotState
    OBVIOUS
  <2> QED
    BY <2>1, StoredFacts
<1>3. /\ slot' = IF InCache(q) THEN [slot EXCEPT ![i] = e] ELSE slot
      /\ row' = row \/ row' = [r \in Rows |-> IF row[r] = i THEN NoSlot ELSE row[r]]
  BY <1>1 DEF ClearStore, SetEntry, Entry, Forget
<1> HIDE DEF e
<1>4. /\ slot' \in [Slots -> SlotState]
      /\ \A j \in Slots : slot'[j] = IF InCache(q) /\ j = i THEN e ELSE slot[j]
  BY <1>2, <1>3
<1>5. /\ row' \in [Rows -> RowState]
      /\ \A r \in Rows : /\ row'[r] = Absent => row[r] = Absent
                         /\ row'[r] \in Slots => row'[r] = row[r]
  BY <1>3, RowFacts
<1> QED
  BY <1>1, <1>2, <1>4, <1>5

LEMMA StoreInv ==
  ASSUME Inv, NEW q \in Reqs, Whole(q), NEW n \in 1 .. 7, ClearStore(q, n),
         UNCHANGED <<refs, lost, req, queue, current, wake, nav, gui, disk, budget>>,
         worker' \in WorkerState, worker'.req = worker.req,
         io' \in IoState, io'.chain = io.chain, io'.keep = io.keep,
         \/ /\ worker.pc = "clear" /\ worker.req = q /\ worker.store = n /\ io' = io
            /\ \/ n = 7 /\ worker'.pc = "release"
               \/ n < 7 /\ worker'.pc = "clear" /\ worker'.store = n + 1
         \/ /\ io.pc = "clear" /\ Head(io.chain) = q /\ io.store = n /\ worker' = worker
            /\ \/ n = 7 /\ io'.pc = "test"
               \/ n < 7 /\ io'.pc = "clear" /\ io'.store = n + 1
  PROVE  Inv'
<1>b. USE Basics, ThreadFacts
<1>1. PICK i \in Slots : i = req[q].slot
  BY DEF Whole
<1>2. /\ slot' \in [Slots -> SlotState] /\ row' \in [Rows -> RowState]
      /\ \A j \in Slots : \/ slot'[j] = slot[j] /\ (~InCache(q) \/ j # i)
                          \/ /\ InCache(q) /\ j = i
                             /\ slot'[j].qr \in {0, slot[j].qr}
                             /\ slot'[j].uid = IF n \in {3, 7} THEN 0 ELSE slot[j].uid
                             /\ slot'[j].key \in {NoRow, slot[j].key}
                             /\ slot'[j].tex \in {NoRow, slot[j].tex}
                             /\ n = 1 => slot'[j].tex = NoRow
                             /\ slot'[j].now => slot[j].now
      /\ \A r \in Rows : /\ row'[r] = Absent => row[r] = Absent
                         /\ row'[r] \in Slots => row'[r] = row[r]
  BY <1>1, StoreFacts
<1>3. TypeOK'
  BY <1>2 DEF Inv, TypeOK
<1>4. Held' = Held
  BY DEF Held
<1>5. QueuesInv'
  BY <1>4 DEF Inv, PlaceInv, QueuesInv, Whole, Alive
<1>6. ThreadsInv'
  BY DEF Inv, PlaceInv, ThreadsInv, Whole, Alive, Holding, Returning
<1>7. \A j \in Slots :
        /\ WorkerClears(j)' => WorkerClears(j)
        /\ IoClears(j)' => IoClears(j)
        /\ WorkerClears(j) => WorkerClears(j)' \/ (n = 7 /\ InCache(q) /\ j = i)
        /\ IoClears(j) => IoClears(j)' \/ (n = 7 /\ InCache(q) /\ j = i)
        /\ InCache(q) /\ j = i =>
             (WorkerClears(j) /\ worker.store = n) \/ (IoClears(j) /\ io.store = n)
        /\ (WorkerClears(j)' /\ worker'.store > 1) \/ (IoClears(j)' /\ io'.store > 1) =>
             \/ (WorkerClears(j) /\ worker.store > 1) \/ (IoClears(j) /\ io.store > 1)
             \/ InCache(q) /\ j = i
  BY <1>1 DEF WorkerClears, IoClears, InCache
<1>8. InCache(q) => ~slot[i].now /\ (n # 1 => slot[i].tex = NoRow)
  <2>1. InCache(q) /\ n # 1 => n > 1
    OBVIOUS
  <2> QED
    BY <1>7, <2>1 DEF Inv, MemoInv, PictureInv
<1>9. \A j \in Slots, p \in Reqs : /\ Filling(j, p)' => Filling(j, p)
                                   /\ InCache(p)' = InCache(p)
  BY <1>2 DEF Filling, InCache
<1>10. PointerInv'
  <2> SUFFICES ASSUME gui = "menu" PROVE PointerInv'
    BY DEF PointerInv
  <2>1. ASSUME NEW j \in Slots, slot'[j].qr # 0, slot'[j].uid # 0
        PROVE  /\ slot'[j].uid = slot'[j].qr
               /\ InCache(slot[j].qr)' /\ slot'[j].qr = slot[j].qr
               /\ req'[slot[j].qr].slot = j
    <3>1. slot'[j].qr = slot[j].qr /\ slot'[j].uid = slot[j].uid
      BY <2>1, <1>2
    <3> QED
      BY <2>1, <3>1, <1>9 DEF Inv, PointerInv, InCache
  <2>2. n = 7 => \A j \in Slots : ~Filling(j, q)'
    <3> SUFFICES ASSUME n = 7, NEW j \in Slots, Filling(j, q)' PROVE FALSE
      OBVIOUS
    <3>1. InCache(q) /\ j = i
      BY <1>1, <1>9 DEF Inv, PointerInv, Filling
    <3> QED
      BY <3>1, <1>2 DEF Filling
  <2>3. ASSUME worker'.pc \in {"release"} \cup Returning PROVE \A j \in Slots : ~Filling(j, worker.req)'
    <3>1. CASE worker.pc = "clear"
      <4>1. n = 7 /\ worker.req = q
        BY <2>3, <3>1 DEF Returning
      <4> QED
        BY <4>1, <2>2
    <3>2. CASE worker.pc # "clear"
      <4>1. worker.pc \in {"release"} \cup Returning /\ worker.req \in Reqs
        BY <2>3, <3>2 DEF Holding
      <4> QED
        BY <4>1, <1>9 DEF Inv, PointerInv
    <3> QED
      BY <3>1, <3>2
  <2>4. io'.pc \in Returning => \A j \in Slots : ~Filling(j, Head(io.chain))'
    BY <2>2, <1>9 DEF Inv, PointerInv, Returning
  <2> QED
    BY <2>1, <2>3, <2>4 DEF PointerInv, Filling, InCache
<1>11. OwnerInv'
  <2>1. ASSUME NEW p \in Reqs, Waits(p)', InCache(p)', Entry(p)'.uid = p
        PROVE  Entry(p)'.qr = p \/ WorkerClears(req[p].slot)' \/ IoClears(req[p].slot)'
    <3>1. Waits(p) /\ InCache(p)
      BY <2>1, <1>4 DEF Waits, InCache
    <3>2. req[p].slot \in Slots /\ slot'[req[p].slot].uid = p
      BY <2>1, <3>1 DEF Waits, Inv, PlaceInv, QueuesInv, Whole, Holding, Entry
    <3>3. CASE InCache(q) /\ req[p].slot = i
      <4>1. n # 7
        BY <3>2, <3>3, <1>2
      <4> QED
        BY <4>1, <3>3, <1>7
    <3>4. CASE ~(InCache(q) /\ req[p].slot = i)
      <4>1. slot'[req[p].slot] = slot[req[p].slot]
        BY <3>2, <3>4, <1>2
      <4>2. Entry(p).qr = p \/ WorkerClears(req[p].slot) \/ IoClears(req[p].slot)
        BY <3>1, <3>2, <4>1 DEF Inv, OwnerInv, Entry
      <4> QED
        BY <3>2, <3>4, <4>1, <4>2, <1>7 DEF Entry
    <3> QED
      BY <3>3, <3>4
  <2>2. ASSUME worker'.pc \in {"read", "handoff"}, InCache(worker.req)'
        PROVE  /\ Filling(req[worker.req].slot, worker.req)'
               /\ ~IoClears(req[worker.req].slot)'
    <3>1. worker.pc \in {"read", "handoff"} /\ InCache(worker.req) /\ worker.req \in Reqs
      BY <2>2 DEF InCache, Holding
    <3>2. Filling(req[worker.req].slot, worker.req) /\ ~IoClears(req[worker.req].slot)
      BY <3>1 DEF Inv, OwnerInv
    <3>3. req[worker.req].slot \in Slots
      BY <3>1 DEF Whole, Holding
    <3>4. slot'[req[worker.req].slot] = slot[req[worker.req].slot]
      BY <3>1, <3>2, <3>3, <1>2, <1>7 DEF WorkerClears
    <3> QED
      BY <3>2, <3>3, <3>4, <1>7 DEF Filling
  <2> QED
    BY <2>1, <2>2 DEF OwnerInv
<1>12. PictureInv'
  <2>1. \A j \in Slots, p \in Reqs :
          Filling(j, p)' /\ InCache(p)' /\ req'[p].slot = j =>
            /\ slot'[j].key \in {KeyOf(req'[p].row), NoRow}
            /\ \A r \in Rows : row'[r] = j => r = req'[p].row
    BY <1>2, <1>9 DEF Inv, PictureInv
  <2>2. \A j \in Slots : slot'[j].key # NoRow => slot'[j].tex \in {slot'[j].key, NoRow}
    BY <1>2 DEF Inv, PictureInv
  <2>3. \A r \in Rows : row'[r] \in Slots => slot'[row'[r]].tex \in {r, NoRow}
    BY <1>2 DEF Inv, PictureInv
  <2>4. \A j \in Slots : slot'[j].uid = 0 => slot'[j].tex = NoRow
    BY <1>2, <1>8 DEF Inv, PictureInv
  <2>5. \A j \in Slots :
          (WorkerClears(j)' /\ worker'.store > 1) \/ (IoClears(j)' /\ io'.store > 1)
            => slot'[j].tex = NoRow
    BY <1>2, <1>7, <1>8 DEF Inv, PictureInv
  <2> QED
    BY <2>1, <2>2, <2>3, <2>4, <2>5 DEF PictureInv, KeyOf
<1>13. MemoInv'
  <2>1. \A j \in Slots : slot'[j].now => slot'[j] = slot[j]
    BY <1>2, <1>8
  <2>2. \A j \in Slots, r \in Rows :
          slot'[j].used = "absent" /\ slot'[j].now /\ (row'[r] = j \/ slot'[j].key = r)
            => r \notin disk
    BY <2>1, <1>2 DEF Inv, MemoInv
  <2>3. \A r \in Rows : row'[r] = Absent => r \notin disk
    BY <1>2 DEF Inv, MemoInv
  <2>4. worker'.pc = "read" /\ ~worker'.found /\ req[worker'.req].now =>
          req[worker'.req].row \notin disk
    BY DEF Inv, MemoInv
  <2>5. \A j \in Slots : WorkerClears(j)' \/ IoClears(j)' \/ slot'[j].uid = 0 => ~slot'[j].now
    BY <2>1, <1>7 DEF Inv, MemoInv
  <2>6. \A j \in Slots : slot'[j].now /\ slot'[j].qr # 0 =>
          worker'.pc = "handoff" /\ Filled(j)'
    <3> SUFFICES ASSUME NEW j \in Slots, slot'[j].now, slot'[j].qr # 0
                 PROVE  worker'.pc = "handoff" /\ Filled(j)'
      OBVIOUS
    <3>1. slot'[j] = slot[j] /\ worker.pc = "handoff" /\ Filled(j)
      BY <2>1 DEF Inv, MemoInv
    <3> QED
      BY <3>1 DEF Filled, InCache
  <2> QED
    BY <2>2, <2>3, <2>4, <2>5, <2>6 DEF MemoInv
<1> QED
  BY <1>3, <1>5, <1>6, <1>10, <1>11, <1>12, <1>13 DEF Inv, PlaceInv

(* A slot is emptied store by store.                                          *)
LEMMA ClearInv == ASSUME Inv, WorkerClear PROVE Inv'
<1>b. USE Basics, ThreadFacts
<1>1. /\ UNCHANGED <<refs, lost, req, queue, current, wake, io, nav, gui, disk, budget>>
      /\ worker.pc = "clear" /\ ClearStore(worker.req, worker.store)
      /\ worker' = IF worker.store < 7 THEN [worker EXCEPT !.store = @ + 1]
                   ELSE [worker EXCEPT !.pc = "release", !.store = 0]
  BY DEF WorkerClear, queueVars, menuVars, LastStore
<1>2. worker.req \in Reqs /\ Whole(worker.req) /\ worker.store # 0
  BY <1>1 DEF Holding, Inv, PlaceInv, ThreadsInv
<1>3. worker.store \in 1 .. 7
  BY <1>2 DEF WorkerState, LastStore
<1>4. /\ worker' \in WorkerState /\ worker'.req = worker.req
      /\ \/ worker.store = 7 /\ worker'.pc = "release"
         \/ worker.store < 7 /\ worker'.pc = "clear" /\ worker'.store = worker.store + 1
  <2>1. CASE worker.store = 7
    <3>1. worker' = [worker EXCEPT !.pc = "release", !.store = 0] /\ 0 \in 0 .. 7
      BY <1>1, <2>1
    <3> QED
      BY <2>1, <3>1 DEF WorkerState, LastStore
  <2>2. CASE worker.store < 7
    <3>1. worker.store + 1 \in 0 .. 7
      BY <1>3, <2>2
    <3>2. worker' = [worker EXCEPT !.store = worker.store + 1]
      BY <1>1, <2>2
    <3>3. worker' \in WorkerState
      BY <3>1, <3>2 DEF WorkerState, LastStore
    <3> QED
      BY <1>1, <2>2, <3>2, <3>3 DEF WorkerState
  <2> QED
    BY <1>3, <2>1, <2>2
<1> QED
  BY <1>1, <1>2, <1>3, <1>4, StoreInv

(* entry->qr = NULL is the last store into a slot that was filled.            *)
LEMMA HandoffInv == ASSUME Inv, WorkerHandoff PROVE Inv'
<1>b. USE Basics, ThreadFacts, WorkerMayFacts
<1>1. /\ UNCHANGED <<row, refs, lost, req, queue, current, wake, io, nav, gui, disk, budget>>
      /\ WorkerMay /\ worker.pc = "handoff" /\ worker' = [worker EXCEPT !.pc = "release"]
      /\ SetEntry(worker.req, [Entry(worker.req) EXCEPT !.qr = 0])
  BY DEF WorkerHandoff, Goto, queueVars, menuVars
<1>2. PICK q \in Reqs : q = worker.req /\ q = current /\ Whole(q)
  BY <1>1 DEF Inv, PlaceInv, ThreadsInv, Holding
<1>3. /\ worker' \in WorkerState /\ worker'.req = worker.req
      /\ worker'.pc = "release"
  BY <1>1 DEF WorkerState
<1>4. PICK i \in Slots : i = req[q].slot
  BY <1>2 DEF Whole
<1>5. /\ slot' \in [Slots -> SlotState]
      /\ \A j \in Slots :
           /\ slot'[j].uid = slot[j].uid /\ slot'[j].key = slot[j].key
           /\ slot'[j].tex = slot[j].tex /\ slot'[j].used = slot[j].used
           /\ slot'[j].now = slot[j].now
           /\ slot'[j].qr = IF InCache(q) /\ j = i THEN 0 ELSE slot[j].qr
  <2> DEFINE e == [slot[i] EXCEPT !.qr = 0]
  <2>1. slot[i] \in SlotState
    OBVIOUS
  <2>2. /\ e \in SlotState /\ e.qr = 0 /\ e.uid = slot[i].uid /\ e.key = slot[i].key
        /\ e.tex = slot[i].tex /\ e.used = slot[i].used /\ e.now = slot[i].now
    BY <2>1 DEF SlotState
  <2>3. slot' = IF InCache(q) THEN [slot EXCEPT ![i] = e] ELSE slot
    BY <1>1, <1>2, <1>4 DEF SetEntry, Entry
  <2> HIDE DEF e
  <2> QED
    BY <2>2, <2>3
<1>6. TypeOK'
  BY <1>1, <1>3, <1>5 DEF Inv, TypeOK
<1>7. QueuesInv'
  BY <1>1, <1>3 DEF Inv, PlaceInv, QueuesInv, Held, Whole, Alive
<1>8. ThreadsInv'
  BY <1>1, <1>3 DEF Inv, PlaceInv, ThreadsInv, Whole, Alive, Holding, Returning
<1>n. \A j \in Slots : ~WorkerClears(j) /\ ~WorkerClears(j)' /\ ~IoClears(j) /\ ~IoClears(j)'
  BY <1>1, <1>3 DEF WorkerClears, IoClears, Returning
<1>m. \A j \in Slots, p \in Reqs : /\ Filling(j, p)' => Filling(j, p)
                                   /\ InCache(p)' = InCache(p)
  BY <1>1, <1>5 DEF Filling, InCache
<1>9. PointerInv'
  <2>1. ASSUME gui = "menu", NEW j \in Slots, Filling(j, q)' PROVE FALSE
    <3>1. InCache(q) /\ j = i
      BY <2>1, <1>4, <1>m DEF Inv, PointerInv, Filling
    <3> QED
      BY <3>1, <2>1, <1>5 DEF Filling
  <2>2. ASSUME gui = "menu", NEW j \in Slots, slot'[j].qr # 0, slot'[j].uid # 0
        PROVE  /\ slot'[j].uid = slot'[j].qr
               /\ InCache(slot[j].qr)' /\ slot'[j].qr = slot[j].qr
               /\ req'[slot[j].qr].slot = j
    <3>1. slot'[j].qr = slot[j].qr /\ slot'[j].uid = slot[j].uid
      BY <2>2, <1>5
    <3> QED
      BY <2>2, <3>1, <1>1, <1>m DEF Inv, PointerInv, InCache
  <2>3. io'.pc \notin Returning
    BY <1>1
  <2> QED
    BY <2>1, <2>2, <2>3, <1>1, <1>2, <1>3 DEF PointerInv, InCache
<1>10. OwnerInv'
  <2>1. ASSUME NEW p \in Reqs, Waits(p)', InCache(p)', Entry(p)'.uid = p
        PROVE  Entry(p)'.qr = p
    <3>1. Waits(p) /\ InCache(p) /\ req[p].slot \in Slots /\ p # q
      BY <2>1, <1>1, <1>2, <1>3 DEF Waits, Held, InCache, Inv, PlaceInv, QueuesInv, Whole
    <3>2. slot[req[p].slot].uid = p
      BY <2>1, <3>1, <1>1, <1>5 DEF Entry
    <3>3. slot[req[p].slot].qr = p
      BY <3>1, <3>2, <1>n DEF Inv, OwnerInv, Entry
    <3>4. InCache(q) => slot[i].qr = q
      BY <1>1, <1>2, <1>4 DEF Inv, OwnerInv, Filling
    <3>5. slot'[req[p].slot].qr = p
      BY <1>5, <3>1, <3>3, <3>4
    <3> QED
      BY <3>5, <1>1 DEF Entry
  <2> QED
    BY <2>1, <1>1, <1>3 DEF OwnerInv
<1>11. PictureInv'
  BY <1>1, <1>5, <1>n, <1>m DEF Inv, PictureInv, KeyOf
<1>12. MemoInv'
  <2>1. \A j \in Slots : ~(slot'[j].now /\ slot'[j].qr # 0)
    <3> SUFFICES ASSUME NEW j \in Slots, slot'[j].now, slot'[j].qr # 0 PROVE FALSE
      OBVIOUS
    <3>1. slot[j].now /\ slot[j].qr # 0 /\ ~(InCache(q) /\ j = i)
      BY <1>5
    <3>2. Filled(j)
      BY <3>1 DEF Inv, MemoInv
    <3> QED
      BY <3>1, <3>2, <1>2, <1>4 DEF Filled
  <2> QED
    BY <2>1, <1>n, <1>1, <1>3, <1>5 DEF Inv, MemoInv
<1> QED
  BY <1>6, <1>7, <1>8, <1>9, <1>10, <1>11, <1>12 DEF Inv, PlaceInv

(* The request leaves the worker's hands: nothing points to it any more.      *)
LEMMA GiveBackInv ==
  ASSUME Inv, WorkerMay, NEW q \in Reqs, q = worker.req, NEW e \in RequestState,
         req' = [req EXCEPT ![q] = e], e.slot = NoSlot, ~e.stamped,
         UNCHANGED <<slot, row, queue, wake, io, nav, gui, disk, budget>>,
         current' = 0, refs' \in Int, lost' \in BOOLEAN, worker' \in WorkerState,
         worker.pc \in {"read", "release"} \cup Returning,
         gui = "menu" => \A i \in Slots : ~Filling(i, q),
         \/ worker'.pc = "test" /\ worker'.req = q /\ e.cache # "gone"
         \/ worker'.pc \in {"pop", "end"} /\ worker'.req = 0
  PROVE  Inv'
<1>b. USE Basics, ThreadFacts, WorkerMayFacts
<1>1. /\ req' \in [Reqs -> RequestState] /\ req'[q] = e
      /\ \A p \in Reqs \ {q} : req'[p] = req[p]
  OBVIOUS
<1>2. Held' = Held /\ q \notin Held
  BY DEF Held, Inv, PlaceInv, QueuesInv
<1>3. TypeOK'
  BY <1>1 DEF Inv, TypeOK
<1>4. QueuesInv'
  <2>1. \A p \in Held' : Whole(p)'
    BY <1>1, <1>2 DEF Inv, PlaceInv, QueuesInv, Whole, Alive
  <2>2. \A p \in Reqs : req'[p].stamped <=> p \in ToSet(queue)
    BY <1>1, <1>2 DEF Inv, PlaceInv, QueuesInv, Held
  <2>3. worker'.req \notin Held'
    BY <1>2
  <2> QED
    BY <2>1, <2>2, <2>3 DEF Inv, PlaceInv, QueuesInv
<1>5. ThreadsInv'
  BY <1>1 DEF Inv, PlaceInv, ThreadsInv, Alive, Holding, Returning
<1>n. \A j \in Slots : ~WorkerClears(j) /\ ~WorkerClears(j)' /\ ~IoClears(j) /\ ~IoClears(j)'
  BY DEF WorkerClears, IoClears, Returning
<1>6. PointerInv'
  <2>1. ASSUME gui = "menu", NEW j \in Slots, slot[j].qr # 0, slot[j].uid # 0
        PROVE  /\ slot[j].uid = slot[j].qr
               /\ InCache(slot[j].qr)' /\ req'[slot[j].qr].slot = j
    BY <1>1, <2>1 DEF Inv, PointerInv, InCache, Filling
  <2>2. gui = "menu" /\ worker'.pc = "test" => \A j \in Slots : ~Filling(j, worker.req)'
    BY DEF Filling
  <2>3. worker'.pc \in {"release"} \cup Returning => worker'.pc = "test" /\ worker'.req = worker.req
    BY DEF Returning
  <2>4. io'.pc \notin Returning /\ slot' = slot /\ gui' = gui
    OBVIOUS
  <2> QED
    BY <2>1, <2>2, <2>3, <2>4 DEF PointerInv, InCache, Filling
<1>7. OwnerInv'
  <2>1. ASSUME NEW p \in Reqs, Waits(p)', InCache(p)', Entry(p)'.uid = p
        PROVE  Entry(p)'.qr = p
    <3>1. p \in Held /\ p # q
      BY <2>1, <1>2 DEF Waits
    <3>2. Waits(p) /\ InCache(p) /\ Entry(p)' = Entry(p)
      BY <2>1, <3>1, <1>1 DEF Waits, InCache, Entry
    <3> QED
      BY <2>1, <3>2, <1>n DEF Inv, OwnerInv, WorkerClears, IoClears, Returning
  <2> QED
    BY <2>1 DEF OwnerInv
<1>8. PictureInv'
  <2>1. ASSUME NEW j \in Slots, NEW p \in Reqs, Filling(j, p)', InCache(p)', req'[p].slot = j
        PROVE  /\ slot[j].key \in {KeyOf(req'[p].row), NoRow}
               /\ \A r \in Rows : row[r] = j => r = req'[p].row
    <3>1. p # q
      BY <1>1, <2>1, RowFacts
    <3>2. Filling(j, p) /\ InCache(p) /\ req[p].slot = j /\ req'[p] = req[p]
      BY <1>1, <2>1, <3>1 DEF Filling, InCache
    <3> QED
      BY <3>2 DEF Inv, PictureInv
  <2> QED
    BY <2>1, <1>n DEF Inv, PictureInv, KeyOf
<1>9. MemoInv'
  BY <1>n DEF Inv, MemoInv, Returning
<1> QED
  BY <1>3, <1>4, <1>5, <1>6, <1>7, <1>8, <1>9 DEF Inv, PlaceInv

LEMMA FreedFacts ==
  ASSUME worker \in WorkerState, NEW pc \in {"pop", "end"},
         worker' = [worker EXCEPT !.pc = pc, !.req = 0, !.loaded = 0]
  PROVE  worker' \in WorkerState
<1>1. PICK n \in Int : n = 0
  OBVIOUS
<1>2. worker' = [worker EXCEPT !.pc = pc, !.req = 0, !.loaded = n]
  BY <1>1
<1> QED
  BY <1>2 DEF WorkerState

LEMMA GiveBacksInv ==
  ASSUME Inv, \/ WorkerRelease \/ WorkerDeref \/ WorkerAbandoned
              \/ WorkerTest /\ ~Referenced(worker.req)
  PROVE  Inv'
<1>b. USE Basics, GoneFacts, ThreadFacts
<1>1. Gone.slot = NoSlot
  BY DEF Gone
<1>2. refs \in Int /\ lost \in BOOLEAN
  BY DEF Inv, TypeOK
<1>3. CASE WorkerRelease
  <2>1. /\ WorkerMay /\ worker.pc = "release" /\ current' = 0
        /\ req' = [req EXCEPT ![worker.req] = [Gone EXCEPT !.cache = req[worker.req].cache]]
        /\ worker' = [worker EXCEPT !.pc = "test"]
        /\ UNCHANGED <<slot, row, refs, lost, queue, wake, io, nav, gui, disk, budget>>
    BY <1>3 DEF WorkerRelease, Goto, cacheVars, menuVars
  <2>2. PICK q \in Reqs : q = worker.req /\ Alive(q)
    BY <2>1 DEF Inv, PlaceInv, ThreadsInv, Holding, Whole
  <2>3. req[q].cache \in {"gone", "live", "leaked", "freed"} /\ req[q].cache # "gone"
    <3>1. req[q] \in RequestState
      OBVIOUS
    <3> QED
      BY <2>2, <3>1 DEF RequestState, Alive
  <2>4. PICK e \in RequestState :
          e = [Gone EXCEPT !.cache = req[q].cache] /\ e.slot = NoSlot /\ ~e.stamped
          /\ e.cache # "gone"
    BY <2>3
  <2>5. worker' \in WorkerState /\ worker'.pc = "test" /\ worker'.req = q
    BY <2>1, <2>2 DEF WorkerState
  <2>6. gui = "menu" => \A j \in Slots : ~Filling(j, q)
    BY <2>1, <2>2 DEF Inv, PointerInv
  <2> QED
    BY <2>1, <2>2, <2>4, <2>5, <2>6, <1>2, GiveBackInv
<1>4. CASE \/ WorkerDeref
           \/ WorkerTest /\ ~Referenced(worker.req)
  <2>1. /\ WorkerMay /\ worker.pc \in Returning
        /\ req' = [req EXCEPT ![worker.req] = Gone]
        /\ worker' = [worker EXCEPT !.pc = OrEnd("pop"), !.req = 0, !.loaded = 0]
        /\ UNCHANGED <<slot, row, queue, current, wake, io, nav, gui, disk, budget>>
    BY <1>4 DEF WorkerDeref, WorkerTest, WorkerFrees, menuVars, cacheVars, Returning
  <2>2. PICK q \in Reqs : q = worker.req
    BY <2>1
  <2>3. OrEnd("pop") \in {"pop", "end"}
    BY DEF OrEnd
  <2>4. worker' \in WorkerState /\ worker'.pc \in {"pop", "end"} /\ worker'.req = 0
    <3>1. PICK pc \in {"pop", "end"} : pc = OrEnd("pop")
      BY <2>3
    <3>2. worker' = [worker EXCEPT !.pc = pc, !.req = 0, !.loaded = 0]
      BY <2>1, <3>1
    <3>3. worker' \in WorkerState
      BY <3>2, FreedFacts
    <3> QED
      BY <3>2, <3>3 DEF WorkerState
  <2>5. gui = "menu" => \A j \in Slots : ~Filling(j, q)
    BY <2>1, <2>2 DEF Inv, PointerInv
  <2>6. current' = 0
    BY <2>1 DEF Inv, PlaceInv, ThreadsInv
  <2>7. refs' \in Int /\ lost' \in BOOLEAN
    <3>1. worker.loaded \in Int
      BY DEF WorkerState
    <3>2. CASE WorkerDeref
      <4>1. Decremented(worker.req, worker.loaded)
        BY <3>2 DEF WorkerDeref
      <4>2. lost' \in BOOLEAN
        BY <4>1 DEF Decremented
      <4>3. refs' \in Int
        BY <4>1, <3>1, <1>2 DEF Decremented
      <4> QED
        BY <4>2, <4>3
    <3>3. CASE WorkerTest
      BY <3>3, <1>2 DEF WorkerTest, cacheVars
    <3> QED
      BY <1>4, <3>2, <3>3
  <2> QED
    BY <2>1, <2>2, <2>4, <2>5, <2>6, <2>7, <1>1, GiveBackInv
<1>5. CASE WorkerAbandoned
  <2>1. /\ WorkerMay /\ worker.pc = "read" /\ gui # "menu" /\ current' = 0
        /\ req' = [req EXCEPT ![worker.req] = Gone]
        /\ worker' = [worker EXCEPT !.pc = "end", !.req = 0, !.found = FALSE]
        /\ UNCHANGED <<slot, row, refs, lost, queue, wake, io, nav, gui, disk, budget>>
    BY <1>5 DEF WorkerAbandoned, Abandoned, cacheVars, menuVars
  <2>2. PICK q \in Reqs : q = worker.req
    BY <2>1 DEF Holding
  <2>3. worker' \in WorkerState /\ worker'.pc \in {"pop", "end"} /\ worker'.req = 0
    BY <2>1 DEF WorkerState
  <2> QED
    BY <2>1, <2>2, <2>3, <1>1, <1>2, GiveBackInv
<1> QED
  BY <1>3, <1>4, <1>5

(* The decrement begins.                                                      *)
LEMMA DerefTurnsInv ==
  ASSUME Inv, WorkerLoad \/ (WorkerTest /\ Referenced(worker.req)) PROVE Inv'
<1>b. USE Basics, ThreadFacts
<1>1. /\ UNCHANGED <<slot, row, refs, lost, req, queue, current, wake, io, nav, gui, disk, budget>>
      /\ worker.pc \in {"test", "load"}
      /\ \/ worker' = [worker EXCEPT !.pc = "load"]
         \/ worker' = [worker EXCEPT !.pc = "deref", !.loaded = refs]
  BY DEF WorkerLoad, WorkerTest, Goto, cacheVars, queueVars, menuVars
<1>2. worker' \in WorkerState /\ worker'.pc \in {"load", "deref"} /\ worker'.req = worker.req
  <2>1. refs \in Int
    BY DEF Inv, TypeOK
  <2> QED
    BY <1>1, <2>1 DEF WorkerState
<1>3. ThreadsInv'
  BY <1>1, <1>2 DEF Inv, PlaceInv, ThreadsInv, Whole, Alive, Holding, Returning
<1>4. gui = "menu" => \A i \in Slots : ~Filling(i, worker.req)
  BY <1>1 DEF Inv, PointerInv, Returning
<1>5. wake' \in BOOLEAN /\ budget' \in 0 .. Events
  BY <1>1 DEF Inv, TypeOK
<1>6. \A i \in Slots : ~WorkerClears(i)'
  BY <1>2 DEF WorkerClears
<1> QED
  BY <1>1, <1>2, <1>3, <1>4, <1>5, <1>6, WorkerTurn

LEMMA WorkerInv == ASSUME Inv, WorkerStep PROVE Inv'
  BY IdleInv, PopInv, CheckInv, FailInv, FillInv, ClearInv, HandoffInv, GiveBacksInv,
     DerefTurnsInv DEF WorkerStep

-----------------------------------------------------------------------------
(* The IO worker                                                              *)

(* It goes on, or moves requests from one list to another, and touches no slot.*)
LEMMA IoShift ==
  ASSUME Inv, UNCHANGED <<slot, row, refs, lost, current, worker, nav, gui, disk>>,
         wake' \in BOOLEAN, budget' \in 0 .. Events,
         req' \in [Reqs -> RequestState], queue' \in Seq(Reqs), io' \in IoState,
         \A q \in Reqs : /\ req'[q].cache = req[q].cache /\ req'[q].row = req[q].row
                         /\ req'[q].slot = req[q].slot /\ (req'[q].now => req[q].now)
                         /\ req'[q].stamped <=> q \in ToSet(queue'),
         IsInjective(queue'), IsInjective(io'.chain), IsInjective(io'.keep),
         ToSet(queue') \cap ToSet(io'.chain) = {}, ToSet(queue') \cap ToSet(io'.keep) = {},
         ToSet(io'.chain) \cap ToSet(io'.keep) = {}, Held' = Held,
         io.pc # "clear",
         io'.pc \in {"clear"} \cup Returning => io'.chain # <<>>,
         io'.pc = "clear" => io'.store = 1,
         io'.pc \notin {"drop", "clear"} \cup Returning => io'.chain = <<>> /\ io'.keep = <<>>,
         gui = "menu" /\ io'.pc \in Returning =>
           \A i \in Slots : ~Filling(i, Head(io'.chain)),
         \A i \in Slots : IoClears(i)' => slot[i].qr \notin {0, worker.req}
  PROVE  Inv'
<1>b. USE Basics, ThreadFacts
<1>1. TypeOK'
  BY DEF Inv, TypeOK
<1>2. QueuesInv'
  <2>1. \A q \in Held' : Whole(q)'
    BY DEF Inv, PlaceInv, QueuesInv, Whole, Alive
  <2>2. worker'.req \notin Held'
    BY DEF Inv, PlaceInv, QueuesInv
  <2> QED
    BY <2>1, <2>2 DEF QueuesInv
<1>3. ThreadsInv'
  BY DEF Inv, PlaceInv, ThreadsInv, Whole, Alive
<1>4. /\ \A p \in Reqs : InCache(p)' = InCache(p) /\ Waits(p)' = Waits(p)
      /\ \A i \in Slots, p \in Reqs : Filling(i, p)' = Filling(i, p)
      /\ \A i \in Slots : WorkerClears(i)' = WorkerClears(i) /\ ~IoClears(i)
  BY DEF InCache, Waits, Filling, WorkerClears, IoClears, Holding
<1>5. PointerInv'
  <2>1. \A i \in Slots : gui = "menu" /\ slot[i].qr # 0 /\ slot[i].uid # 0 =>
          /\ slot[i].uid = slot[i].qr
          /\ InCache(slot[i].qr)' /\ req'[slot[i].qr].slot = i
    BY <1>4 DEF Inv, PointerInv
  <2>2. gui = "menu" /\ worker.pc \in {"release"} \cup Returning =>
          \A i \in Slots : ~Filling(i, worker.req)'
    BY <1>4 DEF Inv, PointerInv, Holding
  <2>3. gui = "menu" /\ io'.pc \in Returning => \A i \in Slots : ~Filling(i, Head(io'.chain))
    OBVIOUS
  <2> QED
    BY <2>1, <2>2, <2>3 DEF PointerInv, InCache, Filling
<1>6. OwnerInv'
  <2>1. ASSUME NEW p \in Reqs, Waits(p)', InCache(p)', Entry(p)'.uid = p
        PROVE  Entry(p)'.qr = p \/ WorkerClears(req[p].slot)'
    <3>1. Waits(p) /\ InCache(p) /\ Entry(p)' = Entry(p)
      BY <2>1, <1>4 DEF Entry
    <3>2. req[p].slot \in Slots
      BY <3>1 DEF Inv, PlaceInv, QueuesInv, Waits, Whole, Holding
    <3>3. Entry(p).qr = p \/ WorkerClears(req[p].slot)
      BY <2>1, <3>1, <3>2, <1>4 DEF Inv, OwnerInv
    <3>4. WorkerClears(req[p].slot) => WorkerClears(req[p].slot)'
      BY DEF WorkerClears, InCache, Holding
    <3> QED
      BY <3>1, <3>3, <3>4
  <2>2. ASSUME worker.pc \in {"read", "handoff"}, InCache(worker.req)'
        PROVE  Filling(req[worker.req].slot, worker.req)' /\ ~IoClears(req[worker.req].slot)'
    <3>1. worker.req \in Reqs /\ req[worker.req].slot \in Slots /\ InCache(worker.req)
      BY <2>2, <1>4 DEF Holding, Whole
    <3>2. Filling(req[worker.req].slot, worker.req)
      BY <2>2, <3>1 DEF Inv, OwnerInv
    <3>3. ~(\E i \in Slots : i = req[worker.req].slot /\ IoClears(i)')
      BY <3>2 DEF Filling
    <3>4. req'[worker.req].slot = req[worker.req].slot
      BY <3>1
    <3> QED
      BY <3>1, <3>2, <3>3, <3>4 DEF Filling, IoClears
  <2> QED
    BY <2>1, <2>2, <1>3 DEF OwnerInv, WorkerClears, Waits, PlaceInv, QueuesInv, Whole, ThreadsInv,
                            Holding, InCache
<1>7. PictureInv'
  <2>1. \A i \in Slots, q \in Reqs : Filling(i, q)' /\ InCache(q)' /\ req'[q].slot = i =>
          /\ slot[i].key \in {KeyOf(req'[q].row), NoRow}
          /\ \A r \in Rows : row[r] = i => r = req'[q].row
    BY <1>4 DEF Inv, PictureInv
  <2>2. \A i \in Slots :
          (WorkerClears(i)' /\ worker'.store > 1) \/ (IoClears(i)' /\ io'.store > 1)
            => slot[i].tex = NoRow
    BY <1>4 DEF Inv, PictureInv, IoClears
  <2> QED
    BY <2>1, <2>2 DEF Inv, PictureInv, KeyOf
<1>8. MemoInv'
  <2>1. \A i \in Slots : slot[i].now /\ slot[i].qr # 0 =>
          worker.pc = "handoff" /\ Filled(i) /\ Filled(i)'
    <3> SUFFICES ASSUME NEW i \in Slots, slot[i].now, slot[i].qr # 0
                 PROVE  worker.pc = "handoff" /\ Filled(i) /\ Filled(i)'
      OBVIOUS
    <3>1. worker.pc = "handoff" /\ Filled(i)
      BY DEF Inv, MemoInv
    <3> QED
      BY <3>1 DEF Filled, InCache, Holding
  <2>2. \A i \in Slots : WorkerClears(i)' \/ IoClears(i)' \/ slot[i].uid = 0 => ~slot[i].now
    BY <2>1, <1>4 DEF Inv, MemoInv, Filled
  <2>3. worker.pc = "read" /\ ~worker.found /\ req'[worker.req].now =>
          req'[worker.req].row \notin disk
    BY DEF Inv, MemoInv, Holding
  <2> QED
    BY <2>1, <2>2, <2>3 DEF Inv, MemoInv
<1> QED
  BY <1>1, <1>2, <1>3, <1>5, <1>6, <1>7, <1>8 DEF Inv, PlaceInv

(* It has no request in its hands, before and after.                          *)
LEMMA IoTurnInv ==
  ASSUME Inv, io.chain = <<>>, io.keep = <<>>, io' \in IoState,
         io'.pc \notin {"clear"} \cup Returning, io'.chain = <<>>, io'.keep = <<>>,
         Soft(req'), SameStamps(req'), wake' \in BOOLEAN,
         UNCHANGED <<slot, row, refs, lost, queue, current, worker, nav, gui, disk, budget>>
  PROVE  Inv'
<1>b. USE Basics
<1>1. /\ req' \in [Reqs -> RequestState]
      /\ \A q \in Reqs : /\ req'[q].cache = req[q].cache /\ req'[q].row = req[q].row
                         /\ req'[q].slot = req[q].slot /\ (req'[q].now => req[q].now)
                         /\ req'[q].stamped <=> q \in ToSet(queue')
  BY DEF Soft, SameStamps, Same, Inv, PlaceInv, QueuesInv
<1>2. Held' = Held
  BY DEF Held
<1>3. /\ IsInjective(queue') /\ IsInjective(<<>>) /\ ToSet(<<>>) = {} /\ budget' \in 0 .. Events
      /\ io.pc # "clear" /\ \A i \in Slots : ~IoClears(i)'
  BY EmptyFacts DEF Inv, PlaceInv, QueuesInv, ThreadsInv, TypeOK, IoClears
<1> QED
  BY <1>1, <1>2, <1>3, IoShift

LEMMA IdleFacts ==
  IoIdle \in IoState /\ IoIdle.pc = "idle" /\ IoIdle.chain = <<>> /\ IoIdle.keep = <<>>
<1>1. PICK n \in Int : n = 0 /\ n \in 0 .. LastStore
  BY DEF LastStore
<1>2. PICK none \in Seq(Reqs) : none = <<>>
  BY EmptyFacts
<1>3. IoIdle = [pc |-> "idle", op |-> "none", all |-> FALSE, chain |-> none, keep |-> none,
                loaded |-> n, store |-> n]
  BY <1>1, <1>2 DEF IoIdle
<1>4. IoIdle \in IoState
  BY <1>1, <1>3 DEF IoState
<1>5. IoIdle.pc = "idle" /\ IoIdle.chain = none /\ IoIdle.keep = none
  BY <1>3
<1> QED
  BY <1>2, <1>4, <1>5

(* The queue becomes the chain.                                               *)
LEMMA DetachInv ==
  ASSUME Inv, io.chain = <<>>, io.keep = <<>>, NEW op \in {"apps", "theme", "none"},
         NEW all \in BOOLEAN, IoDetach(op, all), budget' \in 0 .. Events,
         UNCHANGED <<slot, row, refs, lost, current, wake, worker, nav, gui, disk>>
  PROVE  Inv'
<1>b. USE Basics
<1> DEFINE f == FlagCurrent(all \/ OnSio2(current))
<1>0. /\ req' = artDetachAll(f) /\ queue' = <<>>
      /\ io' = [IoIdle EXCEPT !.pc = "drop", !.op = op, !.all = all, !.chain = queue]
  BY DEF IoDetach
<1>1. /\ req' \in [Reqs -> RequestState]
      /\ \A q \in Reqs : /\ req'[q].cache = req[q].cache /\ req'[q].row = req[q].row
                         /\ req'[q].slot = req[q].slot /\ (req'[q].now => req[q].now)
                         /\ ~req'[q].stamped
  <2>1. Soft(f)
    BY FlagCurrentFacts DEF Inv
  <2> HIDE DEF f
  <2> QED
    BY <1>0, <2>1, DetachFacts DEF Soft, Same
<1>2. /\ io' \in IoState /\ io'.pc = "drop" /\ io'.chain = queue /\ io'.keep = <<>>
  <2>1. all \in BOOLEAN /\ queue \in Seq(Reqs) /\ op \in {"none", "apps", "theme"}
    OBVIOUS
  <2> QED
    BY <1>0, <2>1, IdleFacts DEF IoState
<1>3. Held' = Held
  BY <1>0, <1>2, EmptyFacts DEF Held
<1>4. /\ IsInjective(queue) /\ IsInjective(<<>>) /\ ToSet(<<>>) = {} /\ <<>> \in Seq(Reqs)
      /\ wake' \in BOOLEAN
      /\ io.pc # "clear" /\ \A i \in Slots : ~IoClears(i)'
  BY <1>2, EmptyFacts DEF Inv, PlaceInv, QueuesInv, ThreadsInv, TypeOK, IoClears
<1>5. io'.pc \notin {"clear"} \cup Returning
  BY <1>2 DEF Returning
<1> QED
  BY <1>0, <1>1, <1>2, <1>3, <1>4, <1>5, IoShift

LEMMA IoTurnsInv ==
  ASSUME Inv, IoWake \/ IoWaited \/ IoList \/ IoLock \/ \E op \in IoOps : IoBegin(op)
  PROVE  Inv'
<1>1. /\ TypeOK /\ Running \in BOOLEAN /\ io \in IoState
      /\ Soft(req) /\ SameStamps(req)
  BY SoftReq DEF Inv, TypeOK, Running
<1>2. req' = req => Soft(req') /\ SameStamps(req')
  BY <1>1 DEF Soft, SameStamps
<1>3. io.pc \in {"idle", "wait", "list", "lock"} => io.chain = <<>> /\ io.keep = <<>>
  BY DEF Inv, PlaceInv, ThreadsInv, Returning
<1>4. \A pc \in {"wait", "list", "lock", "destroy"} :
        /\ [io EXCEPT !.pc = pc] \in IoState /\ [io EXCEPT !.pc = pc].pc = pc
        /\ [io EXCEPT !.pc = pc].chain = io.chain /\ [io EXCEPT !.pc = pc].keep = io.keep
  BY <1>1 DEF IoState
<1>5. /\ IoIdle \in IoState /\ IoIdle.pc = "idle" /\ IoIdle.chain = <<>>
      /\ IoIdle.keep = <<>>
  BY IdleFacts, EmptyFacts
<1>6. CASE IoWake
  <2>1. /\ io.chain = <<>> /\ io.keep = <<>> /\ io' = [io EXCEPT !.pc = "wait"] /\ req' = req
        /\ wake' \in BOOLEAN
        /\ UNCHANGED <<slot, row, refs, lost, queue, current, worker, nav, gui, disk, budget>>
    BY <1>1, <1>6 DEF IoWake, IoGoto, cacheVars, menuVars
  <2> QED
    BY <2>1, <1>2, <1>4, IoTurnInv DEF Returning
<1>7. CASE IoWaited
  <2>1. /\ UNCHANGED <<slot, row, refs, lost, current, wake, worker, nav, gui, disk, budget>>
        /\ io.chain = <<>> /\ io.keep = <<>> /\ wake \in BOOLEAN /\ budget \in 0 .. Events
        /\ io.op \in {"apps", "theme", "none"}
    BY <1>1, <1>3, <1>7 DEF IoWaited, cacheVars, menuVars, TypeOK, IoState
  <2>2. \/ io' = IoIdle /\ UNCHANGED <<req, queue>>
        \/ IoDetach(io.op, TRUE)
        \/ io' = [io EXCEPT !.pc = "list"] /\ UNCHANGED <<req, queue>>
        \/ io' = [io EXCEPT !.pc = "lock"] /\ UNCHANGED <<req, queue>>
    BY <1>7 DEF IoWaited, IoGoto
  <2>3. CASE IoDetach(io.op, TRUE)
    BY <2>1, <2>3, DetachInv
  <2>4. CASE ~IoDetach(io.op, TRUE)
    <3>1. /\ io' \in IoState /\ io'.pc \notin {"clear"} \cup Returning
          /\ io'.chain = <<>> /\ io'.keep = <<>> /\ UNCHANGED <<req, queue>>
      BY <2>1, <2>2, <2>4, <1>4, <1>5 DEF Returning
    <3> QED
      BY <3>1, <2>1, <1>2, IoTurnInv
  <2> QED
    BY <2>3, <2>4
<1>8. CASE IoList
  <2>1. /\ io.chain = <<>> /\ io.keep = <<>> /\ io' = IoIdle /\ req' = req /\ wake' \in BOOLEAN
        /\ UNCHANGED <<slot, row, refs, lost, queue, current, worker, nav, gui, disk, budget>>
    BY <1>1, <1>3, <1>8 DEF IoList, cacheVars, queueVars, menuVars, TypeOK
  <2> QED
    BY <2>1, <1>2, <1>5, IoTurnInv DEF Returning
<1>9. CASE IoLock
  <2>1. /\ io.chain = <<>> /\ io.keep = <<>> /\ io' = [io EXCEPT !.pc = "destroy"]
        /\ wake' \in BOOLEAN /\ (req' = req \/ req' = FlagCurrent(InCache(current)))
        /\ UNCHANGED <<slot, row, refs, lost, queue, current, worker, nav, gui, disk, budget>>
    BY <1>1, <1>3, <1>9 DEF IoLock, IoGoto, cacheVars, menuVars, TypeOK
  <2>2. Soft(req') /\ SameStamps(req')
    BY <2>1, <1>1, <1>2, FlagCurrentFacts
  <2> QED
    BY <2>1, <2>2, <1>4, IoTurnInv DEF Returning
<1>10. ASSUME NEW op \in IoOps, IoBegin(op) PROVE Inv'
  <2>1. /\ UNCHANGED <<slot, row, refs, lost, current, wake, worker, nav, gui, disk>>
        /\ io.chain = <<>> /\ io.keep = <<>> /\ IoDetach(op, FALSE)
    BY <1>3, <1>10 DEF IoBegin, cacheVars, menuVars
  <2>2. budget' \in 0 .. Events
    BY <1>1, <1>10, ArtAssumption DEF IoBegin, Event, Costs, TypeOK
  <2>3. op \in {"apps", "theme", "none"}
    BY ArtAssumption
  <2> QED
    BY <2>1, <2>2, <2>3, DetachInv
<1> QED
  BY <1>6, <1>7, <1>8, <1>9, <1>10

(* The head of the chain: a request that only the IO worker has.              *)
LEMMA ChainHead ==
  ASSUME Inv, io.chain # <<>>
  PROVE  /\ Head(io.chain) \in ToSet(io.chain) /\ Head(io.chain) \in Held
         /\ Head(io.chain) \in Reqs /\ Whole(Head(io.chain))
         /\ Head(io.chain) # worker.req /\ Head(io.chain) # current
         /\ Head(io.chain) \notin ToSet(queue) /\ Head(io.chain) \notin ToSet(io.keep)
         /\ ~req[Head(io.chain)].stamped
         /\ Tail(io.chain) \in Seq(Reqs) /\ IsInjective(Tail(io.chain))
         /\ ToSet(Tail(io.chain)) = ToSet(io.chain) \ {Head(io.chain)}
<1>1. io.chain \in Seq(Reqs) /\ IsInjective(io.chain)
  BY Basics DEF Inv, PlaceInv, QueuesInv
<1>2. /\ Head(io.chain) \in ToSet(io.chain) /\ Head(io.chain) \in Reqs
      /\ Tail(io.chain) \in Seq(Reqs) /\ IsInjective(Tail(io.chain))
      /\ ToSet(Tail(io.chain)) = ToSet(io.chain) \ {Head(io.chain)}
  BY <1>1, TailFacts
<1>3. Head(io.chain) \in Held
  BY <1>2 DEF Held
<1>4. Head(io.chain) # 0
  BY <1>2, Basics
<1> QED
  BY <1>2, <1>3, <1>4, Basics DEF Inv, PlaceInv, QueuesInv


LEMMA KeepInv == ASSUME Inv, IoKeep PROVE Inv'
<1>b. USE Basics, ThreadFacts
<1>1. /\ io.pc = "drop" /\ io.chain # <<>>
      /\ io' = [io EXCEPT !.chain = Tail(@), !.keep = Append(@, Head(io.chain))]
      /\ UNCHANGED <<slot, row, refs, lost, req, queue, current, wake, worker, nav, gui, disk, budget>>
  BY DEF IoKeep, cacheVars, queueVars, menuVars
<1>2. PICK q \in Reqs : /\ q = Head(io.chain) /\ q \in ToSet(io.chain)
                        /\ q \notin ToSet(queue) /\ q \notin ToSet(io.keep)
                        /\ Tail(io.chain) \in Seq(Reqs) /\ IsInjective(Tail(io.chain))
                        /\ ToSet(Tail(io.chain)) = ToSet(io.chain) \ {q}
  BY <1>1, ChainHead
<1>3. /\ Append(io.keep, q) \in Seq(Reqs) /\ IsInjective(Append(io.keep, q))
      /\ ToSet(Append(io.keep, q)) = ToSet(io.keep) \cup {q}
  <2>1. IsInjective(io.keep)
    BY DEF Inv, PlaceInv, QueuesInv
  <2> QED
    BY <1>2, <2>1, AppendFacts
<1>4. /\ io' \in IoState /\ io'.pc = "drop" /\ io'.chain = Tail(io.chain)
      /\ io'.keep = Append(io.keep, q)
  BY <1>1, <1>2, <1>3 DEF IoState
<1>5. Held' = Held
  BY <1>1, <1>2, <1>3, <1>4 DEF Held
<1>6. IsInjective(io'.chain) /\ IsInjective(io'.keep) /\ IsInjective(queue)
  BY <1>2, <1>3, <1>4 DEF Inv, PlaceInv, QueuesInv
<1>7. /\ ToSet(queue) \cap ToSet(io'.chain) = {} /\ ToSet(queue) \cap ToSet(io'.keep) = {}
      /\ ToSet(io'.chain) \cap ToSet(io'.keep) = {}
  BY <1>2, <1>3, <1>4 DEF Inv, PlaceInv, QueuesInv
<1>8. /\ wake' \in BOOLEAN /\ budget' \in 0 .. Events
      /\ \A p \in Reqs : req[p].stamped <=> p \in ToSet(queue)
  BY <1>1 DEF Inv, TypeOK, PlaceInv, QueuesInv
<1>9. \A i \in Slots : ~IoClears(i)'
  BY <1>4 DEF IoClears
<1>10. io'.pc \notin {"clear"} \cup Returning
  BY <1>4 DEF Returning
<1> QED
  BY <1>1, <1>4, <1>5, <1>6, <1>7, <1>8, <1>9, <1>10, IoShift

(* A kept request joins the tail of the queue again.                          *)
LEMMA RepushInv == ASSUME Inv, IoRepush PROVE Inv'
<1>b. USE Basics, ThreadFacts
<1>1. /\ io.pc = "drop" /\ io.chain = <<>> /\ io.keep # <<>>
      /\ queue' = Append(queue, Head(io.keep))
      /\ req' = [req EXCEPT ![Head(io.keep)].stamped = TRUE]
      /\ io' = [io EXCEPT !.keep = Tail(@)]
      /\ UNCHANGED <<slot, row, refs, lost, current, wake, worker, nav, gui, disk, budget>>
  BY DEF IoRepush, cacheVars, menuVars
<1>2. PICK q \in Reqs : /\ q = Head(io.keep) /\ q \in ToSet(io.keep)
                        /\ Tail(io.keep) \in Seq(Reqs) /\ IsInjective(Tail(io.keep))
                        /\ ToSet(Tail(io.keep)) = ToSet(io.keep) \ {q}
  <2>1. IsInjective(io.keep)
    BY DEF Inv, PlaceInv, QueuesInv
  <2> QED
    BY <1>1, <2>1, TailFacts
<1>3. q \in Held /\ q \notin ToSet(queue)
  BY <1>2 DEF Held, Inv, PlaceInv, QueuesInv
<1>4. queue' \in Seq(Reqs) /\ IsInjective(queue') /\ ToSet(queue') = ToSet(queue) \cup {q}
  <2>1. IsInjective(queue)
    BY DEF Inv, PlaceInv, QueuesInv
  <2> QED
    BY <1>1, <1>2, <1>3, <2>1, AppendFacts
<1>5. /\ req' \in [Reqs -> RequestState]
      /\ \A p \in Reqs : /\ req'[p].cache = req[p].cache /\ req'[p].row = req[p].row
                         /\ req'[p].slot = req[p].slot /\ req'[p].now = req[p].now
                         /\ req'[p].stamped <=> p \in ToSet(queue')
  <2>1. req' = [req EXCEPT ![q] = Stamped(req[q])]
    BY <1>1, <1>2 DEF Stamped
  <2>2. /\ Stamped(req[q]) \in RequestState /\ Same(req[q], Stamped(req[q]))
        /\ Stamped(req[q]).now = req[q].now /\ Stamped(req[q]).stamped
    BY StampFields
  <2>3. req' \in [Reqs -> RequestState]
        /\ \A p \in Reqs : req'[p] = IF p = q THEN Stamped(req[q]) ELSE req[p]
    BY <2>1, <2>2
  <2> QED
    BY <2>2, <2>3, <1>4 DEF Same, Inv, PlaceInv, QueuesInv
<1>6. /\ io' \in IoState /\ io'.pc = "drop" /\ io'.chain = <<>>
      /\ io'.keep = Tail(io.keep)
  BY <1>1, <1>2 DEF IoState
<1>7. Held' = Held
  BY <1>1, <1>2, <1>4, <1>6 DEF Held
<1>8. IsInjective(io'.chain) /\ IsInjective(io'.keep) /\ io'.chain = io.chain
  BY <1>1, <1>2, <1>6 DEF Inv, PlaceInv, QueuesInv
<1>9. /\ ToSet(queue') \cap ToSet(io'.chain) = {} /\ ToSet(queue') \cap ToSet(io'.keep) = {}
      /\ ToSet(io'.chain) \cap ToSet(io'.keep) = {}
  BY <1>2, <1>4, <1>6, <1>8 DEF Inv, PlaceInv, QueuesInv
<1>10. wake' \in BOOLEAN /\ budget' \in 0 .. Events
  BY <1>1 DEF Inv, TypeOK
<1>11. \A i \in Slots : ~IoClears(i)'
  BY <1>6 DEF IoClears
<1>12. io'.pc \notin {"clear"} \cup Returning
  BY <1>6 DEF Returning
<1> QED
  BY <1>1, <1>4, <1>5, <1>6, <1>7, <1>8, <1>9, <1>10, <1>11, <1>12, IoShift

(* artFreeChain off the GUI thread: what the IO worker does with the head of  *)
(* its chain before it frees it.                                              *)
LEMMA IoHeadInv ==
  ASSUME Inv, IoClear \/ IoLoad \/ (IoTest /\ Referenced(Head(io.chain))) PROVE Inv'
<1>b. USE Basics, ThreadFacts
<1>1. /\ io.chain # <<>> /\ io.pc \in {"drop", "test", "load"}
      /\ UNCHANGED <<slot, row, refs, lost, req, queue, current, wake, worker, nav, gui, disk,
                     budget>>
  BY DEF IoClear, IoLoad, IoTest, Dropping, cacheVars, queueVars, menuVars, Inv, PlaceInv,
         ThreadsInv, Returning
<1>2. PICK q \in Reqs : q = Head(io.chain) /\ Whole(q) /\ q \in Held /\ q # worker.req
  BY <1>1, ChainHead
<1>3. PICK i \in Slots : i = req[q].slot
  BY <1>2 DEF Whole
<1>4. PICK pc \in {"clear", "test", "load", "deref"} :
        /\ \/ pc = "clear" /\ io' = [io EXCEPT !.pc = pc, !.store = 1]
           \/ pc \in {"test", "load"} /\ io' = [io EXCEPT !.pc = pc]
           \/ pc = "deref" /\ io' = [io EXCEPT !.pc = pc, !.loaded = refs]
        /\ pc = "clear" => InCache(q) /\ slot[i].qr = q
        /\ pc = "test" => ~(InCache(q) /\ slot[i].qr = q)
        /\ pc \in {"load", "deref"} => io.pc \in Returning
  BY <1>2, <1>3 DEF IoClear, IoLoad, IoTest, IoGoto, Entry, Returning
<1>5. /\ io' \in IoState /\ io'.pc = pc /\ io'.chain = io.chain /\ io'.keep = io.keep
      /\ pc = "clear" => io'.store = 1
  <2>1. PICK n \in 0 .. LastStore : n = 1
    BY DEF LastStore
  <2>2. refs \in Int
    BY DEF Inv, TypeOK
  <2>3. CASE pc = "clear"
    <3>1. io' = [io EXCEPT !.pc = "clear", !.store = n]
      BY <1>4, <2>1, <2>3
    <3> QED
      BY <2>1, <2>3, <3>1 DEF IoState
  <2>4. CASE pc \in {"test", "load"}
    BY <1>4, <2>4 DEF IoState
  <2>5. CASE pc = "deref"
    BY <1>4, <2>2, <2>5 DEF IoState
  <2> QED
    BY <2>3, <2>4, <2>5
<1>6. Held' = Held
  BY <1>1, <1>5 DEF Held
<1>7. gui = "menu" /\ pc # "clear" => \A j \in Slots : ~Filling(j, q)
  <2>1. CASE pc = "test"
    BY <1>3, <1>4, <2>1 DEF Inv, PointerInv, Filling
  <2>2. CASE pc \in {"load", "deref"}
    BY <1>2, <1>4, <2>2 DEF Inv, PointerInv
  <2> QED
    BY <2>1, <2>2
<1>8. \A j \in Slots : IoClears(j)' => slot[j].qr \notin {0, worker.req}
  BY <1>1, <1>2, <1>3, <1>4, <1>5 DEF IoClears
<1>9. /\ IsInjective(queue') /\ IsInjective(io'.chain) /\ IsInjective(io'.keep)
      /\ ToSet(queue') \cap ToSet(io'.chain) = {} /\ ToSet(queue') \cap ToSet(io'.keep) = {}
      /\ ToSet(io'.chain) \cap ToSet(io'.keep) = {}
      /\ wake' \in BOOLEAN /\ budget' \in 0 .. Events
      /\ \A p \in Reqs : req'[p].stamped <=> p \in ToSet(queue')
  BY <1>1, <1>5 DEF Inv, TypeOK, PlaceInv, QueuesInv
<1>10. /\ gui = "menu" /\ io'.pc \in Returning => \A j \in Slots : ~Filling(j, Head(io'.chain))
       /\ io'.pc \in {"clear"} \cup Returning
  BY <1>2, <1>4, <1>5, <1>7 DEF Returning
<1> QED
  BY <1>1, <1>5, <1>6, <1>8, <1>9, <1>10, IoShift

LEMMA IoClearedInv == ASSUME Inv, IoCleared PROVE Inv'
<1>b. USE Basics, ThreadFacts
<1>1. /\ UNCHANGED <<refs, lost, req, queue, current, wake, worker, nav, gui, disk, budget>>
      /\ io.pc = "clear" /\ ClearStore(Head(io.chain), io.store)
      /\ io' = IF io.store < 7 THEN [io EXCEPT !.store = @ + 1]
               ELSE [io EXCEPT !.pc = "test", !.store = 0]
  BY DEF IoCleared, queueVars, menuVars, LastStore
<1>2. Head(io.chain) \in Reqs /\ Whole(Head(io.chain)) /\ io.store # 0
  BY <1>1 DEF Inv, PlaceInv, ThreadsInv
<1>3. io.store \in 1 .. 7
  BY <1>2 DEF IoState, LastStore
<1>4. /\ io' \in IoState /\ io'.chain = io.chain /\ io'.keep = io.keep
      /\ \/ io.store = 7 /\ io'.pc = "test"
         \/ io.store < 7 /\ io'.pc = "clear" /\ io'.store = io.store + 1
  <2>1. CASE io.store = 7
    <3>1. io' = [io EXCEPT !.pc = "test", !.store = 0] /\ 0 \in 0 .. 7
      BY <1>1, <2>1
    <3> QED
      BY <2>1, <3>1 DEF IoState, LastStore
  <2>2. CASE io.store < 7
    <3>1. io.store + 1 \in 0 .. 7
      BY <1>3, <2>2
    <3>2. io' = [io EXCEPT !.store = io.store + 1]
      BY <1>1, <2>2
    <3>3. io' \in IoState
      BY <3>1, <3>2 DEF IoState, LastStore
    <3> QED
      BY <1>1, <2>2, <3>2, <3>3 DEF IoState
  <2> QED
    BY <1>3, <2>1, <2>2
<1> QED
  BY <1>1, <1>2, <1>3, <1>4, StoreInv

LEMMA DropHeadFacts ==
  ASSUME io \in IoState, NEW chain \in Seq(Reqs),
         io' = [io EXCEPT !.pc = "drop", !.chain = chain, !.loaded = 0]
  PROVE  io' \in IoState /\ io'.pc = "drop" /\ io'.chain = chain /\ io'.keep = io.keep
<1>1. PICK n \in Int : n = 0
  OBVIOUS
<1>2. io' = [io EXCEPT !.pc = "drop", !.chain = chain, !.loaded = n]
  BY <1>1
<1> QED
  BY <1>2 DEF IoState

(* The head of the chain is freed: no slot points to it any more.             *)
LEMMA IoDerefInv ==
  ASSUME Inv, IoDeref \/ (IoTest /\ ~Referenced(Head(io.chain))) PROVE Inv'
<1>b. USE Basics, ThreadFacts
<1>1. /\ io.pc \in Returning /\ io.chain # <<>>
      /\ req' = [req EXCEPT ![Head(io.chain)] = Gone]
      /\ io' = [io EXCEPT !.pc = "drop", !.chain = Tail(io.chain), !.loaded = 0]
      /\ UNCHANGED <<slot, row, queue, current, wake, worker, nav, gui, disk, budget>>
  BY DEF IoDeref, IoTest, IoFrees, cacheVars, menuVars, Inv, PlaceInv, ThreadsInv, Returning
<1>2. PICK q \in Reqs : /\ q = Head(io.chain) /\ q \in ToSet(io.chain)
                        /\ q # worker.req /\ q # current
                        /\ q \notin ToSet(queue) /\ q \notin ToSet(io.keep)
                        /\ Tail(io.chain) \in Seq(Reqs) /\ IsInjective(Tail(io.chain))
                        /\ ToSet(Tail(io.chain)) = ToSet(io.chain) \ {q}
  BY <1>1, ChainHead
<1>3. refs' \in Int /\ lost' \in BOOLEAN
  <2>1. refs \in Int /\ lost \in BOOLEAN /\ io.loaded \in Int
    BY DEF Inv, TypeOK, IoState
  <2>2. CASE IoDeref
    <3>1. Decremented(Head(io.chain), io.loaded)
      BY <2>2 DEF IoDeref
    <3>2. lost' \in BOOLEAN
      BY <3>1 DEF Decremented
    <3>3. refs' \in Int
      BY <2>1, <3>1 DEF Decremented
    <3> QED
      BY <3>2, <3>3
  <2>3. CASE IoTest
    BY <2>1, <2>3 DEF IoTest, cacheVars
  <2> QED
    BY <2>2, <2>3
<1>4. /\ req' \in [Reqs -> RequestState] /\ req'[q] = Gone
      /\ \A p \in Reqs \ {q} : req'[p] = req[p]
  BY <1>1, <1>2, GoneFacts
<1>5. /\ io' \in IoState /\ io'.pc = "drop" /\ io'.chain = Tail(io.chain)
      /\ io'.keep = io.keep
  BY <1>1, <1>2, DropHeadFacts
<1>6. Held' = Held \ {q}
  BY <1>1, <1>2, <1>5 DEF Held
<1>7. TypeOK'
  BY <1>1, <1>3, <1>4, <1>5 DEF Inv, TypeOK
<1>8. QueuesInv'
  <2>1. IsInjective(io'.chain) /\ ToSet(io'.chain) = ToSet(io.chain) \ {q}
    BY <1>2, <1>5
  <2>2. \A p \in Held' : Whole(p)'
    BY <1>4, <1>6 DEF Inv, PlaceInv, QueuesInv, Whole, Alive
  <2>3. \A p \in Reqs : req'[p].stamped <=> p \in ToSet(queue)
    BY <1>2, <1>4, GoneFacts DEF Inv, PlaceInv, QueuesInv
  <2> QED
    BY <2>1, <2>2, <2>3, <1>1, <1>2, <1>5, <1>6 DEF Inv, PlaceInv, QueuesInv
<1>9. ThreadsInv'
  BY <1>1, <1>2, <1>4, <1>5 DEF Inv, PlaceInv, ThreadsInv, Whole, Alive, Returning
<1>n. \A p \in Reqs \ {q} : /\ InCache(p)' = InCache(p) /\ (Waits(p)' => Waits(p))
                            /\ req'[p] = req[p]
  BY <1>1, <1>4, <1>6 DEF InCache, Waits
<1>m. /\ \A j \in Slots, p \in Reqs : Filling(j, p)' = Filling(j, p)
      /\ \A j \in Slots : WorkerClears(j)' = WorkerClears(j) /\ ~IoClears(j) /\ ~IoClears(j)'
  BY <1>1, <1>2, <1>4, <1>5 DEF Filling, WorkerClears, IoClears, InCache, Returning, Holding
<1>10. PointerInv'
  <2>1. gui = "menu" => \A j \in Slots : ~Filling(j, q)
    BY <1>1, <1>2 DEF Inv, PointerInv
  <2>2. ASSUME gui = "menu", NEW j \in Slots, slot[j].qr # 0, slot[j].uid # 0
        PROVE  /\ slot[j].uid = slot[j].qr
               /\ InCache(slot[j].qr)' /\ req'[slot[j].qr].slot = j
    <3>1. /\ slot[j].uid = slot[j].qr /\ slot[j].qr \in Reqs
          /\ InCache(slot[j].qr) /\ req[slot[j].qr].slot = j
      BY <2>2 DEF Inv, PointerInv
    <3>2. slot[j].qr # q
      BY <2>1, <2>2, <3>1 DEF Filling
    <3> QED
      BY <3>1, <3>2, <1>1, <1>4 DEF InCache
  <2>3. gui = "menu" /\ worker.pc \in {"release"} \cup Returning =>
          \A j \in Slots : ~Filling(j, worker.req)
    BY DEF Inv, PointerInv
  <2>4. io'.pc \notin Returning
    BY <1>5 DEF Returning
  <2> QED
    BY <2>2, <2>3, <2>4, <1>1 DEF PointerInv, InCache, Filling
<1>11. OwnerInv'
  <2>1. ASSUME NEW p \in Reqs, Waits(p)', InCache(p)', Entry(p)'.uid = p
        PROVE  Entry(p)'.qr = p \/ WorkerClears(req[p].slot)'
    <3>1. p # q
      BY <1>4, <2>1, GoneFacts DEF InCache
    <3>2. Waits(p) /\ InCache(p) /\ Entry(p)' = Entry(p) /\ req'[p].slot = req[p].slot
      BY <2>1, <3>1, <1>1, <1>n DEF Entry
    <3>3. req[p].slot \in Slots
      BY <3>2 DEF Inv, PlaceInv, QueuesInv, Waits, Whole, Holding
    <3>4. Entry(p).qr = p \/ WorkerClears(req[p].slot)
      BY <2>1, <3>2, <3>3, <1>m DEF Inv, OwnerInv
    <3>5. WorkerClears(req[p].slot) => WorkerClears(req[p].slot)'
      BY <3>2, <1>1, <1>2, <1>n DEF WorkerClears, Holding
    <3> QED
      BY <3>2, <3>4, <3>5
  <2>2. ASSUME worker.pc \in {"read", "handoff"}, InCache(worker.req)'
        PROVE  Filling(req[worker.req].slot, worker.req)' /\ ~IoClears(req[worker.req].slot)'
    <3>1. worker.req \in Reqs \ {q} /\ req[worker.req].slot \in Slots
      BY <2>2, <1>2 DEF Holding, Whole
    <3>2. InCache(worker.req) /\ req'[worker.req].slot = req[worker.req].slot
      BY <2>2, <3>1, <1>n, <1>1 DEF InCache
    <3> QED
      BY <2>2, <3>1, <3>2, <1>1, <1>5 DEF Inv, OwnerInv, Filling, IoClears
  <2> QED
    BY <2>1, <2>2, <1>1, <1>5 DEF OwnerInv, WorkerClears
<1>12. PictureInv'
  <2>1. ASSUME NEW j \in Slots, NEW p \in Reqs, Filling(j, p)', InCache(p)', req'[p].slot = j
        PROVE  /\ slot[j].key \in {KeyOf(req'[p].row), NoRow}
               /\ \A r \in Rows : row[r] = j => r = req'[p].row
    <3>1. p # q
      BY <1>4, <2>1, GoneFacts DEF InCache
    <3>2. Filling(j, p) /\ InCache(p) /\ req[p].slot = j /\ req'[p] = req[p]
      BY <2>1, <3>1, <1>n, <1>m
    <3> QED
      BY <3>2 DEF Inv, PictureInv
  <2> QED
    BY <2>1, <1>1, <1>m DEF Inv, PictureInv, KeyOf
<1>13. MemoInv'
  <2>1. \A j \in Slots : slot[j].now /\ slot[j].qr # 0 => worker.pc = "handoff" /\ Filled(j)'
    <3> SUFFICES ASSUME NEW j \in Slots, slot[j].now, slot[j].qr # 0
                 PROVE  worker.pc = "handoff" /\ Filled(j)'
      OBVIOUS
    <3>1. worker.pc = "handoff" /\ Filled(j)
      BY DEF Inv, MemoInv
    <3>2. worker.req \in Reqs \ {q}
      BY <3>1, <1>2 DEF Holding
    <3> QED
      BY <3>1, <3>2, <1>1, <1>4 DEF Filled, InCache
  <2>2. worker.pc = "read" => worker.req \in Reqs \ {q}
    BY <1>2 DEF Holding
  <2> QED
    BY <2>1, <2>2, <1>1, <1>4, <1>m DEF Inv, MemoInv
<1> QED
  BY <1>7, <1>8, <1>9, <1>10, <1>11, <1>12, <1>13 DEF Inv, PlaceInv

-----------------------------------------------------------------------------
LEMMA GuiInv == ASSUME Inv, GuiStep \/ Frame PROVE Inv'
<1>1. ASSUME NEW r \in Rows, NEW light \in Highlights, Draw(r, light) PROVE Inv'
  BY <1>1, DrawAbsentInv, DrawLoadingInv, DrawParkInv, DrawReadyInv, DrawRefusedInv,
     DrawMissInv DEF Draw
<1>2. ASSUME NEW r \in Rows,
             cacheLookupTexture(r) \/ RowReborn(r) \/ cacheInvalidateFailMemo(r)
      PROVE  Inv'
  BY <1>2, LookupInv, RowRebornInv, InvalidateInv
<1>3. ASSUME NEW i \in Slots, Age(i) PROVE Inv'
  BY <1>3, AgeInv
<1>4. ASSUME NEW held \in BOOLEAN, cacheTickArt(held) PROVE Inv'
  BY <1>4, TickInv
<1>5. CASE cacheDropQueuedArt \/ CacheEndJoin \/ GuiDestroy
  BY <1>5, DropViewInv, JoinInv, DestroysInv
<1>6. CASE GuiCancel \/ GuiAbortSio2 \/ cacheShutdownArtLoads \/ CacheEndBegin
  BY <1>6, GuiDropsInv, GuiAbortSio2Inv
<1> QED
  BY <1>1, <1>2, <1>3, <1>4, <1>5, <1>6 DEF GuiStep, Frame

LEMMA StepInv == Inv /\ [Next]_vars => Inv'
<1> SUFFICES ASSUME Inv, [Next]_vars PROVE Inv'
  OBVIOUS
<1>1. CASE GuiStep \/ Frame
  BY <1>1, GuiInv
<1>2. CASE WorkerStep
  BY <1>2, WorkerInv
<1>3. CASE IoStep
  BY <1>3, KeepInv, IoHeadInv, IoClearedInv, IoDerefInv, RepushInv, IoTurnsInv, DestroysInv DEF IoStep
<1>4. CASE \E op \in IoOps : IoBegin(op)
  BY <1>4, IoTurnsInv
<1>5. CASE UNCHANGED vars
  BY <1>5 DEF vars, cacheVars, queueVars, menuVars, Inv, TypeOK, PlaceInv, QueuesInv,
     ThreadsInv, PointerInv, OwnerInv, PictureInv, MemoInv, Whole, Alive, InCache, Entry,
     Held, Waits, Filling, Filled, WorkerClears, IoClears, KeyOf
<1> QED
  BY <1>1, <1>2, <1>3, <1>4, <1>5 DEF Next

-----------------------------------------------------------------------------
(* Two sequences that share nothing, one after the other                      *)

LEMMA JoinedFacts ==
  ASSUME NEW s \in Seq(Reqs), NEW t \in Seq(Reqs), IsInjective(s), IsInjective(t),
         ToSet(s) \cap ToSet(t) = {}
  PROVE  /\ s \o t \in Seq(Reqs) /\ IsInjective(s \o t)
         /\ ToSet(s \o t) = ToSet(s) \cup ToSet(t)
<1> DEFINE u == s \o t
<1>1. /\ u \in Seq(Reqs) /\ Len(u) = Len(s) + Len(t)
      /\ \A i \in 1 .. Len(s) + Len(t) : u[i] = IF i <= Len(s) THEN s[i] ELSE t[i - Len(s)]
  BY ConcatProperties
<1>2. /\ Len(s) \in Nat /\ Len(t) \in Nat /\ DOMAIN s = 1 .. Len(s) /\ DOMAIN t = 1 .. Len(t)
      /\ DOMAIN u = 1 .. Len(s) + Len(t)
  BY <1>1, LenProperties
<1> HIDE DEF u
<1>3. \A i \in DOMAIN s : i \in DOMAIN u /\ u[i] = s[i]
  BY <1>1, <1>2
<1>4. \A i \in DOMAIN u \ DOMAIN s : i - Len(s) \in DOMAIN t /\ u[i] = t[i - Len(s)]
  BY <1>1, <1>2
<1>5. IsInjective(u)
  <2> SUFFICES ASSUME NEW i \in DOMAIN u, NEW j \in DOMAIN u, u[i] = u[j] PROVE i = j
    BY DEF IsInjective
  <2>1. CASE i \in DOMAIN s /\ j \in DOMAIN s
    BY <2>1, <1>3 DEF IsInjective
  <2>2. CASE i \notin DOMAIN s /\ j \notin DOMAIN s
    <3>1. i - Len(s) = j - Len(s)
      BY <2>2, <1>4 DEF IsInjective
    <3> QED
      BY <3>1, <1>2
  <2>3. \A k \in DOMAIN s, l \in DOMAIN t : s[k] # t[l]
    BY DEF ToSet
  <2>4. ~((i \in DOMAIN s) # (j \in DOMAIN s))
    BY <2>3, <1>3, <1>4
  <2> QED
    BY <2>1, <2>2, <2>4
<1>6. ToSet(u) = ToSet(s) \cup ToSet(t)
  <2>1. \A i \in DOMAIN u : u[i] \in ToSet(s) \cup ToSet(t)
    BY <1>3, <1>4 DEF ToSet
  <2>2. \A i \in DOMAIN s : s[i] \in ToSet(u)
    BY <1>3 DEF ToSet
  <2>3. ASSUME NEW i \in DOMAIN t PROVE t[i] \in ToSet(u)
    <3>1. /\ i + Len(s) \in DOMAIN u /\ ~(i + Len(s) <= Len(s))
          /\ (i + Len(s)) - Len(s) = i
      BY <1>2
    <3>2. u[i + Len(s)] = t[i]
      BY <3>1, <1>1, <1>2
    <3> QED
      BY <3>1, <3>2 DEF ToSet
  <2> QED
    BY <2>1, <2>2, <2>3 DEF ToSet
<1> QED
  BY <1>1, <1>5, <1>6 DEF u

LEMMA InvOnePlace == Inv => OnePlace
<1> SUFFICES ASSUME Inv PROVE OnePlace
  OBVIOUS
<1>b. USE Basics
<1>1. /\ IsInjective(queue) /\ IsInjective(io.chain) /\ IsInjective(io.keep)
      /\ ToSet(queue) \cap ToSet(io.chain) = {} /\ ToSet(queue) \cap ToSet(io.keep) = {}
      /\ ToSet(io.chain) \cap ToSet(io.keep) = {} /\ worker.req \notin Held
      /\ \A q \in Held : Whole(q)
  BY DEF Inv, PlaceInv, QueuesInv
<1>2. /\ queue \o io.chain \in Seq(Reqs) /\ IsInjective(queue \o io.chain)
      /\ ToSet(queue \o io.chain) = ToSet(queue) \cup ToSet(io.chain)
  BY <1>1, JoinedFacts
<1>3. ToSet(queue \o io.chain) \cap ToSet(io.keep) = {}
  BY <1>1, <1>2
<1> DEFINE held == queue \o io.chain \o io.keep
<1>4. IsInjective(held) /\ ToSet(held) = Held
  BY <1>1, <1>2, <1>3, JoinedFacts DEF Held
<1>5. current \notin Held /\ \A q \in Held \cup ({current} \ {0}) : Alive(q)
  BY <1>1, ThreadFacts DEF Whole
<1> HIDE DEF held
<1>6. IsInjective(held) /\ current \notin ToSet(held)
      /\ \A q \in ToSet(held) \cup ({current} \ {0}) : Alive(q)
  BY <1>4, <1>5
<1> QED
  BY <1>6 DEF OnePlace, held

LEMMA InvRightPicture == Inv => RightPicture
<1> SUFFICES ASSUME Inv, NEW r \in Rows, Found(r) # NoSlot
             PROVE  slot[Found(r)].tex \in {r, NoRow}
  BY DEF RightPicture
<1> QED
  BY FoundFits DEF Fits

LEMMA InvAlways == Spec => []Inv
<1>1. Init => Inv
  BY InitInv
<1>2. Inv /\ [Next]_vars => Inv'
  BY StepInv
<1> QED
  BY <1>1, <1>2, PTL DEF Spec

(* A request is in one place only, and none of the three holds a freed one.   *)
THEOREM ArtOnePlace == Spec => []OnePlace
<1>1. Inv => OnePlace
  BY InvOnePlace
<1> QED
  BY <1>1, InvAlways, PTL

(* While the menu draws, entry->qr of a slot that has a UID never points to a *)
(* request that was freed, wherever in cacheClearItem the GUI thread came in. *)
THEOREM ArtQrLive == Spec => []QrLive
<1>1. Inv => QrLive
  BY DEF Inv, PointerInv, QrLive
<1> QED
  BY <1>1, InvAlways, PTL

(* No row is ever shown the picture of another one, although slots change     *)
(* hands between any two stores of cacheClearItem.                            *)
THEOREM ArtRightPicture == Spec => []RightPicture
<1>1. Inv => RightPicture
  BY InvRightPicture
<1> QED
  BY <1>1, InvAlways, PTL

(* A remembered absence is one of the device as it is.                        *)
THEOREM ArtMemoHonest == Spec => []MemoHonest
<1>1. Inv => MemoHonest
  BY DEF Inv, MemoInv, MemoHonest
<1> QED
  BY <1>1, InvAlways, PTL

-----------------------------------------------------------------------------
(* cache->activeRequests, as long as no decrement undid another update of it  *)

LEMMA LiveFacts ==
  /\ IsFiniteSet(Live) /\ Cardinality(Live) \in Nat /\ Cardinality(Live) <= NReqs
  /\ Live = {} <=> Cardinality(Live) = 0
<1>1. Live \subseteq Reqs
  BY DEF Live
<1>2. IsFiniteSet(Live) /\ Cardinality(Live) <= NReqs
  BY <1>1, ReqsFinite, FS_Subset
<1> QED
  BY <1>2, FS_CardinalityType, FS_EmptySet

SameCaches == \A q \in Reqs : req'[q].cache = req[q].cache

LEMMA SoftCaches == ASSUME Soft(req') PROVE SameCaches
  BY DEF Soft, Same, SameCaches

LEMMA SameCount ==
  ASSUME Counted, SameCaches, refs' = refs, gui' = "menu" => gui = "menu"
  PROVE  Counted'
<1>1. Live' = Live
  BY DEF Live, InCache, SameCaches
<1> QED
  BY <1>1 DEF Counted, SameCaches

(* Steps that allocate and free no request.                                   *)
LEMMA GuiSameCount ==
  ASSUME Inv, Counted,
         \/ \E r \in Rows, light \in Highlights :
              \/ DrawAbsent(r, light) \/ DrawLoading(r, light) \/ DrawPark(r, light)
              \/ DrawReady(r, light) \/ DrawRefused(r, light)
         \/ \E r \in Rows : \/ cacheLookupTexture(r) \/ RowReborn(r)
                            \/ cacheInvalidateFailMemo(r)
         \/ \E i \in Slots : Age(i)
         \/ \E held \in BOOLEAN : cacheTickArt(held)
         \/ cacheDropQueuedArt \/ CacheEndJoin
  PROVE  Counted'
<1>1. TypeOK
  BY DEF Inv
<1>3. ASSUME NEW r \in Rows, NEW light \in Highlights,
             \/ DrawAbsent(r, light) \/ DrawPark(r, light) \/ DrawReady(r, light)
             \/ DrawRefused(r, light)
      PROVE  Counted'
  <2>1. req' = Focused(light) \/ req' = AbortOthers(r, Focused(light))
    BY <1>3 DEF DrawAbsent, DrawPark, DrawReady, DrawRefused
  <2>2. SameCaches
    BY <1>1, <2>1, FocusedFacts, AbortOthersFacts, SoftCaches
  <2>3. UNCHANGED <<refs, gui>>
    BY <1>3 DEF DrawAbsent, DrawPark, DrawReady, DrawRefused, cacheVars
  <2> QED
    BY <2>2, <2>3, SameCount
<1>4. ASSUME NEW r \in Rows, NEW light \in Highlights, DrawLoading(r, light)
      PROVE  Counted'
  <2>1. PICK q : q = slot[Found(r)].qr
    OBVIOUS
  <2>2. q \in Reqs
    BY <1>1, <1>4, <2>1, FoundFits, Basics DEF DrawLoading, Loading
  <2>3. req' = [Focused(light) EXCEPT ![q].focus = Alive(q)]
    BY <1>4, <2>1 DEF DrawLoading
  <2>4. Alive(q) \in BOOLEAN
    BY DEF Alive
  <2>5. SameCaches
    BY <1>1, <2>2, <2>3, <2>4, FocusedFacts, AdoptFacts, SoftCaches
  <2> QED
    BY <1>4, <2>5, SameCount DEF DrawLoading
<1>5. ASSUME NEW r \in Rows, cacheInvalidateFailMemo(r) PROVE Counted'
  <2>1. req' = [q \in Reqs |-> [req[q] EXCEPT !.now = FALSE]]
    BY <1>5 DEF cacheInvalidateFailMemo
  <2>2. SameCaches
    BY <1>1, <2>1, NowFields DEF SameCaches, Same, TypeOK
  <2> QED
    BY <1>5, <2>2, SameCount DEF cacheInvalidateFailMemo, menuVars
<1>6. CASE cacheDropQueuedArt
  <2>1. req' = [q \in Reqs |-> [req[q] EXCEPT !.view = FALSE]]
    BY <1>6 DEF cacheDropQueuedArt
  <2>2. SameCaches
    BY <1>1, <2>1, ViewFields DEF SameCaches, Same, Softly, TypeOK
  <2> QED
    BY <1>6, <2>2, SameCount DEF cacheDropQueuedArt, cacheVars, menuVars
<1>7. CASE \/ \E r \in Rows : cacheLookupTexture(r) \/ RowReborn(r)
           \/ \E i \in Slots : Age(i)
           \/ \E held \in BOOLEAN : cacheTickArt(held)
           \/ CacheEndJoin
  <2>1. UNCHANGED <<req, refs>> /\ (gui' = "menu" => gui = "menu")
    BY <1>7 DEF cacheLookupTexture, RowReborn, Age, cacheTickArt, CacheEndJoin, cacheVars,
       queueVars, menuVars
  <2> QED
    BY <2>1, SameCount DEF SameCaches
<1> QED
  BY <1>3, <1>4, <1>5, <1>6, <1>7

LEMMA WorkerSameCount ==
  ASSUME Inv, Counted,
         \/ WorkerSleep \/ artPopNone \/ artPop \/ WorkerCheck \/ WorkerFill \/ WorkerFail
         \/ WorkerHandoff \/ WorkerClear \/ WorkerRelease \/ WorkerLoad \/ WorkerEnd
         \/ (WorkerTest /\ Referenced(worker.req))
  PROVE  Counted'
<1>b. USE Basics
<1>1. UNCHANGED <<refs, gui>>
  BY DEF WorkerSleep, artPopNone, artPop, WorkerCheck, WorkerFill, WorkerFail, WorkerHandoff,
     WorkerClear, WorkerRelease, WorkerTest, WorkerLoad, WorkerEnd, cacheVars, menuVars
<1>2. CASE \/ WorkerSleep \/ artPopNone \/ WorkerCheck \/ WorkerFill \/ WorkerFail
           \/ WorkerHandoff \/ WorkerClear \/ WorkerLoad \/ WorkerEnd
           \/ (WorkerTest /\ Referenced(worker.req))
  <2>1. req' = req
    BY <1>2 DEF WorkerSleep, artPopNone, WorkerCheck, WorkerFill, WorkerFail, WorkerHandoff,
       WorkerClear, WorkerTest, WorkerLoad, WorkerEnd, queueVars
  <2> QED
    BY <1>1, <2>1, SameCount DEF SameCaches
<1>3. CASE artPop
  <2>1. queue # <<>> /\ req' = [req EXCEPT ![Head(queue)].stamped = FALSE]
    BY <1>3 DEF artPop, Deferred
  <2>2. Head(queue) \in Reqs
    BY <2>1, TailFacts
  <2>3. SameCaches
    BY <2>1, <2>2 DEF SameCaches, RequestState
  <2> QED
    BY <1>1, <2>3, SameCount
<1>4. CASE WorkerRelease
  <2>1. req' = [req EXCEPT ![worker.req] = [Gone EXCEPT !.cache = req[worker.req].cache]]
    BY <1>4 DEF WorkerRelease
  <2>2. worker.req \in Reqs
    BY <1>4, ThreadFacts DEF WorkerRelease, Inv, PlaceInv, ThreadsInv, Holding
  <2>3. SameCaches
    BY <2>1, <2>2 DEF SameCaches, RequestState, Gone
  <2> QED
    BY <1>1, <2>3, SameCount
<1> QED
  BY <1>2, <1>3, <1>4

LEMMA IoSameCount ==
  ASSUME Inv, Counted,
         \/ IoKeep \/ IoClear \/ IoCleared \/ IoLoad \/ IoRepush \/ IoWake \/ IoWaited
         \/ IoList \/ IoLock \/ (IoTest /\ Referenced(Head(io.chain)))
         \/ \E op \in IoOps : IoBegin(op)
  PROVE  Counted'
<1>b. USE Basics
<1>1. UNCHANGED <<refs, gui>>
  BY DEF IoKeep, IoClear, IoCleared, IoTest, IoLoad, IoRepush, IoWake, IoWaited, IoList,
     IoLock, IoBegin, cacheVars, menuVars
<1>2. \A op, all : IoDetach(op, all) => SameCaches
  BY FlagCurrentFacts, DetachFacts, SoftCaches DEF IoDetach, Inv
<1>3. SameCaches
  <2>1. CASE \/ IoKeep \/ IoClear \/ IoCleared \/ IoLoad \/ IoWake \/ IoList
             \/ (IoTest /\ Referenced(Head(io.chain)))
    <3>1. req' = req
      BY <2>1 DEF IoKeep, IoClear, IoCleared, IoTest, IoLoad, IoWake, IoList, queueVars
    <3> QED
      BY <3>1 DEF SameCaches
  <2>2. CASE IoWaited \/ \E op \in IoOps : IoBegin(op)
    BY <1>2, <2>2 DEF IoWaited, IoBegin, SameCaches
  <2>3. CASE IoLock
    <3>1. req' = req \/ req' = FlagCurrent(InCache(current))
      BY <2>3 DEF IoLock
    <3> QED
      BY <3>1, FlagCurrentFacts, SoftCaches DEF SameCaches, Inv
  <2>4. CASE IoRepush
    <3>1. io.keep # <<>> /\ req' = [req EXCEPT ![Head(io.keep)].stamped = TRUE]
      BY <2>4 DEF IoRepush
    <3>2. Head(io.keep) \in Reqs
      BY <3>1, TailFacts
    <3> QED
      BY <3>1, <3>2 DEF SameCaches, RequestState
  <2> QED
    BY <2>1, <2>2, <2>3, <2>4
<1> QED
  BY <1>1, <1>3, SameCount

(* A request is allocated, and with it a reference is taken.                  *)
LEMMA MissCount ==
  ASSUME Inv, Counted, NEW r \in Rows, NEW light \in Highlights, DrawMiss(r, light)
  PROVE  Counted'
<1>b. USE Basics
<1>1. PICK i \in Slots, q \in Reqs :
        /\ ~Alive(q)
        /\ req' = [AbortOthers(r, Focused(light)) EXCEPT ![q] = NewRequest(r, i)]
  BY VictimFacts DEF DrawMiss
<1>2. gui = "menu" /\ refs' = refs + 1
  BY DEF DrawMiss, Drawing
<1> DEFINE f == AbortOthers(r, Focused(light))
<1>3. Soft(f)
  BY FocusedFacts, AbortOthersFacts DEF Inv
<1>4. req' = [f EXCEPT ![q] = NewRequest(r, i)]
  BY <1>1
<1> HIDE DEF f
<1>5. req'[q].cache = "live" /\ \A p \in Reqs \ {q} : req'[p].cache = req[p].cache
  BY <1>3, <1>4 DEF Soft, Same, NewRequest
<1>6. Live' = Live \cup {q} /\ q \notin Live
  BY <1>1, <1>5 DEF Live, InCache, Alive
<1>7. Cardinality(Live \cup {q}) = Cardinality(Live) + 1
  BY <1>6, LiveFacts, FS_AddElement
<1>8. \A p \in Reqs : req'[p].cache # "freed"
  BY <1>5 DEF Counted
<1>9. Cardinality(Live') = refs' /\ refs \in Int
  BY <1>2, <1>6, <1>7 DEF Counted, Inv, TypeOK
<1>10. refs' \in Int
  BY <1>2, <1>9
<1> QED
  BY <1>8, <1>9, <1>10 DEF Counted

(* Requests are dropped, each with its reference.                             *)
LEMMA FreeCount ==
  ASSUME Inv, Counted, NEW f, Soft(f), NEW Q, Q \subseteq Reqs, FreeChain(f, Q),
         gui' = "menu" => gui = "menu"
  PROVE  Counted'
<1> DEFINE L == Live \cap Q
<1>1. req' = [q \in Reqs |-> IF q \in Q THEN Gone ELSE f[q]]
  BY DEF FreeChain
<1>2. /\ \A q \in Q : req'[q].cache = "gone"
      /\ \A q \in Reqs \ Q : req'[q].cache = req[q].cache
  BY <1>1, GoneFacts DEF Soft, Same
<1>3. Live' = Live \ Q
  BY <1>2 DEF Live, InCache
<1>4. {q \in Q : InCache(q)} = L
  BY DEF Live
<1>5. refs' = IF refs > Cardinality(L) THEN refs - Cardinality(L)
              ELSE IF refs > 0 THEN 0 ELSE refs
  BY <1>4 DEF FreeChain
<1>6. /\ Cardinality(Live \ Q) = Cardinality(Live) - Cardinality(L)
      /\ IsFiniteSet(L) /\ Cardinality(L) <= Cardinality(Live)
  BY LiveFacts, FS_Difference, FS_Intersection
<1>7. Cardinality(L) \in Nat
  BY <1>6, FS_CardinalityType
<1>8. \A p \in Reqs : req'[p].cache # "freed"
  BY <1>2 DEF Counted
<1> HIDE DEF L
<1>9. PICK n \in Nat, c \in Nat, d \in Int : n = Cardinality(L) /\ c = Cardinality(Live)
                                            /\ d = Cardinality(Live') /\ d = c - n /\ n <= c
  BY <1>3, <1>6, <1>7, LiveFacts
<1>10. refs \in Int /\ c <= refs /\ (gui = "menu" => refs = c)
  BY <1>9 DEF Counted, Inv, TypeOK
<1>11. d <= refs' /\ (gui = "menu" => refs' = d)
  BY <1>5, <1>9, <1>10
<1> QED
  BY <1>8, <1>9, <1>11 DEF Counted

LEMMA GuiFreesCount ==
  ASSUME Inv, Counted, GuiCancel \/ GuiAbortSio2 \/ cacheShutdownArtLoads \/ CacheEndBegin
  PROVE  Counted'
<1>b. USE Basics
<1>1. CASE GuiCancel \/ cacheShutdownArtLoads \/ CacheEndBegin
  <2> DEFINE f == artDetachAll(FlagCurrent(TRUE))
  <2>1. Soft(f)
    BY FlagCurrentFacts, DetachFacts DEF Inv
  <2>2. FreeChain(f, ToSet(queue)) /\ (gui' = "menu" => gui = "menu")
    BY <1>1 DEF GuiCancel, cacheShutdownArtLoads, CacheEndBegin, menuVars
  <2> HIDE DEF f
  <2> QED
    BY <2>1, <2>2, ThreadFacts, FreeCount
<1>2. CASE GuiAbortSio2
  <2> DEFINE K == {q \in ToSet(queue) : ~OnSio2(q)}
             f == Restamped(artDetachAll(FlagCurrent(OnSio2(current))), K)
  <2>1. Soft(f)
    BY FlagCurrentFacts, DetachFacts, RestampedFacts DEF Inv
  <2>2. FreeChain(f, ToSet(queue) \ K) /\ UNCHANGED gui
    BY <1>2 DEF GuiAbortSio2, Restamped, menuVars
  <2> HIDE DEF f, K
  <2> QED
    BY <2>1, <2>2, ThreadFacts, FreeCount
<1> QED
  BY <1>1, <1>2

(* A request is freed, after its reference was given back if there was one.   *)
LEMMA FreedCount ==
  ASSUME Inv, Counted, NEW q \in Reqs, req' = [req EXCEPT ![q] = Gone], gui' = gui,
         refs' = IF InCache(q) THEN refs - 1 ELSE refs
  PROVE  Counted'
<1>b. USE Basics
<1>1. req'[q].cache = "gone" /\ \A p \in Reqs \ {q} : req'[p].cache = req[p].cache
  BY GoneFacts
<1>2. Live' = Live \ {q} /\ (q \in Live <=> InCache(q))
  BY <1>1 DEF Live, InCache
<1>3. Cardinality(Live \ {q}) = IF q \in Live THEN Cardinality(Live) - 1 ELSE Cardinality(Live)
  BY LiveFacts, FS_RemoveElement
<1>4. \A p \in Reqs : req'[p].cache # "freed"
  BY <1>1 DEF Counted
<1>5. PICK c \in Nat, d \in Int : c = Cardinality(Live) /\ d = Cardinality(Live')
                                 /\ d = IF q \in Live THEN c - 1 ELSE c
  BY <1>2, <1>3, LiveFacts
<1>6. refs \in Int /\ c <= refs /\ (gui = "menu" => refs = c)
  BY <1>5 DEF Counted, Inv, TypeOK
<1>7. d <= refs' /\ (gui = "menu" => refs' = d)
  BY <1>2, <1>5, <1>6
<1> QED
  BY <1>4, <1>5, <1>7 DEF Counted

(* A live request finds its reference: the test fails for the others only.    *)
LEMMA ReferencedFacts ==
  ASSUME Inv, Counted, NEW q \in Reqs, ~Referenced(q)
  PROVE  ~InCache(q)
<1> SUFFICES ASSUME InCache(q) PROVE FALSE
  OBVIOUS
<1>1. Live # {}
  BY DEF Live
<1>2. PICK c \in Nat : c = Cardinality(Live) /\ c # 0
  BY <1>1, LiveFacts
<1>3. refs \in Int /\ c <= refs /\ ~(refs > 0)
  BY <1>2 DEF Counted, Inv, TypeOK, Referenced
<1> QED
  BY <1>2, <1>3

LEMMA FreesCount ==
  ASSUME Inv, Counted, ~lost',
         \/ WorkerDeref \/ (WorkerTest /\ ~Referenced(worker.req))
         \/ IoDeref \/ (IoTest /\ ~Referenced(Head(io.chain))) \/ WorkerAbandoned
  PROVE  Counted'
<1>b. USE Basics
<1>1. CASE WorkerDeref \/ (WorkerTest /\ ~Referenced(worker.req))
  <2>1. PICK q \in Reqs : q = worker.req
    BY <1>1, ThreadFacts DEF WorkerDeref, WorkerTest, Inv, PlaceInv, ThreadsInv, Returning
  <2>2. req' = [req EXCEPT ![q] = Gone] /\ gui' = gui
    BY <1>1, <2>1 DEF WorkerDeref, WorkerTest, WorkerFrees, menuVars
  <2>3. refs' = IF InCache(q) THEN refs - 1 ELSE refs
    BY <1>1, <2>1, ReferencedFacts DEF WorkerDeref, WorkerTest, Decremented, cacheVars
  <2> QED
    BY <2>2, <2>3, FreedCount
<1>2. CASE IoDeref \/ (IoTest /\ ~Referenced(Head(io.chain)))
  <2>1. PICK q \in Reqs : q = Head(io.chain)
    BY <1>2, TailFacts DEF IoDeref, IoTest, Inv, PlaceInv, ThreadsInv, Returning
  <2>2. req' = [req EXCEPT ![q] = Gone] /\ gui' = gui
    BY <1>2, <2>1 DEF IoDeref, IoTest, IoFrees, menuVars
  <2>3. refs' = IF InCache(q) THEN refs - 1 ELSE refs
    BY <1>2, <2>1, ReferencedFacts DEF IoDeref, IoTest, Decremented, cacheVars
  <2> QED
    BY <2>2, <2>3, FreedCount
<1>3. CASE WorkerAbandoned
  <2>1. PICK q \in Reqs : q = worker.req
    BY <1>3, ThreadFacts DEF WorkerAbandoned, Inv, PlaceInv, ThreadsInv, Holding
  <2>2. UNCHANGED <<refs, gui>> /\ gui # "menu" /\ req' = [req EXCEPT ![q] = Gone]
    BY <1>3, <2>1 DEF WorkerAbandoned, Abandoned, cacheVars, menuVars
  <2>3. req'[q].cache = "gone" /\ \A p \in Reqs \ {q} : req'[p].cache = req[p].cache
    BY <2>2, GoneFacts
  <2>4. Live' \subseteq Live
    BY <2>3 DEF Live, InCache
  <2>5. PICK c \in Nat, d \in Nat : c = Cardinality(Live) /\ d = Cardinality(Live') /\ d <= c
    BY <2>4, LiveFacts, FS_Subset, FS_CardinalityType
  <2>6. \A p \in Reqs : req'[p].cache # "freed"
    BY <2>3 DEF Counted
  <2>7. d <= refs'
    BY <2>2, <2>5 DEF Counted, Inv, TypeOK
  <2> QED
    BY <2>2, <2>5, <2>6, <2>7 DEF Counted
<1> QED
  BY <1>1, <1>2, <1>3

(* A cache without references has no requests: it is freed; else it leaks.    *)
LEMMA DestroyCount ==
  ASSUME Inv, Counted, DestroyCache
  PROVE  Counted'
<1>1. /\ refs' = 0
      /\ req' = [q \in Reqs |-> IF InCache(q) THEN [req[q] EXCEPT !.cache = FreeOrLeak]
                                ELSE req[q]]
  BY DEF DestroyCache
<1>2. \A q \in Reqs : req'[q].cache = IF InCache(q) THEN FreeOrLeak ELSE req[q].cache
  <2>1. \A q \in Reqs : req[q] \in RequestState
    BY Basics
  <2> QED
    BY <1>1, <2>1 DEF RequestState
<1>3. FreeOrLeak # "live"
  BY DEF FreeOrLeak
<1>4. Live' = {}
  BY <1>2, <1>3 DEF Live, InCache
<1>5. Cardinality(Live') = 0
  BY <1>4, FS_EmptySet
<1>6. \A q \in Reqs : InCache(q) => Referenced(q)
  BY ReferencedFacts
<1>7. \A q \in Reqs : req'[q].cache # "freed"
  BY <1>2, <1>6 DEF FreeOrLeak, Referenced, Counted
<1> QED
  BY <1>1, <1>5, <1>7 DEF Counted

LEMMA InitCount == Init => RefsInv
<1> SUFFICES ASSUME Init PROVE Counted
  BY DEF RefsInv
<1>1. \A q \in Reqs : req[q].cache = "gone"
  BY GoneFacts DEF Init
<1>2. Live = {}
  BY <1>1 DEF Live, InCache
<1>3. Cardinality(Live) = 0
  BY <1>2, FS_EmptySet
<1> QED
  BY <1>1, <1>3 DEF Init, Counted

(* A count that was wrong once is never trusted again.                        *)
LEMMA LostStays == ASSUME [Next]_vars, lost PROVE lost'
<1>1. CASE GuiStep \/ Frame
  BY <1>1 DEF GuiStep, Frame, Draw, DrawAbsent, DrawLoading, DrawPark, DrawReady, DrawRefused,
     DrawMiss, cacheLookupTexture, RowReborn, Age, cacheTickArt, cacheDropQueuedArt,
     cacheInvalidateFailMemo, GuiCancel, GuiAbortSio2, cacheShutdownArtLoads, CacheEndBegin,
     CacheEndJoin, GuiDestroy, FreeChain, DestroyCache, cacheVars
<1>2. CASE WorkerStep
  BY <1>2 DEF WorkerStep, WorkerSleep, artPopNone, artPop, WorkerCheck, WorkerAbandoned,
     WorkerFill, WorkerFail, WorkerHandoff, WorkerClear, WorkerRelease, WorkerTest, WorkerLoad,
     WorkerDeref, WorkerEnd, Decremented, cacheVars
<1>3. CASE IoStep \/ \E op \in IoOps : IoBegin(op)
  BY <1>3 DEF IoStep, IoBegin, IoKeep, IoClear, IoCleared, IoTest, IoLoad, IoDeref, IoRepush,
     IoWake, IoWaited, IoList, IoLock, IoDestroy, Decremented, DestroyCache, cacheVars
<1> QED
  BY <1>1, <1>2, <1>3 DEF Next, vars, cacheVars

LEMMA StepCount == Inv /\ RefsInv /\ [Next]_vars => RefsInv'
<1> SUFFICES ASSUME Inv, RefsInv, [Next]_vars, ~lost' PROVE Counted'
  BY DEF RefsInv
<1>1. Counted
  BY LostStays DEF RefsInv
<1>2. CASE GuiStep \/ Frame
  <2>1. CASE GuiDestroy
    BY <1>1, <2>1, DestroyCount DEF GuiDestroy
  <2>2. CASE \E r \in Rows, light \in Highlights : DrawMiss(r, light)
    BY <1>1, <2>2, MissCount
  <2>3. CASE GuiCancel \/ GuiAbortSio2 \/ cacheShutdownArtLoads \/ CacheEndBegin
    BY <1>1, <2>3, GuiFreesCount
  <2> QED
    BY <1>1, <1>2, <2>1, <2>2, <2>3, GuiSameCount DEF GuiStep, Frame, Draw
<1>3. CASE WorkerStep
  BY <1>1, <1>3, WorkerSameCount, FreesCount DEF WorkerStep
<1>4. CASE IoStep \/ \E op \in IoOps : IoBegin(op)
  <2>1. CASE IoDestroy
    BY <1>1, <2>1, DestroyCount DEF IoDestroy
  <2> QED
    BY <1>1, <1>4, <2>1, IoSameCount, FreesCount DEF IoStep
<1>5. CASE UNCHANGED vars
  BY <1>1, <1>5, SameCount DEF vars, cacheVars, queueVars, menuVars, SameCaches
<1> QED
  BY <1>2, <1>3, <1>4, <1>5 DEF Next

LEMMA RefsAlways == Spec => []RefsInv
<1>1. Init => RefsInv
  BY InitCount
<1>2. Inv /\ RefsInv /\ [Next]_vars => RefsInv'
  BY StepCount
<1> QED
  BY <1>1, <1>2, InvAlways, PTL DEF Spec

(* As long as no decrement of activeRequests met another update of it, no     *)
(* cache is freed under a request, not even when the wait for the worker runs *)
(* out.                                                                       *)
THEOREM ArtSafeFree == Spec => []SafeFree
<1>1. RefsInv => SafeFree
  BY DEF RefsInv, Counted, SafeFree
<1> QED
  BY <1>1, RefsAlways, PTL

(* Every variable has its type, whatever the three threads interleave.        *)
THEOREM ArtTypes == Spec => []TypeOK
<1>1. Inv => TypeOK
  BY DEF Inv
<1> QED
  BY <1>1, InvAlways, PTL
=============================================================================
